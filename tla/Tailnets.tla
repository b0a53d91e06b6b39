-------------------------------- MODULE Tailnets --------------------------------
(***************************************************************************)
(* When a machine's place on the tailnet is checked: the control plane     *)
(* keeps each name's last check in memory and counts it down at each look  *)
(* at a settled row (apps/server/src/tailnet.ts, machines.ts), a join of   *)
(* the guest is a step like any other and is cut by a request that does    *)
(* not want it (machine-chart.ts).                                         *)
(*                                                                         *)
(* One name, on a host that joins its machines.  The row is reduced to     *)
(* what decides steps; what a start that was lost left prepared is in      *)
(* MachineLife.                                                            *)
(***************************************************************************)
EXTENDS Naturals

CONSTANTS
  JoinedWait,      \* rechecks before a joined machine is checked again
  LongestBackoff,  \* `longestBackoff`
  MaxDemands,      \* bound: requests
  MaxFlaws         \* bound: failed joins, VMs that stop, lost steps and restarts

VARIABLES
  member,    \* the row: what is wanted, where it is, prepared or not, its resize owed; or none
  stepping,  \* the operation under way: its kind, and whether its host was told to cancel it
  guest,     \* the VM: whether it runs, and whether its guest has a tailscaled
  check,     \* the name's entry of `tailnets`, or Absent
  found,     \* what the last join said since the machine was made or last started, "none" if none did
  demands, flaws

tailVars == <<member, stepping, guest, check, found, demands, flaws>>

NoMember == [at |-> "none", desired |-> "deleted", prepared |-> FALSE, resize |-> FALSE]
NoGuest == [runs |-> FALSE, tailscaled |-> FALSE]
Still == [kind |-> "none", cut |-> FALSE]

\* A wait that never ends: `undefined`.
Never == LongestBackoff + JoinedWait + 1
Absent == [status |-> "none", wait |-> 0, backoff |-> 0]

--------------------------------------------------------------------------------
(* tailnet.ts. *)

Unchecked == [status |-> "none", wait |-> Never, backoff |-> 1]
FirstCheck == [Unchecked EXCEPT !.wait = 0]

Lower(a, b) == IF a < b THEN a ELSE b

Checked(before, status) ==
  CASE status = "joined" -> [status |-> status, wait |-> JoinedWait, backoff |-> 1]
    [] status = "failed" -> [status |-> status, wait |-> before.backoff,
                             backoff |-> Lower(2 * before.backoff, LongestBackoff)]
    [] OTHER -> [Unchecked EXCEPT !.status = status]

Ticked(before) ==
  IF before.wait \in {0, Never} THEN before ELSE [before EXCEPT !.wait = @ - 1]

Due(before) == before.wait = 0

--------------------------------------------------------------------------------
(* Requests. *)

Demand == demands > 0 /\ demands' = demands - 1

At(at) == member' = [member EXCEPT !.at = at]

\* A copy is made prepared, a base is readied by a start.
Makes(prepared, tailscaled) ==
  /\ member = NoMember /\ Demand
  /\ member' = [at |-> "observing", desired |-> "running", prepared |-> prepared, resize |-> FALSE]
  /\ guest' = [runs |-> TRUE, tailscaled |-> tailscaled]
  /\ found' = "none"
  /\ UNCHANGED <<stepping, check, flaws>>

Asks(desired) ==
  /\ member.desired # "deleted" /\ Demand
  /\ member' = [member EXCEPT !.desired = desired,
                              !.prepared = @ /\ desired # "running",
                              !.at = "observing"]
  /\ UNCHANGED <<stepping, guest, check, found, flaws>>

Resizes ==
  /\ member.desired # "deleted" /\ Demand
  /\ member' = [member EXCEPT !.resize = TRUE, !.at = "observing"]
  /\ UNCHANGED <<stepping, guest, check, found, flaws>>

--------------------------------------------------------------------------------
(* The loop. *)

Begin(kind) == stepping' = [kind |-> kind, cut |-> FALSE] /\ At("observing") /\ UNCHANGED check

Current == IF check = Absent THEN FirstCheck ELSE check

\* A join leaves the row settled, until a request comes.
Joins == stepping' = [kind |-> "join", cut |-> FALSE] /\ At("joining") /\ UNCHANGED check

\* A settled row: its check is counted down.
Settle ==
  /\ At("settled")
  /\ check' = Ticked(Current)
  /\ UNCHANGED stepping

\* `looking`, and what the chart decides of it.
Looks ==
  /\ stepping = Still /\ member # NoMember /\ member.at # "failed"
  /\ IF member.desired = "deleted" THEN Begin("remove")
     ELSE IF member.resize
       THEN /\ stepping' = [kind |-> "resize", cut |-> FALSE]
            /\ member' = [member EXCEPT !.resize = FALSE, !.at = "observing"]
            /\ UNCHANGED check
     ELSE CASE member.desired = "running" /\ ~(guest.runs /\ member.prepared) -> Begin("start")
            [] member.desired = "running" /\ guest.runs /\ member.prepared /\ Due(Current) -> Joins
            [] member.desired = "stopped" /\ guest.runs -> Begin("stop")
            [] OTHER -> Settle
  /\ UNCHANGED <<guest, found, demands, flaws>>

Wanted == CASE stepping.kind \in {"start", "join"} -> member.desired = "running"
            [] stepping.kind = "stop" -> member.desired = "stopped"
            [] OTHER -> TRUE

\* `poll` of an operation that is not wanted any more.
Cuts ==
  /\ stepping # Still /\ ~Wanted /\ ~stepping.cut
  /\ stepping' = [stepping EXCEPT !.cut = TRUE]
  /\ UNCHANGED <<member, guest, check, found, demands, flaws>>

Ended(at) == stepping' = Still /\ At(at)

\* A failed step holds the row, unless it is asked something else by now.
Fails == Ended(IF Wanted /\ ~member.resize THEN "failed" ELSE "observing")

\* A report of a start, whatever became of it, has the machine checked anew.
StartEnds ==
  /\ stepping.kind = "start"
  /\ \/ /\ guest' = [guest EXCEPT !.runs = TRUE]
        /\ stepping' = Still /\ member' = [member EXCEPT !.prepared = TRUE, !.at = "observing"]
        /\ UNCHANGED flaws
     \/ /\ stepping.cut /\ Ended("observing") /\ UNCHANGED <<guest, flaws>>
     \/ /\ flaws > 0 /\ flaws' = flaws - 1
        /\ Fails /\ UNCHANGED guest
  /\ check' = Absent /\ found' = "none"
  /\ UNCHANGED demands

\* What `joined` says of the guest.
Statuses ==
  IF guest.runs THEN IF guest.tailscaled THEN {"joined", "failed"} ELSE {"missing"} ELSE {"failed"}

\* A join that was cut says nothing of the guest.
JoinEnds ==
  /\ stepping.kind = "join"
  /\ \E status \in Statuses \cup IF stepping.cut THEN {"none"} ELSE {}:
       /\ check' = Checked(Current, status)
       /\ found' = status
  /\ Ended(IF member.at = "joining" THEN "settled" ELSE "observing")
  /\ UNCHANGED <<guest, demands, flaws>>

StopEnds ==
  /\ stepping.kind = "stop"
  /\ \/ /\ guest' = [guest EXCEPT !.runs = FALSE]
        /\ stepping' = Still /\ member' = [member EXCEPT !.prepared = FALSE, !.at = "observing"]
        /\ UNCHANGED flaws
     \/ /\ flaws > 0 /\ flaws' = flaws - 1
        /\ Fails /\ UNCHANGED guest
  /\ UNCHANGED <<check, found, demands>>

ResizeEnds ==
  /\ stepping.kind = "resize"
  /\ \/ Ended("observing") /\ UNCHANGED flaws
     \/ flaws > 0 /\ flaws' = flaws - 1 /\ Ended("failed")
  /\ UNCHANGED <<guest, check, found, demands>>

\* Mutant of RemoveEnds: the name's check outlives its machine.
RemoveEndsUnforgotten ==
  /\ stepping.kind = "remove"
  /\ stepping' = Still /\ member' = NoMember /\ guest' = NoGuest
  /\ UNCHANGED check /\ found' = "none"
  /\ UNCHANGED <<demands, flaws>>

\* The name is free again, and nothing is kept of it.
RemoveEnds ==
  /\ stepping.kind = "remove"
  /\ stepping' = Still /\ member' = NoMember /\ guest' = NoGuest
  /\ check' = Absent /\ found' = "none"
  /\ UNCHANGED <<demands, flaws>>

--------------------------------------------------------------------------------
(* The world. *)

Flaw == flaws > 0 /\ flaws' = flaws - 1

\* The host restarted under the step.
StepLost ==
  /\ stepping # Still /\ Flaw
  /\ Ended(IF member.at = "joining" THEN "settled" ELSE "observing")
  /\ UNCHANGED <<guest, check, found, demands>>

VmStops ==
  /\ guest.runs /\ Flaw
  /\ guest' = [guest EXCEPT !.runs = FALSE]
  /\ UNCHANGED <<member, stepping, check, found, demands>>

\* The control plane's memory is gone: each machine is checked anew.
ServerRestarts ==
  /\ Flaw
  /\ check' = Absent
  /\ UNCHANGED <<member, stepping, guest, found, demands>>

TailInit ==
  /\ member = NoMember /\ stepping = Still /\ guest = NoGuest
  /\ check = Absent /\ found = "none"
  /\ demands = MaxDemands /\ flaws = MaxFlaws

TailNext ==
  \/ \E prepared, tailscaled \in BOOLEAN: Makes(prepared, tailscaled)
  \/ \E desired \in {"running", "stopped", "deleted"}: Asks(desired)
  \/ Resizes \/ Looks \/ Cuts
  \/ StartEnds \/ JoinEnds \/ StopEnds \/ ResizeEnds \/ RemoveEnds
  \/ StepLost \/ VmStops \/ ServerRestarts

TailSpec == TailInit /\ [][TailNext]_tailVars

\* A running machine at rest is checked again, sooner or later: its wait is never without end but
\* for a guest that this machine's own join, since its last start, found without a tailscaled; and
\* no status is shown that was said of an earlier machine or before a start.
StandsChecked ==
  member.at = "settled" /\ member.desired = "running" =>
    /\ check.wait = Never => found = "missing"
    /\ check.status \in {found, "none"}
================================================================================
