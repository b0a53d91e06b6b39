------------------------------- MODULE Forwarders -------------------------------
(***************************************************************************)
(* A mac host's machines and the ports they are reached on.  Tart gives a  *)
(* VM no port of the host's, so the host's process itself listens on each  *)
(* machine's port and hands a connection to its VM                         *)
(* (apps/host/src/platform/tart).  A restart of the process ends all its   *)
(* listening while the VMs run on: the control plane then adopts, giving   *)
(* the host its machines once per boot (apps/server/src/fleet.ts).  A make *)
(* picks its port by what its call says others have, by what other makes   *)
(* hold, and by a probe (apps/host/src/operations.ts, machine-ports.ts).   *)
(*                                                                         *)
(* Rows are reduced to what makes steps and keeps ports; calls run at most *)
(* once, as MachineLife shows.  A report is taken in before the process    *)
(* that gave it ends.                                                      *)
(***************************************************************************)
EXTENDS Naturals, FiniteSets

CONSTANTS
  Names,      \* machine names
  Ports,      \* the host's machine ports, numbers in the order they are tried
  MaxAsks,    \* bound: creates, deletes and wishes
  MaxBreaks   \* bound: steps that fail, refused listeners and restarts, together

VARIABLES
  rows,       \* the store's rows of the machines: where each stands, and its port
  known,      \* the boot the store has recorded for the host
  boot,       \* the boot of the host's process
  dials,      \* whose VM each port's listener hands connections to, or "none"
  forwarded,  \* the port the process has noted for a name, 0 for none
  ops,        \* the operation on each machine, and how far the host is with it
  vms,        \* Tart's state of each machine's VM
  adopting,   \* the adoption under way: the boot seen, the rows read, whether told
  excused,    \* machines refused their listener, ports closed under another, and whether a gone
              \* machine was adopted
  asks, breaks

forwarderVars ==
  <<rows, known, boot, dials, forwarded, ops, vms, adopting, excused, asks, breaks>>

NoOp == [kind |-> "none", boot |-> 0, at |-> "none", port |-> 0, ports |-> {}]
NoRow == [state |-> "none", port |-> 0]
NoAdopting == [boot |-> 0, machines |-> {}, told |-> FALSE]

Ends == {"done", "failed"}
Broke == breaks > 0 /\ breaks' = breaks - 1
Asks == asks > 0 /\ asks' = asks - 1

LowestOf(S) == CHOOSE p \in S : \A q \in S : p <= q

--------------------------------------------------------------------------------
(* The control plane: requests, steps, and what they report. *)

Sent(n, kind) ==
  [kind |-> kind, boot |-> boot, at |-> "sent", port |-> 0,
   ports |-> {rows[m].port : m \in Names \ {n}} \ {0}]

\* A step is built from the rows, and reaches the host later.
Sends(n, kind) == ops' = [ops EXCEPT ![n] = Sent(n, kind)]

Create(n) ==
  /\ Asks
  /\ rows[n] = NoRow
  /\ rows' = [rows EXCEPT ![n] = [state |-> "making", port |-> 0]]
  /\ Sends(n, "make")
  /\ UNCHANGED <<known, boot, dials, forwarded, vms, adopting, excused, breaks>>

\* What is left of a failed make is gone already; the rest is removed after what runs has ended.
Delete(n) ==
  /\ Asks
  /\ rows[n].state \notin {"none", "deleting"}
  /\ rows' = [rows EXCEPT ![n] = IF @.state = "undone" THEN NoRow
                                 ELSE [@ EXCEPT !.state = "deleting"]]
  /\ UNCHANGED <<known, boot, dials, forwarded, ops, vms, adopting, excused, breaks>>

Wish(n, kind) ==
  /\ Asks
  /\ rows[n].state = "made" /\ ops[n] = NoOp
  /\ Sends(n, kind)
  /\ UNCHANGED <<rows, known, boot, dials, forwarded, vms, adopting, excused, breaks>>

RemoveSent(n) ==
  /\ rows[n].state \in {"undoing", "deleting"} /\ ops[n] = NoOp
  /\ Sends(n, "remove")
  /\ UNCHANGED <<rows, known, boot, dials, forwarded, vms, adopting, excused, asks, breaks>>

\* `UNIQUE(host, port)`: no row takes the port of another row.
PortFree(n) == ops[n].port = 0 \/ \A m \in Names \ {n} : rows[m].port # ops[n].port

Told(n) == IF ops[n].port = 0 THEN rows[n].port ELSE ops[n].port

\* The call that began a make answers with its port.
Ran(n) ==
  /\ ops[n].kind = "make" /\ ops[n].boot = boot
  /\ ops[n].port # 0 /\ rows[n].port = 0 /\ PortFree(n)
  /\ rows' = [rows EXCEPT ![n].port = ops[n].port]
  /\ UNCHANGED <<known, boot, dials, forwarded, ops, vms, adopting, excused, asks, breaks>>

\* Where a row goes as its operation ends.
RowAfter(n, status) ==
  LET row == [rows[n] EXCEPT !.port = Told(n)]
  IN CASE row.state = "making" ->
            [row EXCEPT !.state = IF status = "done" THEN "made" ELSE "undoing"]
       [] row.state # "making" /\ ops[n].kind = "remove" /\ status = "done" ->
            IF row.state = "deleting" THEN NoRow ELSE [row EXCEPT !.state = "undone"]
       [] OTHER -> row

Ended(n, row) ==
  /\ rows' = [rows EXCEPT ![n] = row]
  /\ ops' = [ops EXCEPT ![n] = NoOp]
  /\ UNCHANGED <<known, boot, dials, forwarded, vms, adopting, excused, asks, breaks>>

Hears(n) ==
  /\ ops[n].at \in Ends /\ ops[n].boot = boot /\ PortFree(n)
  /\ Ended(n, RowAfter(n, ops[n].at))

\* The host has another boot than the operation's: what the call never told is unknown.
Loses(n) ==
  /\ ops[n].kind # "none" /\ ops[n].boot # boot
  /\ Ended(n, IF rows[n].state = "making" THEN [rows[n] EXCEPT !.state = "undoing"] ELSE rows[n])

--------------------------------------------------------------------------------
(* The control plane: a host that restarted is given its machines. *)

AdoptReads ==
  /\ adopting = NoAdopting /\ known # boot
  /\ adopting' = [boot |-> boot, told |-> FALSE,
                  machines |-> {[name |-> n, port |-> rows[n].port] :
                                  n \in {m \in Names : rows[m].state = "made"}}]
  /\ UNCHANGED <<rows, known, boot, dials, forwarded, ops, vms, excused, asks, breaks>>

\* Mutant of AdoptRecords: the boot recorded is the one the host has by then.
AdoptRecordsNow ==
  /\ adopting.told
  /\ known' = boot
  /\ adopting' = NoAdopting
  /\ UNCHANGED <<rows, boot, dials, forwarded, ops, vms, excused, asks, breaks>>

\* The boot seen before the rows were read is recorded once the host has been told.
AdoptRecords ==
  /\ adopting.told
  /\ known' = adopting.boot
  /\ adopting' = NoAdopting
  /\ UNCHANGED <<rows, boot, dials, forwarded, ops, vms, excused, asks, breaks>>

AdoptFails ==
  /\ Broke /\ adopting # NoAdopting /\ ~adopting.told
  /\ adopting' = NoAdopting
  /\ UNCHANGED <<rows, known, boot, dials, forwarded, ops, vms, excused, asks>>

--------------------------------------------------------------------------------
(* The host. *)

In(n, kind, at) == ops[n].kind = kind /\ ops[n].at = at /\ ops[n].boot = boot

Goes(n, at) == ops' = [ops EXCEPT ![n].at = at]

\* A port that listens already is left with the listener it has.
Listening(d, n, p) == IF d[p] = "none" THEN [d EXCEPT ![p] = n] ELSE d

Listens(n, p) ==
  /\ dials' = Listening(dials, n, p)
  /\ forwarded' = [forwarded EXCEPT ![n] = p]

Unlistens(n) ==
  /\ dials' = [p \in Ports |-> IF p = forwarded[n] THEN "none" ELSE dials[p]]
  /\ forwarded' = [forwarded EXCEPT ![n] = 0]

\* `heldPorts`: a make keeps its port from others while it runs, and until it is collected if it is done.
Held == {ops[m].port : m \in {m \in Names : ops[m].boot = boot /\ ops[m].at # "failed"}}

Pickable(n) == {p \in Ports : p \notin ops[n].ports \cup Held /\ dials[p] = "none"}

MakePicks(n) ==
  /\ In(n, "make", "sent")
  /\ ops' = [ops EXCEPT ![n].at = IF Pickable(n) = {} THEN "failed" ELSE "listen",
                        ![n].port = IF Pickable(n) = {} THEN 0 ELSE LowestOf(Pickable(n))]
  /\ UNCHANGED <<dials, forwarded, vms, excused>>

\* `cloneInto` listens before it clones.
MakeListens(n) ==
  /\ In(n, "make", "listen")
  /\ Listens(n, ops[n].port)
  /\ Goes(n, "clone")
  /\ UNCHANGED <<vms, excused>>

MakeClones(n) ==
  /\ In(n, "make", "clone")
  /\ vms' = [vms EXCEPT ![n] = "stopped"]
  /\ Goes(n, "boot")
  /\ UNCHANGED <<dials, forwarded, excused>>

\* The VM runs from `launch` on; `ready` waits for its agent.
Boots(n) ==
  /\ In(n, "make", "boot") \/ In(n, "start", "boot")
  /\ vms' = [vms EXCEPT ![n] = "running"]
  /\ Goes(n, "done")
  /\ UNCHANGED <<dials, forwarded, excused>>

\* No other machine has the port, or holds it.
Alone(n, p) ==
  \A m \in Names \ {n} : rows[m].port # p /\ ~ (ops[m].boot = boot /\ ops[m].port = p)

StartListens(n) ==
  /\ In(n, "start", "sent")
  /\ IF vms[n] = "missing" THEN Goes(n, "failed") /\ UNCHANGED <<dials, forwarded, excused>>
     ELSE /\ Goes(n, IF vms[n] = "running" THEN "done" ELSE "boot")
          /\ Listens(n, rows[n].port)
          /\ excused' = [excused EXCEPT !.refused = @ \ {n},
                                        !.closed = IF Alone(n, rows[n].port) THEN @ \ {rows[n].port} ELSE @]
  /\ UNCHANGED vms

StopEnds(n) ==
  /\ In(n, "stop", "sent")
  /\ vms' = [vms EXCEPT ![n] = IF @ = "missing" THEN @ ELSE "stopped"]
  /\ Goes(n, "done")
  /\ UNCHANGED <<dials, forwarded, excused>>

PauseEnds(n) ==
  /\ In(n, "pause", "sent")
  /\ vms' = [vms EXCEPT ![n] = IF @ = "running" THEN "paused" ELSE @]
  /\ Goes(n, IF vms[n] \in {"running", "paused"} THEN "done" ELSE "failed")
  /\ UNCHANGED <<dials, forwarded, excused>>

RemoveDeletes(n) ==
  /\ In(n, "remove", "sent")
  /\ vms' = [vms EXCEPT ![n] = "missing"]
  /\ Goes(n, "unlisten")
  /\ UNCHANGED <<dials, forwarded, excused>>

\* Where the name's own bind was refused, its record closes the port of whoever has it by then.
RemoveUnlistens(n) ==
  /\ In(n, "remove", "unlisten")
  /\ Unlistens(n)
  /\ Goes(n, "done")
  /\ excused' = [excused EXCEPT !.closed = @ \cup {p \in Ports : p = forwarded[n] /\ dials[p] \notin {n, "none"}}]
  /\ UNCHANGED vms

HostActs(n) ==
  /\ \/ MakePicks(n) \/ MakeListens(n) \/ MakeClones(n) \/ Boots(n)
     \/ StartListens(n) \/ StopEnds(n) \/ PauseEnds(n)
     \/ RemoveDeletes(n) \/ RemoveUnlistens(n)
  /\ UNCHANGED <<rows, known, boot, adopting, asks, breaks>>

\* The port is recorded before it is bound, and stays recorded where the bind is refused.
BindRefused(n, p) ==
  /\ Broke
  /\ \/ In(n, "make", "listen") /\ p = ops[n].port
     \/ In(n, "start", "sent") /\ vms[n] # "missing" /\ p = rows[n].port
  /\ dials[p] = "none"
  /\ forwarded' = [forwarded EXCEPT ![n] = p]
  /\ Goes(n, "failed")
  /\ UNCHANGED <<rows, known, boot, dials, vms, adopting, excused, asks>>

\* A command fails, or a step no longer wanted is cut.
StepFails(n) ==
  /\ Broke
  /\ ops[n].kind # "none" /\ ops[n].at \notin Ends /\ ops[n].boot = boot
  /\ Goes(n, "failed")
  /\ UNCHANGED <<rows, known, boot, dials, forwarded, vms, adopting, excused, asks>>

\* Adopt listens for every machine it was given; one that is refused is logged, and left.
AdoptTold(refused) ==
  /\ adopting # NoAdopting /\ ~adopting.told
  /\ adopting' = [adopting EXCEPT !.told = TRUE]
  /\ LET given == {m.name : m \in adopting.machines}
         portOf(n) == (CHOOSE m \in adopting.machines : m.name = n).port
         heard == {n \in given \ refused : dials[portOf(n)] = "none"}
     IN /\ refused \subseteq given
        /\ forwarded' = [n \in Names |-> IF n \in given THEN portOf(n) ELSE forwarded[n]]
        /\ dials' = [p \in Ports |-> IF \E n \in heard : portOf(n) = p
                                     THEN CHOOSE n \in heard : portOf(n) = p ELSE dials[p]]
        /\ excused' = [excused EXCEPT !.refused = @ \cup refused,
             !.strayed = @ \/ \E n \in given : rows[n] # [state |-> "made", port |-> portOf(n)]]
  /\ UNCHANGED <<rows, known, boot, ops, vms, asks>>

AdoptTells ==
  \/ AdoptTold({}) /\ UNCHANGED breaks
  \/ \E n \in Names : AdoptTold({n}) /\ Broke

HostRestarts ==
  /\ Broke
  /\ boot' = boot + 1
  /\ dials' = [p \in Ports |-> "none"]
  /\ forwarded' = [n \in Names |-> 0]
  /\ excused' = [refused |-> {}, closed |-> {}, strayed |-> FALSE]
  /\ UNCHANGED <<rows, known, ops, vms, adopting, asks>>

--------------------------------------------------------------------------------
ForwarderInit ==
  /\ rows = [n \in Names |-> NoRow]
  /\ known = 0
  /\ boot = 1
  /\ dials = [p \in Ports |-> "none"]
  /\ forwarded = [n \in Names |-> 0]
  /\ ops = [n \in Names |-> NoOp]
  /\ vms = [n \in Names |-> "missing"]
  /\ adopting = NoAdopting
  /\ excused = [refused |-> {}, closed |-> {}, strayed |-> FALSE]
  /\ asks = MaxAsks
  /\ breaks = MaxBreaks

ForwarderNext ==
  \/ \E n \in Names :
       \/ Create(n) \/ Delete(n) \/ RemoveSent(n)
       \/ \E kind \in {"start", "stop", "pause"} : Wish(n, kind)
       \/ Ran(n) \/ Hears(n) \/ Loses(n)
       \/ HostActs(n) \/ StepFails(n) \/ \E p \in Ports : BindRefused(n, p)
  \/ AdoptReads \/ AdoptTells \/ AdoptRecords \/ AdoptFails
  \/ HostRestarts

--------------------------------------------------------------------------------
\* Once a host's boot is recorded, the port of every machine whose VM runs there leads to that VM
\* and no other, through restarts, failed and cut makes, and ports used again: but where its
\* listener was refused as it was adopted, or the host was given a machine deleted meanwhile, or
\* where the remove of a make whose own bind of that port was refused closed it under another; a
\* start mends that, if by then no make has the port that the call of that make did not know taken.
ForwardersTrue ==
  known = boot /\ ~excused.strayed =>
    \A n \in Names \ excused.refused :
      rows[n].state = "made" /\ vms[n] = "running" /\ ops[n] = NoOp /\ rows[n].port \notin excused.closed =>
        dials[rows[n].port] = n
================================================================================
