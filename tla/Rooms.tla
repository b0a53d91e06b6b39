---------------------------------- MODULE Rooms ---------------------------------
(***************************************************************************)
(* A linux host's RAM: which boots it admits (apps/host/src/operations.ts, *)
(* usage.ts, platform/smolvm.ts).  A step comes with the machines the      *)
(* control plane's rows list beside its own (apps/server/src/steps.ts);    *)
(* one admission at a time counts those that run and those that boot.      *)
(*                                                                         *)
(* RAM is counted in a unit.  The parked bases' RAM and a read that finds  *)
(* a machine's state unknown make an admission stricter, so they appear as *)
(* a refusal at any time.                                                  *)
(***************************************************************************)
EXTENDS Naturals, FiniteSetsExt

CONSTANTS
  Hosted,      \* the names of machines of the host
  Budget,      \* `ramBudgetMib`
  MaxBoots,    \* bound: operations begun
  MaxUpsets    \* bound: VMs that stop by themselves, and restarts of the host

VARIABLES
  listed,      \* the rows: a machine's RAM, and whether its port is known
  vmNow,       \* the VMs: their state and RAM
  under,       \* each machine's operation
  booting,     \* the host's `booting`: the RAM admitted of each machine, 0 if none
  admission,   \* the machine whose admission holds the permit, or "free"
  overlooked,  \* whether a boot went without its room for a reason the host cannot see
  boots, upsets

roomVars == <<listed, vmNow, under, booting, admission, overlooked, boots, upsets>>

Idle == [kind |-> "none"]
Sizes == 1..Budget
NoVm == [state |-> "missing", ram |-> 0]
NoRow == [ram |-> 0, port |-> FALSE]
Nowhere == [m \in Hosted |-> 0]

\* RAM summed over the host's machines.
Total(ram) == FoldSet(LAMBDA m, sum: sum + ram[m], 0, Hosted)

--------------------------------------------------------------------------------
(* The control plane's rows. *)

Begins(n, kind, to) ==
  /\ under[n] = Idle /\ boots > 0
  /\ (kind = "make") = (listed[n] = NoRow)
  /\ kind \notin {"make", "resize"} => to = listed[n].ram
  /\ kind = "resize" => to # listed[n].ram
  /\ under' = [under EXCEPT ![n] = [kind |-> kind, to |-> to, at |-> "begun",
                                    among |-> Nowhere,
                                    held |-> Nowhere, sure |-> {}]]
  /\ listed' = IF kind = "make" THEN [listed EXCEPT ![n] = [ram |-> to, port |-> FALSE]] ELSE listed
  /\ boots' = boots - 1
  /\ UNCHANGED <<vmNow, booting, admission, overlooked, upsets>>

\* `others`: the machines whose port the rows know, beside the step's own.
Others(n) == [m \in Hosted |-> IF m # n /\ listed[m].port THEN listed[m].ram ELSE 0]

Goes(n, at) == under' = [under EXCEPT ![n].at = at]
At(n, kinds, at) == under[n].kind \in kinds /\ under[n].at = at

Sends(n) ==
  /\ under[n] # Idle /\ under[n].at = "begun"
  /\ under' = [under EXCEPT ![n].at = "sent", ![n].among = Others(n)]
  /\ UNCHANGED <<listed, vmNow, booting, admission, overlooked, boots, upsets>>

\* The answer to a make's run carries its port; the answer may be late, or lost until its end.
Ran(n) ==
  /\ under[n].kind = "make" /\ under[n].at # "begun" /\ ~listed[n].port
  /\ listed' = [listed EXCEPT ![n].port = TRUE]
  /\ UNCHANGED <<vmNow, under, booting, admission, overlooked, boots, upsets>>

\* The RAM a lookup reads back of a VM: what the row has after a resize, whatever was asked.
ReadBack(n) == vmNow[n].ram

\* The row after an operation: a removed machine's is gone, a resized one's has the sizes read back.
RowAfter(n) ==
  IF under[n].kind = "remove" THEN NoRow
  ELSE [ram |-> IF under[n].kind = "resize" THEN ReadBack(n) ELSE listed[n].ram, port |-> TRUE]

Hears(n) ==
  /\ under[n] # Idle /\ under[n].at = "ended"
  /\ under[n].kind = "remove" => vmNow[n] = NoVm
  /\ listed' = [listed EXCEPT ![n] = IF vmNow[n] = NoVm THEN NoRow ELSE RowAfter(n)]
  /\ under' = [under EXCEPT ![n] = Idle]
  /\ UNCHANGED <<vmNow, booting, admission, overlooked, boots, upsets>>

--------------------------------------------------------------------------------
(* The host: admission. *)

\* RAM a machine's step asks room for: its own, or what it grows to.
Wanted(n) == under[n].to

\* `heldBy`: what boots counts as admitted, whatever the step lists of it.
HeldBy(n) ==
  [m \in Hosted |-> IF m = n THEN 0 ELSE IF booting[m] > 0 THEN booting[m] ELSE under[n].among[m]]

\* A machine that runs with more RAM than the step lists of it: made, or grown, since.
Unlisted(n) ==
  \E m \in Hosted \ {n}: vmNow[m].state = "running" /\ HeldBy(n)[m] < vmNow[m].ram

\* Mutant of AdmitBegins: admissions run side by side.
AdmitBeginsAny(n) ==
  /\ under[n] # Idle /\ under[n].at = "asking"
  /\ admission' = n
  /\ under' = [under EXCEPT ![n].at = "observing", ![n].held = HeldBy(n),
                              ![n].sure = {m \in Hosted: booting[m] > 0}]
  /\ overlooked' = (overlooked \/ Unlisted(n))
  /\ UNCHANGED <<listed, vmNow, booting, boots, upsets>>

AdmitBegins(n) ==
  /\ under[n] # Idle /\ under[n].at = "asking"
  /\ admission = "free"
  /\ admission' = n
  /\ under' = [under EXCEPT ![n].at = "observing", ![n].held = HeldBy(n),
                              ![n].sure = {m \in Hosted: booting[m] > 0}]
  /\ overlooked' = (overlooked \/ Unlisted(n))
  /\ UNCHANGED <<listed, vmNow, booting, boots, upsets>>

\* `checkRamBudget`: what booted as the admission began counts in full, the others if they run.
Counted(n) ==
  Total([m \in Hosted |->
           IF m \in under[n].sure \/ vmNow[m].state = "running" THEN under[n].held[m] ELSE 0])

Admits(n) ==
  /\ under[n] # Idle /\ under[n].at = "observing"
  /\ IF Counted(n) + Wanted(n) > Budget
       THEN Goes(n, "ended") /\ UNCHANGED booting
       ELSE Goes(n, "acting") /\ booting' = [booting EXCEPT ![n] = Wanted(n)]
  /\ admission' = "free"
  /\ UNCHANGED <<listed, vmNow, overlooked, boots, upsets>>

\* A step that fails, is refused or is interrupted leaves its permit and its room.
Ends(n) ==
  /\ Goes(n, "ended")
  /\ booting' = [booting EXCEPT ![n] = 0]
  /\ admission' = IF admission = n THEN "free" ELSE admission
  /\ UNCHANGED <<listed, vmNow, overlooked, boots, upsets>>

--------------------------------------------------------------------------------
(* The host: steps. *)

Quiet == UNCHANGED <<listed, vmNow, booting, admission, overlooked, boots, upsets>>

MakeAsks(n) == At(n, {"make"}, "sent") /\ Goes(n, "asking") /\ Quiet

\* `stateNow`; a runtime that cannot tell fails the step (StepEnds).
StateNow(n) == vmNow[n].state

\* A start asks for room unless its machine is seen running.
StartSees(n) ==
  /\ At(n, {"start"}, "sent")
  /\ Goes(n, CASE StateNow(n) = "missing" -> "ended"
               [] StateNow(n) = "running" -> "acting"
               [] OTHER -> "asking")
  /\ Quiet

\* A stop resumes what is paused, which takes room.
StopSees(n) ==
  /\ At(n, {"stop"}, "sent")
  /\ Goes(n, IF StateNow(n) = "paused" THEN "asking" ELSE "acting")
  /\ Quiet

\* `resized`: RAM of a running machine only grows, and what it grows to is admitted.
ResizeSees(n) ==
  /\ At(n, {"resize"}, "sent")
  /\ Goes(n, CASE StateNow(n) \in {"missing", "paused"} -> "ended"
               [] StateNow(n) = "running" /\ under[n].to < listed[n].ram -> "ended"
               [] StateNow(n) = "running" /\ under[n].to >= listed[n].ram -> "asking"
               [] OTHER -> "acting")
  /\ Quiet

PlainSees(n) == At(n, {"pause", "remove"}, "sent") /\ Goes(n, "acting") /\ Quiet

Becomes(n, state, ram) == vmNow' = [vmNow EXCEPT ![n] = [state |-> state, ram |-> ram]]

\* The runtime's make or start; one that saw its VM run and finds it stopped boots it unadmitted.
Boots(n) ==
  /\ At(n, {"make", "start"}, "acting")
  /\ Becomes(n, "running", IF under[n].kind = "make" THEN under[n].to ELSE vmNow[n].ram)
  /\ Goes(n, "up")
  /\ overlooked' = (overlooked \/ (booting[n] = 0 /\ vmNow[n].state # "running"))
  /\ UNCHANGED <<listed, booting, admission, boots, upsets>>

\* A resize of a running machine fails once its VM stopped.
Resizes(n) ==
  /\ At(n, {"resize"}, "acting")
  /\ (booting[n] > 0) = (vmNow[n].state = "running")
  /\ Becomes(n, vmNow[n].state, under[n].to)
  /\ Goes(n, "up")
  /\ UNCHANGED <<listed, booting, admission, overlooked, boots, upsets>>

StopResumes(n) ==
  /\ At(n, {"stop"}, "acting") /\ vmNow[n].state = "paused" /\ booting[n] > 0
  /\ Becomes(n, "running", vmNow[n].ram)
  /\ UNCHANGED <<listed, under, booting, admission, overlooked, boots, upsets>>

Leaves(n) ==
  /\ At(n, {"stop", "pause", "remove"}, "acting")
  /\ CASE under[n].kind = "remove" -> vmNow' = [vmNow EXCEPT ![n] = NoVm]
       [] under[n].kind # "remove" /\ vmNow[n].state = "running" ->
            Becomes(n, IF under[n].kind = "pause" THEN "paused" ELSE "stopped", vmNow[n].ram)
       [] OTHER -> vmNow[n].state # "paused" /\ UNCHANGED vmNow
  /\ Goes(n, "up")
  /\ UNCHANGED <<listed, booting, admission, overlooked, boots, upsets>>

\* A step ends: done once its VM is as asked, or failed or interrupted wherever it is.
StepEnds(n) ==
  /\ under[n] # Idle
  /\ \/ under[n].at = "up"
     \/ under[n].at \in {"sent", "asking", "observing", "acting"} /\ under[n].kind # "remove"
  /\ Ends(n)

--------------------------------------------------------------------------------
(* The world. *)

VmStops(n) ==
  /\ upsets > 0 /\ vmNow[n].state = "running"
  /\ upsets' = upsets - 1
  /\ Becomes(n, "stopped", vmNow[n].ram)
  /\ UNCHANGED <<listed, under, booting, admission, overlooked, boots>>

\* The host's process restarts, and its steps with it; a lost remove is sent again.
HostRestarts ==
  /\ upsets > 0
  /\ upsets' = upsets - 1
  /\ under' = [n \in Hosted |->
                 IF under[n] = Idle \/ under[n].at \in {"begun", "ended"} THEN under[n]
                 ELSE [under[n] EXCEPT !.at = IF under[n].kind = "remove" THEN "sent" ELSE "ended"]]
  /\ booting' = Nowhere /\ admission' = "free"
  /\ UNCHANGED <<listed, vmNow, overlooked, boots>>

RoomInit ==
  /\ listed = [n \in Hosted |-> NoRow] /\ vmNow = [n \in Hosted |-> NoVm]
  /\ under = [n \in Hosted |-> Idle] /\ booting = Nowhere
  /\ admission = "free" /\ overlooked = FALSE
  /\ boots = MaxBoots /\ upsets = MaxUpsets

RoomNext ==
  \/ HostRestarts
  \/ \E n \in Hosted:
       \/ \E kind \in {"make", "start", "stop", "pause", "resize", "remove"}, to \in Sizes:
            Begins(n, kind, to)
       \/ Sends(n) \/ Ran(n) \/ Hears(n)
       \/ AdmitBegins(n) \/ Admits(n) \/ StepEnds(n)
       \/ MakeAsks(n) \/ StartSees(n) \/ StopSees(n) \/ ResizeSees(n) \/ PlainSees(n)
       \/ Boots(n) \/ Resizes(n) \/ StopResumes(n) \/ Leaves(n) \/ VmStops(n)

RoomSpec == RoomInit /\ [][RoomNext]_roomVars

\* What runs fits the host's budget, whatever was admitted side by side, grown, interrupted or lost
\* in a restart; save after a boot that no count of the host's could see: one admitted on a list
\* older than another's make or growth, or of a VM that stopped after its start saw it run.
RoomKept ==
  ~overlooked =>
    Total([n \in Hosted |-> IF vmNow[n].state = "running" THEN vmNow[n].ram ELSE 0]) <= Budget
================================================================================
