---------------------------------- MODULE Pins ----------------------------------
(***************************************************************************)
(* A linux machine's RAM and the smolvm it belongs to.  The row keeps the  *)
(* version its VM booted under (apps/server/src/machine-chart.ts,          *)
(* machines.ts, steps.ts), every step carries it, and the host holds it    *)
(* against its own (apps/host/src/operations.ts) before the RAM is resumed *)
(* or copied (apps/host/src/platform/smolvm.ts).  The host's process and   *)
(* its smolvm change at any point of a step.                               *)
(*                                                                         *)
(* The row is reduced to what decides steps (MachineChart has it whole);   *)
(* a step is taken in, once, by the process it was made for, as            *)
(* MachineLife shows of late and repeated calls.                           *)
(***************************************************************************)
EXTENDS Naturals

CONSTANTS
  MaxWishes,     \* bound: what is asked of the machine
  MaxTroubles    \* bound: failing commands, VMs that die and restarts, together

VARIABLES
  row,       \* what is wanted, where the loop is, and the recorded pin
  look,      \* what the look under way saw of the VM, or "none"
  process,   \* the host's process: its boot, and the smolvm it runs
  step,      \* the operation recorded, and how far the host is with it
  vm,        \* the VM: smolvm's state of it, its RAM's version, and whether the row missed it
  crossed,   \* whether RAM of one version was resumed or copied under another
  wishes,    \* what is left of the requests
  troubles   \* what is left of the faults

pinVars == <<row, look, process, step, vm, crossed, wishes, troubles>>

Pinned == 1..2

Resumable == {"pausing", "paused"}
AliveVm == {"running", "pausing", "unreachable"}

\* `stateOf`: what is read of a VM, elsewhere than in smolvm.
Seen == IF vm.state = "paused" THEN "paused"
        ELSE IF vm.state \in AliveVm THEN "running" ELSE "stopped"

NoStep == [kind |-> "none"]

--------------------------------------------------------------------------------
(* The control plane. *)

Ask(desired) ==
  /\ wishes > 0
  /\ wishes' = wishes - 1
  /\ row' = [row EXCEPT !.desired = desired,
                        !.prepared = @ /\ desired # "running",
                        !.at = IF step = NoStep THEN "observing" ELSE @]
  /\ UNCHANGED <<look, process, step, vm, crossed, troubles>>

\* `looking` reads the VM's state, and only then the host.
Looks ==
  /\ step = NoStep /\ look = "none" /\ row.at # "failed"
  /\ look' = Seen
  /\ UNCHANGED <<row, process, step, vm, crossed, wishes, troubles>>

Begin(kind, pin) ==
  /\ step' = [kind |-> kind, boot |-> process.boot, at |-> "sent"]
  /\ row' = [row EXCEPT !.pin = pin, !.at = "observing"]

Rest == row' = [row EXCEPT !.at = "settled"] /\ UNCHANGED step

\* Mutant of Decides: every start records the host's pin.
DecidesStart ==
  IF look = "running" /\ row.prepared THEN Rest ELSE Begin("start", process.version)

\* `decided`, of a machine that should run: the pin is recorded as a stopped one is booted.
Decides ==
  IF look = "running" /\ row.prepared THEN Rest
  ELSE Begin("start", IF look = "stopped" THEN process.version ELSE row.pin)

LookDecides ==
  /\ look # "none" /\ step = NoStep
  /\ look' = "none"
  /\ CASE row.desired = "running" -> Decides
       [] row.desired = "paused" -> IF look = "running" THEN Begin("pause", row.pin) ELSE Rest
       [] OTHER -> IF look = "stopped" THEN Rest ELSE Begin("stop", row.pin)
  /\ UNCHANGED <<process, vm, crossed, wishes, troubles>>

\* A capture or a fork of the machine begins while no step of its own is under way.
Copied ==
  /\ step = NoStep /\ wishes > 0
  /\ wishes' = wishes - 1
  /\ step' = [kind |-> "copy", boot |-> process.boot, at |-> "sent"]
  /\ UNCHANGED <<row, look, process, vm, crossed, troubles>>

Wants == step.kind = "copy" \/ row.desired = (CASE step.kind = "start" -> "running"
                                                [] step.kind = "stop" -> "stopped"
                                                [] OTHER -> "paused")

Reported(status) ==
  /\ step' = NoStep
  /\ row' = IF step.kind = "copy" THEN row
            ELSE [row EXCEPT !.at = IF status = "failed" /\ Wants THEN "failed" ELSE "observing",
                             !.prepared = IF status = "done" THEN step.kind = "start" ELSE @]

Hears ==
  /\ step.kind # "none" /\ step.at \in {"done", "failed", "cancelled"}
  /\ Reported(step.at)
  /\ UNCHANGED <<look, process, vm, crossed, wishes, troubles>>

Loses ==
  /\ step.kind # "none" /\ step.boot # process.boot
  /\ Reported("lost")
  /\ UNCHANGED <<look, process, vm, crossed, wishes, troubles>>

--------------------------------------------------------------------------------
(* The host: `perform`, and smolvm's commands. *)

In(kind, at) == step.kind = kind /\ step.at = at /\ step.boot = process.boot

Goes(at) == step' = [step EXCEPT !.at = at]

Keeps == UNCHANGED <<vm, crossed>>

\* RAM is used under another version than its own, though the row had its version.
Crosses == vm.ram # process.version /\ ~vm.blind

Resumes ==
  /\ vm' = [vm EXCEPT !.state = "running"]
  /\ crossed' = (crossed \/ (vm.state = "paused" /\ Crosses))

\* A VM that stopped after the look that saw it running boots under a version no row has: the
\* row keeps the pin it had, which a later return to that version would take for the RAM's.
Boots == vm' = [state |-> "running", ram |-> process.version,
                blind |-> row.pin # process.version]

PinMatches == row.pin = process.version

\* Paused RAM resumes only under its own pin.
SeesPaused(act) == Goes(IF Seen = "paused" /\ ~PinMatches THEN "failed" ELSE act)

StartSees ==
  /\ In("start", "sent")
  /\ SeesPaused("act")
  /\ Keeps

StartActs ==
  /\ In("start", "act")
  /\ Goes("ready")
  /\ CASE vm.state = "running" -> Keeps
       [] vm.state \in Resumable -> Resumes
       [] OTHER -> Boots /\ UNCHANGED crossed

Readies == In("start", "ready") /\ Goes("done") /\ Keeps

\* A stop resumes a paused VM to shut its guest down.
StopSees ==
  /\ In("stop", "sent")
  /\ SeesPaused("act")
  /\ Keeps

StopActs ==
  /\ In("stop", "act") \/ In("pause", "stop")
  /\ IF vm.state \in Resumable THEN Resumes ELSE Keeps
  /\ Goes(IF vm.state \in Resumable \cup AliveVm THEN "off" ELSE "done")

StopEnds ==
  /\ step.kind \in {"stop", "pause"} /\ In(step.kind, "off")
  /\ vm' = [vm EXCEPT !.state = "stopped"]
  /\ Goes("done")
  /\ UNCHANGED crossed

\* A VM of another smolvm is stopped instead of paused.
PauseSees == In("pause", "sent") /\ Goes(IF PinMatches THEN "act" ELSE "stop") /\ Keeps

PauseActs ==
  /\ In("pause", "act")
  /\ CASE vm.state = "paused" -> Goes("done") /\ Keeps
       [] vm.state = "pausing" -> Goes("hold") /\ Resumes
       [] vm.state = "running" -> Goes("hold") /\ Keeps
       [] OTHER -> Goes("failed") /\ Keeps

PauseHolds ==
  /\ In("pause", "hold")
  /\ IF vm.state = "running" THEN vm' = [vm EXCEPT !.state = "pausing"] /\ Goes("held")
     ELSE UNCHANGED vm /\ Goes("failed")
  /\ UNCHANGED crossed

PauseEnds ==
  /\ In("pause", "held")
  /\ IF vm.state = "pausing" THEN vm' = [vm EXCEPT !.state = "paused"] /\ Goes("done")
     ELSE UNCHANGED vm /\ Goes("failed")
  /\ UNCHANGED crossed

\* RAM is copied under its own pin only, and of a running VM.
CopySees == In("copy", "sent") /\ Goes(IF PinMatches THEN "act" ELSE "failed") /\ Keeps

CopyActs ==
  /\ In("copy", "act")
  /\ Goes(IF vm.state = "running" THEN "done" ELSE "failed")
  /\ crossed' = (crossed \/ (vm.state = "running" /\ Crosses))
  /\ UNCHANGED vm

HostActs ==
  /\ \/ StartSees \/ StartActs \/ Readies
     \/ StopSees \/ StopActs \/ StopEnds
     \/ PauseSees \/ PauseActs \/ PauseHolds \/ PauseEnds
     \/ CopySees \/ CopyActs
  /\ UNCHANGED <<row, look, process, wishes, troubles>>

--------------------------------------------------------------------------------
(* What goes wrong. *)

Trouble == troubles > 0 /\ troubles' = troubles - 1

Running == step.kind # "none" /\ step.at \notin {"done", "failed", "cancelled"}

\* A step that is no longer wanted is cut; a guest being shut down is not left half-way.
Cuts ==
  /\ Running /\ ~Wants /\ step.at # "off"
  /\ Goes("cancelled")
  /\ UNCHANGED <<row, look, process, vm, crossed, wishes, troubles>>

StepFails ==
  /\ Trouble /\ Running /\ step.boot = process.boot
  /\ Goes("failed")
  /\ UNCHANGED <<row, look, process, vm, crossed, wishes>>

VmDies ==
  /\ Trouble
  /\ vm.state \in AliveVm
  /\ vm' = [vm EXCEPT !.state = "stopped"]
  /\ UNCHANGED <<row, look, process, step, crossed, wishes>>

\* The guest's agent stops answering, and answers again.
AgentHangs ==
  /\ Trouble
  /\ vm.state = "running"
  /\ vm' = [vm EXCEPT !.state = "unreachable"]
  /\ UNCHANGED <<row, look, process, step, crossed, wishes>>

HostRestarts(version) ==
  /\ Trouble
  /\ process' = [boot |-> process.boot + 1, version |-> version]
  /\ UNCHANGED <<row, look, step, vm, crossed, wishes>>

--------------------------------------------------------------------------------
PinInit ==
  /\ row = [desired |-> "running", at |-> "observing", pin |-> 1, prepared |-> FALSE]
  /\ look = "none"
  /\ process = [boot |-> 1, version |-> 1]
  /\ step = NoStep
  /\ vm = [state |-> "running", ram |-> 1, blind |-> FALSE]
  /\ crossed = FALSE
  /\ wishes = MaxWishes
  /\ troubles = MaxTroubles

PinNext ==
  \/ \E desired \in {"running", "stopped", "paused"} : Ask(desired)
  \/ Looks \/ LookDecides \/ Copied \/ Hears \/ Loses
  \/ HostActs
  \/ Cuts \/ StepFails \/ VmDies \/ AgentHangs
  \/ \E v \in Pinned : HostRestarts(v)

--------------------------------------------------------------------------------
\* RAM is resumed from a pause, or copied by a capture or a fork, only under the smolvm whose VM
\* it was, however the host's smolvm changes between a look, its step and the step's commands:
\* but for a VM booted by a start that was sent on a look that had seen it running (`Boots`).
RamTrue == ~crossed
================================================================================
