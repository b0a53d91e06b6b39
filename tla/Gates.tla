---------------------------------- MODULE Gates ----------------------------------
(***************************************************************************)
(* The gate that keeps Tart's reads, which open every VM's disk, apart     *)
(* from the commands that need one VM's disk to themselves                 *)
(* (apps/host/src/platform/tart/disk-gate.ts).  It is two counts and two   *)
(* latches that one process keeps; a latch that opens wakes who awaits it, *)
(* and by the time one runs again the counts may have moved.               *)
(***************************************************************************)
EXTENDS Naturals, FiniteSets

CONSTANTS
  Tasks,       \* fibers that list, read or launch VMs
  MaxTurns     \* bound: entries begun

VARIABLES
  tasks,       \* each task: the side it takes, and where it is
  reads,       \* reads let in
  openers,     \* openers in or waiting
  readable, openable,   \* the latches
  turns

gateVars == <<tasks, reads, openers, readable, openable, turns>>

Out == [side |-> "read", at |-> "out"]

\* Of one side and at one of `places`.
Are(side, places) == {t \in Tasks : tasks[t].side = side /\ tasks[t].at \in places}

--------------------------------------------------------------------------------
(* Opening a latch wakes every task that awaits it, to look again. *)

Woken(moved, side) ==
  [t \in Tasks |-> IF moved[t].side = side /\ moved[t].at = "awaiting"
                     THEN [moved[t] EXCEPT !.at = "entering"] ELSE moved[t]]

\* `leaveRead`, by task t, which is at `to` then.
LeavesRead(t, to) ==
  LET moved == [tasks EXCEPT ![t] = to]
  IN /\ reads' = reads - 1
     /\ IF reads = 1 THEN openable' = TRUE /\ tasks' = Woken(moved, "open")
        ELSE tasks' = moved /\ UNCHANGED openable
     /\ UNCHANGED <<openers, readable>>

\* `leaveOpening`.
LeavesOpening(t, to) ==
  LET moved == [tasks EXCEPT ![t] = to]
  IN /\ openers' = openers - 1
     /\ IF openers = 1 THEN readable' = TRUE /\ tasks' = Woken(moved, "read")
        ELSE tasks' = moved /\ UNCHANGED readable
     /\ UNCHANGED <<reads, openable>>

--------------------------------------------------------------------------------
(* A task. *)

Turn == turns > 0 /\ turns' = turns - 1

ReadBegins(t) ==
  /\ Turn
  /\ tasks[t].at = "out"
  /\ tasks' = [tasks EXCEPT ![t] = [side |-> "read", at |-> "entering"]]
  /\ UNCHANGED <<reads, openers, readable, openable>>

\* An opener is counted, and keeps reads out, before it waits.
OpeningBegins(t) ==
  /\ Turn
  /\ tasks[t].at = "out"
  /\ tasks' = [tasks EXCEPT ![t] = [side |-> "open", at |-> "entering"]]
  /\ openers' = openers + 1
  /\ readable' = FALSE
  /\ UNCHANGED <<reads, openable>>

\* `enterRead`: let in, or to await the latch.
EntersRead(t) ==
  /\ tasks[t] = [side |-> "read", at |-> "entering"]
  /\ IF openers > 0
       THEN tasks' = [tasks EXCEPT ![t].at = "blocked"] /\ UNCHANGED <<reads, openable>>
       ELSE /\ tasks' = [tasks EXCEPT ![t].at = "in"]
            /\ reads' = reads + 1
            /\ openable' = FALSE
  /\ UNCHANGED <<openers, readable, turns>>

\* `untilOpenable`.
EntersOpening(t) ==
  /\ tasks[t] = [side |-> "open", at |-> "entering"]
  /\ tasks' = [tasks EXCEPT ![t].at = IF reads = 0 THEN "in" ELSE "blocked"]
  /\ UNCHANGED <<reads, openers, readable, openable, turns>>

\* `await` of a latch: an open one lets by at once, a closed one keeps the task until it opens.
Awaits(t) ==
  /\ tasks[t].at = "blocked"
  /\ LET isOpen == IF tasks[t].side = "read" THEN readable ELSE openable
     IN tasks' = [tasks EXCEPT ![t].at = IF isOpen THEN "entering" ELSE "awaiting"]
  /\ UNCHANGED <<reads, openers, readable, openable, turns>>

\* The command ends, fails or is interrupted.
Leaves(t) ==
  /\ tasks[t].at = "in"
  /\ IF tasks[t].side = "read" THEN LeavesRead(t, Out) ELSE LeavesOpening(t, Out)
  /\ UNCHANGED turns

\* Mutant of Interrupted: an opener that is cut as it waits stays counted.
InterruptedStaysCounted(t) ==
  /\ tasks[t].at \in {"blocked", "awaiting"}
  /\ tasks' = [tasks EXCEPT ![t] = Out]
  /\ UNCHANGED <<reads, openers, readable, openable, turns>>

\* Only the wait can be interrupted; a read that waits has entered nothing yet.
Interrupted(t) ==
  /\ tasks[t].at \in {"blocked", "awaiting"}
  /\ IF tasks[t].side = "open" THEN LeavesOpening(t, Out)
     ELSE /\ tasks' = [tasks EXCEPT ![t] = Out]
          /\ UNCHANGED <<reads, openers, readable, openable>>
  /\ UNCHANGED turns

--------------------------------------------------------------------------------

GateInit ==
  /\ tasks = [t \in Tasks |-> Out]
  /\ reads = 0 /\ openers = 0
  /\ readable = TRUE /\ openable = TRUE
  /\ turns = MaxTurns

GateNext ==
  \E t \in Tasks :
    \/ ReadBegins(t) \/ OpeningBegins(t)
    \/ EntersRead(t) \/ EntersOpening(t) \/ Awaits(t)
    \/ Leaves(t) \/ Interrupted(t)

\* No read is in while an opener is, whoever waited, was woken or was interrupted, and nobody is
\* kept waiting by nothing: an opener that sleeps waits for a read that is in, and a read that
\* sleeps for an opener that has not left.
GateHolds ==
  /\ Are("open", {"in"}) # {} => Are("read", {"in"}) = {}
  /\ Are("open", {"awaiting"}) # {} => Are("read", {"in"}) # {}
  /\ Are("read", {"awaiting"}) # {} => Are("open", {"entering", "blocked", "awaiting", "in"}) # {}
================================================================================
