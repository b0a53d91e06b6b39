---------------------------------- MODULE Driver ----------------------------------
(***************************************************************************)
(* The loop that drives one name and the wakes that reach it               *)
(* (apps/server/src/driver.ts).  A request writes the row and then wakes   *)
(* the name: it opens the latch of the loop that runs, or starts one.  Of  *)
(* the row only its activity matters here; "absent" is no row.  Between    *)
(* two of these actions any other fiber of the process may run.            *)
(***************************************************************************)
EXTENDS Integers

CONSTANTS
  Loops,       \* loops that may run, each with its latch; an ended one is used again
  MaxWrites,   \* bound: requests written
  MaxCrashes   \* bound: restarts of the process

ASSUME BoundsAssumption == {MaxWrites, MaxCrashes} \subseteq Nat

VARIABLES
  act,       \* the activity of the row's leaf
  waking,    \* requests that are written and have still to wake the loop
  wakes,     \* the map of loops: those it holds for the name
  loop,      \* each loop: [at, open, rechecked]
  seen,      \* history: whether a turn acted on the row, or failed to, since the last request
  left       \* what is left of each bound

vars == <<act, waking, wakes, loop, seen, left>>

Activities == {"read", "follow", "recheck", "none", "absent"}

Loop(at, open, rechecked) == [at |-> at, open |-> open, rechecked |-> rechecked]

Ended == Loop("ended", FALSE, FALSE)

Live == {l \in Loops : loop[l].at # "ended"}

Sets(l, at, open, rechecked) == loop' = [loop EXCEPT ![l] = Loop(at, open, rechecked)]

Go(l, at) == Sets(l, at, loop[l].open, loop[l].rechecked)

\* A turn that ends "again", whether its row moved or not.
Again(l) == Sets(l, "starting", loop[l].open, FALSE)

--------------------------------------------------------------------------------
(* Requests. *)

\* What a request may leave of the row: it never ends a step that is followed, and
\* removes only a row that waits for nothing, which it then wakes nobody for.
Written ==
  CASE act = "follow" -> {"follow"}
    [] act = "recheck" -> {"recheck", "read"}
    [] act = "none" -> {"none", "read", "absent"}
    [] OTHER -> {"read"}

Request ==
  /\ left.writes > 0
  /\ left' = [left EXCEPT !.writes = @ - 1]
  /\ act' \in Written
  /\ waking' = IF act' = "absent" THEN waking ELSE waking + 1
  /\ seen' = FALSE
  /\ UNCHANGED <<wakes, loop>>

\* Mutant of Wake: it starts a loop whatever runs.
WakeAnother ==
  /\ waking > 0
  /\ waking' = waking - 1
  /\ \E l \in Loops \ Live :
       /\ Sets(l, "starting", FALSE, TRUE)
       /\ wakes' = {l}
  /\ UNCHANGED <<act, seen, left>>

\* The answer of `driver`: wakes the loop that runs, or starts one.
Wake ==
  /\ waking > 0
  /\ waking' = waking - 1
  /\ \/ \E l \in wakes : Sets(l, loop[l].at, TRUE, loop[l].rechecked) /\ UNCHANGED wakes
     \/ /\ wakes = {}
        /\ \E l \in Loops \ Live :
             /\ Sets(l, "starting", FALSE, TRUE)
             /\ wakes' = {l}
  /\ UNCHANGED <<act, seen, left>>

\* The tick removes an undone row, which wakes nothing.
Expire ==
  /\ act = "none"
  /\ act' = "absent"
  /\ UNCHANGED <<waking, wakes, loop, seen, left>>

\* The process starts again: no loop is left, and startup wakes every row.
Crash ==
  /\ left.crashes > 0
  /\ left' = [left EXCEPT !.crashes = @ - 1]
  /\ loop' = [l \in Loops |-> Ended]
  /\ wakes' = {}
  /\ waking' = IF act = "absent" THEN 0 ELSE 1
  /\ UNCHANGED <<act, seen>>

--------------------------------------------------------------------------------
(* A loop's turn. *)

\* Mutant of Closes: the latch of a wake is never closed again.
ClosesNot(l) ==
  /\ loop[l].at = "starting"
  /\ Go(l, "finding")
  /\ UNCHANGED <<act, waking, wakes, seen, left>>

\* The latch closes before the row is read.
Closes(l) ==
  /\ loop[l].at = "starting"
  /\ Sets(l, "finding", FALSE, loop[l].rechecked)
  /\ UNCHANGED <<act, waking, wakes, seen, left>>

\* The row as it is read picks what the turn does.
Picked(l) ==
  CASE act = "read" -> "looking"
    [] act = "recheck" -> IF loop[l].rechecked THEN "looking" ELSE "resting"
    [] act = "follow" -> "following"
    [] OTHER -> "leaving"

Turn(l) ==
  /\ loop[l].at = "finding"
  /\ Go(l, Picked(l))
  /\ UNCHANGED <<act, waking, wakes, seen, left>>

\* A look that moves the row, on to a step or to another leaf to look at.  It finds the
\* row still there: only a step that is followed ends in the removal of such a row.
LookMoves(l) ==
  /\ loop[l].at = "looking"
  /\ act \in {"read", "recheck"}
  /\ act' \in {"follow", "read", "recheck"}
  /\ Again(l)
  /\ seen' = TRUE
  /\ UNCHANGED <<waking, wakes, left>>

\* A look that leaves the row as it is.
LookRests(l) ==
  /\ loop[l].at = "looking"
  /\ Go(l, "resting")
  /\ seen' = TRUE
  /\ UNCHANGED <<act, waking, wakes, left>>

\* A turn that did not come to act on the row has tried to for the requests before it.
Tried(l) == seen' = (seen \/ ~(loop[l].open \/ waking > 0))

\* Mutant of LookUnanswered: the latch closes as the rest begins.
RestsDeaf(l) ==
  /\ loop[l].at = "looking"
  /\ Sets(l, "resting", FALSE, loop[l].rechecked)
  /\ Tried(l)
  /\ UNCHANGED <<act, waking, wakes, left>>

\* A look whose host did not answer.
LookUnanswered(l) ==
  /\ loop[l].at = "looking"
  /\ Go(l, "resting")
  /\ Tried(l)
  /\ UNCHANGED <<act, waking, wakes, left>>

\* A look whose step's leases another operation holds.
LookIsBusy(l) ==
  /\ loop[l].at = "looking"
  /\ act \in {"read", "recheck"}
  /\ Go(l, "busy")
  /\ seen' = TRUE
  /\ UNCHANGED <<act, waking, wakes, left>>

\* The operation that held them ended, or a wake came.
BusyEnds(l) ==
  /\ loop[l].at = "busy"
  /\ Again(l)
  /\ UNCHANGED <<act, waking, wakes, seen, left>>

\* What a look at the step found is stored; the wake does not cut this short.
Follows(l) ==
  /\ loop[l].at = "following"
  /\ act = "follow"
  /\ act' \in Activities
  /\ Again(l)
  /\ seen' = TRUE
  /\ UNCHANGED <<waking, wakes, left>>

\* The step goes on, its host did not answer, or a wake cut the look short.
FollowsOn(l) ==
  /\ loop[l].at = "following"
  /\ Again(l)
  /\ UNCHANGED <<act, waking, wakes, seen, left>>

\* Any turn may fail, as when the store does, which the loop takes for a rest.
Fails(l) ==
  /\ loop[l].at \in {"finding", "looking", "following", "busy"}
  /\ Go(l, "resting")
  /\ Tried(l)
  /\ UNCHANGED <<act, waking, wakes, left>>

\* A rest ends with a wake, or with its time: then a recheck is due.
RestEnds(l) ==
  /\ loop[l].at = "resting"
  /\ Sets(l, "starting", loop[l].open, ~loop[l].open)
  /\ UNCHANGED <<act, waking, wakes, seen, left>>

\* Mutant of Leaves: it takes itself out of the map whether a wake came or not.
LeavesWoken(l) ==
  /\ loop[l].at = "leaving"
  /\ wakes' = wakes \ {l}
  /\ Sets(l, IF loop[l].open THEN "starting" ELSE "ended", FALSE, FALSE)
  /\ UNCHANGED <<act, waking, seen, left>>

\* `leaving`: a loop that a wake reached in its last turn goes on.
Leaves(l) ==
  /\ loop[l].at = "leaving"
  /\ IF loop[l].open
     THEN /\ Sets(l, "starting", FALSE, FALSE)
          /\ UNCHANGED wakes
     ELSE /\ Sets(l, "ended", FALSE, FALSE)
          /\ wakes' = wakes \ {l}
  /\ UNCHANGED <<act, waking, seen, left>>

--------------------------------------------------------------------------------
Init ==
  /\ act = "absent"
  /\ waking = 0
  /\ wakes = {}
  /\ loop = [l \in Loops |-> Ended]
  /\ seen = TRUE
  /\ left = [writes |-> MaxWrites, crashes |-> MaxCrashes]

LoopStep(l) ==
  \/ Closes(l) \/ Turn(l)
  \/ LookMoves(l) \/ LookRests(l) \/ LookUnanswered(l) \/ LookIsBusy(l) \/ BusyEnds(l)
  \/ Follows(l) \/ FollowsOn(l)
  \/ Fails(l) \/ RestEnds(l) \/ Leaves(l)

Next == Request \/ Wake \/ Expire \/ Crash \/ \E l \in Loops : LoopStep(l)

Spec == Init /\ [][Next]_vars

\* Every fiber goes on: a request that is written reaches its wake, and a loop's turns
\* end, as each of its waits is bounded in time.  The store may fail a read of the row,
\* but not every read for ever.
FairSpec ==
  /\ Spec
  /\ WF_vars(Wake)
  /\ \A l \in Loops : WF_vars(LoopStep(l)) /\ SF_vars(Turn(l))

--------------------------------------------------------------------------------
(* Properties. *)

Ats == {"ended", "starting", "finding", "looking", "busy", "following", "resting", "leaving"}

\* The type of every variable.
TypeOK ==
  /\ act \in Activities
  /\ waking \in Nat
  /\ wakes \subseteq Loops
  /\ loop \in [Loops -> [at : Ats, open : BOOLEAN, rechecked : BOOLEAN]]
  /\ seen \in BOOLEAN
  /\ left \in [writes : Nat, crashes : Nat]

\* A name has at most one loop, the one a wake reaches: two would send its steps twice.
OneLoop == \A k, l \in Live : k = l /\ l \in wakes

\* A row that should move, of which every request has given its wake, has a loop
\* that does not end before it has looked at the row again.
NeverLeft ==
  waking = 0 /\ act \in {"read", "follow", "recheck"} =>
    \E l \in wakes : loop[l].at # "leaving" \/ loop[l].open

\* A request that was written and gave its wake is never slept over: until a turn has
\* acted on the row, or failed to, the loop is awake or its latch is open.
NeverSleptOver ==
  waking = 0 /\ ~seen /\ act \in {"read", "follow"} =>
    \E l \in wakes : loop[l].open \/ loop[l].at \notin {"busy", "resting", "leaving"}

\* A row left at rest is looked at again and again, with no one asking.
Rechecks ==
  <>[](act = "recheck") => []<>(\E l \in Loops : loop[l].at = "looking")
================================================================================
