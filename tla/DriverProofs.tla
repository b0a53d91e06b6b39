------------------------------- MODULE DriverProofs -------------------------------
(***************************************************************************)
(* Theorems about Driver, for any set of loops and any bounds: a name has  *)
(* one loop at most, and no wake is lost.                                  *)
(***************************************************************************)
EXTENDS Driver, TLAPS

(* The loops that run are those of the map, and there is one at most. *)

Mapped ==
  /\ \A l \in Loops : loop[l].at # "ended" <=> l \in wakes
  /\ \A k, l \in wakes : k = l

\* The invariant of both theorems.
Inv == TypeOK /\ Mapped /\ NeverLeft /\ NeverSleptOver

Record == [at : Ats, open : BOOLEAN, rechecked : BOOLEAN]

\* At first there is neither row nor loop.
LEMMA InvInit == Init => Inv
<1> SUFFICES ASSUME Init PROVE Inv
  OBVIOUS
<1>1. TypeOK
  BY BoundsAssumption DEF Init, TypeOK, Activities, Ended, Loop, Ats
<1> QED
  BY <1>1 DEF Init, Inv, Mapped, NeverLeft, NeverSleptOver, Ended, Loop

\* A request leaves its wake to come, or no row, so nothing has to be awake yet.
LEMMA RequestInv ==
  ASSUME Inv, Request PROVE Inv'
<1>1. act' \in Activities
  BY DEF Inv, TypeOK, Request, Written, Activities
<1>2. left' \in [writes : Nat, crashes : Nat]
  BY DEF Inv, TypeOK, Request
<1>3. waking' \in Nat /\ (waking' > 0 \/ act' = "absent")
  BY DEF Inv, TypeOK, Request
<1>4. TypeOK'
  BY <1>1, <1>2, <1>3 DEF Inv, TypeOK, Request
<1> QED
  BY <1>3, <1>4 DEF Inv, Request, Mapped, NeverLeft, NeverSleptOver

\* What setting one loop does to the loops, whatever it is set to.
LEMMA SetsOne ==
  ASSUME TypeOK, NEW l \in Loops, NEW at \in Ats, NEW open \in BOOLEAN, NEW rechecked \in BOOLEAN,
         Sets(l, at, open, rechecked)
  PROVE  /\ loop' \in [Loops -> Record]
         /\ loop'[l] = Loop(at, open, rechecked)
         /\ \A k \in Loops : k # l => loop'[k] = loop[k]
<1>1. Loop(at, open, rechecked) \in Record
  BY DEF Loop, Record
<1> QED
  BY <1>1 DEF TypeOK, Sets, Record

\* A wake opens the latch of the loop in the map, or starts the only one.
LEMMA WakeInv ==
  ASSUME Inv, Wake PROVE Inv'
<1>1. /\ waking' \in Nat /\ act' \in Activities /\ seen' \in BOOLEAN
      /\ left' \in [writes : Nat, crashes : Nat]
  BY DEF Inv, TypeOK, Wake
<1>2. TypeOK /\ wakes \subseteq Loops /\ act' = act /\ seen' = seen
  BY DEF Inv, TypeOK, Wake
<1>3. CASE \E l \in wakes : Sets(l, loop[l].at, TRUE, loop[l].rechecked) /\ UNCHANGED wakes
  <2>1. PICK l \in wakes : Sets(l, loop[l].at, TRUE, loop[l].rechecked) /\ UNCHANGED wakes
    BY <1>3
  <2>2. l \in Loops /\ loop[l] \in Record
    BY <1>2 DEF TypeOK, Record
  <2>3. /\ loop' \in [Loops -> Record]
        /\ loop'[l] = Loop(loop[l].at, TRUE, loop[l].rechecked)
        /\ \A k \in Loops : k # l => loop'[k] = loop[k]
    BY <1>2, <2>1, <2>2, SetsOne DEF Record
  <2>4. loop'[l].open /\ \A k \in Loops : loop'[k].at = loop[k].at
    BY <2>2, <2>3 DEF Loop
  <2>5. TypeOK'
    BY <1>1, <1>2, <2>1, <2>3 DEF TypeOK, Record
  <2>6. Mapped'
    BY <2>1, <2>4 DEF Inv, Mapped
  <2> QED
    BY <2>1, <2>4, <2>5, <2>6 DEF Inv, NeverLeft, NeverSleptOver
<1>4. CASE /\ wakes = {}
           /\ \E l \in Loops \ Live : Sets(l, "starting", FALSE, TRUE) /\ wakes' = {l}
  <2>1. PICK l \in Loops : Sets(l, "starting", FALSE, TRUE) /\ wakes' = {l}
    BY <1>4
  <2>2. /\ loop' \in [Loops -> Record]
        /\ loop'[l] = Loop("starting", FALSE, TRUE)
        /\ \A k \in Loops : k # l => loop'[k] = loop[k]
    BY <1>2, <2>1, SetsOne DEF Ats
  <2>3. loop'[l].at = "starting"
    BY <2>2 DEF Loop
  <2>4. TypeOK'
    BY <1>1, <2>1, <2>2 DEF TypeOK, Record
  <2>5. Mapped'
    BY <1>4, <2>1, <2>2, <2>3 DEF Inv, Mapped
  <2> QED
    BY <2>1, <2>3, <2>4, <2>5 DEF Inv, NeverLeft, NeverSleptOver
<1> QED
  BY <1>3, <1>4 DEF Wake

\* A restart leaves the wake of startup to come, or no row.
LEMMA CrashInv ==
  ASSUME Inv, Crash PROVE Inv'
<1>1. TypeOK'
  BY DEF Inv, TypeOK, Crash, Ended, Loop, Ats
<1>2. waking' > 0 \/ act' = "absent"
  BY DEF Crash
<1> QED
  BY <1>1, <1>2 DEF Inv, Crash, Ended, Loop, Mapped, NeverLeft, NeverSleptOver

\* A loop that steps is the one of the map.
LEMMA Steps ==
  ASSUME Inv, NEW l \in Loops, LoopStep(l)
  PROVE  wakes = {l} /\ loop[l] \in Record
<1>1. loop[l] \in Record
  BY DEF Inv, TypeOK, Record
<1>2. loop[l].at # "ended"
  BY DEF LoopStep, Closes, Turn, LookMoves, LookRests, LookUnanswered, LookIsBusy,
         BusyEnds, Follows, FollowsOn, Fails, RestEnds, Leaves
<1> QED
  BY <1>1, <1>2 DEF Inv, Mapped, TypeOK

\* What a step of a loop sets, action by action.
LEMMA StepSets ==
  ASSUME Inv, NEW l \in Loops, LoopStep(l)
  PROVE  \E at \in Ats, open \in BOOLEAN, rechecked \in BOOLEAN :
           /\ Sets(l, at, open, rechecked)
           /\ wakes' = IF at = "ended" THEN {} ELSE {l}
<1>1. wakes = {l} /\ loop[l] \in Record
  BY Steps
<1>2. loop[l].open \in BOOLEAN /\ loop[l].rechecked \in BOOLEAN
  BY <1>1 DEF Record
<1>3. CASE Leaves(l)
  BY <1>1, <1>2, <1>3 DEF Leaves, Ats
<1>4. CASE Closes(l)
  BY <1>1, <1>2, <1>4 DEF Closes, Ats
<1>5. CASE RestEnds(l)
  <2>1. Sets(l, "starting", loop[l].open, ~loop[l].open) /\ wakes' = wakes
    BY <1>5 DEF RestEnds
  <2> QED
    BY <1>1, <1>2, <2>1 DEF Ats
<1>6. CASE \E at \in Ats \ {"ended"} : Go(l, at) /\ wakes' = wakes
  BY <1>1, <1>2, <1>6 DEF Go
<1>7. CASE Again(l) /\ wakes' = wakes
  BY <1>1, <1>2, <1>7 DEF Again, Ats
<1>8. Turn(l) => \E at \in Ats \ {"ended"} : Go(l, at) /\ wakes' = wakes
  BY DEF Turn, Picked, Ats
<1>9. LookRests(l) \/ LookUnanswered(l) \/ LookIsBusy(l) \/ Fails(l) =>
        \E at \in Ats \ {"ended"} : Go(l, at) /\ wakes' = wakes
  BY DEF LookRests, LookUnanswered, LookIsBusy, Fails, Ats
<1>10. LookMoves(l) \/ BusyEnds(l) \/ Follows(l) \/ FollowsOn(l) => Again(l) /\ wakes' = wakes
  BY DEF LookMoves, BusyEnds, Follows, FollowsOn
<1> QED
  BY <1>3, <1>4, <1>5, <1>6, <1>7, <1>8, <1>9, <1>10 DEF LoopStep

\* What every step of a loop keeps: its types, and that it alone is in the map.
LEMMA LoopKeeps ==
  ASSUME Inv, NEW l \in Loops, LoopStep(l)
  PROVE  /\ TypeOK' /\ Mapped' /\ waking' = waking
         /\ wakes' = IF loop'[l].at = "ended" THEN {} ELSE {l}
<1>1. wakes = {l}
  BY Steps
<1>2. PICK at \in Ats, open \in BOOLEAN, rechecked \in BOOLEAN :
        /\ Sets(l, at, open, rechecked)
        /\ wakes' = IF at = "ended" THEN {} ELSE {l}
  BY StepSets
<1>3. /\ loop' \in [Loops -> Record]
      /\ loop'[l] = Loop(at, open, rechecked)
      /\ \A k \in Loops : k # l => loop'[k] = loop[k]
  BY <1>2, SetsOne DEF Inv
<1>4. loop'[l].at = at
  BY <1>3 DEF Loop
<1>5. Mapped'
  BY <1>1, <1>2, <1>3, <1>4 DEF Inv, Mapped
<1>6. waking' = waking /\ left' = left /\ act' \in Activities
  BY DEF LoopStep, Closes, Turn, LookMoves, LookRests, LookUnanswered, LookIsBusy,
         BusyEnds, Follows, FollowsOn, Fails, RestEnds, Leaves, Inv, TypeOK, Activities
<1>7. seen' \in BOOLEAN
  BY DEF LoopStep, Closes, Turn, LookMoves, LookRests, LookUnanswered, LookIsBusy,
         BusyEnds, Follows, FollowsOn, Fails, Tried, RestEnds, Leaves, Inv, TypeOK
<1>8. TypeOK'
  BY <1>2, <1>3, <1>6, <1>7 DEF Inv, TypeOK, Record
<1> QED
  BY <1>2, <1>4, <1>5, <1>6, <1>8

\* No turn of a loop leaves, or sleeps over, a row that should move.
LEMMA LoopInv ==
  ASSUME Inv, NEW l \in Loops, LoopStep(l) PROVE Inv'
<1>1. /\ TypeOK' /\ Mapped' /\ waking' = waking
      /\ wakes' = IF loop'[l].at = "ended" THEN {} ELSE {l}
  BY LoopKeeps
<1>2. wakes = {l} /\ loop[l] \in Record /\ TypeOK
  BY Steps DEF Inv
<1>3. ASSUME NEW at \in Ats, NEW open \in BOOLEAN, NEW rechecked \in BOOLEAN,
             Sets(l, at, open, rechecked)
      PROVE  loop'[l].at = at /\ (loop'[l].open <=> open)
  <2>1. loop'[l] = Loop(at, open, rechecked)
    BY <1>2, <1>3, SetsOne
  <2> QED
    BY <2>1 DEF Loop
<1>4. loop[l].open \in BOOLEAN /\ loop[l].rechecked \in BOOLEAN /\ (~loop[l].open) \in BOOLEAN
  BY <1>2 DEF Record
<1> DEFINE Move == waking = 0 /\ act \in {"read", "follow", "recheck"}
           Fresh == waking = 0 /\ ~seen /\ act \in {"read", "follow"}
           Owed == /\ Move => loop[l].at # "ended" /\ (loop[l].at # "leaving" \/ loop[l].open)
                   /\ Fresh => loop[l].open \/ loop[l].at \notin {"busy", "resting", "leaving"}
<1>5. Owed
  BY <1>2 DEF Inv, Mapped, NeverLeft, NeverSleptOver
<1>6. Owed'
  <2>1. CASE Closes(l)
    <3>1. loop'[l].at = "finding"
      BY <1>3, <1>4, <2>1 DEF Closes, Ats
    <3> QED
      BY <3>1
  <2>2. CASE RestEnds(l)
    <3>1. loop'[l].at = "starting"
      BY <1>3, <1>4, <2>2 DEF RestEnds, Ats
    <3> QED
      BY <3>1
  <2>3. CASE LookMoves(l) \/ BusyEnds(l) \/ Follows(l) \/ FollowsOn(l)
    <3>1. Again(l)
      BY <2>3 DEF LookMoves, BusyEnds, Follows, FollowsOn
    <3>2. loop'[l].at = "starting"
      BY <1>3, <1>4, <3>1 DEF Again, Ats
    <3> QED
      BY <3>2
  <2>4. CASE LookRests(l) \/ LookIsBusy(l)
    <3>1. seen' /\ (Go(l, "resting") \/ Go(l, "busy"))
      BY <2>4 DEF LookRests, LookIsBusy
    <3>2. loop'[l].at \in {"resting", "busy"}
      BY <1>3, <1>4, <3>1 DEF Go, Ats
    <3> QED
      BY <3>1, <3>2
  <2>5. CASE LookUnanswered(l) \/ Fails(l)
    <3>1. Go(l, "resting") /\ Tried(l)
      BY <2>5 DEF LookUnanswered, Fails
    <3>2. loop'[l].at = "resting" /\ (loop'[l].open <=> loop[l].open)
      BY <1>3, <1>4, <3>1 DEF Go, Ats
    <3>3. waking = 0 => ~(waking > 0)
      OBVIOUS
    <3>4. waking = 0 /\ ~seen' => loop[l].open
      BY <3>1, <3>3, Zenon DEF Tried
    <3> QED
      BY <1>1, <3>2, <3>4
  <2>6. CASE Turn(l)
    <3>1. Go(l, Picked(l)) /\ act' = act
      BY <2>6 DEF Turn
    <3>2. Picked(l) \in Ats
      BY DEF Picked, Ats
    <3>3. loop'[l].at = Picked(l)
      BY <1>3, <1>4, <3>1, <3>2 DEF Go
    <3> QED
      BY <3>1, <3>3 DEF Picked
  <2>7. CASE Leaves(l)
    <3>1. CASE loop[l].open
      <4>1. Sets(l, "starting", FALSE, FALSE)
        BY <2>7, <3>1 DEF Leaves
      <4>2. loop'[l].at = "starting"
        BY <1>3, <4>1 DEF Ats
      <4> QED
        BY <4>2
    <3>2. CASE ~loop[l].open
      BY <1>1, <1>5, <2>7, <3>2 DEF Leaves
    <3> QED
      BY <3>1, <3>2
  <2> QED
    BY <2>1, <2>2, <2>3, <2>4, <2>5, <2>6, <2>7 DEF LoopStep
<1>7. NeverLeft'
  BY <1>1, <1>6 DEF NeverLeft
<1>8. NeverSleptOver'
  BY <1>1, <1>6 DEF NeverSleptOver
<1> QED
  BY <1>1, <1>7, <1>8 DEF Inv

\* Every step keeps the invariant.
LEMMA InvStep == Inv /\ [Next]_vars => Inv'
<1> SUFFICES ASSUME Inv, [Next]_vars PROVE Inv'
  OBVIOUS
<1>1. CASE Expire
  <2>1. TypeOK'
    BY <1>1 DEF Inv, TypeOK, Expire, Activities
  <2> QED
    BY <1>1, <2>1 DEF Inv, Expire, Mapped, NeverLeft, NeverSleptOver
<1>2. CASE UNCHANGED vars
  BY <1>2 DEF Inv, vars, TypeOK, Mapped, NeverLeft, NeverSleptOver
<1> QED
  BY <1>1, <1>2, RequestInv, WakeInv, CrashInv, LoopInv DEF Next

\* A name has one loop at most, the one its wakes reach.
THEOREM LoopsAreOne == Spec => []OneLoop
<1>1. Inv => OneLoop
  BY DEF Inv, Mapped, OneLoop, Live
<1> QED
  BY <1>1, InvInit, InvStep, PTL DEF Spec

\* A row that should move, once its requests gave their wakes, has a loop that does not
\* end before it looked at the row again.
THEOREM RowsAreNotLeft == Spec => []NeverLeft
<1>1. Inv => NeverLeft
  BY DEF Inv
<1> QED
  BY <1>1, InvInit, InvStep, PTL DEF Spec

\* No wake is lost: a written request is never slept over, wherever in a turn it landed.
THEOREM WakesAreSeen == Spec => []NeverSleptOver
<1>1. Inv => NeverSleptOver
  BY DEF Inv
<1> QED
  BY <1>1, InvInit, InvStep, PTL DEF Spec
================================================================================
