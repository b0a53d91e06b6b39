------------------------------- MODULE GateProofs -------------------------------
(***************************************************************************)
(* The gate of the disks holds for any finite set of fibers and any number *)
(* of entries: its two counts are those of the fibers that entered, a      *)
(* latch is open exactly when its count is nothing, and no fiber sleeps at *)
(* a latch that is open.                                                   *)
(***************************************************************************)
EXTENDS Gates, FiniteSetTheorems, TLAPS

GateSpec == GateInit /\ [][GateNext]_gateVars

Sides == {"read", "open"}
Places == {"out", "entering", "blocked", "awaiting", "in"}
State == [side : Sides, at : Places]

\* Fibers that a count is of: reads that are in, and openers from their first step on.
Reading(s) == s.side = "read" /\ s.at = "in"
Opening(s) == s.side = "open" /\ s.at # "out"

InRead == {t \in Tasks : Reading(tasks[t])}
InOpening == {t \in Tasks : Opening(tasks[t])}

(* The invariant. *)

Typed == tasks \in [Tasks -> State] /\ reads \in Nat /\ openers \in Nat

Counts == reads = Cardinality(InRead) /\ openers = Cardinality(InOpening)

Latches == openable = (reads = 0) /\ readable = (openers = 0)

\* Nobody is in with a read, or sleeps at an open latch.
Apart == \A t \in Tasks :
  /\ tasks[t] = [side |-> "open", at |-> "in"] => reads = 0
  /\ tasks[t] = [side |-> "open", at |-> "awaiting"] => reads > 0
  /\ tasks[t] = [side |-> "read", at |-> "awaiting"] => openers > 0

Inv == Typed /\ Counts /\ Latches /\ Apart

--------------------------------------------------------------------------------
(* Counts. *)

\* A set of fibers of which one joins, leaves or stays: what its cardinality comes to.
LEMMA Recount ==
  ASSUME IsFiniteSet(Tasks), NEW A \in SUBSET Tasks, NEW B \in SUBSET Tasks, NEW t \in Tasks,
         \A s \in Tasks \ {t} : s \in A <=> s \in B
  PROVE  /\ t \notin A /\ t \in B => Cardinality(B) = Cardinality(A) + 1
         /\ t \in A /\ t \notin B => Cardinality(B) = Cardinality(A) - 1
         /\ (t \in A <=> t \in B) => Cardinality(B) = Cardinality(A)
<1>1. IsFiniteSet(A)
  BY FS_Subset
<1>2. t \notin A /\ t \in B => B = A \cup {t}
  OBVIOUS
<1>3. t \in A /\ t \notin B => B = A \ {t}
  OBVIOUS
<1>4. (t \in A <=> t \in B) => B = A
  OBVIOUS
<1> QED
  BY <1>1, <1>2, <1>3, <1>4, FS_AddElement, FS_RemoveElement

\* A set that counts nothing is empty, and one with a fiber counts something.
LEMMA CountOfNone ==
  ASSUME IsFiniteSet(Tasks), NEW A \in SUBSET Tasks
  PROVE  Cardinality(A) \in Nat /\ (Cardinality(A) = 0 <=> A = {})
<1>1. IsFiniteSet(A)
  BY FS_Subset
<1> QED
  BY <1>1, FS_EmptySet, FS_CardinalityType

\* A fiber's step, and the wakings it causes, change no other fiber's count.
LEMMA Moves ==
  ASSUME IsFiniteSet(Tasks), Inv, NEW t \in Tasks, tasks' \in [Tasks -> State],
         \A s \in Tasks \ {t} :
            \/ tasks'[s] = tasks[s]
            \/ /\ tasks[s].at = "awaiting"
               /\ tasks'[s] = [tasks[s] EXCEPT !.at = "entering"],
         reads' = reads + (IF Reading(tasks'[t]) THEN 1 ELSE 0) - (IF Reading(tasks[t]) THEN 1 ELSE 0),
         openers' = openers + (IF Opening(tasks'[t]) THEN 1 ELSE 0) - (IF Opening(tasks[t]) THEN 1 ELSE 0)
  PROVE  Typed' /\ Counts'
<1>1. \A s \in Tasks : tasks[s] \in State /\ tasks'[s] \in State
  BY DEF Inv, Typed
<1>2. \A s \in Tasks \ {t} : /\ Reading(tasks'[s]) <=> Reading(tasks[s])
                             /\ Opening(tasks'[s]) <=> Opening(tasks[s])
  BY <1>1 DEF State, Sides, Places, Reading, Opening
<1> DEFINE R == InRead
           S == InRead'
           P == InOpening
           Q == InOpening'
<1>3. \A s \in Tasks : /\ (s \in R <=> Reading(tasks[s])) /\ (s \in S <=> Reading(tasks'[s]))
                       /\ (s \in P <=> Opening(tasks[s])) /\ (s \in Q <=> Opening(tasks'[s]))
  BY DEF InRead, InOpening
<1>4. {R, S, P, Q} \subseteq SUBSET Tasks
  BY DEF InRead, InOpening
<1>5. reads = Cardinality(R) /\ openers = Cardinality(P) /\ reads \in Nat /\ openers \in Nat
  BY DEF Inv, Typed, Counts
<1> HIDE DEF R, S, P, Q
<1>6. reads' = Cardinality(S)
  <2>1. \A s \in Tasks \ {t} : s \in R <=> s \in S
    BY <1>2, <1>3
  <2>2. /\ t \notin R /\ t \in S => Cardinality(S) = Cardinality(R) + 1
        /\ t \in R /\ t \notin S => Cardinality(S) = Cardinality(R) - 1
        /\ (t \in R <=> t \in S) => Cardinality(S) = Cardinality(R)
    BY <1>4, <2>1, Recount
  <2> QED
    BY <1>3, <1>5, <2>2
<1>7. openers' = Cardinality(Q)
  <2>1. \A s \in Tasks \ {t} : s \in P <=> s \in Q
    BY <1>2, <1>3
  <2>2. /\ t \notin P /\ t \in Q => Cardinality(Q) = Cardinality(P) + 1
        /\ t \in P /\ t \notin Q => Cardinality(Q) = Cardinality(P) - 1
        /\ (t \in P <=> t \in Q) => Cardinality(Q) = Cardinality(P)
    BY <1>4, <2>1, Recount
  <2> QED
    BY <1>3, <1>5, <2>2
<1>8. Cardinality(S) \in Nat /\ Cardinality(Q) \in Nat
  BY <1>4, CountOfNone
<1> QED
  BY <1>6, <1>7, <1>8 DEF Typed, Counts, S, Q

--------------------------------------------------------------------------------
(* The steps. *)

\* At first nobody is at the gate, and both latches are open.
LEMMA InvInit == ASSUME IsFiniteSet(Tasks), GateInit PROVE Inv
<1>1. InRead = {} /\ InOpening = {}
  BY DEF GateInit, Out, InRead, InOpening, Reading, Opening
<1>2. Typed /\ Latches /\ Apart
  BY DEF GateInit, Out, Typed, State, Sides, Places, Latches, Apart
<1>3. Counts
  BY <1>1, FS_EmptySet DEF GateInit, Counts
<1> QED
  BY <1>2, <1>3 DEF Inv

\* A fiber that is in with a read is counted, and one that has begun to open is.
LEMMA Counted ==
  ASSUME IsFiniteSet(Tasks), Inv, NEW t \in Tasks
  PROVE  /\ Reading(tasks[t]) => reads > 0
         /\ Opening(tasks[t]) => openers > 0
<1>1. InRead \in SUBSET Tasks /\ InOpening \in SUBSET Tasks
  BY DEF InRead, InOpening
<1>2. /\ Reading(tasks[t]) => InRead # {}
      /\ Opening(tasks[t]) => InOpening # {}
  BY DEF InRead, InOpening
<1>3. reads = Cardinality(InRead) /\ openers = Cardinality(InOpening)
  BY DEF Inv, Counts
<1>4. /\ Cardinality(InRead) \in Nat /\ (Cardinality(InRead) = 0 <=> InRead = {})
      /\ Cardinality(InOpening) \in Nat /\ (Cardinality(InOpening) = 0 <=> InOpening = {})
  BY <1>1, CountOfNone
<1> QED
  BY <1>2, <1>3, <1>4

\* A fiber begins to read.
LEMMA ReadBeginsInv ==
  ASSUME IsFiniteSet(Tasks), Inv, NEW t \in Tasks, ReadBegins(t) PROVE Inv'
<1>1. tasks[t] \in State /\ tasks \in [Tasks -> State] /\ reads \in Nat /\ openers \in Nat
  BY DEF Inv, Typed
<1>2. tasks' \in [Tasks -> State] /\ \A s \in Tasks \ {t} : tasks'[s] = tasks[s]
  BY <1>1 DEF ReadBegins, State, Sides, Places
<1>3. Typed' /\ Counts'
  <2>1. ~Reading(tasks[t]) /\ ~Reading(tasks'[t]) /\ ~Opening(tasks[t]) /\ ~Opening(tasks'[t])
    BY <1>1 DEF ReadBegins, Reading, Opening
  <2>2. reads' = reads /\ openers' = openers
    BY DEF ReadBegins
  <2> QED
    BY <1>1, <1>2, <2>1, <2>2, Moves
<1>4. Latches' /\ Apart'
  BY <1>1 DEF Inv, ReadBegins, Latches, Apart
<1> QED
  BY <1>3, <1>4 DEF Inv

\* A fiber begins to open: it is counted, and the reads' latch closes.
LEMMA OpeningBeginsInv ==
  ASSUME IsFiniteSet(Tasks), Inv, NEW t \in Tasks, OpeningBegins(t) PROVE Inv'
<1>1. tasks[t] \in State /\ tasks \in [Tasks -> State] /\ reads \in Nat /\ openers \in Nat
  BY DEF Inv, Typed
<1>2. tasks' \in [Tasks -> State] /\ \A s \in Tasks \ {t} : tasks'[s] = tasks[s]
  BY <1>1 DEF OpeningBegins, State, Sides, Places
<1>3. Typed' /\ Counts'
  <2>1. ~Reading(tasks[t]) /\ ~Reading(tasks'[t]) /\ ~Opening(tasks[t]) /\ Opening(tasks'[t])
    BY <1>1 DEF OpeningBegins, Reading, Opening
  <2>2. reads' = reads /\ openers' = openers + 1
    BY DEF OpeningBegins
  <2> QED
    BY <1>1, <1>2, <2>1, <2>2, Moves
<1>4. Latches'
  <2>1. readable' = FALSE /\ openers' # 0 /\ UNCHANGED <<reads, openable>>
    BY <1>1 DEF OpeningBegins
  <2> QED
    BY <2>1 DEF Inv, Latches
<1>5. Apart'
  BY <1>1 DEF Inv, OpeningBegins, Apart
<1> QED
  BY <1>3, <1>4, <1>5 DEF Inv

\* A read is let in while nobody opens, or is held up.
LEMMA EntersReadInv ==
  ASSUME IsFiniteSet(Tasks), Inv, NEW t \in Tasks, EntersRead(t) PROVE Inv'
<1>1. tasks[t] \in State /\ tasks \in [Tasks -> State] /\ reads \in Nat /\ openers \in Nat
  BY DEF Inv, Typed
<1>2. tasks'[t] = [side |-> "read", at |-> IF openers > 0 THEN "blocked" ELSE "in"]
      /\ \A s \in Tasks \ {t} : tasks'[s] = tasks[s]
  BY <1>1 DEF EntersRead, State, Sides, Places
<1>3. tasks' \in [Tasks -> State]
  BY <1>1 DEF EntersRead, State, Sides, Places
<1>4. Typed' /\ Counts'
  <2>1. ~Reading(tasks[t]) /\ ~Opening(tasks[t]) /\ ~Opening(tasks'[t])
    BY <1>1, <1>2 DEF EntersRead, Reading, Opening
  <2>2. reads' = (IF Reading(tasks'[t]) THEN reads + 1 ELSE reads) /\ openers' = openers
    BY <1>2 DEF EntersRead, Reading
  <2> QED
    BY <1>1, <1>2, <1>3, <2>1, <2>2, Moves
<1>5. Latches'
  <2>1. CASE openers > 0
    BY <2>1 DEF Inv, EntersRead, Latches
  <2>2. CASE ~(openers > 0)
    <3>1. openable' = FALSE /\ reads' # 0 /\ readable' = readable /\ openers' = openers
      BY <1>1, <2>2 DEF EntersRead
    <3> QED
      BY <3>1 DEF Inv, Latches
  <2> QED
    BY <2>1, <2>2
<1>6. Apart'
  <2>1. \A s \in Tasks : Opening(tasks[s]) => openers > 0
    BY Counted
  <2>2. reads' # reads => openers = 0
    BY <1>1 DEF EntersRead
  <2>3. reads' \in {reads, reads + 1} /\ openers' = openers
    BY <1>1 DEF EntersRead
  <2>4. \A s \in Tasks : tasks'[s].side = "open" => tasks'[s] = tasks[s]
    BY <1>2
  <2>5. \A s \in Tasks : tasks'[s] = [side |-> "read", at |-> "awaiting"] => tasks'[s] = tasks[s]
    BY <1>2
  <2>6. Apart
    BY DEF Inv
  <2>7. ASSUME NEW s \in Tasks, tasks'[s] = [side |-> "open", at |-> "in"] PROVE reads' = 0
    <3>1. tasks[s] = [side |-> "open", at |-> "in"]
      BY <2>4, <2>7
    <3>2. openers > 0 /\ reads = 0
      BY <2>1, <2>6, <3>1 DEF Opening, Apart
    <3> QED
      BY <1>1, <2>2, <3>2
  <2>8. ASSUME NEW s \in Tasks, tasks'[s] = [side |-> "open", at |-> "awaiting"] PROVE reads' > 0
    BY <1>1, <2>3, <2>4, <2>6, <2>8 DEF Apart
  <2> QED
    BY <2>3, <2>5, <2>6, <2>7, <2>8 DEF Apart
<1> QED
  BY <1>4, <1>5, <1>6 DEF Inv

\* An opener goes in while no read is in, or is held up.
LEMMA EntersOpeningInv ==
  ASSUME IsFiniteSet(Tasks), Inv, NEW t \in Tasks, EntersOpening(t) PROVE Inv'
<1>1. tasks[t] \in State /\ tasks \in [Tasks -> State] /\ reads \in Nat /\ openers \in Nat
  BY DEF Inv, Typed
<1>2. tasks'[t] = [side |-> "open", at |-> IF reads = 0 THEN "in" ELSE "blocked"]
      /\ \A s \in Tasks \ {t} : tasks'[s] = tasks[s]
  BY <1>1 DEF EntersOpening, State, Sides, Places
<1>3. tasks' \in [Tasks -> State]
  BY <1>1 DEF EntersOpening, State, Sides, Places
<1>4. Typed' /\ Counts'
  <2>1. ~Reading(tasks[t]) /\ ~Reading(tasks'[t]) /\ Opening(tasks[t]) /\ Opening(tasks'[t])
    BY <1>1, <1>2 DEF EntersOpening, Reading, Opening
  <2>2. reads' = reads /\ openers' = openers
    BY DEF EntersOpening
  <2> QED
    BY <1>1, <1>2, <1>3, <2>1, <2>2, Moves
<1>5. Latches' /\ Apart'
  BY <1>1, <1>2 DEF Inv, EntersOpening, Latches, Apart
<1> QED
  BY <1>4, <1>5 DEF Inv

\* A fiber that is held up sleeps at its latch, or finds it open.
LEMMA AwaitsInv ==
  ASSUME IsFiniteSet(Tasks), Inv, NEW t \in Tasks, Awaits(t) PROVE Inv'
<1>1. tasks[t] \in State /\ tasks \in [Tasks -> State] /\ reads \in Nat /\ openers \in Nat
  BY DEF Inv, Typed
<1>2. PICK to \in {"entering", "awaiting"} :
         /\ tasks'[t] = [side |-> tasks[t].side, at |-> to]
         /\ tasks[t].side = "read" /\ to = "awaiting" => ~readable
         /\ tasks[t].side = "open" /\ to = "awaiting" => ~openable
  BY <1>1 DEF Awaits, State, Sides, Places
<1>3. tasks' \in [Tasks -> State] /\ \A s \in Tasks \ {t} : tasks'[s] = tasks[s]
  BY <1>1 DEF Awaits, State, Sides, Places
<1>4. Typed' /\ Counts'
  <2>1. ~Reading(tasks[t]) /\ ~Reading(tasks'[t]) /\ (Opening(tasks[t]) <=> Opening(tasks'[t]))
    BY <1>1, <1>2 DEF Awaits, Reading, Opening
  <2>2. reads' = reads /\ openers' = openers
    BY DEF Awaits
  <2> QED
    BY <1>1, <1>3, <2>1, <2>2, Moves
<1>5. Latches' /\ UNCHANGED <<reads, openers>>
  BY DEF Inv, Awaits, Latches
<1>6. Apart'
  <2>1. /\ tasks[t].side = "read" /\ to = "awaiting" => openers > 0
        /\ tasks[t].side = "open" /\ to = "awaiting" => reads > 0
    <3>1. (readable <=> openers = 0) /\ (openable <=> reads = 0)
      BY DEF Inv, Latches
    <3>2. (openers # 0 => openers > 0) /\ (reads # 0 => reads > 0)
      BY <1>1
    <3> QED
      BY <1>2, <3>1, <3>2, Zenon
  <2>2. \A s \in Tasks \ {t} :
          /\ tasks'[s] = [side |-> "open", at |-> "in"] => reads = 0
          /\ tasks'[s] = [side |-> "open", at |-> "awaiting"] => reads > 0
          /\ tasks'[s] = [side |-> "read", at |-> "awaiting"] => openers > 0
    BY <1>3 DEF Inv, Apart
  <2>3. /\ tasks'[t] # [side |-> "open", at |-> "in"]
        /\ tasks'[t] = [side |-> "open", at |-> "awaiting"] => reads > 0
        /\ tasks'[t] = [side |-> "read", at |-> "awaiting"] => openers > 0
    BY <1>2, <2>1
  <2> QED
    BY <1>5, <2>2, <2>3 DEF Apart
<1> QED
  BY <1>4, <1>5, <1>6 DEF Inv

\* A read that is in leaves: with the last one the openers' latch opens.
LEMMA LeavesReadInv ==
  ASSUME IsFiniteSet(Tasks), Inv, NEW t \in Tasks, Reading(tasks[t]), LeavesRead(t, Out) PROVE Inv'
<1>1. tasks[t] \in State /\ tasks \in [Tasks -> State] /\ reads \in Nat /\ openers \in Nat
  BY DEF Inv, Typed
<1>2. reads > 0 /\ reads' = reads - 1 /\ openers' = openers /\ readable' = readable
  BY Counted DEF LeavesRead
<1>3. \A s \in Tasks : tasks'[s] =
         IF s = t THEN Out
         ELSE IF reads = 1 /\ tasks[s] = [side |-> "open", at |-> "awaiting"]
              THEN [side |-> "open", at |-> "entering"] ELSE tasks[s]
  BY <1>1 DEF LeavesRead, Woken, State, Sides, Places, Out
<1>4. DOMAIN tasks' = Tasks /\ tasks' = [s \in Tasks |-> tasks'[s]]
  BY <1>1 DEF LeavesRead, Woken
<1>5. tasks' \in [Tasks -> State]
  BY <1>1, <1>3, <1>4 DEF State, Sides, Places, Out
<1>6. Typed' /\ Counts'
  <2>1. \A s \in Tasks \ {t} :
            \/ tasks'[s] = tasks[s]
            \/ /\ tasks[s].at = "awaiting"
               /\ tasks'[s] = [tasks[s] EXCEPT !.at = "entering"]
    BY <1>3
  <2>2. ~Reading(tasks'[t]) /\ ~Opening(tasks[t]) /\ ~Opening(tasks'[t])
    BY <1>3 DEF Out, Reading, Opening
  <2> QED
    BY <1>1, <1>2, <1>5, <2>1, <2>2, Moves
<1>7. Latches'
  <2>1. CASE reads = 1
    <3>1. openable' = TRUE /\ reads' = 0
      BY <1>2, <2>1 DEF LeavesRead
    <3> QED
      BY <1>2, <3>1 DEF Inv, Latches
  <2>2. CASE reads # 1
    <3>1. openable' = openable /\ reads' # 0 /\ reads # 0
      BY <1>1, <1>2, <2>2 DEF LeavesRead
    <3> QED
      BY <1>2, <3>1 DEF Inv, Latches
  <2> QED
    BY <2>1, <2>2
<1>8. Apart'
  <2>1. Apart
    BY DEF Inv
  <2>2. \A s \in Tasks : tasks'[s] = [side |-> "open", at |-> "awaiting"] =>
          tasks[s] = tasks'[s] /\ reads # 1
    BY <1>3 DEF Out
  <2>3. \A s \in Tasks : tasks'[s] # [side |-> "open", at |-> "in"]
    BY <1>2, <1>3, <2>1 DEF Apart, Out
  <2>4. \A s \in Tasks : tasks'[s] = [side |-> "read", at |-> "awaiting"] => tasks[s] = tasks'[s]
    BY <1>3 DEF Out
  <2> QED
    BY <1>1, <1>2, <2>1, <2>2, <2>3, <2>4 DEF Apart
<1> QED
  BY <1>6, <1>7, <1>8 DEF Inv

\* An opener leaves, from within or from its wait: with the last one the reads' latch opens.
LEMMA LeavesOpeningInv ==
  ASSUME IsFiniteSet(Tasks), Inv, NEW t \in Tasks, Opening(tasks[t]), LeavesOpening(t, Out) PROVE Inv'
<1>1. tasks[t] \in State /\ tasks \in [Tasks -> State] /\ reads \in Nat /\ openers \in Nat
  BY DEF Inv, Typed
<1>2. openers > 0 /\ openers' = openers - 1 /\ reads' = reads /\ openable' = openable
  BY Counted DEF LeavesOpening
<1>3. \A s \in Tasks : tasks'[s] =
         IF s = t THEN Out
         ELSE IF openers = 1 /\ tasks[s] = [side |-> "read", at |-> "awaiting"]
              THEN [side |-> "read", at |-> "entering"] ELSE tasks[s]
  BY <1>1 DEF LeavesOpening, Woken, State, Sides, Places, Out
<1>4. DOMAIN tasks' = Tasks /\ tasks' = [s \in Tasks |-> tasks'[s]]
  BY <1>1 DEF LeavesOpening, Woken
<1>5. tasks' \in [Tasks -> State]
  BY <1>1, <1>3, <1>4 DEF State, Sides, Places, Out
<1>6. Typed' /\ Counts'
  <2>1. \A s \in Tasks \ {t} :
            \/ tasks'[s] = tasks[s]
            \/ /\ tasks[s].at = "awaiting"
               /\ tasks'[s] = [tasks[s] EXCEPT !.at = "entering"]
    BY <1>3
  <2>2. ~Opening(tasks'[t]) /\ ~Reading(tasks[t]) /\ ~Reading(tasks'[t])
    BY <1>3 DEF Out, Reading, Opening
  <2> QED
    BY <1>1, <1>2, <1>5, <2>1, <2>2, Moves
<1>7. Latches'
  <2>1. CASE openers = 1
    <3>1. readable' = TRUE /\ openers' = 0
      BY <1>2, <2>1 DEF LeavesOpening
    <3> QED
      BY <1>2, <3>1 DEF Inv, Latches
  <2>2. CASE openers # 1
    <3>1. readable' = readable /\ openers' # 0 /\ openers # 0
      BY <1>1, <1>2, <2>2 DEF LeavesOpening
    <3> QED
      BY <1>2, <3>1 DEF Inv, Latches
  <2> QED
    BY <2>1, <2>2
<1>8. Apart'
  <2>1. Apart
    BY DEF Inv
  <2>2. \A s \in Tasks : tasks'[s] = [side |-> "read", at |-> "awaiting"] =>
          tasks[s] = tasks'[s] /\ openers # 1
    BY <1>3 DEF Out
  <2>3. \A s \in Tasks : tasks'[s].side = "open" => tasks[s] = tasks'[s]
    BY <1>3 DEF Out
  <2> QED
    BY <1>1, <1>2, <2>1, <2>2, <2>3 DEF Apart
<1> QED
  BY <1>6, <1>7, <1>8 DEF Inv

\* Whoever leaves or is cut as it waits leaves the gate as it should be.
LEMMA LeavesInv ==
  ASSUME IsFiniteSet(Tasks), Inv, NEW t \in Tasks, Leaves(t) \/ Interrupted(t) PROVE Inv'
<1>1. tasks[t] \in State /\ tasks \in [Tasks -> State] /\ reads \in Nat /\ openers \in Nat
  BY DEF Inv, Typed
<1>2. CASE Leaves(t) /\ tasks[t].side = "read"
  BY <1>2, LeavesReadInv DEF Leaves, Reading
<1>3. CASE Leaves(t) /\ tasks[t].side = "open"
  BY <1>3, LeavesOpeningInv DEF Leaves, Opening
<1>4. CASE Interrupted(t) /\ tasks[t].side = "open"
  BY <1>4, LeavesOpeningInv DEF Interrupted, Opening
<1>5. CASE Interrupted(t) /\ tasks[t].side = "read"
  <2>1. tasks' = [tasks EXCEPT ![t] = Out] /\ UNCHANGED <<reads, openers, readable, openable>>
    BY <1>5 DEF Interrupted
  <2>2. tasks' \in [Tasks -> State] /\ \A s \in Tasks \ {t} : tasks'[s] = tasks[s]
    BY <1>1, <2>1 DEF Out, State, Sides, Places
  <2>3. tasks'[t] = Out
    BY <1>1, <2>1
  <2>4. Typed' /\ Counts'
    <3>1. ~Reading(tasks[t]) /\ ~Reading(tasks'[t]) /\ ~Opening(tasks[t]) /\ ~Opening(tasks'[t])
      BY <1>5, <2>3 DEF Interrupted, Out, Reading, Opening
    <3> QED
      BY <1>1, <2>1, <2>2, <3>1, Moves
  <2>5. Latches' /\ Apart'
    BY <2>1, <2>2, <2>3 DEF Inv, Latches, Apart, Out
  <2> QED
    BY <2>4, <2>5 DEF Inv
<1> QED
  BY <1>1, <1>2, <1>3, <1>4, <1>5 DEF State, Sides

\* The invariant says what is asked of the gate.
LEMMA InvHolds == ASSUME IsFiniteSet(Tasks), Inv PROVE GateHolds
<1>1. \A t \in Tasks : tasks[t] \in State
  BY DEF Inv, Typed
<1>2. InRead = Are("read", {"in"}) /\ InOpening = Are("open", {"entering", "blocked", "awaiting", "in"})
  BY <1>1 DEF InRead, InOpening, Are, Reading, Opening, State, Places
<1>3. InRead \in SUBSET Tasks /\ InOpening \in SUBSET Tasks
  BY DEF InRead, InOpening
<1>4. /\ reads \in Nat /\ (reads = 0 <=> InRead = {})
      /\ openers \in Nat /\ (openers = 0 <=> InOpening = {})
  BY <1>3, CountOfNone DEF Inv, Counts
<1>5. \A t \in Tasks : /\ t \in Are("open", {"in"}) => tasks[t] = [side |-> "open", at |-> "in"]
                       /\ t \in Are("open", {"awaiting"}) => tasks[t] = [side |-> "open", at |-> "awaiting"]
                       /\ t \in Are("read", {"awaiting"}) => tasks[t] = [side |-> "read", at |-> "awaiting"]
  BY <1>1 DEF Are, State
<1>6. \A side, places : Are(side, places) \subseteq Tasks
  BY DEF Are
<1>7. Apart
  BY DEF Inv
<1>8. Are("open", {"in"}) # {} => reads = 0
  BY <1>5, <1>6, <1>7 DEF Apart
<1>9. Are("open", {"awaiting"}) # {} => reads > 0
  BY <1>5, <1>6, <1>7 DEF Apart
<1>10. Are("read", {"awaiting"}) # {} => openers > 0
  BY <1>5, <1>6, <1>7 DEF Apart
<1> QED
  BY <1>2, <1>4, <1>8, <1>9, <1>10 DEF GateHolds

\* No read is in while an opener is, and a fiber sleeps at a latch only for one
\* that will open it (disk-gate.ts), for any finite set of fibers.
THEOREM TheGateHolds == ASSUME IsFiniteSet(Tasks) PROVE GateSpec => []GateHolds
<1>1. GateInit => Inv
  BY InvInit
<1>2. Inv /\ [GateNext]_gateVars => Inv'
  <2> SUFFICES ASSUME Inv, [GateNext]_gateVars PROVE Inv'
    OBVIOUS
  <2>1. CASE UNCHANGED gateVars
    BY <2>1 DEF gateVars, Inv, Typed, Counts, InRead, InOpening, Latches, Apart
  <2>2. CASE GateNext
    BY <2>2, ReadBeginsInv, OpeningBeginsInv, EntersReadInv, EntersOpeningInv, AwaitsInv, LeavesInv
       DEF GateNext
  <2> QED
    BY <2>1, <2>2
<1>3. Inv => GateHolds
  BY InvHolds
<1> QED
  BY <1>1, <1>2, <1>3, PTL DEF GateSpec
================================================================================
