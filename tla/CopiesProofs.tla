-------------------------------- MODULE CopiesProofs --------------------------------
(***************************************************************************)
(* Proofs about Copies that hold whatever its bounds: no lease is ever     *)
(* held against another, so nothing a step copies is changed under it, a   *)
(* name with nothing to show has nothing on the host, and a ready          *)
(* checkpoint and a fork are what they say they are.                       *)
(***************************************************************************)
EXTENDS Copies, TLAPS

--------------------------------------------------------------------------------
(* The types, in what each name's row and operation can be. *)

\* A machine here joins no tailnet, so no row reaches the leaves that do.
MachineLeaf == Leaf \ {JoinSent, JoinAsked}

Sources(r) == IF r = "a" THEN {"base"} ELSE {"a", "k"}

MRow(r) ==
  [state : MachineLeaf, desired : {"running", "paused"}, prepared : BOOLEAN,
   error : {None, "Internal"}, resize : {NoSize, 2}, size : {1, 2}, host : {"h"},
   after : {None, "k"}, src : Sources(r)]

\* A checkpoint captured here is neither published nor fetched.
CheckpointLeaf ==
  {"capturing.due", "capturing.sent", "ready", "failed"} \cup K!Discarding \cup K!Deleting

KRow ==
  [state : CheckpointLeaf, error : {None, "Internal"}, published : {None}, machine : {"a"},
   size : {1, 2}]

Lease == [on : Names, mode : {"share", "own"}]

MachineKind == {"make", "start", "stop", "pause", "resize", "remove"}

MachineOp ==
  [kind : MachineKind, leases : SUBSET Lease, to : {NoSize, 2},
   at : {"begun", "running", "done", "failed", "cancelled", "lost"}]

CheckpointOp ==
  [kind : {"capture", "deleteCheckpoint"}, leases : SUBSET Lease, to : {NoSize},
   at : {"begun", "running", "done", "failed", "cleared", "lost"}]

Seens == {"unknown", "running", "missing", "stopped", "paused"}

Look == [at : {"looking"}, seen : Seens, refused : BOOLEAN, after : {None, "k"}]

VM == [is : {"none", "partial", "up", "ready", "stopped", "paused"},
       size : {NoSize, 1, 2}, from : {NoSize, 1, 2}]

Image == [is : {"none", "partial", "whole"}, size : {NoSize, 1, 2}, ran : BOOLEAN]

RowTypes ==
  /\ DOMAIN row = Names
  /\ \A r \in Machines : row[r] \in MRow(r) \cup {Gone}
  /\ row["k"] \in KRow \cup {Gone}

OpTypes ==
  /\ DOMAIN op = Names
  /\ \A r \in Machines : op[r] \in MachineOp \cup {NoOp}
  /\ op["k"] \in CheckpointOp \cup {NoOp}

LoopTypes ==
  /\ DOMAIN loop = Names
  /\ \A r \in Machines : loop[r] \in Look \cup {Idle}
  /\ loop["k"] = Idle

HostTypes == vm \in [Machines -> VM] /\ image \in Image

Types == RowTypes /\ OpTypes /\ LoopTypes /\ pauser \in {"idle", "waiting"} /\ HostTypes

--------------------------------------------------------------------------------
(* The inductive invariant. *)

\* An operation is the step of its row's leaf, or one a delete drains, and holds that
\* step's leases; a leaf with a step has its operation.
OpIsStep(r) ==
  /\ op[r] # NoOp => /\ Exists(r)
                     /\ StepIn(r, row[r].state) \in {op[r].kind, "any"}
                     /\ op[r].leases = LeasesIn(r, op[r].kind)
  /\ op[r] = NoOp /\ Exists(r) => StepIn(r, row[r].state) = None

Steps == \A r \in Names : OpIsStep(r)

\* No operation holds a lease against another's.
Apart ==
  \A r, s \in Names :
    r # s /\ op[r] # NoOp /\ op[s] # NoOp =>
      \A l \in op[r].leases, m \in op[s].leases : ~Conflicting(l, m)

Has(r, kind, at) == op[r] # NoOp /\ op[r].kind = kind /\ op[r].at = at

\* A VM that was made and of which nothing was taken away.
Whole(r) == vm[r].is \in {"up", "ready", "stopped", "paused"}

\* What the host holds of a machine, by what its row and its operation say.
Holds(r) ==
  /\ Free(r) \/ Has(r, "remove", "done") => vm[r] = NoVM
  /\ \/ StateIn(r, Made)
     \/ Has(r, "make", "done")
     \/ op[r] # NoOp /\ op[r].kind \in {"start", "stop", "pause", "resize"}
     => Whole(r)
  /\ Whole(r) => vm[r].size # NoSize
  /\ op[r] # NoOp /\ op[r].kind = "resize" => op[r].to = 2

\* The sizes in the row of "a" are its VM's, but while it is resized.
SizesKnown ==
  Whole("a") /\ (op["a"] = NoOp \/ op["a"].kind # "resize") => row["a"].size = vm["a"].size

\* A fork under way still fits its source, and one that was made fits it.
Forking ==
  Exists("b") /\ row["b"].src = "a" =>
    /\ Has("b", "make", "running") => row["b"].size >= vm["a"].size
    /\ Has("b", "make", "done") => vm["b"].size >= vm["b"].from
    /\ row["b"].state \in Made => vm["b"].size >= vm["b"].from

Good == image.is = "whole" /\ image.ran

\* What the host holds of the checkpoint, likewise.
Capturings ==
  /\ \/ ~Exists("k")
     \/ row["k"].state \in {"failed", "capturing.due"}
     \/ Has("k", "capture", "begun")
     \/ op["k"] # NoOp /\ op["k"].at = "cleared"
     \/ Has("k", "deleteCheckpoint", "done")
     => image = NoImage
  /\ op["k"] # NoOp /\ op["k"].at = "cleared" => op["k"].kind = "capture"
  /\ Has("k", "capture", "running") => Up("a")
  /\ Has("k", "capture", "done") \/ StateIn("k", {"ready"}) => Good

Inv ==
  /\ Types
  /\ Steps
  /\ Apart
  /\ \A r \in Machines : Holds(r)
  /\ SizesKnown
  /\ Forking
  /\ Capturings


--------------------------------------------------------------------------------
(* The charts. *)

\* The events a machine's row and a checkpoint's row are given here.
MachineEvent ==
  [type : {"ask"}, desired : {"running", "paused"}, after : {None, "k"}]
  \cup [type : {"resize"}, sizing : {2}]
  \cup [type : {"delete", "refused"}]
  \cup [type : {"read"}, seen : Seens, joins : {FALSE}, awaiting : BOOLEAN]
  \cup [type : {"reported"}, status : {"done", "failed", "cancelled"}, error : {"Internal"},
        move : {None}, size : {NoSize, 1, 2}, prepared : BOOLEAN]
  \cup [type : {"lost"}, error : {"Internal"}]

CheckpointEvent ==
  [type : {"delete"}]
  \cup [type : {"read"}, seen : Seens, joins : {FALSE}, awaiting : BOOLEAN]
  \cup [type : {"reported"}, status : {"done", "failed"}, error : {"Internal"}, cleared : BOOLEAN]
  \cup [type : {"lost"}, error : {"Internal"}]

\* The step ended as done.
Completes(e) == e.type = "reported" /\ e.status = "done"

\* What every event does to a machine's row: it stays the row of the same copy, it
\* is made by the end of its make and at rest or gone by the end of its remove.
MachineMove(r, m, e, n) ==
  /\ n \in MRow(r) \cup {Gone}
  /\ n # Gone => n.src = m.src
  /\ n.state \in Making => m.state \in Making
  /\ n = Gone => m.state = "undone" \/ (m.state = "deleting.sent" /\ Completes(e))
  /\ n.state = "undone" => m.state = "undone" \/ (m.state = "undoing.sent" /\ Completes(e))
  /\ n.state \in Made => m.state \in Made \/ (m.state = "making.sent" /\ Completes(e))

\* What it does to the step of its leaf: only a read begins one, and one that is
\* under way stays, is drained or ends.
StepMove(m, e, n) ==
  /\ StepOf(m.state) = None => StepOf(n.state) # "any"
  /\ StepOf(m.state) = None /\ n # m /\ e.type # "read" => StepOf(n.state) = None
  /\ StepOf(m.state) # None => StepOf(n.state) \in {None, "any", StepOf(m.state)}
  /\ StepOf(m.state) # None /\ StepOf(n.state) = None => e.type \in {"reported", "lost"}
  /\ StepOf(n.state) = "resize" /\ StepOf(m.state) = None => m.resize = 2

\* What it does to the sizes: only the end of a step tells new ones, and the end of
\* a resize tells them.
SizeMove(m, e, n) ==
  n # Gone =>
    /\ n.size = m.size \/ (e.type = "reported" /\ e.size # NoSize /\ n.size = e.size)
    /\ e.type = "reported" /\ m.state \in {Resizing, "deleting.draining"} /\ e.size # NoSize =>
         n.size = e.size

Moves(r, m, e, n) == MachineMove(r, m, e, n) /\ StepMove(m, e, n) /\ SizeMove(m, e, n)

\* Which leaf sends which step.
LEMMA StepTable ==
  ASSUME NEW l
  PROVE  /\ StepOf(l) \in MachineKind \cup {"join", "any", None}
         /\ StepOf(l) = "make" <=> l = "making.sent"
         /\ StepOf(l) = "start" <=> l = Starting
         /\ StepOf(l) = "stop" <=> l = Stopping
         /\ StepOf(l) = "pause" <=> l = Pausing
         /\ StepOf(l) = "resize" <=> l = Resizing
         /\ StepOf(l) = "join" <=> l \in {JoinSent, JoinAsked}
         /\ StepOf(l) = "remove" <=> l \in {"undoing.sent", "deleting.sent"}
         /\ StepOf(l) = "any" <=> l = "deleting.draining"
BY DEF StepOf, MachineKind, None, Starting, Stopping, Pausing, Resizing, JoinSent, JoinAsked

\* A step lost, or cut off by its host's restart.
LEMMA LostMoves ==
  ASSUME NEW r \in Machines, NEW m \in MRow(r), NEW e, e.type = "lost"
  PROVE  Moves(r, m, e, OnLost(m))
<1> DEFINE n == OnLost(m)
<1> USE DEF MRow, MachineLeaf, None, Gone, NoSize, Leaf, Making, Made, Standing, Stepping, Undoing,
            Deleting, Starting, Stopping, Pausing, Resizing, JoinSent, JoinAsked
<1>1. n \in MRow(r)
  BY ZenonT(30) DEF OnLost, Goto
<1>2. n.src = m.src /\ n.size = m.size
  BY DEF OnLost, Goto
<1>3. \/ n = m
      \/ n.state = "undoing.due" /\ m.state \in {"making.sent", "undoing.sent"}
      \/ n.state = "made.observing" /\ m.state \in Stepping
      \/ n.state = "deleting.due" /\ m.state \in Deleting
  BY DEF OnLost, Goto
<1> HIDE DEF n
<1>4. MachineMove(r, m, e, n)
  BY <1>1, <1>2, <1>3 DEF MachineMove, Completes
<1>5. StepMove(m, e, n)
  BY <1>3, StepTable DEF StepMove, MachineKind
<1>6. SizeMove(m, e, n)
  BY <1>2 DEF SizeMove
<1> QED
  BY <1>4, <1>5, <1>6 DEF Moves, n

\* A create refused before it was sent.
LEMMA RefusedMoves ==
  ASSUME NEW r \in Machines, NEW m \in MRow(r), NEW e, e.type = "refused"
  PROVE  Moves(r, m, e, OnRefused(m))
<1> DEFINE n == OnRefused(m)
<1> USE DEF MRow, MachineLeaf, None, Gone, NoSize, Leaf, Making, Made, Standing, Stepping, Undoing,
            Deleting, Starting, Stopping, Pausing, Resizing, JoinSent, JoinAsked
<1>1. n \in MRow(r)
  BY ZenonT(30) DEF OnRefused
<1>2. n.src = m.src /\ n.size = m.size
  BY DEF OnRefused
<1>3. n = m \/ (n.state = "undoing.due" /\ m.state = "making.due")
  BY DEF OnRefused
<1> HIDE DEF n
<1>4. MachineMove(r, m, e, n)
  BY <1>1, <1>2, <1>3 DEF MachineMove, Completes
<1>5. StepMove(m, e, n)
  BY <1>3, StepTable DEF StepMove, MachineKind
<1>6. SizeMove(m, e, n)
  BY <1>2 DEF SizeMove
<1> QED
  BY <1>4, <1>5, <1>6 DEF Moves, n

\* A wish.
LEMMA AskMoves ==
  ASSUME NEW r \in Machines, NEW m \in MRow(r), 
         NEW e \in [type : {"ask"}, desired : {"running", "paused"}, after : {None, "k"}]
  PROVE  Moves(r, m, e, OnAsk(m, e))
<1> DEFINE n == OnAsk(m, e)
<1> USE DEF MRow, MachineLeaf, None, Gone, NoSize, Leaf, Making, Made, Standing, Stepping, Undoing,
            Deleting, Starting, Stopping, Pausing, Resizing, JoinSent, JoinAsked
<1>1. n \in MRow(r)
  BY ZenonT(30) DEF OnAsk, Asked, Goto
<1>2. n.src = m.src /\ n.size = m.size
  BY DEF OnAsk, Asked, Goto
<1>3. \/ n.state = m.state
      \/ n.state = "made.observing" /\ m.state \in Standing
  BY DEF OnAsk, Asked, Goto
<1> HIDE DEF n
<1>4. MachineMove(r, m, e, n)
  BY <1>1, <1>2, <1>3 DEF MachineMove, Completes
<1>5. StepMove(m, e, n)
  BY <1>3, StepTable DEF StepMove, MachineKind
<1>6. SizeMove(m, e, n)
  BY <1>2 DEF SizeMove
<1> QED
  BY <1>4, <1>5, <1>6 DEF Moves, n

\* A resize owed.
LEMMA ResizeMoves ==
  ASSUME NEW r \in Machines, NEW m \in MRow(r), NEW e \in [type : {"resize"}, sizing : {2}]
  PROVE  Moves(r, m, e, OnResize(m, e))
<1> DEFINE n == OnResize(m, e)
<1> USE DEF MRow, MachineLeaf, None, Gone, NoSize, Leaf, Making, Made, Standing, Stepping, Undoing,
            Deleting, Starting, Stopping, Pausing, Resizing, JoinSent, JoinAsked
<1>1. n \in MRow(r)
  BY DEF OnResize, Owed, Goto
<1>2. n.src = m.src /\ n.size = m.size
  BY DEF OnResize, Owed, Goto
<1>3. \/ n.state = m.state
      \/ n.state = "made.observing" /\ m.state \in Standing
  BY DEF OnResize, Owed, Goto
<1> HIDE DEF n
<1>4. MachineMove(r, m, e, n)
  BY <1>1, <1>2, <1>3 DEF MachineMove, Completes
<1>5. StepMove(m, e, n)
  BY <1>3, StepTable DEF StepMove, MachineKind
<1>6. SizeMove(m, e, n)
  BY <1>2 DEF SizeMove
<1> QED
  BY <1>4, <1>5, <1>6 DEF Moves, n

\* A delete.
LEMMA DeleteMoves ==
  ASSUME NEW r \in Machines, NEW m \in MRow(r), NEW e, e.type = "delete"
  PROVE  Moves(r, m, e, OnDelete(m))
<1> DEFINE n == OnDelete(m)
<1> USE DEF MRow, MachineLeaf, None, Gone, NoSize, Leaf, Making, Made, Standing, Stepping, Undoing,
            Deleting, Starting, Stopping, Pausing, Resizing, JoinSent, JoinAsked
<1>1. n \in MRow(r) \cup {Gone}
  <2>1. m.state # "undone" => n \in MRow(r)
    BY ZenonT(30) DEF OnDelete, EnterDeleting, Goto
  <2>2. m.state = "undone" => n = Gone
    BY DEF OnDelete
  <2> QED
    BY <2>1, <2>2
<1>2. n # Gone => n.src = m.src /\ n.size = m.size
  BY DEF OnDelete, EnterDeleting, Goto
<1>3. \/ n.state = m.state
      \/ n = Gone /\ m.state = "undone"
      \/ n.state = "deleting.draining" /\ m.state \in {"making.sent"} \cup Stepping
      \/ n.state = "deleting.sent" /\ m.state = "undoing.sent"
      \/ n.state = "deleting.due"
         /\ m.state \in {"making.due", "undoing.due", "undoing.held", "deleting.held"} \cup Standing
  BY DEF OnDelete, EnterDeleting, Goto
<1> HIDE DEF n
<1>4. MachineMove(r, m, e, n)
  BY <1>1, <1>2, <1>3 DEF MachineMove, Completes
<1>5. StepMove(m, e, n)
  BY <1>3, StepTable DEF StepMove, MachineKind
<1>6. SizeMove(m, e, n)
  BY <1>2 DEF SizeMove
<1> QED
  BY <1>4, <1>5, <1>6 DEF Moves, n

\* The look of a driver, from what the host saw of its VM.
LEMMA ReadMoves ==
  ASSUME NEW r \in Machines, NEW m \in MRow(r),
         NEW e \in [type : {"read"}, seen : Seens, joins : {FALSE}, awaiting : BOOLEAN]
  PROVE  Moves(r, m, e, OnRead(m, e))
<1> DEFINE n == OnRead(m, e)
<1> USE DEF MRow, MachineLeaf, None, Gone, NoSize, Leaf, Making, Made, Standing, Stepping, Undoing,
            Deleting, Starting, Stopping, Pausing, Resizing, JoinSent, JoinAsked
<1>1. n \in MRow(r)
  <2>1. Decided(m, e) \in MRow(r)
    BY ZenonT(30) DEF Decided, Goto
  <2> QED
    BY <2>1 DEF OnRead, Goto
<1>2. n.src = m.src /\ n.size = m.size
  BY DEF OnRead, Decided, Goto
<1>3. \/ n = m
      \/ n.state = "making.sent" /\ m.state = "making.due"
      \/ n.state \in Standing \cup Stepping /\ m.state \in Standing /\ (n.state = Resizing => m.resize = 2)
      \/ n.state = "undoing.sent" /\ m.state \in {"undoing.due", "undoing.held"}
      \/ n.state = "deleting.sent" /\ m.state \in {"deleting.due", "deleting.held"}
  BY DEF OnRead, Decided, Goto
<1> HIDE DEF n
<1>4. MachineMove(r, m, e, n)
  BY <1>1, <1>2, <1>3 DEF MachineMove, Completes
<1>5. StepMove(m, e, n)
  BY <1>1, <1>3, StepTable DEF StepMove, MachineKind
<1>6. SizeMove(m, e, n)
  BY <1>2 DEF SizeMove
<1> QED
  BY <1>4, <1>5, <1>6 DEF Moves, n

\* The end of a step.
LEMMA ReportedMoves ==
  ASSUME NEW r \in Machines, NEW m \in MRow(r),
         NEW e \in [type : {"reported"}, status : {"done", "failed", "cancelled"}, error : {"Internal"},
                    move : {None}, size : {NoSize, 1, 2}, prepared : BOOLEAN]
  PROVE  Moves(r, m, e, OnReported(m, e))
<1> DEFINE n == OnReported(m, e)
           told == Told(m, e)
<1> USE DEF MRow, MachineLeaf, None, Gone, NoSize, Leaf, Making, Made, Standing, Stepping, Undoing,
            Deleting, Starting, Stopping, Pausing, Resizing, JoinSent, JoinAsked
<1>1. /\ told \in MRow(r) /\ told.src = m.src /\ told.state = m.state
      /\ told.size = m.size \/ (e.size # NoSize /\ told.size = e.size)
      /\ e.size # NoSize => told.size = e.size
  BY DEF Told
<1>2. ASSUME NEW t \in MRow(r), NEW l \in MachineLeaf, NEW p \in BOOLEAN
      PROVE  /\ Goto(t, l) \in MRow(r)
             /\ [t EXCEPT !.state = l, !.prepared = p] \in MRow(r)
             /\ [t EXCEPT !.state = l, !.error = e.error] \in MRow(r)
  <2>1. e.error = "Internal"
    OBVIOUS
  <2> HIDE DEF MachineLeaf
  <2> QED
    BY <2>1 DEF Goto
<1>4. n \in MRow(r) \cup {Gone}
  <2>1. ASSUME NEW p \in BOOLEAN PROVE Ended(m, e, p) \in MRow(r)
    <3>1. {"made.observing", "made.failed"} \subseteq MachineLeaf /\ told.prepared \in BOOLEAN
      BY <1>1
    <3> HIDE DEF MRow, MachineLeaf
    <3> QED
      BY <1>1, <1>2, <3>1 DEF Ended
  <2>2. Undone(m, e) \in MRow(r)
    BY DEF Undone, Goto
  <2>3. e.status # "done" => Deleted(m, e) \in MRow(r)
    BY DEF Deleted, Goto
  <2>4. e.status = "done" => Deleted(m, e) = Gone
    BY DEF Deleted
  <2>5. {"made.observing", "undoing.due", "made.failed", "made.settled", "deleting.due"} \subseteq MachineLeaf
    OBVIOUS
  <2>6. e.prepared \in BOOLEAN
    OBVIOUS
  <2> HIDE DEF told, MRow, MachineLeaf
  <2> QED
    BY <1>1, <1>2, <2>1, <2>2, <2>3, <2>4, <2>5, <2>6 DEF OnReported, told
<1>5. n # Gone =>
        /\ n.src = m.src
        /\ n.size = m.size \/ n.size = told.size
        /\ m.state \in {Resizing, "deleting.draining"} => n.size = told.size
  BY DEF OnReported, Told, Ended, Undone, Deleted, Goto
<1>3. \/ n = m
      \/ n = Gone /\ m.state = "deleting.sent" /\ e.status = "done"
      \/ n.state = "undoing.due" /\ m.state \in {"making.sent", "undoing.sent"}
      \/ n.state \in Standing /\ ((m.state = "making.sent" /\ e.status = "done") \/ m.state \in Stepping)
      \/ n.state \in {"undone", "undoing.held"} /\ m.state = "undoing.sent"
         /\ (n.state = "undone" => e.status = "done")
      \/ n.state \in {"deleting.due", "deleting.held"} /\ m.state \in Deleting
  BY DEF OnReported, Told, Ended, Undone, Deleted, Goto
<1> HIDE DEF n, told
<1>6. MachineMove(r, m, e, n)
  BY <1>3, <1>4, <1>5 DEF MachineMove, Completes
<1>7. StepMove(m, e, n)
  BY <1>3, StepTable DEF StepMove, MachineKind
<1>8. SizeMove(m, e, n)
  BY <1>1, <1>5 DEF SizeMove
<1> QED
  BY <1>6, <1>7, <1>8 DEF Moves, n

\* Every event a machine's row is given here moves it so.
LEMMA TransitionMoves ==
  ASSUME NEW r \in Machines, NEW m \in MRow(r), NEW e \in MachineEvent
  PROVE  Moves(r, m, e, Transition(m, e))
BY AskMoves, ResizeMoves, DeleteMoves, ReadMoves, RefusedMoves, ReportedMoves, LostMoves
   DEF MachineEvent, Transition

--------------------------------------------------------------------------------
(* The chart of the checkpoint. *)

\* The capture failed and left nothing behind.
Clears(e) == e.type = "reported" /\ e.status # "done" /\ e.cleared

\* What every event does to the checkpoint's row: it is ready by the end of its
\* capture, failed when that left nothing or was discarded, gone by its delete.
CheckpointMove(m, e, n) ==
  /\ n \in KRow \cup {Gone}
  /\ n.state \in {"capturing.due", "capturing.sent"} => m.state \in {"capturing.due", "capturing.sent"}
  /\ n.state = "capturing.due" => m.state = "capturing.due"
  /\ n = Gone => m.state = "failed" \/ (m.state = "deleting.sent" /\ Completes(e))
  /\ n.state = "failed" =>
       \/ m.state = "failed"
       \/ m.state = "discarding.sent" /\ Completes(e)
       \/ m.state = "capturing.sent" /\ Clears(e)
  /\ n.state = "ready" => m.state = "ready" \/ (m.state = "capturing.sent" /\ Completes(e))

CheckpointStepMove(m, e, n) ==
  /\ K!StepOf(m.state) = None => K!StepOf(n.state) # "any"
  /\ K!StepOf(m.state) = None /\ n # m /\ e.type # "read" => K!StepOf(n.state) = None
  /\ K!StepOf(m.state) = None /\ n # m /\ e.type = "read" => K!StepOf(n.state) \notin {None, "any"}
  /\ K!StepOf(m.state) # None => K!StepOf(n.state) \in {None, "any", K!StepOf(m.state)}
  /\ K!StepOf(m.state) # None /\ K!StepOf(n.state) = None => e.type \in {"reported", "lost"}

\* Which of the checkpoint's leaves sends which step.
LEMMA CheckpointStepTable ==
  ASSUME NEW l \in CheckpointLeaf \cup {"gone"}
  PROVE  /\ K!StepOf(l) \in {"capture", "deleteCheckpoint", "any", None}
         /\ K!StepOf(l) = "capture" <=> l = "capturing.sent"
         /\ K!StepOf(l) = "deleteCheckpoint" <=> l \in {"discarding.sent", "deleting.sent"}
         /\ K!StepOf(l) = "any" <=> l = "deleting.draining"
BY DEF K!StepOf, CheckpointLeaf, K!Discarding, K!Deleting, None, K!None

\* Every event the checkpoint's row is given here moves it so.
LEMMA CheckpointMoves ==
  ASSUME NEW m \in KRow, NEW e \in CheckpointEvent
  PROVE  CheckpointMove(m, e, K!Transition(m, e)) /\ CheckpointStepMove(m, e, K!Transition(m, e))
<1> DEFINE n == K!Transition(m, e)
<1> USE DEF KRow, CheckpointLeaf, None, K!None, Gone, K!Gone, K!Discarding, K!Deleting,
            K!Due, K!Sent, K!Goto, K!GoWith
<1>1. CASE e.type = "read"
  <2>1. n = K!OnRead(m)
    BY <1>1 DEF K!Transition
  <2>2. \/ n = m /\ K!StepOf(m.state) # None
        \/ n = m /\ m.state \in {"ready", "failed"}
        \/ n = [m EXCEPT !.state = "capturing.sent"] /\ m.state = "capturing.due"
        \/ n = [m EXCEPT !.state = "discarding.sent"] /\ m.state \in {"discarding.due", "discarding.held"}
        \/ n = [m EXCEPT !.state = "deleting.sent"] /\ m.state \in {"deleting.due", "deleting.held"}
    BY <2>1, CheckpointStepTable DEF K!OnRead, K!ActivityOf, K!SentOf
  <2> HIDE DEF n
  <2>3. CheckpointMove(m, e, n)
    BY <1>1, <2>2 DEF CheckpointMove, Completes
  <2>4. CheckpointStepMove(m, e, n)
    BY <1>1, <2>2, CheckpointStepTable DEF CheckpointStepMove
  <2> QED
    BY <2>3, <2>4 DEF n
<1>2. CASE e.type = "delete"
  <2>1. n = K!OnDelete(m)
    BY <1>2 DEF K!Transition
  <2>2. \/ n.state = m.state /\ m.state \in {"deleting.draining", "deleting.due", "deleting.sent"}
        \/ n = Gone /\ m.state = "failed"
        \/ n.state = "deleting.draining" /\ m.state = "capturing.sent"
        \/ n.state = "deleting.sent" /\ m.state = "discarding.sent"
        \/ /\ n.state = "deleting.due"
           /\ m.state \in {"capturing.due", "ready", "discarding.due", "discarding.held", "deleting.held"}
    BY <2>1 DEF K!OnDelete
  <2>5. n \in KRow \/ m.state = "failed"
    BY <2>1 DEF K!OnDelete
  <2> HIDE DEF n
  <2>3. CheckpointMove(m, e, n)
    BY <1>2, <2>2, <2>5 DEF CheckpointMove, Completes
  <2>4. CheckpointStepMove(m, e, n)
    BY <1>2, <2>2, CheckpointStepTable DEF CheckpointStepMove
  <2> QED
    BY <2>3, <2>4 DEF n
<1>3. CASE e.type = "lost"
  <2>0. e.error = "Internal"
    BY <1>3 DEF CheckpointEvent
  <2>1. n = K!OnLost(m, e)
    BY <1>3 DEF K!Transition
  <2>2. \/ n = m
        \/ n.state = "discarding.due" /\ m.state \in {"capturing.sent", "discarding.sent"}
        \/ n.state = "deleting.due" /\ m.state \in {"deleting.draining", "deleting.sent"}
    BY <2>0, <2>1 DEF K!OnLost
  <2>5. n \in KRow
    BY <2>0, <2>1 DEF K!OnLost
  <2> HIDE DEF n
  <2>3. CheckpointMove(m, e, n)
    BY <1>3, <2>2, <2>5 DEF CheckpointMove, Completes
  <2>4. CheckpointStepMove(m, e, n)
    BY <1>3, <2>2, CheckpointStepTable DEF CheckpointStepMove
  <2> QED
    BY <2>3, <2>4 DEF n
<1>4. CASE e.type = "reported"
  <2>0. e.error = "Internal" /\ e.status \in {"done", "failed"} /\ e.cleared \in BOOLEAN
    BY <1>4 DEF CheckpointEvent
  <2>1. n = K!OnReported(m, e)
    BY <1>4 DEF K!Transition
  <2>2. \/ n = m
        \/ n.state = "ready" /\ m.state = "capturing.sent" /\ e.status = "done"
        \/ n.state = "failed" /\ m.state = "capturing.sent" /\ Clears(e)
        \/ n.state = "discarding.due" /\ m.state = "capturing.sent"
        \/ n.state = "failed" /\ m.state = "discarding.sent" /\ e.status = "done"
        \/ n.state = "discarding.held" /\ m.state = "discarding.sent"
        \/ n.state = "deleting.due" /\ m.state = "deleting.draining"
        \/ n = Gone /\ m.state = "deleting.sent" /\ e.status = "done"
        \/ n.state = "deleting.held" /\ m.state = "deleting.sent"
    BY <1>4, <2>0, <2>1 DEF K!OnReported, K!MakeEnded, K!Discarded, K!Deleted, Clears
  <2>5. n \in KRow \/ n = Gone
    BY ZenonT(30), <2>0, <2>1 DEF K!OnReported, K!MakeEnded, K!Discarded, K!Deleted
  <2> HIDE DEF n
  <2>3. CheckpointMove(m, e, n)
    <3>1. n \in KRow \cup {Gone}
      BY <1>4, <2>2, <2>5
    <3>2. n.state = "failed" =>
            \/ m.state = "failed"
            \/ m.state = "discarding.sent" /\ Completes(e)
            \/ m.state = "capturing.sent" /\ Clears(e)
      BY <1>4, <2>2 DEF Completes
    <3>3. n.state = "ready" => m.state = "ready" \/ (m.state = "capturing.sent" /\ Completes(e))
      BY <1>4, <2>0, <2>2 DEF Completes
    <3>4. n = Gone => m.state = "failed" \/ (m.state = "deleting.sent" /\ Completes(e))
      BY <1>4, <2>0, <2>2 DEF Completes
    <3>5. n.state \in {"capturing.due", "capturing.sent"} => m.state = n.state
      BY <1>4, <2>0, <2>2
    <3> QED
      BY <3>1, <3>2, <3>3, <3>4, <3>5 DEF CheckpointMove
  <2>4. CheckpointStepMove(m, e, n)
    BY <1>4, <2>2, CheckpointStepTable DEF CheckpointStepMove
  <2> QED
    BY <2>3, <2>4 DEF n
<1> QED
  BY <1>1, <1>2, <1>3, <1>4 DEF CheckpointEvent

--------------------------------------------------------------------------------
(* One event written on a row. *)

\* What a name's row, operation and events can be.
RowOf(r) == IF r = "k" THEN KRow ELSE MRow(r)
OpOf(r) == IF r = "k" THEN CheckpointOp ELSE MachineOp
EventFor(r) == IF r = "k" THEN CheckpointEvent ELSE MachineEvent

\* An event of a row as it is written: the end of a step is as its host has it.
EventHere(r, e) ==
  /\ e \in EventFor(r)
  /\ e.type \in {"reported", "lost"} => StepEnded(r) /\ e = EventOf(r)

\* The row's step under an event, for either chart.
StepsOn(r, e, n) ==
  LET s == StepIn(r, row[r].state)
      t == StepIn(r, n.state)
  IN /\ s = None => t # "any"
     /\ s = None /\ n # row[r] /\ e.type # "read" => t = None
     /\ s # None => t \in {None, "any", s}
     /\ s # None /\ t = None => e.type \in {"reported", "lost"}

\* What its chart makes of a row, before what a wish and a lost resize add.
Charted(r, e) == IF r = "k" THEN K!Transition(row[r], e) ELSE Transition(row[r], e)

\* What an event makes of a row.
AfterMove(r, e, n) ==
  /\ n \in RowOf(r) \cup {Gone}
  /\ n.state = Charted(r, e).state /\ (n = Gone <=> Charted(r, e) = Gone)
  /\ e.type = "read" => n = Charted(r, e)
  /\ StepsOn(r, e, n)
  /\ r = "k" => CheckpointMove(row[r], e, n) /\ CheckpointStepMove(row[r], e, n)
  /\ r # "k" => MachineMove(r, row[r], e, n)
                /\ (StepOf(n.state) = "resize" /\ StepOf(row[r].state) = None => row[r].resize = 2)
  /\ r # "k" /\ n # Gone =>
       n.size = IF StepEnded(r) /\ e = EventOf(r) /\ op[r].kind = "resize" THEN vm[r].size ELSE row[r].size

\* A stored row is not a removed one, which is at no leaf.
LEMMA GoneApart ==
  /\ \A r \in Machines : \A m \in MRow(r) : m # Gone /\ m.state # "gone"
  /\ \A m \in KRow : m # Gone /\ m.state # "gone"
  /\ Gone.state = "gone"
BY DEF MRow, KRow, Gone, MachineLeaf, CheckpointLeaf, Leaf, Making, Made, Standing, Stepping,
       Undoing, Deleting, Starting,
       Stopping, Pausing, Resizing, JoinSent, JoinAsked, K!Discarding, K!Deleting

\* No step is owed to a removed row.
LEMMA GoneStep == \A r \in Names : StepIn(r, "gone") = None
<1>1. StepOf("gone") = None
  BY StepTable DEF MachineKind, Starting, Stopping, Pausing, Resizing, JoinSent, JoinAsked
<1>2. K!StepOf("gone") = None
  BY CheckpointStepTable
<1> QED
  BY <1>1, <1>2 DEF StepIn

\* An operation there is is not none.
LEMMA NoOpApart == NoOp \notin MachineOp /\ NoOp \notin CheckpointOp
BY DEF NoOp, MachineOp, CheckpointOp, MachineKind, None

\* The charts' moves are those of the rows, with what a wish and a lost resize add.
LEMMA AfterMoves ==
  ASSUME Types, Steps, NEW r \in Names, Exists(r), r # "k" => Holds(r), NEW e, EventHere(r, e)
  PROVE  AfterMove(r, e, After(r, e))
<1> DEFINE n == After(r, e)
<1>1. CASE r = "k"
  <2>1. row[r] \in KRow /\ e \in CheckpointEvent
    BY <1>1 DEF Types, RowTypes, Exists, EventHere, EventFor
  <2>2. n = K!Transition(row[r], e)
    <3>1. e.type # "ask"
      BY <2>1 DEF CheckpointEvent
    <3>2. e.type = "lost" => op[r].kind # "resize"
      BY <1>1 DEF Types, OpTypes, CheckpointOp, NoOp, None
    <3> QED
      BY <1>1, <3>1, <3>2 DEF After
  <2>3. CheckpointMove(row[r], e, n) /\ CheckpointStepMove(row[r], e, n)
    BY <2>1, <2>2, CheckpointMoves
  <2> QED
    BY <1>1, <2>2, <2>3 DEF AfterMove, Charted, RowOf, StepsOn, StepIn, CheckpointMove,
           CheckpointStepMove, None, K!None
<1>2. CASE r # "k"
  <2> DEFINE t == Transition(row[r], e)
  <2>1. r \in Machines /\ row[r] \in MRow(r) /\ e \in MachineEvent
    BY <1>2 DEF Names, Types, RowTypes, Exists, EventHere, EventFor
  <2>2. MachineMove(r, row[r], e, t) /\ StepMove(row[r], e, t) /\ SizeMove(row[r], e, t)
    BY <2>1, TransitionMoves DEF Moves
  <2>3. CASE e.type = "ask" /\ row[r].state \in Making \cup Made
    <3>1. t # Gone /\ e.after \in {None, "k"}
      BY <2>1, <2>2, <2>3 DEF MachineMove, MachineEvent, Making, Made, Standing, Stepping,
             Starting, Stopping,
         Pausing, Resizing, JoinSent, JoinAsked
    <3>2. n = [t EXCEPT !.after = e.after]
      BY <1>2, <2>3 DEF After
    <3>3. t \in MRow(r)
      BY <2>2, <3>1 DEF MachineMove
    <3>4. n \in MRow(r) /\ n.src = t.src /\ n.state = t.state /\ n.size = t.size /\ n # Gone
      BY <3>1, <3>2, <3>3, <2>1, GoneApart DEF MRow
    <3>5. e.type # "reported" /\ e.type # "lost" /\ e # EventOf(r)
      BY <2>3 DEF EventOf
    <3> HIDE DEF n, t
    <3>6. StepsOn(r, e, n)
      BY <1>2, <2>2, <3>4 DEF StepsOn, StepIn, StepMove
    <3>7. MachineMove(r, row[r], e, n)
      BY <2>2, <3>1, <3>4 DEF MachineMove
    <3>8. n.size = row[r].size
      BY <2>2, <3>1, <3>4, <3>5 DEF SizeMove
    <3> QED
      BY <1>2, <2>2, <2>3, <3>1, <3>4, <3>5, <3>6, <3>7, <3>8
         DEF AfterMove, Charted, RowOf, StepMove, n, t
  <2>4. CASE e.type = "lost" /\ op[r].kind = "resize" /\ vm[r].is # "none"
    <3>1. StepEnded(r) /\ e = EventOf(r) /\ op[r] # NoOp
      BY <2>4 DEF EventHere, StepEnded
    <3>2. vm[r].size \in {1, 2}
      BY <1>2, <2>1, <2>4, <3>1 DEF Holds, Types, HostTypes, VM, NoSize
    <3>3. n = [t EXCEPT !.size = vm[r].size]
      BY <1>2, <2>4 DEF After
    <3>4. row[r].state # "undone"
      BY <1>2, <2>4, <3>1, StepTable DEF Steps, OpIsStep, StepIn, Resizing
    <3>5. t # Gone /\ t \in MRow(r)
      BY <2>2, <2>4, <3>4 DEF MachineMove, Completes
    <3>6. n \in MRow(r) /\ n.src = t.src /\ n.state = t.state /\ n.size = vm[r].size /\ n # Gone
      BY <2>1, <3>2, <3>3, <3>5, GoneApart DEF MRow
    <3> HIDE DEF n, t
    <3>7. StepsOn(r, e, n)
      BY <1>2, <2>2, <3>6 DEF StepsOn, StepIn, StepMove
    <3>8. MachineMove(r, row[r], e, n)
      BY <2>2, <3>5, <3>6 DEF MachineMove
    <3> QED
      BY <1>2, <2>2, <2>4, <3>1, <3>5, <3>6, <3>7, <3>8
         DEF AfterMove, Charted, RowOf, StepMove, n, t
  <2>5. CASE n = t /\ ~(e.type = "lost" /\ op[r].kind = "resize" /\ vm[r].is # "none")
    <3>1. StepsOn(r, e, n)
      BY <1>2, <2>2, <2>5 DEF StepsOn, StepIn, StepMove
    <3>2. ASSUME n # Gone
          PROVE  n.size = IF StepEnded(r) /\ e = EventOf(r) /\ op[r].kind = "resize"
                          THEN vm[r].size ELSE row[r].size
      <4>1. CASE e = EventOf(r) /\ StepEnded(r) /\ op[r].kind = "resize"
        <5>1. op[r] # NoOp /\ vm[r].size # NoSize /\ vm[r].is # "none"
          BY <1>2, <4>1 DEF Holds, StepEnded, Whole
        <5>2. e.type = "reported" /\ e.size = vm[r].size
          BY <1>2, <2>5, <4>1, <5>1 DEF EventOf
        <5>3. row[r].state \in {Resizing, "deleting.draining"}
          BY <1>2, <4>1, <5>1, StepTable DEF Steps, OpIsStep, StepIn
        <5> QED
          BY <2>2, <2>5, <3>2, <4>1, <5>1, <5>2, <5>3 DEF SizeMove
      <4>2. CASE ~(e = EventOf(r) /\ StepEnded(r) /\ op[r].kind = "resize")
        <5>1. e.type = "reported" => e.size = NoSize
          BY <1>2, <4>2 DEF EventHere, EventOf
        <5> QED
          BY <2>2, <2>5, <3>2, <4>2, <5>1 DEF SizeMove
      <4> QED
        BY <4>1, <4>2
    <3> HIDE DEF n, t
    <3> QED
      BY <1>2, <2>2, <2>5, <3>1, <3>2 DEF AfterMove, Charted, RowOf, StepMove, MachineMove, n, t
  <2> QED
    BY <1>2, <2>3, <2>4, <2>5 DEF After
<1> QED
  BY <1>1, <1>2

\* The three ways an event leaves the operation: begun, ended, or as it was.
WriteBegins(r, e, n, o) ==
  /\ op[r] = NoOp /\ n # Gone /\ e.type = "read"
  /\ o = [kind |-> StepIn(r, n.state), leases |-> LeasesIn(r, StepIn(r, n.state)), at |-> "begun",
          to |-> IF r # "k" THEN row[r].resize ELSE NoSize]
  /\ o \in OpOf(r)
  /\ o.kind = "resize" => o.to = 2
  /\ ~Busy(o.leases)

WriteEnds(r, n, o) ==
  /\ op[r] # NoOp /\ o = NoOp
  /\ n # Gone => StepIn(r, n.state) = None

WriteKeeps(r, n, o) ==
  /\ o = op[r]
  /\ op[r] # NoOp => n # Gone /\ StepIn(r, n.state) \in {op[r].kind, "any"}
  /\ op[r] = NoOp /\ n # Gone => StepIn(r, n.state) = None

Wrote(r, e, n, o) ==
  /\ row' = [row EXCEPT ![r] = n] /\ op' = [op EXCEPT ![r] = o]
  /\ AfterMove(r, e, n)
  /\ WriteBegins(r, e, n, o) \/ WriteEnds(r, n, o) \/ WriteKeeps(r, n, o)

\* The leases of a step are on names of this model.
LEMMA LeasesTyped ==
  ASSUME RowTypes, NEW r \in Names, Exists(r), NEW kind, kind # "publish"
  PROVE  LeasesIn(r, kind) \in SUBSET Lease
<1>1. CASE r = "k"
  <2>1. row[r].machine = "a" /\ row[r].published # "k"
    BY <1>1 DEF RowTypes, Exists, KRow, None
  <2> QED
    BY <1>1, <2>1 DEF LeasesIn, K!LeasesOf, Lease, Names, Machines
<1>2. CASE r # "k"
  <2>1. row[r].src \in {"base", "a", "k"}
    BY <1>2 DEF RowTypes, Exists, MRow, Sources, Names
  <2> QED
    BY <1>2, <2>1 DEF LeasesIn, MachineLeases, Lease, Names, Machines
<1> QED
  BY <1>1, <1>2

\* One event on one row: nothing is written, or it is one of the three.
LEMMA AdvanceMoves ==
  ASSUME Types, Steps, NEW r \in Names, Exists(r), r # "k" => Holds(r), NEW e, EventHere(r, e), Advance(r, e)
  PROVE  (row' = row /\ op' = op) \/ (\E n, o : Wrote(r, e, n, o))
<1> DEFINE n == After(r, e)
           kind == StepIn(r, n.state)
           t == IF r = "k" THEN K!Transition(row[r], e) ELSE Transition(row[r], e)
<1>1. AfterMove(r, e, n)
  BY AfterMoves
<1>2. OpIsStep(r)
  BY DEF Steps
<1>3. n.state = t.state /\ (n = Gone <=> t = Gone) /\ (e.type = "read" => n = t)
  BY <1>1 DEF AfterMove, Charted
<1>8. row[r] \in RowOf(r) /\ row[r] # Gone
  BY DEF Types, RowTypes, RowOf, Exists, Names
<1>9. n # Gone => StepIn(r, n.state) \in {None, "any"} \cup
                  IF r = "k" THEN {"capture", "deleteCheckpoint"} ELSE MachineKind
  <2>1. CASE r = "k"
    BY <1>1, <2>1, CheckpointStepTable DEF AfterMove, RowOf, KRow, StepIn
  <2>2. CASE r # "k"
    <3>1. n # Gone => n.state \notin {JoinSent, JoinAsked}
      BY <1>1, <2>2 DEF AfterMove, RowOf, MRow, MachineLeaf
    <3> QED
      BY <2>2, <3>1, StepTable DEF StepIn
  <2> QED
    BY <2>1, <2>2
<1>4. CASE Beginning(r, e) /\ ~Busy(LeasesIn(r, kind))
  <2> DEFINE o == [kind |-> kind, leases |-> LeasesIn(r, kind), at |-> "begun",
                   to |-> IF r # "k" THEN row[r].resize ELSE NoSize]
  <2>1. row' = [row EXCEPT ![r] = n] /\ op' = [op EXCEPT ![r] = o]
    BY <1>4 DEF Advance
  <2>2. op[r] = NoOp /\ e.type = "read" /\ t # row[r] /\ n = t
    BY <1>3, <1>4 DEF Beginning, Begins, K!Begins
  <2>3. StepIn(r, row[r].state) = None
    BY <1>2, <2>2 DEF OpIsStep
  <2>4. kind \notin {None, "any"}
    <3>1. CASE r = "k"
      <4>1. t = n /\ n # row[r]
        BY <2>2
      <4> QED
        BY <1>1, <2>2, <2>3, <3>1, <4>1 DEF AfterMove, CheckpointStepMove, StepIn
    <3>2. CASE r # "k"
      BY <1>4, <2>2, <3>2 DEF Beginning, Begins, StepIn
    <3> QED
      BY <3>1, <3>2
  <2>5. n # Gone /\ kind # "publish"
    <3>1. n # Gone
      BY <2>4, GoneStep, GoneApart
    <3> QED
      BY <1>9, <2>4, <3>1 DEF MachineKind
  <2>6. LeasesIn(r, kind) \in SUBSET Lease
    BY <2>5, LeasesTyped DEF Types
  <2>7. r # "k" => row[r].resize \in {NoSize, 2} /\ (kind = "resize" => row[r].resize = 2)
    BY <1>1, <1>8, <2>3 DEF RowOf, MRow, AfterMove, StepIn, Names
  <2>8. o \in OpOf(r)
    BY <1>9, <2>4, <2>5, <2>6, <2>7 DEF OpOf, MachineOp, CheckpointOp
  <2>9. o.kind = "resize" => o.to = 2
    BY <1>9, <2>4, <2>5, <2>7
  <2>10. WriteBegins(r, e, n, o)
    BY <1>4, <2>2, <2>5, <2>8, <2>9 DEF WriteBegins
  <2> HIDE DEF n, o
  <2> QED
    BY <1>1, <2>1, <2>10 DEF Wrote
<1>5. CASE ~Beginning(r, e) /\ Finishing(r, e)
  <2>1. row' = [row EXCEPT ![r] = n] /\ op' = [op EXCEPT ![r] = NoOp]
    BY <1>5 DEF Advance
  <2>2. WriteEnds(r, n, NoOp)
    BY <1>3, <1>5 DEF Finishing, Finishes, K!Finishes, WriteEnds, StepIn, None, K!None
  <2> QED
    BY <1>1, <2>1, <2>2 DEF Wrote
<1>6. CASE ~Beginning(r, e) /\ ~Finishing(r, e)
  <2>1. row' = [row EXCEPT ![r] = n] /\ op' = [op EXCEPT ![r] = op[r]]
    BY <1>6 DEF Advance
  <2>2. ASSUME op[r] # NoOp
        PROVE  n # Gone /\ StepIn(r, n.state) \in {op[r].kind, "any"}
    <3>1. t = row[r] \/ StepIn(r, t.state) # None
      BY <1>6, <2>2 DEF Finishing, Finishes, K!Finishes, StepIn, None, K!None
    <3>2. StepIn(r, "gone") = None
      BY GoneStep
    <3>3. n # Gone
      BY <1>3, <1>8, <3>1, <3>2, GoneApart
    <3>4. StepIn(r, row[r].state) \in {op[r].kind, "any"} /\ op[r].kind # None
      BY <1>2, <2>2 DEF OpIsStep, Types, OpTypes, MachineOp, CheckpointOp, MachineKind, Names, None
    <3>5. StepsOn(r, e, n)
      BY <1>1 DEF AfterMove
    <3> QED
      BY <1>3, <3>1, <3>3, <3>4, <3>5 DEF StepsOn, None
  <2>3. ASSUME op[r] = NoOp, n # Gone
        PROVE  StepIn(r, n.state) = None
    <3>1. StepIn(r, row[r].state) = None
      BY <1>2, <2>3 DEF OpIsStep
    <3>2. CASE e.type # "read" \/ n = row[r]
      BY <1>1, <3>1, <3>2 DEF AfterMove, StepsOn
    <3>3. CASE e.type = "read" /\ n # row[r]
      BY <1>1, <1>3, <1>6, <2>3, <3>1, <3>3 DEF Beginning, Begins, K!Begins, AfterMove, StepsOn,
             StepIn, None, K!None
    <3> QED
      BY <3>2, <3>3
  <2>4. WriteKeeps(r, n, op[r])
    BY <2>2, <2>3 DEF WriteKeeps
  <2> QED
    BY <1>1, <2>1, <2>4 DEF Wrote
<1>7. CASE Beginning(r, e) /\ Busy(LeasesIn(r, kind))
  BY <1>7 DEF Advance
<1> QED
  BY <1>4, <1>5, <1>6, <1>7

--------------------------------------------------------------------------------
(* What a write keeps: the types, that operations are steps, and the leases. *)

\* The other rows and operations stay.
LEMMA WroteElsewhere ==
  ASSUME RowTypes, OpTypes, NEW r \in Names, NEW e, NEW n, NEW o, Wrote(r, e, n, o)
  PROVE  /\ row'[r] = n /\ op'[r] = o
         /\ \A s \in Names \ {r} : row'[s] = row[s] /\ op'[s] = op[s]
         /\ DOMAIN row' = Names /\ DOMAIN op' = Names
BY DEF Wrote, RowTypes, OpTypes

\* The types of rows and operations, said for every name alike.
LEMMA ByName ==
  /\ RowTypes <=> DOMAIN row = Names /\ \A r \in Names : row[r] \in RowOf(r) \cup {Gone}
  /\ OpTypes <=> DOMAIN op = Names /\ \A r \in Names : op[r] \in OpOf(r) \cup {NoOp}
BY DEF RowTypes, OpTypes, RowOf, OpOf, Names, Machines

\* A write keeps the types.
LEMMA WroteTypes ==
  ASSUME RowTypes, OpTypes, NEW r \in Names, NEW e, NEW n, NEW o, Wrote(r, e, n, o)
  PROVE  RowTypes' /\ OpTypes'
<1>1. n \in RowOf(r) \cup {Gone}
  BY DEF Wrote, AfterMove
<1>2. o \in OpOf(r) \cup {NoOp}
  BY ByName DEF Wrote, WriteBegins, WriteEnds, WriteKeeps
<1>3. \A s \in Names : row'[s] \in RowOf(s) \cup {Gone} /\ op'[s] \in OpOf(s) \cup {NoOp}
  BY <1>1, <1>2, WroteElsewhere, ByName
<1>4. RowTypes'
  BY <1>3, WroteElsewhere DEF RowTypes, RowOf, Names, Machines
<1>5. OpTypes'
  BY <1>3, WroteElsewhere DEF OpTypes, OpOf, Names, Machines
<1> QED
  BY <1>4, <1>5

\* A write of a row that stays leaves what its steps lease as it was.
LEMMA LeasesSame ==
  ASSUME NEW r \in Names, NEW kind, row[r] \in RowOf(r), row'[r] \in RowOf(r),
         r # "k" => row'[r].src = row[r].src
  PROVE  LeasesIn(r, kind)' = LeasesIn(r, kind)
BY DEF LeasesIn, MachineLeases, K!LeasesOf, RowOf, KRow

\* A write keeps operations the steps of their rows.
LEMMA WroteSteps ==
  ASSUME RowTypes, OpTypes, Steps, NEW r \in Names, Exists(r), NEW e, NEW n, NEW o, Wrote(r, e, n, o)
  PROVE  Steps'
<1>1. row[r] \in RowOf(r)
  BY ByName DEF Exists
<1>2. n # Gone => \A kind : LeasesIn(r, kind)' = LeasesIn(r, kind)
  BY <1>1, WroteElsewhere, LeasesSame DEF Wrote, AfterMove, MachineMove
<1>3. OpIsStep(r)'
  <2>1. CASE WriteBegins(r, e, n, o)
    <3>1. o # NoOp
      BY <2>1, NoOpApart DEF WriteBegins, OpOf
    <3> QED
      BY <1>2, <2>1, <3>1, WroteElsewhere DEF WriteBegins, OpIsStep, Exists, StepIn
  <2>2. CASE WriteEnds(r, n, o)
    BY <2>2, WroteElsewhere DEF WriteEnds, OpIsStep, Exists, StepIn
  <2>3. CASE WriteKeeps(r, n, o)
    BY <1>2, <2>3, WroteElsewhere DEF WriteKeeps, OpIsStep, Steps, Exists, StepIn
  <2> QED
    BY <2>1, <2>2, <2>3 DEF Wrote
<1>4. ASSUME NEW s \in Names \ {r} PROVE OpIsStep(s)'
  <2>1. row'[s] = row[s] /\ op'[s] = op[s] /\ OpIsStep(s)
    BY WroteElsewhere DEF Steps
  <2>2. \A kind : LeasesIn(s, kind)' = LeasesIn(s, kind)
    BY <2>1 DEF LeasesIn, MachineLeases
  <2> QED
    BY <2>1, <2>2 DEF OpIsStep, Exists, StepIn
<1> QED
  BY <1>3, <1>4 DEF Steps

\* An operation that begins does so only where no other holds a lease against it.
LEMMA WroteApart ==
  ASSUME RowTypes, OpTypes, Apart, NEW r \in Names, NEW e, NEW n, NEW o, Wrote(r, e, n, o)
  PROVE  Apart'
<1>1. CASE WriteBegins(r, e, n, o)
  <2>1. \A s \in Names : op[s] # NoOp => \A w \in o.leases, h \in op[s].leases : ~Conflicting(w, h)
    BY <1>1 DEF WriteBegins, Busy
  <2>2. \A w, h : Conflicting(w, h) <=> Conflicting(h, w)
    BY DEF Conflicting
  <2> QED
    BY <2>1, <2>2, WroteElsewhere DEF Apart
<1>2. CASE WriteEnds(r, n, o) \/ WriteKeeps(r, n, o)
  BY <1>2, WroteElsewhere DEF WriteEnds, WriteKeeps, Apart
<1> QED
  BY <1>1, <1>2 DEF Wrote

\* A write takes the leases of one operation all at once, drops them all, or keeps them.
LEMMA WroteLock ==
  ASSUME RowTypes, OpTypes, NEW r \in Names, NEW e, NEW n, NEW o, Wrote(r, e, n, o)
  PROVE  Lock!Next \/ UNCHANGED HeldLeases
<1> DEFINE Mine(q) == IF q = NoOp THEN {} ELSE {[by |-> r, on |-> l.on, mode |-> l.mode] : l \in q.leases}
<1>1. \A l : l \in HeldLeases' <=> l \in Mine(o) \/ (l \in HeldLeases /\ l.by # r)
  BY WroteElsewhere DEF HeldLeases
<1>2. \A l : l \in HeldLeases /\ l.by = r => l \in Mine(op[r])
  BY DEF HeldLeases
<1>3. Mine(op[r]) \subseteq HeldLeases
  BY DEF HeldLeases
<1>4. CASE WriteEnds(r, n, o)
  <2>1. Mine(o) = {}
    BY <1>4 DEF WriteEnds
  <2>2. HeldLeases' = {l \in HeldLeases : l.by # r}
    BY <1>1, <2>1
  <2> QED
    BY <2>2 DEF Lock!Next, Lock!Drop
<1>5. CASE WriteKeeps(r, n, o)
  <2>1. o = op[r]
    BY <1>5 DEF WriteKeeps
  <2> HIDE DEF Mine
  <2> QED
    BY <1>1, <1>2, <1>3, <2>1
<1>6. CASE WriteBegins(r, e, n, o)
  <2>1. o # NoOp /\ o.leases \subseteq Lease /\ op[r] = NoOp /\ ~Busy(o.leases)
    BY <1>6, NoOpApart DEF WriteBegins, OpOf, MachineOp, CheckpointOp
  <2>2. \A l \in HeldLeases : l.by # r
    BY <1>2, <2>1
  <2>3. Mine(o) \in SUBSET {l \in Lock!Lease : l.by = r}
    BY <2>1 DEF Lock!Lease, Lease
  <2>4. ASSUME NEW l \in Mine(o), NEW h \in HeldLeases PROVE ~Lock!Conflicting(l, h)
    <3>1. PICK w \in o.leases : l = [by |-> r, on |-> w.on, mode |-> w.mode]
      BY <2>1
    <3>2. PICK s \in Names : /\ op[s] # NoOp
                             /\ \E m \in op[s].leases : h = [by |-> s, on |-> m.on, mode |-> m.mode]
      BY DEF HeldLeases
    <3>3. PICK m \in op[s].leases : h = [by |-> s, on |-> m.on, mode |-> m.mode]
      BY <3>2
    <3>4. ~Conflicting(w, m)
      BY <2>1, <3>2 DEF Busy
    <3> QED
      BY <3>1, <3>3, <3>4 DEF Conflicting, Lock!Conflicting
  <2>5. HeldLeases' = HeldLeases \cup Mine(o)
    <3> HIDE DEF Mine
    <3> QED
      BY <1>1, <2>2
  <2> HIDE DEF Mine
  <2>6. Lock!Take(r)
    BY <2>2, <2>3, <2>4, <2>5 DEF Lock!Take
  <2> QED
    BY <2>6 DEF Lock!Next
<1> QED
  BY <1>4, <1>5, <1>6 DEF Wrote

--------------------------------------------------------------------------------
(* The kinds of steps. *)

\* Nothing of a row, an operation or a host.
Quiet == UNCHANGED <<row, op, vm, image>>

\* An event is written on a row.
Advances(r) ==
  /\ Exists(r)
  /\ \E e : EventHere(r, e) /\ Advance(r, e)
  /\ UNCHANGED hostVars

\* A name that is free, or whose checkpoint failed, gets a new row.
Enters(r, m) ==
  /\ ~Exists(r) \/ row[r].state = IF r = "k" THEN "failed" ELSE "undone"
  /\ m \in RowOf(r) /\ m.state = IF r = "k" THEN "capturing.due" ELSE "making.due"
  /\ r = "k" \/ m.src = "a" => StateIn("a", Made)
  /\ row' = [row EXCEPT ![r] = m]
  /\ UNCHANGED <<op, vm, image>>

\* A row at its end is forgotten.
Leaves(r) == Expire(r) /\ UNCHANGED <<op, vm, image>>

ServerStep ==
  \/ Quiet
  \/ \E r \in Names : Advances(r) \/ Leaves(r)
  \/ \E r \in Names : \E m : Enters(r, m)

\* What the control plane holds in memory keeps its type.
Memory == LoopTypes /\ pauser \in {"idle", "waiting"}

\* A wish, a resize or a delete, a look's write, and the end of a step, as events.
LEMMA FollowsAdvance ==
  ASSUME Types, Steps, NEW r \in Names, Follows(r)
  PROVE  Advances(r) /\ Memory'
<1>1. op[r] # NoOp /\ Exists(r) /\ StepEnded(r)
  BY DEF Follows, StepEnded, Steps, OpIsStep
<1>2. EventOf(r) \in EventFor(r)
  <2>1. CASE op[r].at = "lost"
    BY <2>1 DEF EventOf, EventFor, MachineEvent, CheckpointEvent
  <2>2. CASE op[r].at # "lost" /\ r = "k"
    <3>1. op["k"].at \in {"done", "failed", "cleared"}
      BY <1>1, <2>2 DEF StepEnded, Types, OpTypes, CheckpointOp
    <3> QED
      BY <2>2, <3>1 DEF EventOf, EventFor, CheckpointEvent
  <2>3. CASE op[r].at # "lost" /\ r # "k"
    <3>1. op[r].at \in {"done", "failed", "cancelled"} /\ vm[r].size \in {NoSize, 1, 2}
      BY <1>1, <2>3 DEF StepEnded, Types, OpTypes, MachineOp, HostTypes, VM, Names
    <3> QED
      BY <2>3, <3>1 DEF EventOf, EventFor, MachineEvent
  <2> QED
    BY <2>1, <2>2, <2>3
<1> QED
  BY <1>1, <1>2 DEF Follows, Advances, EventHere, Memory, Types, LoopTypes

\* A look that has read what it needs and writes.
LEMMA LookEndsAdvance ==
  ASSUME Types, NEW r \in Names, LookEnds(r)
  PROVE  (Advances(r) \/ Quiet) /\ Memory'
<1>1. Memory'
  BY DEF LookEnds, Memory, Types, LoopTypes, Names, Machines
<1>2. r \in Machines /\ loop[r] \in Look
  BY DEF LookEnds, Types, LoopTypes, Names, Idle
<1>3. CASE Exists(r)
  <2> DEFINE e == IF loop[r].refused THEN [type |-> "refused"]
                  ELSE [type |-> "read", seen |-> loop[r].seen, joins |-> FALSE,
                        awaiting |-> loop[r].after = "k" /\ Unbegun]
  <2>1. e \in MachineEvent /\ e.type \notin {"reported", "lost"}
    BY <1>2 DEF MachineEvent, Look
  <2>2. Advance(r, e)
    BY <1>3 DEF LookEnds
  <2>3. EventHere(r, e)
    BY <1>2, <2>1 DEF EventHere, EventFor, Machines
  <2> HIDE DEF e
  <2> QED
    BY <1>1, <1>3, <2>2, <2>3 DEF LookEnds, Advances
<1>4. CASE ~Exists(r)
  BY <1>1, <1>4 DEF LookEnds, Quiet, hostVars
<1> QED
  BY <1>3, <1>4

\* Any other look.
LEMMA LooksAdvance ==
  ASSUME Types, NEW r \in Names, Looks(r)
  PROVE  Advances(r) /\ Memory'
<1> DEFINE e == [type |-> "read", seen |-> IF r = "b" THEN Seen("b") ELSE "unknown",
                 joins |-> FALSE, awaiting |-> FALSE]
<1>1. Seen("b") \in Seens
  BY DEF Types, HostTypes, VM, Machines, Seen, Seens
<1>2. EventHere(r, e)
  BY <1>1 DEF EventHere, EventFor, MachineEvent, CheckpointEvent, Seens
<1>3. Memory'
  BY DEF Looks, Memory, Types, LoopTypes
<1> QED
  BY <1>2, <1>3 DEF Looks, Advances

\* A look that begins.
LEMMA LookBeginsQuiet ==
  ASSUME Types, NEW r \in Names, LookBegins(r)
  PROVE  Quiet /\ Memory'
<1>1. r \in Machines /\ Exists(r) /\ row[r] \in MRow(r)
  BY DEF LookBegins, Reads, StateIn, Types, RowTypes, Machines, Exists
<1>2. Seen(r) \in Seens
  BY <1>1 DEF Types, HostTypes, VM, Seen, Seens
<1>3. RefusedBySource(r) \in BOOLEAN
  BY DEF RefusedBySource
<1>4. \E l \in Look : loop' = [loop EXCEPT ![r] = l]
  <2>1. Looking("unknown", RefusedBySource(r), None) \in Look
    BY <1>3 DEF Looking, Look, Seens
  <2>2. Looking(Seen(r), FALSE, IF row[r].desired = "paused" THEN row[r].after ELSE None) \in Look
    BY <1>1, <1>2 DEF Looking, Look, MRow
  <2> QED
    BY <2>1, <2>2 DEF LookBegins
<1> QED
  BY <1>1, <1>4 DEF LookBegins, Quiet, hostVars, Memory, Types, LoopTypes, Names, Machines

\* A request writes an event, enters a row or forgets one.
LEMMA ClientSteps ==
  ASSUME Types, Client
  PROVE  ServerStep /\ Memory'
<1> USE DEF Types
<1>1. ASSUME NEW r \in Names, Delete(r) PROVE Advances(r) /\ Memory'
  <2>1. EventHere(r, [type |-> "delete"])
    BY DEF EventHere, EventFor, MachineEvent, CheckpointEvent
  <2> QED
    BY <1>1, <2>1 DEF Delete, Removed, Advances, Memory, LoopTypes
<1>2. ASSUME Sweep PROVE Advances("k") /\ Memory'
  <2>1. EventHere("k", [type |-> "delete"])
    BY DEF EventHere, EventFor, CheckpointEvent
  <2> QED
    BY <1>2, <2>1 DEF Sweep, Removed, Advances, Memory, LoopTypes
<1>3. ASSUME NEW r \in Names, Expire(r) PROVE Leaves(r) /\ Memory'
  BY <1>3 DEF Expire, Leaves, hostVars, Memory, LoopTypes
<1>4. ASSUME NEW wish \in {"running", "paused"}, Ask(wish) PROVE Advances("a") /\ Memory'
  <2>1. EventHere("a", [type |-> "ask", desired |-> wish, after |-> None])
    BY DEF EventHere, EventFor, MachineEvent
  <2> QED
    BY <1>4, <2>1 DEF Ask, Advances, Memory, LoopTypes
<1>5. ASSUME Resize PROVE Advances("a") /\ Memory'
  <2>1. EventHere("a", [type |-> "resize", sizing |-> 2])
    BY DEF EventHere, EventFor, MachineEvent
  <2> QED
    BY <1>5, <2>1 DEF Resize, StateIn, Advances, Memory, LoopTypes
<1>6. ASSUME PauseAsks PROVE (Advances("a") \/ Quiet) /\ Memory'
  <2>1. EventHere("a", [type |-> "ask", desired |-> "paused", after |-> "k"])
    BY DEF EventHere, EventFor, MachineEvent
  <2> QED
    BY <1>6, <2>1 DEF PauseAsks, Advances, Quiet, hostVars, Memory, LoopTypes
<1>7. ASSUME Capturing, UNCHANGED <<op, loop, hostVars>> PROVE \E m : Enters("k", m)
  <2>1. row["a"].size \in {1, 2}
    BY <1>7 DEF Capturing, StateIn, Exists, RowTypes, Machines, MRow
  <2>2. Captured \in KRow
    BY <2>1 DEF Captured, KRow, CheckpointLeaf
  <2> QED
    BY <1>7, <2>2 DEF Capturing, Enters, RowOf, Captured, hostVars
<1>8. ASSUME Capture \/ PauseCaptures PROVE (\E m : Enters("k", m)) /\ Memory'
  BY <1>7, <1>8 DEF Capture, PauseCaptures, Memory, LoopTypes
<1>9. ASSUME Create PROVE (\E m : Enters("a", m)) /\ Memory'
  <2>1. /\ Born("base", 1) \in MRow("a") /\ Born("base", 1).state = "making.due"
        /\ Born("base", 1).src # "a"
    BY DEF Born, MRow, MachineLeaf, Leaf, Making, Sources, JoinSent, JoinAsked
  <2> QED
    BY <1>9, <2>1 DEF Create, Free, Enters, RowOf, hostVars, Memory, LoopTypes
<1>10. ASSUME NEW src \in {"a", "k"}, row[src].size \in {1, 2}, Copy(src), src = "a" => StateIn("a", Made)
       PROVE  (\E m : Enters("b", m)) /\ Memory'
  <2>1. /\ Born(src, row[src].size) \in MRow("b") /\ Born(src, row[src].size).state = "making.due"
        /\ Born(src, row[src].size).src = src
    BY <1>10 DEF Born, MRow, MachineLeaf, Leaf, Making, Sources, JoinSent, JoinAsked
  <2> QED
    BY <1>10, <2>1 DEF Copy, Free, Enters, RowOf, hostVars, Memory, LoopTypes
<1>11. ASSUME Fork \/ Restore PROVE (\E m : Enters("b", m)) /\ Memory'
  <2>1. Fork => row["a"].size \in {1, 2}
    BY DEF Fork, StateIn, Exists, RowTypes, Machines, MRow
  <2>2. Restore => row["k"].size \in {1, 2}
    BY DEF Restore, StateIn, Exists, RowTypes, KRow
  <2> QED
    BY <1>10, <1>11, <2>1, <2>2 DEF Fork, Restore
<1> QED
  BY <1>1, <1>2, <1>3, <1>4, <1>5, <1>6, <1>8, <1>9, <1>11 DEF Client, ServerStep, Names, Machines

\* A row that enters has no operation, and leaves every other as it is.
LEMMA EntersKeeps ==
  ASSUME RowTypes, OpTypes, Steps, Apart, NEW r \in Names, NEW m, Enters(r, m)
  PROVE  RowTypes' /\ OpTypes' /\ Steps' /\ Apart' /\ UNCHANGED HeldLeases /\ op[r] = NoOp
<1>1. row'[r] = m /\ DOMAIN row' = Names /\ op' = op /\ \A s \in Names \ {r} : row'[s] = row[s]
  BY DEF Enters, RowTypes
<1>2. op[r] = NoOp
  <2>1. StepOf("undone") \notin {"any"} \cup MachineKind
        /\ K!StepOf("failed") \notin {"any", "capture", "deleteCheckpoint"}
    BY StepTable, CheckpointStepTable DEF MachineKind, CheckpointLeaf, Starting, Stopping,
           Pausing, Resizing
  <2>2. op[r] # NoOp => op[r].kind \in IF r = "k" THEN {"capture", "deleteCheckpoint"} ELSE MachineKind
    BY ByName DEF OpOf, MachineOp, CheckpointOp
  <2> QED
    BY <2>1, <2>2 DEF Enters, Steps, OpIsStep, StepIn
<1>3. RowTypes'
  <2>1. \A s \in Names : row'[s] \in RowOf(s) \cup {Gone}
    BY <1>1, ByName DEF Enters
  <2> QED
    BY <1>1, <2>1 DEF RowTypes, RowOf, Names, Machines
<1>4. OpTypes' /\ Apart' /\ UNCHANGED HeldLeases
  BY <1>1 DEF OpTypes, Apart, HeldLeases
<1>5. Steps'
  <2>1. OpIsStep(r)'
    <3>1. StepIn(r, m.state) = None
      BY StepTable, CheckpointStepTable DEF Enters, StepIn, MachineKind, CheckpointLeaf, Starting,
             Stopping, Pausing,
                                            Resizing, JoinSent, JoinAsked
    <3> QED
      BY <1>1, <1>2, <3>1 DEF OpIsStep, StepIn
  <2>2. ASSUME NEW s \in Names \ {r} PROVE OpIsStep(s)'
    <3>1. row'[s] = row[s] /\ op'[s] = op[s] /\ OpIsStep(s)
      BY <1>1 DEF Steps
    <3>2. \A kind : LeasesIn(s, kind)' = LeasesIn(s, kind)
      BY <3>1 DEF LeasesIn, MachineLeases
    <3> QED
      BY <3>1, <3>2 DEF OpIsStep, Exists, StepIn
  <2> QED
    BY <2>1, <2>2 DEF Steps
<1> QED
  BY <1>2, <1>3, <1>4, <1>5

\* So does a row that is forgotten.
LEMMA LeavesKeeps ==
  ASSUME RowTypes, OpTypes, Steps, Apart, NEW r \in Names, Leaves(r)
  PROVE  RowTypes' /\ OpTypes' /\ Steps' /\ Apart' /\ UNCHANGED HeldLeases /\ op[r] = NoOp
<1>1. row'[r] = Gone /\ DOMAIN row' = Names /\ op' = op /\ \A s \in Names \ {r} : row'[s] = row[s]
  BY DEF Leaves, Expire, RowTypes
<1>2. op[r] = NoOp
  <2>1. \A l \in {"undone", "failed"} : StepOf(l) \notin {"any"} \cup MachineKind
          /\ K!StepOf("failed") \notin {"any", "capture", "deleteCheckpoint"}
    BY StepTable, CheckpointStepTable DEF MachineKind, CheckpointLeaf, Starting, Stopping,
           Pausing, Resizing
  <2>2. op[r] # NoOp => op[r].kind \in IF r = "k" THEN {"capture", "deleteCheckpoint"} ELSE MachineKind
    BY ByName DEF OpOf, MachineOp, CheckpointOp
  <2>3. row[r] \in RowOf(r) /\ row[r].state \in {"undone", "failed"}
    BY ByName DEF Leaves, Expire, StateIn, Exists
  <2>4. r = "k" => row[r].state = "failed"
    BY <2>3 DEF RowOf, KRow, CheckpointLeaf, K!Discarding, K!Deleting
  <2> QED
    BY <2>1, <2>2, <2>3, <2>4 DEF Steps, OpIsStep, StepIn
<1>3. RowTypes'
  <2>1. \A s \in Names : row'[s] \in RowOf(s) \cup {Gone}
    BY <1>1, ByName
  <2> QED
    BY <1>1, <2>1 DEF RowTypes, RowOf, Names, Machines
<1>4. OpTypes' /\ Apart' /\ UNCHANGED HeldLeases
  BY <1>1 DEF OpTypes, Apart, HeldLeases
<1>5. Steps'
  <2>1. OpIsStep(r)'
    BY <1>1, <1>2 DEF OpIsStep, Exists
  <2>2. ASSUME NEW s \in Names \ {r} PROVE OpIsStep(s)'
    <3>1. row'[s] = row[s] /\ op'[s] = op[s] /\ OpIsStep(s)
      BY <1>1 DEF Steps
    <3>2. \A kind : LeasesIn(s, kind)' = LeasesIn(s, kind)
      BY <3>1 DEF LeasesIn, MachineLeases
    <3> QED
      BY <3>1, <3>2 DEF OpIsStep, Exists, StepIn
  <2> QED
    BY <2>1, <2>2 DEF Steps
<1> QED
  BY <1>2, <1>3, <1>4, <1>5

\* A process of the host only says how far an operation is.
Progress ==
  /\ row' = row /\ DOMAIN op' = Names
  /\ \A s \in Names :
       /\ op[s] = NoOp => op'[s] = NoOp
       /\ op[s] # NoOp => /\ op'[s] \in OpOf(s)
                          /\ op'[s].kind = op[s].kind /\ op'[s].leases = op[s].leases /\ op'[s].to = op[s].to

\* It changes no row, no lease and no kind, so what is said of those stays.
LEMMA ProgressKeeps ==
  ASSUME RowTypes, OpTypes, Steps, Apart, Progress
  PROVE  RowTypes' /\ OpTypes' /\ Steps' /\ Apart' /\ UNCHANGED HeldLeases
<1>1. \A s \in Names : op'[s] = NoOp <=> op[s] = NoOp
  BY NoOpApart DEF Progress, OpOf
<1>2. RowTypes' /\ OpTypes'
  <2>1. \A s \in Names : op'[s] \in OpOf(s) \cup {NoOp}
    BY DEF Progress
  <2> QED
    BY <2>1 DEF Progress, RowTypes, OpTypes, OpOf, Names, Machines
<1>3. Steps'
  <2>1. ASSUME NEW s \in Names PROVE OpIsStep(s)'
    <3>1. \A kind : LeasesIn(s, kind)' = LeasesIn(s, kind)
      BY DEF Progress, LeasesIn, MachineLeases
    <3> QED
      BY <1>1, <3>1 DEF Progress, Steps, OpIsStep, Exists, StepIn
  <2> QED
    BY <2>1 DEF Steps
<1>4. Apart'
  BY <1>1 DEF Progress, Apart
<1>5. UNCHANGED HeldLeases
  <2> DEFINE Of(r) == IF op[r] = NoOp THEN {}
                      ELSE {[by |-> r, on |-> l.on, mode |-> l.mode] : l \in op[r].leases}
  <2>1. \A r \in Names : Of(r)' = Of(r)
    BY <1>1 DEF Progress
  <2> HIDE DEF Of
  <2>2. HeldLeases = UNION {Of(r) : r \in Names} /\ HeldLeases' = UNION {Of(r)' : r \in Names}
    BY DEF HeldLeases, Of
  <2> QED
    BY <2>1, <2>2
<1> QED
  BY <1>2, <1>3, <1>4, <1>5

--------------------------------------------------------------------------------
(* The steps of the host. *)

\* A step begins its work, or is refused or lost as it would.
Starts(s) ==
  /\ op[s] # NoOp /\ op[s].at = "begun"
  /\ op'[s].at \in {"running", "failed", "cleared", "lost"}
  /\ op'[s].at = "running" => CanDo(s)
  /\ op'[s].at = "cleared" => op[s].kind = "capture"

Cuts == {"failed", "cancelled", "lost"}

\* What a step of the host may do to a machine and its operation.
MachineWork(s) ==
  \/ vm'[s] = vm[s] /\ (op'[s] = op[s] \/ Starts(s) \/ (op[s] # NoOp /\ op'[s].at = "lost"))
  \/ Running(s) /\ op'[s].at = "done" /\ vm'[s] = DoneVM(s)
  \/ Running(s) /\ op'[s].at \in Cuts /\ vm'[s] \in CutVMs(s)

\* And to the checkpoint and its operation.
ImageWork ==
  \/ image' = image /\ (op'["k"] = op["k"] \/ Starts("k") \/ (op["k"] # NoOp /\ op'["k"].at = "lost"))
  \/ Running("k") /\ op'["k"].at = "done" /\ image' = DoneImage
  \/ /\ Running("k") /\ op'["k"].at \in Cuts \cup {"cleared"} /\ image' \in CutImages
     /\ op'["k"].at = "cleared" => op["k"].kind = "capture" /\ image' = NoImage

HostStep ==
  /\ Progress
  /\ \A s \in Machines : MachineWork(s)
  /\ ImageWork

\* What a step leaves on the host, done or cut short, is of its type.
LEMMA EffectTypes ==
  ASSUME RowTypes, OpTypes, HostTypes, NEW r \in Machines, Exists(r), op[r] # NoOp
  PROVE  DoneVM(r) \in VM /\ CutVMs(r) \subseteq VM
<1>1. op[r] \in MachineOp /\ row[r] \in MRow(r) /\ vm[r] \in VM /\ vm["a"] \in VM /\ image \in Image
  BY DEF OpTypes, RowTypes, Exists, HostTypes, Machines
<1>2. row[r].size \in {1, 2} /\ row[r].src \in {"base", "a", "k"}
  BY <1>1 DEF MRow, Sources
<1>3. SizeOf(row[r].src) \in {NoSize, 1, 2} \/ row[r].src = "base"
  BY <1>1, <1>2 DEF SizeOf, VM, Image
<1>4. \A v \in VM : /\ \A is \in {"none", "partial", "up", "ready", "stopped", "paused"} :
                         [v EXCEPT !.is = is] \in VM
                    /\ [v EXCEPT !.size = op[r].to] \in VM
  BY <1>1 DEF VM, MachineOp, NoSize
<1>5. NoVM \in VM
  BY DEF NoVM, VM, NoSize
<1>6. DoneVM(r) \in VM
  <2>1. CASE op[r].kind = "make" /\ row[r].src = "base"
    BY <1>2, <2>1 DEF DoneVM, VM
  <2>2. CASE op[r].kind = "make" /\ row[r].src # "base"
    BY <1>2, <1>3, <2>2 DEF DoneVM, VM
  <2>3. CASE op[r].kind = "pause"
    BY <1>1, <2>3 DEF DoneVM, VM
  <2>4. CASE op[r].kind \notin {"make", "pause"}
    BY <1>1, <1>4, <1>5, <2>4 DEF DoneVM, MachineOp, MachineKind
  <2> QED
    BY <2>1, <2>2, <2>3, <2>4
<1> HIDE DEF VM
<1> QED
  BY <1>1, <1>4, <1>5, <1>6 DEF CutVMs

\* What a capture or a delete leaves of the checkpoint is of its type.
LEMMA ImageTypes ==
  ASSUME HostTypes
  PROVE  DoneImage \in Image /\ CutImages \subseteq Image
<1>1. DoneImage \in Image
  BY DEF HostTypes, Machines, VM, Image, DoneImage, NoImage, Up, NoSize
<1>2. NoImage \in Image /\ \A i \in Image : [i EXCEPT !.is = "partial"] \in Image
  BY DEF Image, NoImage, NoSize
<1> QED
  BY <1>1, <1>2 DEF HostTypes, CutImages

\* A host's step leaves VMs and images of their types.
LEMMA HostStepTypes ==
  ASSUME RowTypes, OpTypes, Steps, HostTypes, DOMAIN vm' = Machines, vm' = [s \in Machines |-> vm'[s]], HostStep
  PROVE  HostTypes'
<1>1. ASSUME NEW s \in Machines PROVE vm'[s] \in VM
  <2>1. vm[s] \in VM /\ (Running(s) => Exists(s) /\ op[s] # NoOp)
    BY DEF HostTypes, Running, Steps, OpIsStep, Names
  <2> QED
    BY <2>1, EffectTypes DEF HostStep, MachineWork
<1>2. image' \in Image
  BY ImageTypes DEF HostStep, ImageWork, HostTypes
<1> QED
  BY <1>1, <1>2 DEF HostTypes

\* A step that only moves its own operation on.
LEMMA AtProgress ==
  ASSUME OpTypes, row' = row, NEW r \in Names, op[r] # NoOp, NEW at, At(r, at),
         at \in {"running", "done", "failed", "lost"} \cup IF r = "k" THEN {"cleared"} ELSE {"cancelled"}
  PROVE  /\ Progress
         /\ op'[r].at = at
         /\ \A s \in Names \ {r} : op'[s] = op[s]
<1>1. op[r] \in OpOf(r) /\ DOMAIN op = Names /\ \A s \in Names : op[s] \in OpOf(s) \cup {NoOp}
  BY ByName
<1>2. op' = [op EXCEPT ![r] = [op[r] EXCEPT !.at = at]]
  BY DEF At
<1>3. [op[r] EXCEPT !.at = at] \in OpOf(r)
  BY <1>1 DEF OpOf, MachineOp, CheckpointOp
<1>4. /\ [op[r] EXCEPT !.at = at].kind = op[r].kind /\ [op[r] EXCEPT !.at = at].leases = op[r].leases
      /\ [op[r] EXCEPT !.at = at].to = op[r].to /\ [op[r] EXCEPT !.at = at].at = at
  BY <1>1 DEF OpOf, MachineOp, CheckpointOp
<1> QED
  BY <1>1, <1>2, <1>3, <1>4 DEF Progress

\* Each of the four things a host does with an operation is a step of the host.
LEMMA WorkHosts ==
  ASSUME Types, Steps, NEW r \in Names, Work(r)
  PROVE  HostStep /\ HostTypes' /\ Memory'
<1>1. Memory' /\ op[r] # NoOp /\ row' = row
  BY DEF Work, Runs, WorkDone, WorkFails, WorkCancelled, Running, Types, Memory, LoopTypes
<1>2. vm' = [s \in Machines |-> vm'[s]] /\ DOMAIN vm' = Machines
  BY DEF Work, Runs, WorkDone, WorkFails, WorkCancelled, MachineCut, Types, HostTypes, hostVars
<1>3. op[r].kind = "capture" => r = "k"
  BY <1>1 DEF Types, OpTypes, MachineOp, MachineKind, Names
<1>4. ASSUME Runs(r) PROVE HostStep
  <2>1. PICK at : At(r, at) /\ at \in {"running", "failed", "cleared", "lost"} /\ (at = "running" => CanDo(r))
                  /\ (at = "cleared" => op[r].kind = "capture")
    BY <1>4 DEF Runs
  <2>2. Progress /\ op'[r].at = at /\ \A s \in Names \ {r} : op'[s] = op[s]
    BY <1>1, <1>3, <2>1, AtProgress DEF Types
  <2>3. Starts(r) /\ vm' = vm /\ image' = image
    BY <1>1, <1>4, <2>1, <2>2 DEF Starts, Runs, hostVars
  <2>4. ASSUME NEW s \in Machines PROVE MachineWork(s)
    BY <2>2, <2>3 DEF MachineWork, Names
  <2>5. ImageWork
    BY <2>2, <2>3 DEF ImageWork, Names
  <2> QED
    BY <2>2, <2>4, <2>5 DEF HostStep
<1>5. ASSUME WorkDone(r) PROVE HostStep
  <2>1. Progress /\ op'[r].at = "done" /\ \A s \in Names \ {r} : op'[s] = op[s]
    BY <1>1, <1>5, AtProgress DEF WorkDone, Types
  <2>2. ASSUME NEW s \in Machines PROVE MachineWork(s)
    <3>1. s # "k" /\ s \in Names /\ s \in DOMAIN vm
      BY DEF Machines, Names, Types, HostTypes
    <3> QED
      BY <1>5, <2>1, <3>1 DEF WorkDone, MachineWork
  <2>3. ImageWork
    BY <1>5, <2>1 DEF WorkDone, ImageWork, Names
  <2> QED
    BY <2>1, <2>2, <2>3 DEF HostStep
<1>6. ASSUME WorkFails(r) /\ r = "k" PROVE HostStep
  <2>1. PICK at \in {"cleared", "failed"} : At("k", at)
             /\ (at = "cleared" => op["k"].kind = "capture" /\ image' = NoImage)
    BY <1>6 DEF WorkFails, CheckpointFails
  <2>2. Progress /\ op'["k"].at = at /\ \A s \in Names \ {"k"} : op'[s] = op[s]
    BY <1>1, <1>6, <2>1, AtProgress DEF Types, Names
  <2>3. ASSUME NEW s \in Machines PROVE MachineWork(s)
    <3>1. s \in Names \ {"k"}
      BY DEF Machines, Names
    <3> QED
      BY <1>6, <2>2, <3>1 DEF WorkFails, MachineWork
  <2>4. ImageWork
    BY <1>6, <2>1, <2>2 DEF WorkFails, CheckpointFails, ImageWork, Cuts
  <2> QED
    BY <2>2, <2>3, <2>4 DEF HostStep
<1>7. ASSUME (WorkFails(r) /\ r # "k") \/ WorkCancelled(r) PROVE HostStep
  <2>1. PICK at \in {"failed", "cancelled"} : At(r, at) /\ r # "k"
             /\ MachineCut(r) /\ image' = image /\ Running(r)
    BY <1>7 DEF WorkFails, WorkCancelled
  <2>2. Progress /\ op'[r].at = at /\ \A s \in Names \ {r} : op'[s] = op[s]
    BY <1>1, <2>1, AtProgress DEF Types
  <2>3. ASSUME NEW s \in Machines PROVE MachineWork(s)
    <3>1. s \in Names /\ s \in DOMAIN vm
      BY DEF Machines, Names, Types, HostTypes
    <3> QED
      BY <2>1, <2>2, <3>1 DEF MachineCut, MachineWork, Cuts
  <2>4. ImageWork
    BY <2>1, <2>2 DEF ImageWork, Names
  <2> QED
    BY <2>2, <2>3, <2>4 DEF HostStep
<1>8. HostStep
  BY <1>4, <1>5, <1>6, <1>7 DEF Work
<1> QED
  BY <1>1, <1>2, <1>8, HostStepTypes DEF Types

\* A host that starts again loses every operation and cuts those it was running.
LEMMA RebootHosts ==
  ASSUME Types, Steps, Reboot
  PROVE  HostStep /\ HostTypes' /\ Memory'
<1>1. Memory' /\ row' = row
      /\ op' = [r \in Names |-> IF op[r] = NoOp THEN NoOp ELSE [op[r] EXCEPT !.at = "lost"]]
  BY DEF Reboot, Types, Memory, LoopTypes
<1>2. ASSUME NEW s \in Names, op[s] # NoOp
      PROVE  /\ op'[s] \in OpOf(s) /\ op'[s].at = "lost" /\ op'[s].kind = op[s].kind
             /\ op'[s].leases = op[s].leases /\ op'[s].to = op[s].to
  <2>1. op[s] \in OpOf(s)
    BY <1>2, ByName DEF Types
  <2> QED
    BY <1>1, <1>2, <2>1 DEF OpOf, MachineOp, CheckpointOp
<1>3. Progress
  BY <1>1, <1>2 DEF Progress
<1>4. ASSUME NEW s \in Machines PROVE MachineWork(s)
  <2>1. vm'[s] \in IF Running(s) THEN CutVMs(s) ELSE {vm[s]}
    BY DEF Reboot, Machines
  <2>2. op[s] = NoOp => op'[s] = op[s]
    BY <1>1 DEF Names
  <2> QED
    BY <1>2, <2>1, <2>2 DEF MachineWork, Running, Cuts, Names
<1>5. ImageWork
  <2>1. image' \in IF Running("k") THEN CutImages ELSE {image}
    BY DEF Reboot
  <2>2. op["k"] = NoOp => op'["k"] = op["k"]
    BY <1>1 DEF Names
  <2> QED
    BY <1>2, <2>1, <2>2 DEF ImageWork, Running, Cuts, Names
<1>6. HostStep
  BY <1>3, <1>4, <1>5 DEF HostStep
<1>7. vm' = [s \in Machines |-> vm'[s]] /\ DOMAIN vm' = Machines
  BY DEF Reboot
<1> QED
  BY <1>1, <1>6, <1>7, HostStepTypes DEF Types

--------------------------------------------------------------------------------
(* What leases are for. *)

\* While a step has its operation, what it copies has none: the step shares its
\* source, which any operation of the source owns.
LEMMA SourceFree ==
  ASSUME Types, Steps, Apart, NEW r \in Names, op[r] # NoOp, SourceOf(r) \in Names
  PROVE  op[SourceOf(r)] = NoOp /\ SourceOf(r) # r
<1> DEFINE s == SourceOf(r)
<1>1. op[r].leases = LeasesIn(r, op[r].kind) /\ Exists(r)
  BY DEF Steps, OpIsStep
<1>2. s # r /\ [on |-> s, mode |-> "share"] \in op[r].leases
  <2>1. CASE r = "k"
    <3>1. op["k"].kind = "capture" /\ row["k"].machine = "a"
      BY <1>1, <2>1 DEF SourceOf, Types, OpTypes, CheckpointOp, RowTypes, KRow, Exists, Names,
             Machines
    <3> QED
      BY <1>1, <2>1, <3>1 DEF SourceOf, LeasesIn, K!LeasesOf
  <2>2. CASE r # "k"
    <3>1. op[r].kind = "make" /\ r \in Machines /\ row[r].src \in Sources(r)
      BY <1>1, <2>2 DEF SourceOf, Types, OpTypes, MachineOp, MachineKind, RowTypes, MRow, Exists,
             Names, Machines
    <3>2. row[r].src # r /\ row[r].src # "base" /\ s = row[r].src
      BY <3>1 DEF Sources, SourceOf, Names, Machines
    <3> QED
      BY <1>1, <2>2, <3>1, <3>2 DEF LeasesIn, MachineLeases
  <2> QED
    BY <2>1, <2>2
<1>3. op[s] # NoOp => [on |-> s, mode |-> "own"] \in op[s].leases
  <2>1. op[s] # NoOp => op[s].leases = LeasesIn(s, op[s].kind) /\ op[s].kind # "join"
    BY ByName DEF Steps, OpIsStep, Types, OpOf, MachineOp, CheckpointOp, MachineKind
  <2> QED
    BY <2>1 DEF LeasesIn, MachineLeases, K!LeasesOf
<1> QED
  BY <1>2, <1>3 DEF Apart, Conflicting

--------------------------------------------------------------------------------
(* What the rows say of the host: the control plane's steps. *)

\* A row whose step completes has an operation that is done.
LEMMA CompletesHas ==
  ASSUME Types, NEW r \in Names, NEW e, EventHere(r, e), Completes(e)
  PROVE  op[r] # NoOp /\ op[r].at = "done"
BY DEF EventHere, Completes, StepEnded, EventOf

\* A step that cleared what it made says so.
LEMMA ClearsHas ==
  ASSUME Types, NEW e, EventHere("k", e), Clears(e)
  PROVE  op["k"] # NoOp /\ op["k"].at = "cleared"
<1>1. op["k"] # NoOp /\ e = EventOf("k") /\ e.type = "reported" /\ e.cleared
  BY DEF EventHere, Clears, StepEnded
<1>2. e.cleared = (op["k"].at = "cleared")
  BY <1>1 DEF EventOf
<1> QED
  BY <1>1, <1>2, Zenon

\* Which operation a row at a leaf with a step has.
LEMMA OpAtLeaf ==
  ASSUME Types, Steps, NEW r \in Names, Exists(r)
  PROVE  /\ r # "k" /\ row[r].state = "making.sent" => op[r] # NoOp /\ op[r].kind = "make"
         /\ r # "k" /\ row[r].state \in {"undoing.sent", "deleting.sent"} =>
              op[r] # NoOp /\ op[r].kind = "remove"
         /\ r # "k" /\ row[r].state \in Made /\ op[r] # NoOp =>
              op[r].kind \in {"start", "stop", "pause", "resize"}
         /\ r # "k" /\ row[r].state \in {"undone", "making.due"} => op[r] = NoOp
         /\ r = "k" /\ row[r].state = "capturing.sent" => op[r] # NoOp /\ op[r].kind = "capture"
         /\ r = "k" /\ row[r].state \in {"discarding.sent", "deleting.sent"} =>
              op[r] # NoOp /\ op[r].kind = "deleteCheckpoint"
         /\ r = "k" /\ row[r].state \in {"capturing.due", "ready", "failed"} => op[r] = NoOp
<1>1. OpIsStep(r) /\ row[r] \in RowOf(r) /\ op[r] \in OpOf(r) \cup {NoOp}
  BY ByName DEF Steps, Types, Exists
<1>2. CASE r = "k"
  <2>1. row[r].state \in CheckpointLeaf
    BY <1>1, <1>2 DEF RowOf, KRow
  <2>2. op[r] # NoOp => op[r].kind \in {"capture", "deleteCheckpoint"}
    BY <1>1, <1>2 DEF OpOf, CheckpointOp
  <2> QED
    BY <1>1, <1>2, <2>1, <2>2, CheckpointStepTable DEF OpIsStep, StepIn, None
<1>3. CASE r # "k"
  <2>1. row[r].state \in MachineLeaf
    BY <1>1, <1>3 DEF RowOf, MRow
  <2>2. op[r] # NoOp => op[r].kind \in MachineKind
    BY <1>1, <1>3 DEF OpOf, MachineOp
  <2>3. StepOf("undone") = None /\ StepOf("making.due") = None
    BY StepTable DEF MachineKind, Starting, Stopping, Pausing, Resizing, JoinSent, JoinAsked
  <2>4. row[r].state \in Made => StepOf(row[r].state) \in {None, "start", "stop", "pause", "resize"}
    BY <2>1, StepTable DEF MachineLeaf, Made, Standing, Stepping, MachineKind, Starting, Stopping,
           Pausing, Resizing,
         JoinSent, JoinAsked
  <2> QED
    BY <1>1, <1>3, <2>2, <2>3, <2>4, StepTable DEF OpIsStep, StepIn, None, MachineKind
<1> QED
  BY <1>2, <1>3

\* A write keeps what its own machine's row says of the host.
LEMMA WroteHolds ==
  ASSUME Types, Steps, NEW r \in Names, Exists(r), NEW e, EventHere(r, e), NEW n, NEW o, Wrote(r, e, n, o),
         UNCHANGED hostVars, NEW s \in Machines, Holds(s)
  PROVE  Holds(s)'
<1>1. vm' = vm /\ s \in Names
  BY DEF hostVars, Names
<1>2. CASE s # r
  <2>1. row'[s] = row[s] /\ op'[s] = op[s]
    BY <1>1, <1>2, WroteElsewhere DEF Types
  <2> QED
    BY <1>1, <2>1 DEF Holds, Free, Exists, Has, Whole, StateIn
<1>3. CASE s = r
  <2>0. r # "k" /\ MachineMove(r, row[r], e, n) /\ row'[r] = n /\ op'[r] = o
    BY <1>3, WroteElsewhere DEF Wrote, AfterMove, Machines, Types
  <2>1. Free(r)' \/ Has(r, "remove", "done")' => vm[r] = NoVM
    <3>1. Free(r)' => Free(r) \/ Has(r, "remove", "done")
      BY <2>0, CompletesHas, OpAtLeaf DEF Free, Exists, MachineMove, Has
    <3>2. Has(r, "remove", "done")' => Has(r, "remove", "done")
      BY <2>0 DEF Has, Wrote, WriteBegins, WriteEnds, WriteKeeps
    <3> QED
      BY <1>3, <3>1, <3>2 DEF Holds
  <2>2. StateIn(r, Made)' => Whole(r)
    <3>1. n.state \in Made => row[r].state \in Made \/ Has(r, "make", "done")
      BY <2>0, CompletesHas, OpAtLeaf DEF MachineMove, Has
    <3> QED
      BY <1>3, <2>0, <3>1 DEF Holds, StateIn
  <2>3. Has(r, "make", "done")' => Whole(r)
    BY <1>3, <2>0 DEF Has, Wrote, WriteBegins, WriteEnds, WriteKeeps, Holds
  <2>4. o # NoOp /\ o.kind \in {"start", "stop", "pause", "resize"} => Whole(r)
    <3>1. CASE WriteBegins(r, e, n, o)
      <4>1. o.kind \in {"start", "stop", "pause", "resize"} => n.state \in Stepping
        BY <2>0, <3>1, StepTable DEF WriteBegins, StepIn, Stepping
      <4>2. o.kind \in {"start", "stop", "pause", "resize"} => n # Gone /\ n.state \in Made
        BY <3>1, <4>1 DEF Made, WriteBegins
      <4> QED
        BY <2>0, <2>2, <4>2 DEF StateIn, Exists
    <3>2. CASE ~WriteBegins(r, e, n, o)
      BY <1>3, <3>2 DEF Wrote, WriteEnds, WriteKeeps, Holds
    <3> QED
      BY <3>1, <3>2
  <2>5. o # NoOp /\ o.kind = "resize" => o.to = 2
    BY <1>3 DEF Wrote, WriteBegins, WriteEnds, WriteKeeps, Holds
  <2> QED
    BY <1>1, <1>3, <2>0, <2>1, <2>2, <2>3, <2>4, <2>5 DEF Holds, Whole
<1> QED
  BY <1>2, <1>3

\* A write keeps the sizes of "a" known: the end of a resize tells them.
LEMMA WroteSizes ==
  ASSUME Types, Steps, NEW r \in Names, Exists(r), NEW e, EventHere(r, e), NEW n, NEW o, Wrote(r, e, n, o),
         UNCHANGED hostVars, SizesKnown, Holds("a"), Holds("a")'
  PROVE  SizesKnown'
<1>1. vm' = vm
  BY DEF hostVars
<1>2. CASE r # "a"
  <2>1. row'["a"] = row["a"] /\ op'["a"] = op["a"]
    BY <1>2, WroteElsewhere DEF Types, Names, Machines
  <2> QED
    BY <1>1, <2>1 DEF SizesKnown, Whole
<1>3. CASE r = "a"
  <2>0. row'["a"] = n /\ op'["a"] = o
    BY <1>3, WroteElsewhere DEF Types
  <2> SUFFICES ASSUME Whole("a"), o = NoOp \/ o.kind # "resize"
               PROVE  n.size = vm["a"].size
    BY <1>1, <2>0 DEF SizesKnown, Whole
  <2>1. n # Gone
    BY <1>1, <2>0 DEF Holds, Free, Exists, NoVM, Whole
  <2>2. n.size = IF StepEnded("a") /\ e = EventOf("a") /\ op["a"].kind = "resize"
                 THEN vm["a"].size ELSE row["a"].size
    BY <1>3, <2>1 DEF Wrote, AfterMove
  <2>3. op["a"] # NoOp /\ op["a"].kind = "resize" => StepEnded("a") /\ e = EventOf("a")
    <3> SUFFICES ASSUME op["a"] # NoOp, op["a"].kind = "resize" PROVE e.type \in {"reported", "lost"}
      BY <1>3 DEF EventHere
    <3>1. StepIn("a", n.state) = None
      BY <1>3, <2>1 DEF Wrote, WriteBegins, WriteEnds, WriteKeeps
    <3>2. StepIn("a", row["a"].state) # None
      BY <1>3 DEF Steps, OpIsStep, None
    <3> QED
      BY <1>3, <3>1, <3>2 DEF Wrote, AfterMove, StepsOn
  <2> QED
    BY <2>2, <2>3 DEF SizesKnown, Whole
<1> QED
  BY <1>2, <1>3

\* A write keeps what is known of a fork.
LEMMA WroteForking ==
  ASSUME Types, Steps, NEW r \in Names, Exists(r), NEW e, EventHere(r, e), NEW n, NEW o, Wrote(r, e, n, o),
         UNCHANGED hostVars, Forking
  PROVE  Forking'
<1>1. vm' = vm
  BY DEF hostVars
<1>2. CASE r # "b"
  <2>1. row'["b"] = row["b"] /\ op'["b"] = op["b"]
    BY <1>2, WroteElsewhere DEF Types, Names, Machines
  <2> QED
    BY <1>1, <2>1 DEF Forking, Exists, Has
<1>3. CASE r = "b"
  <2>0. row'["b"] = n /\ op'["b"] = o /\ MachineMove("b", row["b"], e, n)
    BY <1>3, WroteElsewhere DEF Types, Wrote, AfterMove
  <2>1. \A at \in {"running", "done"} : Has("b", "make", at)' => Has("b", "make", at)
    BY <1>3, <2>0 DEF Has, Wrote, WriteBegins, WriteEnds, WriteKeeps
  <2>2. n # Gone /\ Has("b", "make", "running") => n.size = row["b"].size
    BY <1>3 DEF Wrote, AfterMove, StepEnded, Has
  <2>3. n.state \in Made => row["b"].state \in Made \/ Has("b", "make", "done")
    BY <1>3, <2>0, CompletesHas, OpAtLeaf DEF MachineMove, Has
  <2>4. n # Gone => n.src = row["b"].src
    BY <2>0 DEF MachineMove
  <2> QED
    BY <1>1, <1>3, <2>0, <2>1, <2>2, <2>3, <2>4 DEF Forking, Exists
<1> QED
  BY <1>2, <1>3

\* A write keeps what the checkpoint's row says of its image.
LEMMA WroteCapturings ==
  ASSUME Types, Steps, NEW r \in Names, Exists(r), NEW e, EventHere(r, e), NEW n, NEW o, Wrote(r, e, n, o),
         UNCHANGED hostVars, Capturings
  PROVE  Capturings'
<1>1. vm' = vm /\ image' = image
  BY DEF hostVars
<1>2. CASE r # "k"
  <2>1. row'["k"] = row["k"] /\ op'["k"] = op["k"]
    BY <1>2, WroteElsewhere DEF Types, Names
  <2> QED
    BY <1>1, <2>1 DEF Capturings, Exists, Has, StateIn, Up, Good
<1>3. CASE r = "k"
  <2>0. row'["k"] = n /\ op'["k"] = o /\ CheckpointMove(row["k"], e, n)
    BY <1>3, WroteElsewhere DEF Types, Wrote, AfterMove
  <2>1. \A kind, at : Has("k", kind, at)' => Has("k", kind, at)
          \/ (at = "begun" /\ WriteBegins("k", e, n, o) /\ o.kind = kind)
    BY <1>3, <2>0 DEF Has, Wrote, WriteBegins, WriteEnds, WriteKeeps
  <2>2. o # NoOp /\ o.at = "cleared" => op["k"] # NoOp /\ op["k"] = o
    BY <1>3 DEF Wrote, WriteBegins, WriteEnds, WriteKeeps
  <2>3. WriteBegins("k", e, n, o) /\ o.kind = "capture" => row["k"].state = "capturing.due"
    <3> SUFFICES ASSUME WriteBegins("k", e, n, o), o.kind = "capture" PROVE row["k"].state = "capturing.due"
      OBVIOUS
    <3>1. n \in KRow /\ StepIn("k", n.state) = "capture"
      BY <2>0 DEF CheckpointMove, WriteBegins
    <3>2. n.state = "capturing.sent"
      BY <3>1, CheckpointStepTable DEF StepIn, KRow
    <3> QED
      BY <1>3, <2>0, <3>2, OpAtLeaf DEF CheckpointMove, WriteBegins
  <2>4. n = Gone => image = NoImage
    BY <1>3, <2>0, CompletesHas, OpAtLeaf DEF CheckpointMove, Capturings, Has
  <2>5. n.state = "failed" => image = NoImage
    BY <1>3, <2>0, CompletesHas, ClearsHas, OpAtLeaf DEF CheckpointMove, Capturings, Has
  <2>6. n.state = "capturing.due" => image = NoImage
    BY <2>0 DEF CheckpointMove, Capturings
  <2>7. n.state = "ready" => Good
    BY <1>3, <2>0, CompletesHas, OpAtLeaf DEF CheckpointMove, Capturings, Has, StateIn
  <2>8. Has("k", "capture", "begun")' \/ Has("k", "deleteCheckpoint", "done")' => image = NoImage
    BY <2>1, <2>3 DEF Capturings
  <2>9. (Has("k", "capture", "running")' => Up("a")) /\ (Has("k", "capture", "done")' => Good)
    BY <2>1 DEF Capturings
  <2>10. o # NoOp /\ o.at = "cleared" => image = NoImage /\ o.kind = "capture"
    BY <2>2 DEF Capturings
  <2> QED
    BY <1>1, <2>0, <2>4, <2>5, <2>6, <2>7, <2>8, <2>9, <2>10
       DEF Capturings, Exists, StateIn, Up, Good
<1> QED
  BY <1>2, <1>3

--------------------------------------------------------------------------------
(* What the rows say of the host: rows that come and go. *)

\* What the rows say of the host, all of it.
HostKnown == (\A s \in Machines : Holds(s)) /\ SizesKnown /\ Forking /\ Capturings

\* A row enters only where the host holds nothing, and says nothing of it yet.
LEMMA EntersKnown ==
  ASSUME Types, Steps, NEW r \in Names, NEW m, Enters(r, m), op[r] = NoOp, HostKnown
  PROVE  HostKnown'
<1>1. row'[r] = m /\ UNCHANGED <<op, vm, image>> /\ \A s \in Names \ {r} : row'[s] = row[s]
  BY DEF Enters, Types, RowTypes
<1>2. m # Gone /\ m.state = IF r = "k" THEN "capturing.due" ELSE "making.due"
  BY GoneApart DEF Enters, RowOf, Names
<1>3. r # "k" => vm[r] = NoVM
  BY DEF Enters, HostKnown, Holds, Free, Names
<1>4. r = "k" => image = NoImage
  BY DEF Enters, HostKnown, Capturings
<1>5. \A s \in Machines : Holds(s)'
  <2>1. ASSUME NEW s \in Machines, s # r PROVE Holds(s)'
    <3>1. row'[s] = row[s] /\ op'[s] = op[s] /\ vm'[s] = vm[s]
      BY <1>1, <2>1 DEF Names
    <3> QED
      BY <3>1 DEF HostKnown, Holds, Free, Exists, Has, Whole, StateIn
  <2>2. ASSUME r \in Machines PROVE Holds(r)'
    <3>1. r # "k" /\ m.state \notin Made
      BY <1>2, <2>2 DEF Machines, Made, Standing, Stepping, Starting, Stopping, Pausing, Resizing,
             JoinSent, JoinAsked
    <3> QED
      BY <1>1, <1>2, <1>3, <3>1 DEF Holds, Free, Exists, Has, Whole, StateIn, NoVM
  <2> QED
    BY <2>1, <2>2
<1>6. SizesKnown'
  <2>1. CASE r = "a"
    BY <1>1, <1>3, <2>1 DEF SizesKnown, Whole, NoVM
  <2>2. CASE r # "a"
    BY <1>1, <2>2 DEF HostKnown, SizesKnown, Whole, Names, Machines
  <2> QED
    BY <2>1, <2>2
<1>7. Forking'
  <2>1. CASE r = "b"
    <3>1. m.state \notin Made
      BY <1>2, <2>1 DEF Made, Standing, Stepping, Starting, Stopping, Pausing, Resizing, JoinSent,
             JoinAsked
    <3> QED
      BY <1>1, <2>1, <3>1 DEF Forking, Has
  <2>2. CASE r # "b"
    BY <1>1, <2>2 DEF HostKnown, Forking, Exists, Has, Names, Machines
  <2> QED
    BY <2>1, <2>2
<1>8. Capturings'
  <2>1. CASE r = "k"
    BY <1>1, <1>2, <1>4, <2>1 DEF Capturings, Has, StateIn
  <2>2. CASE r # "k"
    BY <1>1, <2>2 DEF HostKnown, Capturings, Exists, Has, StateIn, Up, Good, Names
  <2> QED
    BY <2>1, <2>2
<1> QED
  BY <1>5, <1>6, <1>7, <1>8 DEF HostKnown

\* A row that leaves had nothing on the host.
LEMMA LeavesKnown ==
  ASSUME Types, Steps, NEW r \in Names, Leaves(r), op[r] = NoOp, HostKnown
  PROVE  HostKnown'
<1>1. row'[r] = Gone /\ UNCHANGED <<op, vm, image>> /\ \A s \in Names \ {r} : row'[s] = row[s]
  BY DEF Leaves, Expire, Types, RowTypes
<1>2. Exists(r) /\ row[r].state = IF r = "k" THEN "failed" ELSE "undone"
  <2>1. row[r] \in RowOf(r) /\ row[r].state \in {"undone", "failed"} /\ Exists(r)
    BY ByName DEF Leaves, Expire, StateIn, Exists, Types
  <2> QED
    BY <2>1 DEF RowOf, KRow, CheckpointLeaf, K!Discarding, K!Deleting, MRow, MachineLeaf, Leaf,
           Making, Made, Standing,
                Stepping, Undoing, Deleting, Starting, Stopping, Pausing, Resizing, JoinSent, JoinAsked
<1>3. r # "k" => vm[r] = NoVM
  BY <1>2 DEF HostKnown, Holds, Free, Names
<1>4. r = "k" => image = NoImage
  BY <1>2 DEF HostKnown, Capturings
<1>5. \A s \in Machines : Holds(s)'
  <2>1. ASSUME NEW s \in Machines, s # r PROVE Holds(s)'
    <3>1. row'[s] = row[s] /\ op'[s] = op[s] /\ vm'[s] = vm[s]
      BY <1>1, <2>1 DEF Names
    <3> QED
      BY <3>1 DEF HostKnown, Holds, Free, Exists, Has, Whole, StateIn
  <2>2. ASSUME r \in Machines PROVE Holds(r)'
    BY <1>1, <1>3, <2>2 DEF Machines, Holds, Free, Exists, Has, Whole, StateIn, NoVM
  <2> QED
    BY <2>1, <2>2
<1>6. SizesKnown'
  <2>1. CASE r = "a"
    BY <1>1, <1>3, <2>1 DEF SizesKnown, Whole, NoVM
  <2>2. CASE r # "a"
    BY <1>1, <2>2 DEF HostKnown, SizesKnown, Whole, Names, Machines
  <2> QED
    BY <2>1, <2>2
<1>7. Forking'
  BY <1>1 DEF HostKnown, Forking, Exists, Has, Names, Machines
<1>8. Capturings'
  <2>1. CASE r = "k"
    BY <1>1, <1>4, <2>1 DEF Capturings, Has, StateIn, Exists
  <2>2. CASE r # "k"
    BY <1>1, <2>2 DEF HostKnown, Capturings, Exists, Has, StateIn, Up, Good, Names
  <2> QED
    BY <2>1, <2>2
<1> QED
  BY <1>5, <1>6, <1>7, <1>8 DEF HostKnown

--------------------------------------------------------------------------------
(* What the rows say of the host: the host's own steps. *)

\* A step of the host is one of its operation, whose kind it does not change.
LEMMA HostStepOf ==
  ASSUME Types, HostStep
  PROVE  /\ row' = row
         /\ \A s \in Names : op'[s] = NoOp <=> op[s] = NoOp
         /\ \A s \in Names : op[s] # NoOp => op'[s].kind = op[s].kind /\ op'[s].to = op[s].to
         /\ \A s \in Machines : op[s] = NoOp => vm'[s] = vm[s]
         /\ op["k"] = NoOp => image' = image
BY NoOpApart DEF HostStep, Progress, OpOf, MachineWork, ImageWork, Running

\* What a machine holds stays as its row and operation say.
LEMMA HostHolds ==
  ASSUME Types, Steps, HostStep, NEW s \in Machines, Holds(s)
  PROVE  Holds(s)'
<1>0. s \in Names /\ s # "k" /\ row' = row
  BY HostStepOf DEF Names, Machines
<1>1. MachineWork(s) /\ (op'[s] = NoOp <=> op[s] = NoOp)
      /\ (op[s] # NoOp => op'[s].kind = op[s].kind /\ op'[s].to = op[s].to)
  BY <1>0, HostStepOf DEF HostStep
<1>2. op[s] # NoOp => Exists(s) /\ ~Free(s)
  BY <1>0, OpAtLeaf DEF Steps, OpIsStep, Free
<1>3. CASE vm'[s] = vm[s] /\ (op'[s] = op[s] \/ Starts(s) \/ (op[s] # NoOp /\ op'[s].at = "lost"))
  <2>1. \A kind : Has(s, kind, "done")' => Has(s, kind, "done")
    BY <1>3 DEF Has, Starts
  <2> QED
    BY <1>0, <1>1, <1>3, <2>1 DEF Holds, Free, Exists, StateIn, Whole
<1>4. CASE Running(s) /\ op'[s].at \in Cuts \cup {"done"} /\ vm'[s] \in {DoneVM(s)} \cup CutVMs(s)
           /\ (op'[s].at = "done" => vm'[s] = DoneVM(s)) /\ (op'[s].at # "done" => vm'[s] \in CutVMs(s))
  <2>1. op[s] # NoOp /\ op[s] \in MachineOp /\ Exists(s) /\ row[s] \in MRow(s) /\ vm[s] \in VM
    BY <1>0, <1>2, <1>4 DEF Running, Types, OpTypes, RowTypes, HostTypes, Exists
  <2>2. row[s].size \in {1, 2} /\ op[s].kind \in MachineKind
    BY <2>1 DEF MRow, MachineOp
  <2>3. Has(s, "remove", "done")' => vm'[s] = NoVM
    BY <1>1, <1>4, <2>1 DEF Has, DoneVM
  <2>4. ASSUME op[s].kind \in {"start", "stop", "pause", "resize"}
        PROVE  vm'[s].is \in {"up", "ready", "stopped", "paused"} /\ vm'[s].size # NoSize
    <3>1. vm[s].is \in {"up", "ready", "stopped", "paused"}
          /\ vm[s].size # NoSize /\ (op[s].kind = "resize" => op[s].to = 2)
      BY <2>1, <2>4 DEF Holds, Whole
    <3>2. DoneVM(s).is \in {"up", "ready", "stopped", "paused"} /\ DoneVM(s).size # NoSize
      BY <2>1, <2>4, <3>1 DEF DoneVM, VM, NoSize
    <3>3. \A v \in CutVMs(s) : v.is \in {"up", "ready", "stopped", "paused"} /\ v.size # NoSize
      BY <2>1, <2>4, <3>1, <3>2 DEF CutVMs, VM
    <3> QED
      BY <1>4, <3>2, <3>3
  <2>5. ASSUME op[s].kind = "make"
        PROVE  /\ op'[s].at = "done" => vm'[s].is \in {"up", "ready"}
               /\ Whole(s)' => vm'[s].size # NoSize
    <3>1. DoneVM(s).is \in {"up", "ready"} /\ DoneVM(s).size # NoSize
      BY <2>1, <2>2, <2>5 DEF DoneVM, NoSize
    <3>2. [DoneVM(s) EXCEPT !.is = "partial"].is = "partial"
      BY <2>5 DEF DoneVM
    <3>3. vm'[s] \in {vm[s], DoneVM(s)} \/ vm'[s].is = "partial"
      BY <1>4, <2>5, <3>2 DEF CutVMs
    <3>4. (op'[s].at = "done" => vm'[s] = DoneVM(s)) /\ (Whole(s) => vm[s].size # NoSize)
      BY <1>4 DEF Holds
    <3> QED
      BY <3>1, <3>3, <3>4 DEF Whole
  <2>6. ASSUME op[s].kind = "remove" PROVE Whole(s)' => vm'[s].size # NoSize
    <3>1. [vm[s] EXCEPT !.is = "partial"].is = "partial" /\ NoVM.is = "none"
      BY <2>1 DEF VM, NoVM
    <3> QED
      BY <1>4, <2>6, <3>1 DEF Holds, Whole, CutVMs, DoneVM
  <2>7. StateIn(s, Made)' => op[s].kind \in {"start", "stop", "pause", "resize"}
    BY <1>0, <2>1, OpAtLeaf DEF StateIn
  <2>8. ~Free(s)'
    BY <1>0, <1>2, <2>1 DEF Free, Exists
  <2>9. Has(s, "make", "done")' => op[s].kind = "make" /\ op'[s].at = "done"
    BY <1>1, <2>1 DEF Has
  <2> QED
    BY <1>1, <2>1, <2>2, <2>3, <2>4, <2>5, <2>6, <2>7, <2>8, <2>9 DEF Holds, Whole, MachineKind
<1> QED
  BY <1>1, <1>3, <1>4 DEF MachineWork, Cuts

\* The host changes the sizes of "a" only as its row says, or while it is resized.
LEMMA HostSizes ==
  ASSUME Types, Steps, HostStep, Holds("a"), SizesKnown
  PROVE  SizesKnown'
<1>0. "a" \in Machines /\ "a" \in Names /\ row' = row
  BY HostStepOf DEF Names, Machines
<1> SUFFICES ASSUME Whole("a")', op'["a"] = NoOp \/ op'["a"].kind # "resize"
             PROVE  row["a"].size = vm'["a"].size
  BY <1>0 DEF SizesKnown
<1>1. MachineWork("a") /\ (op["a"] = NoOp \/ op["a"].kind # "resize")
  BY <1>0, HostStepOf DEF HostStep
<1>2. CASE vm'["a"] = vm["a"]
  BY <1>1, <1>2 DEF SizesKnown, Whole
<1>3. CASE Running("a") /\ vm'["a"] \in {DoneVM("a")} \cup CutVMs("a")
  <2>1. op["a"] # NoOp /\ op["a"] \in MachineOp /\ Exists("a") /\ row["a"] \in MRow("a") /\ vm["a"] \in VM
    BY <1>0, <1>3 DEF Running, Types, OpTypes, RowTypes, HostTypes, Exists, Steps, OpIsStep
  <2>2. op["a"].kind \in {"make", "start", "stop", "pause", "remove"} /\ row["a"].src = "base"
    BY <1>1, <2>1 DEF MachineOp, MachineKind, MRow, Sources
  <2>3. CASE op["a"].kind = "make"
    <3>1. DoneVM("a").size = row["a"].size
      BY <2>2, <2>3 DEF DoneVM
    <3>2. [DoneVM("a") EXCEPT !.is = "partial"].is = "partial"
      BY <2>2, <2>3 DEF DoneVM
    <3>3. vm'["a"] \in {vm["a"], DoneVM("a")}
      BY <1>3, <2>3, <3>2 DEF CutVMs, Whole
    <3> QED
      BY <1>1, <3>1, <3>3 DEF SizesKnown, Whole
  <2>4. CASE op["a"].kind = "remove"
    <3>1. [vm["a"] EXCEPT !.is = "partial"].is = "partial" /\ NoVM.is = "none"
      BY <2>1 DEF VM, NoVM
    <3>2. vm'["a"] = vm["a"]
      BY <1>3, <2>4, <3>1 DEF Whole, CutVMs, DoneVM
    <3> QED
      BY <1>2, <3>2
  <2>5. CASE op["a"].kind \in {"start", "stop", "pause"}
    <3>1. vm["a"].is \in {"up", "ready", "stopped", "paused"} /\ row["a"].size = vm["a"].size
      BY <1>1, <2>1, <2>5 DEF Holds, Whole, SizesKnown
    <3>2. DoneVM("a").size = vm["a"].size
      BY <2>1, <2>5 DEF DoneVM, VM
    <3>3. \A v \in CutVMs("a") : v.size = vm["a"].size
      BY <2>1, <2>5, <3>2 DEF CutVMs, VM
    <3> QED
      BY <1>3, <3>1, <3>2, <3>3
  <2> QED
    BY <2>2, <2>3, <2>4, <2>5
<1> QED
  BY <1>1, <1>2, <1>3 DEF MachineWork

\* A fork under way fits its source, whose VM nothing changes meanwhile, and so does
\* the machine it makes.
LEMMA HostForking ==
  ASSUME Types, Steps, Apart, HostStep, Holds("b"), SizesKnown, Forking
  PROVE  Forking'
<1>0. "b" \in Machines /\ "b" \in Names /\ row' = row
  BY HostStepOf DEF Names, Machines
<1> SUFFICES ASSUME Exists("b"), row["b"].src = "a"
             PROVE  /\ Has("b", "make", "running")' => row["b"].size >= vm'["a"].size
                    /\ Has("b", "make", "done")' => vm'["b"].size >= vm'["b"].from
                    /\ row["b"].state \in Made => vm'["b"].size >= vm'["b"].from
  BY <1>0 DEF Forking, Exists
<1>1. /\ MachineWork("b") /\ (op'["b"] = NoOp <=> op["b"] = NoOp)
      /\ op["b"] # NoOp => op'["b"].kind = op["b"].kind
      /\ op["b"] = NoOp => vm'["b"] = vm["b"]
  BY <1>0, HostStepOf DEF HostStep
<1>2. CASE op["b"] = NoOp
  BY <1>1, <1>2 DEF Forking, Has
<1>3. CASE op["b"] # NoOp /\ op["b"].kind = "make"
  <2>1. SourceOf("b") = "a"
    BY <1>3 DEF SourceOf
  <2>2. op["a"] = NoOp /\ vm'["a"] = vm["a"]
    BY <1>0, <1>3, <2>1, SourceFree, HostStepOf DEF Names, Machines
  <2>3. row["b"].state \notin Made
    BY <1>0, <1>3, OpAtLeaf
  <2>4. Starts("b") /\ op'["b"].at = "running" => row["b"].size >= vm["a"].size
    <3>1. Starts("b") /\ op'["b"].at = "running" => Up("a") /\ row["b"].size >= row["a"].size
      BY <1>3, <2>1 DEF Starts, CanDo, Copyable, Fits
    <3> QED
      BY <2>2, <3>1 DEF SizesKnown, Whole, Up
  <2>5. Has("b", "make", "running")' => row["b"].size >= vm["a"].size
    BY <1>1, <1>3, <2>4 DEF Has, MachineWork, Starts, Forking, Cuts
  <2>6. DoneVM("b").size = row["b"].size /\ DoneVM("b").from = vm["a"].size
    BY <1>3 DEF DoneVM, SizeOf
  <2>7. Has("b", "make", "done")' => vm'["b"].size >= vm'["b"].from
    BY <1>1, <1>3, <2>6 DEF Has, MachineWork, Running, Starts, Forking, Cuts
  <2> QED
    BY <2>2, <2>3, <2>5, <2>7
<1>4. CASE op["b"] # NoOp /\ op["b"].kind # "make"
  <2>1. ~Has("b", "make", "running")' /\ ~Has("b", "make", "done")'
    BY <1>1, <1>4 DEF Has
  <2>2. ASSUME row["b"].state \in Made PROVE vm'["b"].size >= vm'["b"].from
    <3>1. op["b"].kind \in {"start", "stop", "pause", "resize"} /\ (op["b"].kind = "resize" => op["b"].to = 2)
      BY <1>0, <1>4, <2>2, OpAtLeaf DEF Holds
    <3>2. vm["b"] \in VM /\ vm["b"].size >= vm["b"].from
      BY <1>0, <2>2 DEF Forking, Types, HostTypes
    <3>3. \A v \in {vm["b"], DoneVM("b")} \cup CutVMs("b") :
            v.from = vm["b"].from /\ v.size \in {vm["b"].size, 2}
      BY <3>1, <3>2 DEF DoneVM, CutVMs, VM
    <3>4. vm'["b"] \in {vm["b"], DoneVM("b")} \cup CutVMs("b")
      BY <1>1 DEF MachineWork
    <3>5. vm["b"].from \in {0, 1, 2}
      BY <3>2 DEF VM, NoSize
    <3>6. vm'["b"].from = vm["b"].from /\ vm'["b"].size \in {vm["b"].size, 2}
      BY <3>3, <3>4
    <3> QED
      BY <3>2, <3>5, <3>6
  <2> QED
    BY <2>1, <2>2
<1> QED
  BY <1>2, <1>3, <1>4

\* The checkpoint's image stays as its row and operation say.
LEMMA HostCapturings ==
  ASSUME Types, Steps, Apart, HostStep, Capturings
  PROVE  Capturings'
<1>0. /\ "k" \in Names /\ row' = row /\ ImageWork
      /\ op'["k"] = NoOp <=> op["k"] = NoOp
      /\ op["k"] # NoOp => op'["k"].kind = op["k"].kind
  BY HostStepOf DEF HostStep, Names
<1>1. op["k"] # NoOp => /\ Exists("k") /\ row["k"].state \notin {"failed", "capturing.due", "ready"}
                        /\ op["k"].kind \in {"capture", "deleteCheckpoint"}
  BY <1>0, OpAtLeaf DEF Steps, OpIsStep, Types, OpTypes, CheckpointOp
<1>2. ASSUME op["k"] # NoOp, op["k"].kind = "capture" PROVE vm'["a"] = vm["a"] /\ SourceOf("k") = "a"
  <2>1. SourceOf("k") = "a"
    BY <1>1, <1>2 DEF SourceOf, Types, RowTypes, KRow, Exists
  <2> QED
    BY <1>0, <1>2, <2>1, SourceFree, HostStepOf DEF Names, Machines
<1>3. CASE image' = image /\ (op'["k"] = op["k"] \/ Starts("k") \/ (op["k"] # NoOp /\ op'["k"].at = "lost"))
  <2>1. Has("k", "capture", "begun")' => Has("k", "capture", "begun")
    BY <1>3 DEF Has, Starts
  <2>2. \A kind : Has("k", kind, "done")' => Has("k", kind, "done")
    BY <1>3 DEF Has, Starts
  <2>3. op'["k"] # NoOp /\ op'["k"].at = "cleared" => image = NoImage /\ op'["k"].kind = "capture"
    BY <1>0, <1>3 DEF Capturings, Starts, Has
  <2>4. Has("k", "capture", "running")' => Up("a")' 
    <3>1. Starts("k") /\ op'["k"].at = "running" /\ op["k"].kind = "capture" => Up("a")
      BY <1>2 DEF Starts, CanDo, Copyable
    <3> QED
      BY <1>0, <1>2, <1>3, <3>1 DEF Capturings, Has, Up
  <2> QED
    BY <1>0, <1>3, <2>1, <2>2, <2>3, <2>4 DEF Capturings, Exists, StateIn, Good
<1>4. CASE Running("k") /\ op'["k"].at = "done" /\ image' = DoneImage
  <2>1. Has("k", "deleteCheckpoint", "done")' => image' = NoImage
    BY <1>0, <1>4 DEF Has, DoneImage
  <2>2. Has("k", "capture", "done")' => Good'
    <3> SUFFICES ASSUME op["k"].kind = "capture" PROVE DoneImage.is = "whole" /\ DoneImage.ran
      BY <1>0, <1>4 DEF Has, Good
    <3>1. Up("a") /\ vm["a"].is # "none"
      BY <1>4 DEF Capturings, Has, Running, Up
    <3> QED
      BY <3>1 DEF DoneImage
  <2> QED
    BY <1>0, <1>1, <1>4, <2>1, <2>2 DEF Capturings, Exists, StateIn, Has, Running
<1>5. CASE /\ Running("k") /\ op'["k"].at \in Cuts \cup {"cleared"} /\ image' \in CutImages
           /\ op'["k"].at = "cleared" => op["k"].kind = "capture" /\ image' = NoImage
  BY <1>0, <1>1, <1>5 DEF Capturings, Exists, StateIn, Has, Running, Cuts
<1> QED
  BY <1>0, <1>3, <1>4, <1>5 DEF ImageWork

--------------------------------------------------------------------------------
(* The invariant. *)

\* A step of the control plane keeps it.
LEMMA ServerKeeps ==
  ASSUME Inv, ServerStep, Memory'
  PROVE  Inv' /\ (Lock!Next \/ UNCHANGED HeldLeases)
<1> USE DEF Inv
<1>1. ASSUME Quiet
      PROVE  Inv' /\ UNCHANGED HeldLeases
  <2> USE DEF Quiet
  <2>1. Types'
    BY <1>1 DEF Memory, Types, RowTypes, OpTypes, HostTypes
  <2>2. Steps'
    BY <1>1 DEF Steps, OpIsStep, Exists, StepIn, LeasesIn, MachineLeases
  <2>3. Apart' /\ UNCHANGED HeldLeases
    BY <1>1 DEF Apart, HeldLeases
  <2>4. \A r \in Machines : Holds(r)'
    BY <1>1 DEF Holds, Free, Exists, Has, Whole, StateIn
  <2>5. SizesKnown' /\ Forking' /\ Capturings'
    BY <1>1 DEF SizesKnown, Whole, Forking, Capturings, Exists, Has, StateIn, Up, Good
  <2> QED
    BY <2>1, <2>2, <2>3, <2>4, <2>5
<1>2. ASSUME NEW r \in Names, Advances(r)
      PROVE  Inv' /\ (Lock!Next \/ UNCHANGED HeldLeases)
  <2>1. PICK e : EventHere(r, e) /\ Advance(r, e)
    BY <1>2 DEF Advances
  <2>2. UNCHANGED hostVars /\ Exists(r) /\ (r # "k" => Holds(r))
    BY <1>2 DEF Advances, Names, Machines
  <2>3. CASE row' = row /\ op' = op
    BY <1>1, <2>2, <2>3 DEF Quiet, hostVars
  <2>4. ASSUME NEW n, NEW o, Wrote(r, e, n, o)
        PROVE  Inv' /\ (Lock!Next \/ UNCHANGED HeldLeases)
    <3>1. Types'
      BY <2>2, <2>4, WroteTypes DEF Types, HostTypes, hostVars, Memory
    <3>2. Steps' /\ Apart' /\ (Lock!Next \/ UNCHANGED HeldLeases)
      BY <2>2, <2>4, WroteSteps, WroteApart, WroteLock DEF Types
    <3>3. \A s \in Machines : Holds(s)'
      BY <2>1, <2>2, <2>4, WroteHolds
    <3>4. SizesKnown'
      BY <2>1, <2>2, <2>4, <3>3, WroteSizes DEF Machines
    <3>5. Forking' /\ Capturings'
      BY <2>1, <2>2, <2>4, WroteForking, WroteCapturings
    <3> QED
      BY <3>1, <3>2, <3>3, <3>4, <3>5
  <2> QED
    BY <2>1, <2>2, <2>3, <2>4, AdvanceMoves
<1>3. ASSUME NEW r \in Names, NEW m, Enters(r, m)
      PROVE  Inv' /\ UNCHANGED HeldLeases
  <2>1. RowTypes' /\ OpTypes' /\ Steps' /\ Apart' /\ UNCHANGED HeldLeases /\ op[r] = NoOp
    BY <1>3, EntersKeeps DEF Types
  <2>2. HostKnown'
    BY <1>3, <2>1, EntersKnown DEF HostKnown
  <2> QED
    BY <1>3, <2>1, <2>2 DEF HostKnown, Types, HostTypes, Memory, Enters
<1>4. ASSUME NEW r \in Names, Leaves(r)
      PROVE  Inv' /\ UNCHANGED HeldLeases
  <2>1. RowTypes' /\ OpTypes' /\ Steps' /\ Apart' /\ UNCHANGED HeldLeases /\ op[r] = NoOp
    BY <1>4, LeavesKeeps DEF Types
  <2>2. HostKnown'
    BY <1>4, <2>1, LeavesKnown DEF HostKnown
  <2> QED
    BY <1>4, <2>1, <2>2 DEF HostKnown, Types, HostTypes, Memory, Leaves
<1> QED
  BY <1>1, <1>2, <1>3, <1>4 DEF ServerStep

\* A step of the host keeps it.
LEMMA HostKeeps ==
  ASSUME Inv, HostStep, HostTypes', Memory'
  PROVE  Inv' /\ UNCHANGED HeldLeases
<1>1. RowTypes' /\ OpTypes' /\ Steps' /\ Apart' /\ UNCHANGED HeldLeases
  BY ProgressKeeps DEF Inv, Types, HostStep
<1>2. \A s \in Machines : Holds(s)'
  BY HostHolds DEF Inv
<1>3. SizesKnown' /\ Forking' /\ Capturings'
  BY HostSizes, HostForking, HostCapturings DEF Inv, Machines
<1> QED
  BY <1>1, <1>2, <1>3 DEF Inv, Types, Memory

\* Every step is one of the two.
LEMMA StepKinds ==
  ASSUME Types, Steps, Next
  PROVE  Memory' /\ (ServerStep \/ (HostStep /\ HostTypes'))
<1>1. CASE Client
  BY <1>1, ClientSteps
<1>2. CASE Crash
  <2>1. Quiet
    BY <1>2 DEF Crash, Quiet, hostVars
  <2>2. Memory'
    BY <1>2 DEF Crash, Memory, LoopTypes, Names, Machines
  <2> QED
    BY <2>1, <2>2 DEF ServerStep
<1>3. CASE Reboot
  BY <1>3, RebootHosts
<1>4. ASSUME NEW r \in Names, Turn(r) PROVE Memory' /\ ServerStep
  BY <1>4, FollowsAdvance, LookEndsAdvance, LooksAdvance, LookBeginsQuiet DEF Turn, ServerStep
<1>5. ASSUME NEW r \in Names, Work(r) PROVE Memory' /\ HostStep /\ HostTypes'
  BY <1>5, WorkHosts
<1> QED
  BY <1>1, <1>2, <1>3, <1>4, <1>5 DEF Next

\* In the beginning there is nothing anywhere.
LEMMA InitInv == ASSUME Init PROVE Inv /\ HeldLeases = {}
<1> USE DEF Init
<1>1. RowTypes /\ OpTypes /\ LoopTypes
  BY DEF RowTypes, OpTypes, LoopTypes, Names, Machines
<1>2. HostTypes
  BY DEF HostTypes, VM, NoVM, Image, NoImage, NoSize
<1>3. \A r \in Names : ~Exists(r) /\ op[r] = NoOp
  BY DEF Exists
<1>4. Steps /\ Apart /\ HeldLeases = {}
  BY <1>3 DEF Steps, OpIsStep, Apart, HeldLeases
<1>5. \A r \in Machines : Holds(r)
  BY <1>3 DEF Holds, Has, StateIn, Whole, NoVM, Names, Machines
<1>6. SizesKnown /\ Forking /\ Capturings
  BY <1>3 DEF SizesKnown, Whole, NoVM, Forking, Capturings, Has, StateIn, Names, Machines
<1> QED
  BY <1>1, <1>2, <1>4, <1>5, <1>6 DEF Inv, Types

\* A stutter keeps it.
LEMMA StutterKeeps == ASSUME Inv, UNCHANGED vars PROVE Inv' /\ UNCHANGED HeldLeases
<1>1. Quiet /\ Memory'
  BY DEF Inv, Types, vars, hostVars, Quiet, Memory, LoopTypes
<1>2. Inv'
  BY <1>1, ServerKeeps DEF ServerStep
<1> QED
  BY <1>1, <1>2 DEF Quiet, HeldLeases

\* The invariant holds, and every step takes, drops or keeps leases as the lock does.
LEMMA Inductive == Spec => [](Inv) /\ [][Lock!Next]_HeldLeases
<1>1. Inv /\ [Next]_vars => Inv' /\ [Lock!Next]_HeldLeases
  <2>1. ASSUME Inv, Next PROVE Inv' /\ [Lock!Next]_HeldLeases
    <3>1. Memory' /\ (ServerStep \/ (HostStep /\ HostTypes'))
      BY <2>1, StepKinds DEF Inv
    <3> QED
      BY <2>1, <3>1, ServerKeeps, HostKeeps
  <2> QED
    BY <2>1, StutterKeeps
<1> QED
  BY <1>1, InitInv, PTL DEF Spec

--------------------------------------------------------------------------------
(* What the invariant says. *)

\* Every variable has its type: the charts are never taken off their leaves, and a
\* look, an operation and what the host holds never hold anything else.
THEOREM CopiesTyped == Spec => []TypeOK
<1>1. Inv => TypeOK
  <2> SUFFICES ASSUME Types PROVE TypeOK
    BY DEF Inv
  <2>1. ASSUME NEW r \in Machines, NEW m \in MRow(r) PROVE m \in MachineRow
    BY DEF MRow, MachineRow, MachineLeaf, Sources
  <2>2. CheckpointLeaf \subseteq K!Leaf
    BY DEF CheckpointLeaf, K!Leaf, K!Due, K!Sent, K!Discarding, K!Deleting
  <2>3. KRow \subseteq CheckpointRow
    BY <2>2 DEF KRow, CheckpointRow
  <2>4. \A r \in Machines : row[r] \in MachineRow \cup {Gone}
    BY <2>1 DEF Types, RowTypes
  <2>5. row["k"] \in CheckpointRow \cup {Gone}
    BY <2>3 DEF Types, RowTypes
  <2>6. \A r \in Names : op[r] = NoOp \/ /\ op[r].kind \in {"make", "start", "stop", "pause", "resize",
                                              "remove", "capture", "deleteCheckpoint"}
                                         /\ op[r].at \in Begun(r)
                                         /\ op[r].to \in {NoSize, 2}
    BY ByName DEF Types, OpOf, MachineOp, MachineKind, CheckpointOp, Begun
  <2>7. \A r \in Names : loop[r].at \in {"idle", "looking"}
    BY DEF Types, LoopTypes, Names, Look, Idle
  <2> QED
    BY <2>4, <2>5, <2>6, <2>7 DEF TypeOK, Types, HostTypes, VM, Image
<1> QED
  BY <1>1, Inductive, PTL

\* No operation ever owns what another one holds, however the looks, the requests
\* and the restarts of either process fall.
THEOREM LeasesExclude == Spec => [](Lock!Exclusive)
<1>1. Inv => Lock!Exclusive
  <2> SUFFICES ASSUME Apart, NEW l \in HeldLeases, NEW m \in HeldLeases, Lock!Conflicting(l, m)
               PROVE  FALSE
    BY DEF Inv, Lock!Exclusive
  <2>1. PICK r \in Names : op[r] # NoOp /\ \E x \in op[r].leases : l = [by |-> r, on |-> x.on, mode |-> x.mode]
    BY DEF HeldLeases
  <2>2. PICK s \in Names : op[s] # NoOp /\ \E y \in op[s].leases : m = [by |-> s, on |-> y.on, mode |-> y.mode]
    BY DEF HeldLeases
  <2>3. r # s
    BY <2>1, <2>2 DEF Lock!Conflicting
  <2> QED
    BY <2>1, <2>2, <2>3 DEF Apart, Lock!Conflicting, Conflicting
<1> QED
  BY <1>1, Inductive, PTL

\* The operations' leases are a reader-writer lock: an operation takes all of its
\* own at once, where none is held against it, and drops all of them at its end.
THEOREM LeasesAreALock == Spec => LeasesLock
<1>1. Init => Lock!Init
  BY InitInv DEF Lock!Init
<1> QED
  BY <1>1, Inductive, PTL DEF LeasesLock, Lock!Spec, Spec

\* Nothing the host does changes what a step under way copies: neither the machine
\* under a fork or a capture nor the checkpoint under a restore.
THEOREM SourcesStay == Spec => []SourceStill
<1>1. Inv => SourceStill
  BY SourceFree DEF Inv, SourceStill, Running
<1> QED
  BY <1>1, Inductive, PTL

\* A name without a row, or one whose row shows a failure for good, has nothing on
\* the host, so that the next row of that name starts from nothing.
THEOREM NothingIsLeft == Spec => []NothingLeft
<1>1. Inv => NothingLeft
  BY DEF Inv, Holds, Capturings, NothingLeft
<1> QED
  BY <1>1, Inductive, PTL

\* A checkpoint that reads ready is whole and holds its machine as it ran, also when
\* the machine was asked to pause after it.
THEOREM ReadyIsWhole == Spec => []ReadyWhole
<1>1. Inv => ReadyWhole
  BY DEF Inv, Capturings, Good, ReadyWhole
<1> QED
  BY <1>1, Inductive, PTL

\* A fork is at least the size of what it was made of, also when its source was
\* resized between the request and the make.
THEOREM ForksFit == Spec => []ForkFits
<1>1. Inv => ForkFits
  BY DEF Inv, Forking, StateIn, ForkFits
<1> QED
  BY <1>1, Inductive, PTL

\* Once a machine is being deleted nothing joins what its delete may wait for: no
\* capture of it is asked for, and no fork of it.
THEOREM DeleteIsNotHeld == Spec => DeleteShutsOut
<1>1. ASSUME Inv, Next, StateIn("a", Deleting) PROVE Claims' \subseteq Claims
  <2>0. StateIn("a", Made) = FALSE
    BY <1>1 DEF StateIn, Deleting, Made, Standing, Stepping, Starting, Stopping, Pausing,
           Resizing, JoinSent, JoinAsked
  <2>1. CASE row' = row
    BY <2>1 DEF Claims, StateIn, Exists
  <2>2. ASSUME NEW r \in Names, row'[r] = Gone, \A s \in Names \ {r} : row'[s] = row[s]
        PROVE  Claims' \subseteq Claims
    BY <2>2 DEF Claims, StateIn, Exists, Names, Machines
  <2>3. ASSUME NEW r \in Names, NEW m, Enters(r, m) PROVE Claims' \subseteq Claims
    <3>1. row'[r] = m /\ \A s \in Names \ {r} : row'[s] = row[s]
      BY <1>1, <2>3 DEF Enters, Inv, Types, RowTypes
    <3>2. r # "k" /\ m.src # "a"
      BY <2>0, <2>3 DEF Enters
    <3> QED
      BY <3>1, <3>2 DEF Claims, StateIn, Exists, Names, Machines
  <2>4. ASSUME NEW r \in Names, Exists(r), NEW e, NEW n, NEW o, Wrote(r, e, n, o)
        PROVE  Claims' \subseteq Claims
    <3>1. row'[r] = n /\ \A s \in Names \ {r} : row'[s] = row[s]
      BY <1>1, <2>4, WroteElsewhere DEF Inv, Types
    <3>2. CASE r = "a"
      BY <3>1, <3>2 DEF Claims, StateIn, Exists, Names, Machines
    <3>3. CASE r = "k"
      <4>1. n.state \in {"capturing.due", "capturing.sent"} => StateIn("k", {"capturing.due", "capturing.sent"})
        BY <2>4, <3>3 DEF Wrote, AfterMove, CheckpointMove, StateIn
      <4> QED
        BY <3>1, <3>3, <4>1 DEF Claims, StateIn, Exists, Names, Machines
    <3>4. CASE r = "b"
      <4>1. n # Gone /\ n.state \in Making => StateIn("b", Making) /\ n.src = row["b"].src
        BY <2>4, <3>4 DEF Wrote, AfterMove, MachineMove, StateIn
      <4> QED
        BY <3>1, <3>4, <4>1 DEF Claims, StateIn, Exists, Names, Machines
    <3> QED
      BY <3>2, <3>3, <3>4 DEF Names, Machines
  <2>5. ASSUME NEW r \in Names, Advances(r) PROVE Claims' \subseteq Claims
    <3>1. PICK e : EventHere(r, e) /\ Advance(r, e) /\ Exists(r)
      BY <2>5 DEF Advances
    <3>2. row' = row \/ \E n, o : Wrote(r, e, n, o)
      BY <1>1, <3>1, AdvanceMoves DEF Inv, Names, Machines
    <3> QED
      BY <2>1, <2>4, <3>1, <3>2
  <2>6. ASSUME NEW r \in Names, Leaves(r) PROVE Claims' \subseteq Claims
    BY <1>1, <2>2, <2>6 DEF Leaves, Expire, Inv, Types, RowTypes
  <2>7. ServerStep \/ row' = row
    BY <1>1, StepKinds, HostStepOf DEF Inv
  <2> QED
    BY <2>1, <2>3, <2>5, <2>6, <2>7 DEF ServerStep, Quiet
<1>2. ASSUME Inv, [Next]_vars PROVE [StateIn("a", Deleting) => Claims' \subseteq Claims]_vars
  BY <1>1, <1>2
<1> QED
  BY <1>2, Inductive, PTL DEF DeleteShutsOut, Spec
================================================================================
