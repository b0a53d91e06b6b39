--------------------------- MODULE MachineLifeProofs ---------------------------
(***************************************************************************)
(* Proofs about MachineLife that hold for every set of hosts, every bound  *)
(* and every source: the control plane's side of a machine's life, its     *)
(* types, that its operations are its steps, and that deletes are final.   *)
(***************************************************************************)
EXTENDS MachineLife, TLAPS

Wish == {"running", "stopped", "paused"}

\* The events the control plane applies to a row.
Event ==
  [type : {"ask"}, desired : Wish]
  \cup [type : {"resize", "sized"}, sizing : Nat]
  \cup [type : {"delete", "refused", "lost"}]
  \cup [type : {"read"}, seen : Seens, joins : BOOLEAN, awaiting : BOOLEAN]
  \cup [type : {"reported"}, status : {"done", "failed", "cancelled"}, error : Errors \ {None},
        size : Nat, prepared : BOOLEAN, move : Host \cup {None}]

--------------------------------------------------------------------------------
(* The chart. *)

\* A wish (machine-chart.ts, `asked`) leaves a row of its type.
LEMMA AskTypes ==
  ASSUME NEW r \in Row, NEW e \in [type : {"ask"}, desired : Wish]
  PROVE  OnAsk(r, e) \in Row
BY ZenonT(30) DEF OnAsk, Asked, Goto, Row, Errors, None, Undoing, Deleting, Leaf, Making, Made, Standing, Stepping, Starting,
       Stopping, Pausing, Resizing, JoinSent, JoinAsked, Wish

\* An owed resize (`owed`) leaves a row of its type.
LEMMA ResizeTypes ==
  ASSUME NEW r \in Row, NEW e \in [type : {"resize"}, sizing : Nat]
  PROVE  OnResize(r, e) \in Row
BY DEF OnResize, Owed, Goto, Row, Errors, None, Undoing, Deleting, Leaf, Making, Made, Standing, Stepping, Starting,
       Stopping, Pausing, Resizing, JoinSent, JoinAsked

\* A delete leaves a row of its type, or removes an undone one.
LEMMA DeleteTypes ==
  ASSUME NEW r \in Row
  PROVE  OnDelete(r) \in Row \cup {Gone}
BY ZenonT(30) DEF OnDelete, EnterDeleting, Goto, Row, Errors, None, Gone, Undoing, Leaf, Making, Made, Standing, Stepping,
       Deleting, Starting, Stopping, Pausing, Resizing, JoinSent, JoinAsked

\* A read (`decided`, and the leaves whose step is due) leaves a row of its type.
LEMMA ReadTypes ==
  ASSUME NEW r \in Row,
         NEW e \in [type : {"read"}, seen : Seens, joins : BOOLEAN, awaiting : BOOLEAN]
  PROVE  OnRead(r, e) \in Row
<1>1. Decided(r, e) \in Row
  BY ZenonT(30) DEF Decided, Goto, Row, Errors, None, NoSize, Leaf, Making, Made, Standing, Stepping,
         Undoing, Deleting, Starting, Stopping, Pausing, Resizing, JoinSent, JoinAsked
<1> QED
  BY <1>1 DEF OnRead, Goto, Row, Errors, None, Leaf, Making, Made, Standing, Stepping,
              Undoing, Deleting, Starting, Stopping, Pausing, Resizing, JoinSent, JoinAsked

\* A lost step leaves a row of its type.
LEMMA LostTypes ==
  ASSUME NEW r \in Row
  PROVE  OnLost(r) \in Row /\ OnRefused(r) \in Row
BY ZenonT(30) DEF OnLost, OnRefused, Goto, Row, Errors, None, Leaf, Making, Made, Standing, Stepping,
       Undoing, Deleting, Starting, Stopping, Pausing, Resizing, JoinSent, JoinAsked

\* A reported step leaves a row of its type, or removes it.
LEMMA ReportedTypes ==
  ASSUME NEW r \in Row,
         NEW e \in [type : {"reported"}, status : {"done", "failed", "cancelled"},
                    error : Errors \ {None}, size : Nat, prepared : BOOLEAN,
                    move : Host \cup {None}]
  PROVE  OnReported(r, e) \in Row \cup {Gone}
<1>1. Told(r, e) \in Row /\ Told(r, e).state = r.state
  BY DEF Told, Row, NoSize
<1>2. ASSUME NEW p \in BOOLEAN PROVE Ended(r, e, p) \in Row
  BY ZenonT(30), <1>1 DEF Ended, Row, Errors, None, Leaf, Making, Made, Standing, Stepping,
       Undoing, Deleting, Starting, Stopping, Pausing, Resizing, JoinSent, JoinAsked
<1>3. Undone(r, e) \in Row
  BY DEF Undone, Goto, Row, Errors, None, Leaf, Making, Made, Standing, Stepping,
       Undoing, Deleting, Starting, Stopping, Pausing, Resizing, JoinSent, JoinAsked
<1>4. Deleted(r, e) \in Row \cup {Gone}
  BY DEF Deleted, Goto, Gone, Row, Errors, None, Leaf, Making, Made, Standing, Stepping,
       Undoing, Deleting, Starting, Stopping, Pausing, Resizing, JoinSent, JoinAsked
<1>5. ASSUME NEW l \in Leaf
      PROVE  /\ Goto(r, l) \in Row /\ Goto(Told(r, e), l) \in Row
             /\ [Told(r, e) EXCEPT !.state = l, !.prepared = e.prepared] \in Row
             /\ [Told(r, e) EXCEPT !.state = l, !.error = e.error] \in Row
  BY <1>1 DEF Goto, Row
<1>6. {"made.observing", "undoing.due", "made.failed", "made.settled", "deleting.due"} \subseteq Leaf
  BY DEF Leaf, Made, Standing, Undoing, Deleting
<1> QED
  BY <1>2, <1>3, <1>4, <1>5, <1>6 DEF OnReported

\* An event takes a row to a row, or removes it.
LEMMA TransitionTypes ==
  ASSUME NEW r \in Row, NEW e \in Event
  PROVE  Transition(r, e) \in Row \cup {Gone}
<1>1. [r EXCEPT !.size = e.sizing] \in Row \/ e.type # "sized"
  BY DEF Event, Row
<1> QED
  BY <1>1, AskTypes, ResizeTypes, DeleteTypes, ReadTypes, LostTypes, ReportedTypes
     DEF Transition, Event

--------------------------------------------------------------------------------
(* The types. *)

\* The steps the leaves' `meta` names are the kinds an operation may have, and "any".
LEMMA StepKinds ==
  ASSUME NEW l PROVE StepOf(l) \in Kind \cup {None, "any"}
BY DEF StepOf, Kind, Starting, Stopping, Pausing, Resizing, JoinSent, JoinAsked

\* One event written on a row keeps the types of the row and its operation.
LEMMA AdvanceTypes ==
  ASSUME row \in Row, op \in Operation \cup {NoOp}, last \in Nat,
         NEW e \in Event, NEW b \in Nat, Advance(e, b)
  PROVE  row' \in Row \cup {Gone} /\ op' \in Operation \cup {NoOp} /\ last' \in Nat
<1>1. Transition(row, e) \in Row \cup {Gone}
  BY TransitionTypes
<1>2. row' \in Row \cup {Gone}
  BY <1>1 DEF Advance
<1>3. CASE Begins(row, e, op)
  <2>1. row' = Transition(row, e) /\ ~Throws(row, e, op)
    BY <1>3 DEF Advance, Begins, Throws
  <2>2. StepOf(row'.state) \in Kind
    BY <1>3, <2>1, StepKinds DEF Begins
  <2>3. row' \in Row
    BY <1>2, <2>2 DEF Gone, StepOf, Kind, None, Starting, Stopping, Pausing, Resizing,
                      JoinSent, JoinAsked
  <2>4. row.host \in Host /\ row.resize \in Nat
    BY DEF Row
  <2>5. last' = last + 1 /\ op' = [seq |-> last + 1, kind |-> StepOf(row'.state),
                                  host |-> row.host, boot |-> b, to |-> row.resize]
    BY <1>3 DEF Advance
  <2> QED
    BY <1>2, <2>2, <2>4, <2>5 DEF Operation
<1>4. CASE ~Begins(row, e, op)
  BY <1>2, <1>4 DEF Advance
<1> QED
  BY <1>3, <1>4

\* What each place of the loop holds, read off the type of `loop`.
LEMMA LoopTypes ==
  ASSUME loop \in Loop
  PROVE  /\ loop.at \in {"seeing", "sizing", "reading"} => loop.host \in Host
         /\ loop.at = "reading" => loop.saw \in Seens /\ loop.due \in BOOLEAN
         /\ loop.at \in {"waiting", "sending", "heard"} => loop.op \in Operation /\ loop.error \in Errors
         /\ loop.at = "heard" => loop.heard \in Ends \cup {Lost}
BY DEF Loop

\* What a host sees of a VM is one of the things a row can be told.
LEMMA SeenTypes ==
  ASSUME vm \in [Host -> VM], NEW h \in Host
  PROVE  Seen(h) \in Seens
BY DEF Seen, VM, Seens

\* What a step leaves of a VM, done or cut short, is a VM.
LEMMA EffectTypes ==
  ASSUME NEW v \in VM, NEW to \in Nat, NEW kind
  PROVE  DoneEffect(kind, to, v) \in VM /\ CutEffects(kind, to, v) \subseteq VM
<1>1. DoneEffect(kind, to, v) \in VM
  BY DEF DoneEffect, NoVM, NoSize, VM
<1>2. \A is \in {"partial", "up", "stopped"} : [v EXCEPT !.is = is] \in VM /\ [is |-> is, size |-> 1] \in VM
  BY DEF VM
<1>3. NoVM \in VM
  BY DEF NoVM, NoSize, VM
<1>4. DoneEffect("pause", to, v) \in VM
  BY DEF DoneEffect, VM
<1> QED
  BY <1>1, <1>2, <1>3, <1>4 DEF CutEffects

\* The parts of TypeOK, by who writes them.
ServerTypes == row \in Row \cup {Gone} /\ op \in Operation \cup {NoOp} /\ last \in Nat
HeldTypes == held \in [known : BOOLEAN, setup : BOOLEAN, untried : SUBSET Host]
NetTypes == sent \subseteq Operation /\ cancels \subseteq Nat /\ collects \subseteq Nat
EntryTypes ==
  /\ DOMAIN entry = Host
  /\ \A h \in Host : entry[h] \in [DOMAIN entry[h] -> Entry] /\ DOMAIN entry[h] \subseteq Nat
HostTypes ==
  boot \in [Host -> Nat] /\ seen \in [Host -> Nat] /\ EntryTypes /\ vm \in [Host -> VM]

Types == ServerTypes /\ HeldTypes /\ loop \in Loop /\ NetTypes /\ HostTypes

\* The typed parts together are TypeOK.
LEMMA TypesImply == Types => TypeOK
BY DEF Types, TypeOK, ServerTypes, HeldTypes, NetTypes, HostTypes, EntryTypes

\* What a step leaves alone keeps its type.
LEMMA SameTypes ==
  /\ NetTypes /\ UNCHANGED netVars => NetTypes'
  /\ HostTypes /\ UNCHANGED hostVars => HostTypes'
  /\ HeldTypes /\ UNCHANGED held => HeldTypes'
  /\ ServerTypes /\ UNCHANGED <<row, op, last>> => ServerTypes'
BY DEF netVars, hostVars, NetTypes, HostTypes, EntryTypes, HeldTypes, ServerTypes

\* An empty store and idle hosts have their types.
LEMMA InitTypes == Init => Types
<1> SUFFICES ASSUME Init PROVE Types
  OBVIOUS
<1>1. NoVM \in VM
  BY DEF NoVM, NoSize, VM
<1>2. \A h \in Host : entry[h] = <<>> /\ DOMAIN entry[h] = {}
  BY DEF Init
<1>3. EntryTypes
  BY <1>2 DEF Init, EntryTypes
<1> QED
  BY <1>1, <1>3 DEF Init, Types, ServerTypes, HeldTypes, NetTypes, HostTypes, Forgotten, Loop

\* A request, or the expiry of an undone row, keeps the types.
LEMMA ClientTypes ==
  ASSUME Types, Client PROVE Types'
<1> USE DEF Types
<1>1. /\ HeldTypes' /\ loop' \in Loop /\ NetTypes' /\ HostTypes'
  <2>1. CASE Create
    BY <2>1, SameTypes DEF Create, Others, HeldTypes, Ephemeral
  <2>2. CASE ~Create
    BY <2>2, SameTypes DEF Client, Delete, Expire, Ask, Resize
  <2> QED
    BY <2>1, <2>2
<1>2. ServerTypes'
  <2>1. CASE Create
    BY <2>1 DEF Create, ServerTypes, Row, Leaf, Making, Errors, NoSize
  <2>2. CASE Expire
    BY <2>2 DEF Expire, ServerTypes
  <2>3. CASE Delete
    <3>1. [type |-> "delete"] \in Event
      BY DEF Event
    <3> QED
      BY <2>3, <3>1, AdvanceTypes DEF Delete, Exists, ServerTypes
  <2>4. ASSUME NEW wish \in Wish, Ask(wish) PROVE ServerTypes'
    <3>1. [type |-> "ask", desired |-> wish] \in Event
      BY DEF Event
    <3> QED
      BY <2>4, <3>1, AdvanceTypes DEF Ask, Exists, ServerTypes
  <2>5. ASSUME NEW to \in Sizings, Resize(to) PROVE ServerTypes'
    <3>1. [type |-> "resize", sizing |-> to] \in Event
      BY ConstantsAssumption DEF Event
    <3> QED
      BY <2>5, <3>1, AdvanceTypes DEF Resize, Exists, ServerTypes
  <2> QED
    BY <2>1, <2>2, <2>3, <2>4, <2>5 DEF Client, Wish
<1> QED
  BY <1>1, <1>2

\* A restart of the control plane keeps the types.
LEMMA CrashTypes ==
  ASSUME Types, Crash PROVE Types'
<1> USE DEF Types
<1>1. HeldTypes'
  BY DEF Crash, HeldTypes, Forgotten
<1>2. loop' \in Loop
  BY DEF Crash, Loop
<1>3. NetTypes' /\ HostTypes'
  BY SameTypes DEF Crash
<1>4. ServerTypes'
  <2>1. [type |-> "delete"] \in Event
    BY DEF Event
  <2>2. CASE Exists /\ Ephemeral
    BY <2>1, <2>2, AdvanceTypes DEF Crash, Exists, ServerTypes
  <2> QED
    BY <2>2, SameTypes DEF Crash
<1> QED
  BY <1>1, <1>2, <1>3, <1>4

\* What is heard of a step is an event for its row.
LEMMA HeardTypes ==
  ASSUME HeldTypes, NEW heard \in Ends \cup {Lost}, NEW move \in Moves
  PROVE  EventOf(heard, move) \in Event
<1>1. move \in Host \cup {None}
  BY DEF Moves, HeldTypes
<1>2. CASE heard = Lost
  BY <1>2 DEF EventOf, Lost, Event
<1>3. CASE heard \in Ends
  BY <1>1, <1>3 DEF EventOf, Ends, Event, Errors, None
<1> QED
  BY <1>2, <1>3

\* A turn that writes what it heard of a step keeps the types.
LEMMA FollowsTypes ==
  ASSUME Types, Follows PROVE Types'
<1> USE DEF Types
<1>1. loop.op \in Operation /\ loop.heard \in Ends \cup {Lost}
  BY LoopTypes DEF Follows
<1>2. PICK move \in Moves : Advance(EventOf(loop.heard, move), 0)
  BY DEF Follows
<1>3. ServerTypes'
  BY <1>1, <1>2, HeardTypes, AdvanceTypes DEF Follows, Exists, ServerTypes
<1>4. HeldTypes'
  <2>1. Forgotten \in [known : BOOLEAN, setup : BOOLEAN, untried : SUBSET Host]
    BY DEF Forgotten
  <2> QED
    BY <2>1 DEF Follows, HeldAfter, HeldTypes
<1>5. loop' \in Loop
  BY <1>1 DEF Follows, Loop, Operation
<1>6. NetTypes'
  BY <1>1 DEF Follows, NetTypes, Operation
<1>7. HostTypes'
  BY SameTypes DEF Follows
<1> QED
  BY <1>3, <1>4, <1>5, <1>6, <1>7

\* A turn that only looks at its row.
LEMMA LookTypes ==
  ASSUME Types, LookBegins \/ Sees \/ SeesNothing \/ Refuses \/ Sizes \/ SizesNothing
                \/ \E joins \in BOOLEAN : Looks(joins)
  PROVE  Types'
<1> USE DEF Types
<1>1. NetTypes' /\ HostTypes' /\ HeldTypes'
  BY SameTypes DEF LookBegins, Sees, SeesNothing, Refuses, Sizes, SizesNothing, Looks
<1>2. CASE LookBegins
  <2>1. row.host \in Host
    BY <1>2 DEF LookBegins, Exists, ServerTypes, Row
  <2>2. loop' \in Loop
    BY <1>2, <2>1 DEF LookBegins, Loop, Seens
  <2> QED
    BY <1>1, <1>2, <2>2, SameTypes DEF LookBegins
<1>3. CASE Sees \/ SeesNothing
  <2>1. loop.host \in Host /\ Seen(loop.host) \in Seens
    BY <1>3, LoopTypes, SeenTypes DEF Sees, SeesNothing, HostTypes
  <2>2. PICK saw \in Seens : loop' = [at |-> "reading", host |-> loop.host, saw |-> saw, due |-> FALSE]
    BY <1>3, <2>1 DEF Sees, SeesNothing, Seens
  <2>3. loop' \in Loop
    BY <2>1, <2>2 DEF Loop
  <2> QED
    BY <1>1, <1>3, <2>3, SameTypes DEF Sees, SeesNothing
<1>4. CASE Refuses
  <2>1. [type |-> "refused"] \in Event
    BY DEF Event
  <2>2. ServerTypes'
    BY <1>4, <2>1, AdvanceTypes, SameTypes DEF Refuses, Exists, ServerTypes
  <2> QED
    BY <1>1, <1>4, <2>2 DEF Refuses, Loop
<1>5. CASE Sizes \/ SizesNothing
  <2>1. loop' \in Loop
    BY <1>5 DEF Sizes, SizesNothing, Loop
  <2>2. CASE Sizes /\ Exists /\ vm[loop.host].is # "none"
    <3>1. loop.host \in Host
      BY <2>2, LoopTypes DEF Sizes
    <3>2. [type |-> "sized", sizing |-> vm[loop.host].size] \in Event
      BY <3>1 DEF Event, HostTypes, VM
    <3>3. ServerTypes'
      BY <2>2, <3>2, AdvanceTypes DEF Sizes, Exists, ServerTypes
    <3> QED
      BY <1>1, <2>1, <3>3
  <2> QED
    BY <1>1, <1>5, <2>1, <2>2, SameTypes DEF Sizes, SizesNothing
<1>6. ASSUME NEW joins \in BOOLEAN, Looks(joins) PROVE Types'
  <2>1. loop.host \in Host /\ loop.saw \in Seens /\ boot[loop.host] \in Nat
    BY <1>6, LoopTypes DEF Looks, HostTypes
  <2>2. [type |-> "read", seen |-> loop.saw, joins |-> joins, awaiting |-> FALSE] \in Event
    BY <2>1 DEF Event
  <2>3. ServerTypes'
    BY <1>6, <2>1, <2>2, AdvanceTypes, SameTypes DEF Looks, Exists, ServerTypes
  <2>4. loop' \in Loop
    BY <1>6 DEF Looks, Loop
  <2> QED
    BY <1>1, <2>3, <2>4
<1> QED
  BY <1>2, <1>3, <1>4, <1>5, <1>6

\* A turn that follows its step, up to what it hears.
LEMMA PollTypes ==
  ASSUME Types, PollBegins \/ Waits \/ Sends \/ GivesUp PROVE Types'
<1> USE DEF Types
<1>1. ServerTypes' /\ HostTypes' /\ HeldTypes'
  BY SameTypes DEF PollBegins, Waits, Sends, GivesUp
<1>2. CASE PollBegins
  <2>1. op \in Operation /\ op.seq \in Nat
    BY <1>2 DEF PollBegins, ServerTypes, Operation
  <2>2. row.error \in Errors
    BY <1>2 DEF PollBegins, Exists, ServerTypes, Row
  <2> QED
    BY <1>1, <1>2, <2>1, <2>2 DEF PollBegins, Loop, NetTypes
<1>3. CASE Waits
  <2>1. loop.op \in Operation /\ loop.error \in Errors /\ loop.op.host \in Host
    BY <1>3, LoopTypes DEF Waits, Operation
  <2>2. CASE ~Held(loop.op.host, loop.op.seq)
    BY <1>1, <1>3, <2>1, <2>2, SameTypes DEF Waits, Heard, Loop
  <2>3. CASE Held(loop.op.host, loop.op.seq)
    <3> DEFINE report == entry[loop.op.host][loop.op.seq]
    <3>1. report \in Entry
      BY <2>1, <2>3 DEF Held, HostTypes, EntryTypes
    <3>2. report.status = "running" => loop' = [at |-> "idle"]
      BY <1>3, <2>3 DEF Waits
    <3>3. report.status # "running" =>
            /\ [status |-> report.status, error |-> report.error, size |-> report.size] \in Ends
            /\ loop' = Heard([status |-> report.status, error |-> report.error,
                             size |-> report.size])
      BY <1>3, <2>3, <3>1 DEF Waits, Entry, Ends
    <3> QED
      BY <1>1, <1>3, <2>1, <3>2, <3>3, SameTypes DEF Waits, Heard, Loop
  <2> QED
    BY <2>2, <2>3
<1>4. CASE Sends
  <2>1. loop' = [at |-> "sending", op |-> loop.op, error |-> loop.error]
    BY <1>4 DEF Sends, Loop
  <2> QED
    BY <1>1, <1>4, <2>1, LoopTypes DEF Sends, Loop, NetTypes
<1>5. CASE GivesUp
  BY <1>1, <1>5, SameTypes DEF GivesUp, Loop
<1> QED
  BY <1>2, <1>3, <1>4, <1>5

\* A host that accepts an operation writes an entry of its type.
LEMMA AcceptTypes ==
  ASSUME HostTypes, NEW o \in Operation, Accept(o) PROVE HostTypes'
<1> DEFINE h == o.host
           before == seen[h]
           waits == Running(h, before)
           new == [kind |-> o.kind, to |-> o.to, status |-> "running", error |-> None,
                   size |-> NoSize, at |-> IF waits THEN "queued" ELSE "working",
                   before |-> before, cut |-> FALSE]
           keep == (DOMAIN entry[h] \cup {o.seq}) \ (IF waits THEN {} ELSE {before})
           next == [id \in keep |-> CASE id = o.seq -> new
                                     [] id # o.seq /\ id = before -> [entry[h][id] EXCEPT !.cut = TRUE]
                                     [] OTHER -> entry[h][id]]
<1>1. h \in Host /\ before \in Nat /\ o.seq \in Nat /\ o.to \in Nat /\ o.kind \in Kind
  BY DEF HostTypes, Operation
<1>2. new \in Entry
  BY <1>1 DEF Entry, Errors, None, NoSize
<1>3. keep \subseteq Nat /\ keep \subseteq DOMAIN entry[h] \cup {o.seq}
  BY <1>1 DEF HostTypes, EntryTypes
<1>4. \A id \in keep \ {o.seq} : entry[h][id] \in Entry /\ [entry[h][id] EXCEPT !.cut = TRUE] \in Entry
  <2>1. \A e \in Entry : [e EXCEPT !.cut = TRUE] \in Entry
    BY DEF Entry
  <2>2. \A id \in DOMAIN entry[h] : entry[h][id] \in Entry
    BY <1>1 DEF HostTypes, EntryTypes
  <2> QED
    BY <1>3, <2>1, <2>2
<1>5. next \in [keep -> Entry]
  BY <1>2, <1>4
<1>6. entry' = [entry EXCEPT ![h] = next] /\ seen' = [seen EXCEPT ![h] = o.seq] /\ UNCHANGED <<boot, vm>>
  BY DEF Accept
<1>7. EntryTypes'
  <2> HIDE DEF next, keep
  <2>1. DOMAIN entry' = Host /\ entry'[h] = next /\ DOMAIN next = keep
    BY <1>1, <1>5, <1>6 DEF HostTypes, EntryTypes
  <2>2. \A g \in Host \ {h} : entry'[g] = entry[g]
    BY <1>6 DEF HostTypes, EntryTypes
  <2> QED
    BY <1>3, <1>5, <2>1, <2>2 DEF HostTypes, EntryTypes
<1> QED
  BY <1>1, <1>6, <1>7 DEF HostTypes

\* A run delivered to a host, in time or late, keeps the types.
LEMMA RunsTypes ==
  ASSUME Types, Runs \/ \E o \in sent : RunsLate(o) PROVE Types'
<1> USE DEF Types
<1>1. CASE Runs
  <2>1. loop.op \in Operation
    BY <1>1, LoopTypes DEF Runs
  <2>2. loop' \in Loop
    BY <1>1, <2>1, LoopTypes DEF Runs, Heard, Loop
  <2>3. HostTypes'
    BY <1>1, <2>1, AcceptTypes, SameTypes DEF Runs
  <2> QED
    BY <1>1, <2>2, <2>3, SameTypes DEF Runs
<1>2. CASE \E o \in sent : RunsLate(o)
  BY <1>2, AcceptTypes, SameTypes DEF RunsLate, NetTypes, serverVars
<1> QED
  BY <1>1, <1>2

\* One entry of a host is replaced, or one forgotten.
LEMMA EntryStep ==
  ASSUME HostTypes, NEW h \in Host, NEW f, NEW S \in SUBSET Nat, f \in [S -> Entry],
         entry' = [entry EXCEPT ![h] = f]
  PROVE  EntryTypes'
<1>1. DOMAIN entry' = Host /\ entry'[h] = f /\ DOMAIN f = S
  BY DEF HostTypes, EntryTypes
<1>2. \A g \in Host \ {h} : entry'[g] = entry[g]
  BY DEF HostTypes, EntryTypes
<1> QED
  BY <1>1, <1>2 DEF HostTypes, EntryTypes

\* What a host does on its own with an operation it holds.
LEMMA WorkTypes ==
  ASSUME Types, NEW h \in Host, NEW id \in DOMAIN entry[h],
         Cancels(h, id) \/ Collects(h, id) \/ WorkBegins(h, id) \/ WorkDone(h, id)
           \/ WorkFails(h, id) \/ WorkCancelled(h, id)
  PROVE  Types'
<1> USE DEF Types
<1> DEFINE e == entry[h][id]
<1>1. e \in Entry /\ vm[h] \in VM /\ entry[h] \in [DOMAIN entry[h] -> Entry] /\ DOMAIN entry[h] \in SUBSET Nat
  BY DEF HostTypes, EntryTypes
<1>2. e.kind \in Kind /\ e.to \in Nat
  BY <1>1 DEF Entry
<1>3. ServerTypes' /\ HeldTypes' /\ loop' \in Loop /\ NetTypes' /\ UNCHANGED <<boot, seen>>
  BY SameTypes DEF Cancels, Collects, WorkBegins, WorkDone, WorkFails, WorkCancelled, serverVars
<1>4. \A s \in {"done", "failed", "cancelled"}, x \in Errors, n \in Nat :
        End(h, id, s, x, n) => EntryTypes'
  <2> SUFFICES ASSUME NEW s \in {"done", "failed", "cancelled"}, NEW x \in Errors, NEW n \in Nat,
                      End(h, id, s, x, n)
               PROVE  EntryTypes'
    OBVIOUS
  <2>1. [e EXCEPT !.status = s, !.error = x, !.size = n] \in Entry
    BY <1>1 DEF Entry
  <2>2. [entry[h] EXCEPT ![id] = [@ EXCEPT !.status = s, !.error = x, !.size = n]]
          \in [DOMAIN entry[h] -> Entry]
    BY <1>1, <2>1
  <2> QED
    BY <1>1, <2>2, EntryStep DEF End
<1>5. CASE Cancels(h, id)
  <2>1. [e EXCEPT !.cut = TRUE] \in Entry
    BY <1>1 DEF Entry
  <2>2. [entry[h] EXCEPT ![id].cut = TRUE] \in [DOMAIN entry[h] -> Entry]
    BY <1>1, <2>1
  <2>3. entry' = [entry EXCEPT ![h] = [entry[h] EXCEPT ![id].cut = TRUE]] /\ UNCHANGED vm
    BY <1>5 DEF Cancels
  <2> QED
    BY <1>1, <1>3, <2>2, <2>3, EntryStep DEF HostTypes
<1>6. CASE Collects(h, id)
  <2> DEFINE f == [i \in DOMAIN entry[h] \ {id} |-> entry[h][i]]
  <2>1. f \in [DOMAIN entry[h] \ {id} -> Entry] /\ DOMAIN entry[h] \ {id} \in SUBSET Nat
    BY <1>1
  <2>2. entry' = [entry EXCEPT ![h] = f] /\ UNCHANGED vm
    BY <1>6 DEF Collects
  <2> QED
    BY <1>3, <2>1, <2>2, EntryStep DEF HostTypes
<1>7. CASE WorkBegins(h, id)
  <2> DEFINE next == IF e.cut THEN [e EXCEPT !.status = "cancelled"] ELSE [e EXCEPT !.at = "working"]
             S == DOMAIN entry[h] \ {e.before}
             f == [i \in S |-> IF i = id THEN next ELSE entry[h][i]]
  <2>1. next \in Entry
    BY <1>1 DEF Entry
  <2>2. f \in [S -> Entry] /\ S \in SUBSET Nat
    BY <1>1, <2>1
  <2>3. entry' = [entry EXCEPT ![h] = f] /\ UNCHANGED vm
    BY <1>7 DEF WorkBegins
  <2> QED
    BY <1>3, <2>2, <2>3, EntryStep DEF HostTypes
<1>8. CASE WorkDone(h, id)
  <2>1. DoneEffect(e.kind, e.to, vm[h]) \in VM
    BY <1>1, <1>2, EffectTypes
  <2>2. vm' \in [Host -> VM]
    BY <1>8, <2>1 DEF WorkDone, HostTypes
  <2>3. EntryTypes'
    BY <1>2, <1>4, <1>8 DEF WorkDone, Errors, NoSize
  <2> QED
    BY <1>3, <2>2, <2>3 DEF HostTypes
<1>9. CASE WorkFails(h, id)
  <2>1. vm' \in [Host -> VM]
    <3>1. CutEffects(e.kind, e.to, vm[h]) \subseteq VM
      BY <1>1, <1>2, EffectTypes
    <3> QED
      BY <1>9, <3>1 DEF WorkFails, HostTypes
  <2>2. vm'[h].size \in Nat
    BY <2>1 DEF VM
  <2>3. EntryTypes'
    BY <1>4, <1>9, <2>2 DEF WorkFails, Errors, NoSize
  <2> QED
    BY <1>3, <2>1, <2>3 DEF HostTypes
<1>10. CASE WorkCancelled(h, id)
  <2>1. CutEffects(e.kind, e.to, vm[h]) \subseteq VM
    BY <1>1, <1>2, EffectTypes
  <2>2. vm' \in [Host -> VM]
    BY <1>10, <2>1 DEF WorkCancelled, HostTypes
  <2>3. EntryTypes'
    BY <1>4, <1>10 DEF WorkCancelled, Errors, NoSize
  <2> QED
    BY <1>3, <2>2, <2>3 DEF HostTypes
<1> QED
  BY <1>5, <1>6, <1>7, <1>8, <1>9, <1>10

\* A restart of a host keeps the types.
LEMMA RebootTypes ==
  ASSUME Types, NEW h \in Host, Reboot(h) \/ Drifts(h) PROVE Types'
<1> USE DEF Types
<1>1. ServerTypes' /\ HeldTypes' /\ loop' \in Loop /\ NetTypes'
  BY SameTypes DEF Reboot, Drifts, serverVars
<1>2. vm[h] \in VM /\ \A v \in VM : [v EXCEPT !.is = "stopped"] \in VM
  BY DEF HostTypes, VM
<1>3. CASE Reboot(h)
  <2>1. \A id \in DOMAIN entry[h] : CutEffects(entry[h][id].kind, entry[h][id].to, vm[h]) \subseteq VM
    BY <1>2, EffectTypes DEF HostTypes, EntryTypes, Entry
  <2> DEFINE after == {vm[h]} \cup UNION {CutEffects(entry[h][id].kind, entry[h][id].to, vm[h]) :
                                        id \in {i \in DOMAIN entry[h] : Working(h, i)}}
  <2>2. vm' \in [Host -> VM]
    <3>1. after \subseteq VM
      BY <1>2, <2>1
    <3>2. PICK v \in after, stops \in BOOLEAN :
            vm' = [vm EXCEPT ![h] = IF stops THEN [v EXCEPT !.is = "stopped"] ELSE v]
      BY <1>3 DEF Reboot
    <3>3. (IF stops THEN [v EXCEPT !.is = "stopped"] ELSE v) \in VM
      BY <1>2, <3>1
    <3> QED
      BY <3>2, <3>3 DEF HostTypes
  <2>3. EntryTypes'
    <3>1. <<>> \in [{} -> Entry]
      OBVIOUS
    <3>2. entry' = [entry EXCEPT ![h] = <<>>] /\ {} \in SUBSET Nat
      BY <1>3 DEF Reboot
    <3> QED
      BY <3>1, <3>2, EntryStep
  <2>4. boot' \in [Host -> Nat] /\ seen' \in [Host -> Nat]
    <3>1. boot' = [boot EXCEPT ![h] = boot[h] + 1] /\ seen' = [seen EXCEPT ![h] = 0]
      BY <1>3 DEF Reboot
    <3> QED
      BY <3>1 DEF HostTypes
  <2> QED
    BY <1>1, <2>2, <2>3, <2>4 DEF HostTypes
<1>4. CASE Drifts(h)
  <2>1. NoVM \in VM
    BY DEF NoVM, NoSize, VM
  <2>2. vm' \in [Host -> VM]
    BY <1>2, <1>4, <2>1 DEF Drifts, HostTypes
  <2> QED
    BY <1>1, <1>4, <2>2 DEF Drifts, HostTypes, EntryTypes
<1> QED
  BY <1>3, <1>4

\* Every step keeps the types.
LEMMA TypesStep == Types /\ [Next]_vars => Types'
<1> SUFFICES ASSUME Types, [Next]_vars PROVE Types'
  OBVIOUS
<1>1. CASE Client
  BY <1>1, ClientTypes
<1>2. CASE Turn
  BY <1>2, LookTypes, PollTypes, RunsTypes, FollowsTypes DEF Turn
<1>3. CASE Crash
  BY <1>3, CrashTypes
<1>4. ASSUME NEW h \in Host, HostStep(h) PROVE Types'
  BY <1>4, RunsTypes, WorkTypes, RebootTypes DEF HostStep
<1>5. CASE UNCHANGED vars
  BY <1>5, SameTypes DEF vars, netVars, hostVars, Types
<1> QED
  BY <1>1, <1>2, <1>3, <1>4, <1>5 DEF Next

\* TypeOK holds always: whatever the requests, faults and interleavings, the store,
\* the process, the network and the hosts hold values of their types.
THEOREM TypesHold == Spec => []TypeOK
<1>1. Init => Types
  BY InitTypes
<1>2. Types /\ [Next]_vars => Types'
  BY TypesStep
<1>3. Types => TypeOK
  BY TypesImply
<1> QED
  BY <1>1, <1>2, <1>3, PTL DEF Spec

--------------------------------------------------------------------------------
(* Operations are steps.  The chart says which step each leaf sends; these *)
(* lemmas say how each kind of event moves between leaves with and without *)
(* one.                                                                    *)

\* A row is never mistaken for its absence.
LEMMA RowNotGone == \A r \in Row : r # Gone /\ r.state \in Leaf /\ r.state # "gone"
<1>1. "gone" \notin Leaf
  BY DEF Leaf, Making, Made, Standing, Stepping, Undoing, Deleting, Starting, Stopping, Pausing,
         Resizing, JoinSent, JoinAsked
<1> QED
  BY <1>1 DEF Row, Gone

\* A request never ends a step nor begins one; a delete makes the one in flight "any".
LEMMA RequestSteps ==
  ASSUME NEW r \in Row, NEW e \in Event,
         e.type \in {"ask", "resize", "sized", "delete", "refused"},
         NEW t, t = Transition(r, e)
  PROVE  /\ t = Gone => StepOf(r.state) = None
         /\ t # Gone => /\ t.host = r.host
                       /\ \/ StepOf(t.state) = StepOf(r.state)
                          \/ StepOf(r.state) # None /\ StepOf(t.state) = "any"
<1> USE DEF Starting, Stopping, Pausing, Resizing, JoinSent, JoinAsked
<1>1. CASE e.type = "ask"
  <2>1. OnAsk(r, e) \in Row /\ t = OnAsk(r, e)
    BY <1>1, AskTypes DEF Event, Transition
  <2>2. t.host = r.host /\ StepOf(t.state) = StepOf(r.state)
    BY <2>1 DEF OnAsk, Asked, Goto, StepOf, None, Row, Making, Stepping, Standing
  <2> QED
    BY <2>1, <2>2, RowNotGone
<1>2. CASE e.type = "resize"
  <2>1. OnResize(r, e) \in Row /\ t = OnResize(r, e)
    BY <1>2, ResizeTypes DEF Event, Transition
  <2>2. t.host = r.host /\ StepOf(t.state) = StepOf(r.state)
    BY <2>1 DEF OnResize, Owed, Goto, StepOf, None, Row, Making, Stepping, Standing
  <2> QED
    BY <2>1, <2>2, RowNotGone
<1>3. CASE e.type = "delete"
  <2>1. t = OnDelete(r)
    BY <1>3 DEF Transition
  <2> QED
    BY ZenonT(30), <2>1, RowNotGone DEF OnDelete, EnterDeleting, StepOf, None, Gone, Row, Making,
                            Stepping, Standing
<1>4. CASE e.type \in {"sized", "refused"}
  <2>1. t.host = r.host /\ t.state \in {r.state, "undoing.due"}
    BY <1>4 DEF Transition, OnRefused, Row
  <2>2. t.state = "undoing.due" => r.state \in {"making.due", "undoing.due"}
    BY <1>4 DEF Transition, OnRefused, Row
  <2> QED
    BY <2>1, <2>2, RowNotGone DEF StepOf, None, Gone
<1> QED
  BY <1>1, <1>2, <1>3, <1>4

\* A read leaves a row whose step is in flight, and begins only a named step.
LEMMA ReadSteps ==
  ASSUME NEW r \in Row, NEW e \in Event, e.type = "read", NEW t, t = Transition(r, e)
  PROVE  /\ t # Gone /\ t.host = r.host
         /\ StepOf(r.state) # None => t = r
         /\ StepOf(r.state) = None => StepOf(t.state) # "any"
<1> USE DEF Starting, Stopping, Pausing, Resizing, JoinSent, JoinAsked
<1>1. t = OnRead(r, e)
  BY DEF Transition
<1>2. /\ Decided(r, e).host = r.host
      /\ Decided(r, e).state \in {r.state, "made.lost", "made.settled", Starting, Stopping,
                                 Pausing, Resizing, JoinSent}
  BY DEF Decided, Goto, NoSize, Row
<1>3. t \in Row /\ t.host = r.host
  BY SMTT(30), <1>1, <1>2, ReadTypes DEF Event, OnRead, Goto, Row
<1>4. StepOf(r.state) # None => t = r
  BY <1>1 DEF OnRead, StepOf, None
<1>5. StepOf(r.state) = None => StepOf(t.state) # "any"
  BY <1>1, <1>2 DEF OnRead, Goto, StepOf, None, Row
<1> QED
  BY <1>3, <1>4, <1>5, RowNotGone

\* An end of a step, reported or not, leaves its row at a leaf without one.
LEMMA EndSteps ==
  ASSUME NEW r \in Row, NEW e \in Event, e.type \in {"reported", "lost"},
         StepOf(r.state) # None, NEW t, t = Transition(r, e)
  PROVE  t # r /\ StepOf(t.state) = None
<1> USE DEF Starting, Stopping, Pausing, Resizing, JoinSent, JoinAsked
<1>1. CASE e.type = "lost"
  BY <1>1 DEF Transition, OnLost, Goto, StepOf, None, Row, Stepping
<1>2. CASE e.type = "reported"
  <2>1. Told(r, e) \in Row /\ Told(r, e).state = r.state
    BY <1>2 DEF Told, Row, NoSize, Event
  <2>2. \A p \in BOOLEAN : Ended(r, e, p).state \in {"made.failed", "made.observing"}
    BY <2>1 DEF Ended, Row
  <2>3. Undone(r, e).state \in {"undoing.held", "undoing.due", "undone", "making.due"}
    BY DEF Undone, Goto, Row
  <2>4. Deleted(r, e).state \in {"gone", "deleting.held", "deleting.due"}
    BY DEF Deleted, Goto, Gone, Row
  <2>5. t.state \in {"made.failed", "made.observing", "made.settled", "undoing.held", "undoing.due",
                    "undone", "making.due", "gone", "deleting.held", "deleting.due"}
    BY ZenonT(30), <1>2, <2>1, <2>2, <2>3, <2>4 DEF Transition, OnReported, Goto, StepOf, None, Row
  <2> QED
    BY <2>5 DEF StepOf, None
<1> QED
  BY <1>1, <1>2

\* One event written on a row whose operation is its step.
LEMMA AdvanceOp ==
  ASSUME row \in Row, op \in Operation \cup {NoOp}, last \in Nat, OpIsStep,
         NEW e \in Event, NEW b \in Nat, Advance(e, b),
         e.type \in {"reported", "lost"} => op # NoOp
  PROVE  OpIsStep' /\ (op # NoOp /\ e.type \notin {"reported", "lost"} => op' = op)
<1> DEFINE t == Transition(row, e)
<1>1. t \in Row \cup {Gone} /\ row # Gone /\ Exists
  BY TransitionTypes DEF Row, Gone, Leaf, Exists
<1>2. op # NoOp <=> StepOf(row.state) # None
  BY <1>1 DEF OpIsStep
<1>3. op # NoOp => StepOf(row.state) \in {"any", op.kind} /\ op.host = row.host
  BY DEF OpIsStep
<1>4. StepOf(Gone.state) = None
  BY DEF StepOf, Gone, None, Starting, Stopping, Pausing, Resizing, JoinSent, JoinAsked
<1>5. CASE e.type \in {"ask", "resize", "sized", "delete", "refused"}
  <2>1. ~Throws(row, e, op) /\ ~Begins(row, e, op) /\ ~Finishes(row, e, op)
    BY <1>2, <1>4, <1>5, RequestSteps DEF Throws, Begins, Finishes, None
  <2>2. row' = t /\ op' = op
    BY <2>1 DEF Advance
  <2> QED
    BY <1>1, <1>2, <1>3, <1>5, <2>2, RequestSteps DEF OpIsStep, Exists, None
<1>6. CASE e.type = "read"
  <2>1. ~Throws(row, e, op) /\ row' = t
    BY <1>6 DEF Throws, Advance
  <2>2. CASE op # NoOp
    <3>1. t = row /\ ~Begins(row, e, op) /\ ~Finishes(row, e, op)
      BY <1>2, <1>6, <2>2, ReadSteps DEF Begins, Finishes
    <3> QED
      BY <2>1, <3>1 DEF Advance, OpIsStep, Exists
  <2>3. CASE op = NoOp
    <3>1. ~Finishes(row, e, op) /\ t # Gone /\ t.host = row.host /\ StepOf(t.state) # "any"
      BY <1>2, <1>6, <2>3, ReadSteps DEF Finishes
    <3>2. CASE StepOf(t.state) = None
      BY <2>1, <2>3, <3>1, <3>2 DEF Advance, Begins, OpIsStep, Exists
    <3>3. CASE StepOf(t.state) # None
      <4>1. Begins(row, e, op)
        BY <1>2, <1>6, <2>3, <3>1, <3>3 DEF Begins
      <4>2. op' = [seq |-> last + 1, kind |-> StepOf(t.state), host |-> row.host, boot |-> b,
                   to |-> row.resize]
        BY <2>1, <4>1 DEF Advance
      <4>3. op' # NoOp /\ op'.kind = StepOf(t.state) /\ op'.host = row.host
        BY <4>2 DEF NoOp
      <4> QED
        BY <2>1, <2>3, <3>1, <3>3, <4>3 DEF OpIsStep, Exists
    <3> QED
      BY <3>2, <3>3
  <2> QED
    BY <2>2, <2>3
<1>7. CASE e.type \in {"reported", "lost"}
  <2>1. op # NoOp /\ t # row /\ StepOf(t.state) = None
    BY <1>2, <1>7, EndSteps
  <2>2. ~Throws(row, e, op) /\ ~Begins(row, e, op) /\ Finishes(row, e, op)
    BY <2>1 DEF Throws, Begins, Finishes
  <2>3. row' = t /\ op' = NoOp
    BY <2>2 DEF Advance
  <2> QED
    BY <1>7, <2>1, <2>3 DEF OpIsStep, Exists
<1> QED
  BY <1>5, <1>6, <1>7 DEF Event

\* A loop that polls still has the row's own operation: no request takes it away.
LoopHasOp == loop.at \in {"waiting", "sending", "heard"} => op # NoOp /\ loop.op = op

OpInv == Types /\ OpIsStep /\ LoopHasOp

\* A step that writes neither the row nor the operation keeps OpIsStep.
LEMMA OpSame == OpIsStep /\ UNCHANGED <<row, op>> => OpIsStep'
BY DEF OpIsStep, Exists

\* A request written on the row keeps its operation and so the loop's.
LEMMA RequestOp ==
  ASSUME OpInv, Exists, NEW e \in Event, Advance(e, 0), e.type \notin {"reported", "lost"}
  PROVE  OpIsStep' /\ (op # NoOp => op' = op)
BY AdvanceOp DEF OpInv, Types, ServerTypes, Exists

\* A request keeps the invariant of operations.
LEMMA ClientOp ==
  ASSUME OpInv, Client PROVE OpIsStep' /\ LoopHasOp'
<1>1. loop' = loop
  BY DEF Client, Create, Delete, Expire, Ask, Resize
<1>2. ~Exists \/ row.state = "undone" => op = NoOp
  BY DEF OpInv, OpIsStep, Exists, StepOf, None, Starting, Stopping, Pausing, Resizing, JoinSent,
         JoinAsked
<1>3. OpIsStep' /\ (op # NoOp => op' = op)
  <2>1. CASE Create
    <3>1. op' = NoOp /\ op = NoOp /\ row'.state = "making.due"
      BY <1>2, <2>1 DEF Create
    <3> QED
      BY <3>1 DEF OpIsStep, Exists, StepOf, None, Starting, Stopping, Pausing, Resizing, JoinSent,
                  JoinAsked
  <2>2. CASE Expire
    BY <1>2, <2>2 DEF Expire, OpIsStep, Exists
  <2>3. CASE Delete
    <3>1. [type |-> "delete"] \in Event
      BY DEF Event
    <3> QED
      BY <2>3, <3>1, RequestOp DEF Delete
  <2>4. ASSUME NEW wish \in Wish, Ask(wish) PROVE OpIsStep' /\ (op # NoOp => op' = op)
    <3>1. [type |-> "ask", desired |-> wish] \in Event
      BY DEF Event
    <3> QED
      BY <2>4, <3>1, RequestOp DEF Ask
  <2>5. ASSUME NEW to \in Sizings, Resize(to) PROVE OpIsStep' /\ (op # NoOp => op' = op)
    <3>1. [type |-> "resize", sizing |-> to] \in Event
      BY ConstantsAssumption DEF Event
    <3> QED
      BY <2>5, <3>1, RequestOp DEF Resize
  <2> QED
    BY <2>1, <2>2, <2>3, <2>4, <2>5 DEF Client, Wish
<1> QED
  BY <1>1, <1>3 DEF OpInv, LoopHasOp

\* A turn of the loop keeps the invariant of operations.
LEMMA TurnOp ==
  ASSUME OpInv, Turn PROVE OpIsStep' /\ LoopHasOp'
<1>1. CASE LookBegins \/ Sees \/ SeesNothing \/ GivesUp \/ SizesNothing
  <2>1. OpIsStep'
    BY <1>1, OpSame DEF OpInv, LookBegins, Sees, SeesNothing, GivesUp, SizesNothing
  <2>2. loop'.at \notin {"waiting", "sending", "heard"}
    BY <1>1 DEF LookBegins, Sees, SeesNothing, GivesUp, SizesNothing
  <2> QED
    BY <2>1, <2>2 DEF LoopHasOp
<1>2. CASE PollBegins \/ Waits \/ Sends \/ Runs
  <2>1. OpIsStep'
    BY <1>2, OpSame DEF OpInv, PollBegins, Waits, Sends, Runs
  <2>2. CASE PollBegins
    BY <2>1, <2>2 DEF PollBegins, LoopHasOp
  <2>3. CASE Sends
    <3>1. loop'.op = loop.op /\ op' = op
      BY <2>3 DEF Sends, OpInv, Types, Loop
    <3> QED
      BY <2>1, <2>3, <3>1 DEF Sends, OpInv, LoopHasOp
  <2>4. CASE Waits \/ Runs
    <3>1. (loop'.at = "idle" \/ loop'.op = loop.op) /\ op' = op
      BY <2>4 DEF Waits, Runs, Heard
    <3> QED
      BY <2>1, <2>4, <3>1 DEF Waits, Runs, Heard, OpInv, LoopHasOp
  <2> QED
    BY <1>2, <2>1, <2>2, <2>3, <2>4
<1>3. CASE Follows
  <2>1. loop.op \in Operation /\ loop.heard \in Ends \cup {Lost} /\ op # NoOp
    BY <1>3, LoopTypes DEF Follows, OpInv, Types, LoopHasOp
  <2>2. PICK move \in Moves : Advance(EventOf(loop.heard, move), 0)
    BY <1>3 DEF Follows
  <2>3. EventOf(loop.heard, move) \in Event
    BY <2>1, HeardTypes DEF OpInv, Types
  <2>4. OpIsStep'
    BY <1>3, <2>1, <2>2, <2>3, AdvanceOp DEF Follows, Exists, OpInv, Types, ServerTypes
  <2>5. loop'.at \notin {"waiting", "sending", "heard"}
    BY <1>3 DEF Follows
  <2> QED
    BY <2>4, <2>5 DEF LoopHasOp
<1>4. CASE Refuses \/ Sizes \/ \E joins \in BOOLEAN : Looks(joins)
  <2>1. loop'.at \notin {"waiting", "sending", "heard"}
    <3>1. loop' = [at |-> "idle"]
      BY <1>4 DEF Refuses, Sizes, Looks
    <3> QED
      BY <3>1
  <2>2. CASE UNCHANGED <<row, op>>
    BY <2>1, <2>2, OpSame DEF OpInv, LoopHasOp
  <2>3. CASE Refuses /\ Exists
    <3>1. [type |-> "refused"] \in Event
      BY DEF Event
    <3> QED
      BY <2>1, <2>3, <3>1, RequestOp DEF Refuses, LoopHasOp
  <2>4. CASE Sizes /\ Exists /\ vm[loop.host].is # "none"
    <3>1. loop.host \in Host
      BY <2>4, LoopTypes DEF Sizes, OpInv, Types
    <3>2. [type |-> "sized", sizing |-> vm[loop.host].size] \in Event
      BY <3>1 DEF OpInv, Types, Event, HostTypes, VM
    <3> QED
      BY <2>1, <2>4, <3>2, RequestOp DEF Sizes, LoopHasOp
  <2>5. ASSUME NEW joins \in BOOLEAN, Looks(joins), Exists PROVE OpIsStep' /\ LoopHasOp'
    <3> DEFINE e == [type |-> "read", seen |-> loop.saw, joins |-> joins, awaiting |-> FALSE]
    <3>1. loop.host \in Host /\ loop.saw \in Seens /\ boot[loop.host] \in Nat
      BY <2>5, LoopTypes DEF Looks, OpInv, Types, HostTypes
    <3>2. e \in Event
      BY <3>1 DEF Event
    <3>3. Advance(e, boot[loop.host])
      BY <2>5 DEF Looks
    <3>4. OpIsStep'
      BY <2>5, <3>1, <3>2, <3>3, AdvanceOp DEF Exists, OpInv, Types, ServerTypes
    <3> QED
      BY <2>1, <3>4 DEF LoopHasOp
  <2> QED
    BY <1>4, <2>2, <2>3, <2>4, <2>5 DEF Refuses, Sizes, Looks
<1> QED
  BY <1>1, <1>2, <1>3, <1>4 DEF Turn

\* A restart of the control plane, with its deletes of ephemeral rows, keeps it.
LEMMA CrashOp ==
  ASSUME OpInv, Crash PROVE OpIsStep' /\ LoopHasOp'
<1>1. LoopHasOp'
  BY DEF Crash, LoopHasOp
<1>2. CASE Exists /\ Ephemeral
  <2>1. [type |-> "delete"] \in Event
    BY DEF Event
  <2> QED
    BY <1>1, <1>2, <2>1, RequestOp DEF Crash
<1>3. CASE ~(Exists /\ Ephemeral)
  BY <1>1, <1>3, OpSame DEF Crash, OpInv
<1> QED
  BY <1>2, <1>3

\* What a host does touches neither row nor operation.
LEMMA HostOp ==
  ASSUME OpInv, NEW h \in Host, HostStep(h) PROVE OpIsStep' /\ LoopHasOp'
<1>1. UNCHANGED serverVars
  BY DEF HostStep, RunsLate, Cancels, Collects, WorkBegins, WorkDone, WorkFails, WorkCancelled,
         Reboot, Drifts
<1> QED
  BY <1>1, OpSame DEF OpInv, LoopHasOp, serverVars


\* With no row there is no operation.
LEMMA OpInvInit == Init => OpInv
BY InitTypes DEF Init, OpInv, OpIsStep, LoopHasOp, Exists

\* Every step keeps the invariant of operations.
LEMMA OpInvStep == OpInv /\ [Next]_vars => OpInv'
<1> SUFFICES ASSUME OpInv, [Next]_vars PROVE OpInv'
  OBVIOUS
<1>1. Types'
  BY TypesStep DEF OpInv
<1>2. CASE UNCHANGED vars
  BY <1>1, <1>2, OpSame DEF vars, OpInv, LoopHasOp
<1>3. CASE Next
  BY <1>1, <1>3, ClientOp, TurnOp, CrashOp, HostOp DEF Next, OpInv
<1> QED
  BY <1>2, <1>3

\* A row has an operation exactly when its leaf has a step, of that kind and on its
\* host, so `applied` never throws and a loop is never without its
\* operation, whichever request lands between two of its turns.
THEOREM OperationsAreSteps == Spec => []OpIsStep
<1>1. OpInv => OpIsStep
  BY DEF OpInv
<1> QED
  BY <1>1, OpInvInit, OpInvStep, PTL DEF Spec

--------------------------------------------------------------------------------
(* What every step may do to the row. *)

\* Only a create, an expiry and an event of the chart write a row.
LEMMA RowSteps ==
  ASSUME Types, [Next]_vars
  PROVE  \/ UNCHANGED row
         \/ Create \/ Expire
         \/ Exists /\ \E e \in Event : row' = Transition(row, e)
<1> DEFINE ByChart == Exists /\ \E e \in Event : row' = Transition(row, e)
<1>1. ASSUME NEW e \in Event, NEW b, Exists, Advance(e, b) PROVE UNCHANGED row \/ ByChart
  BY <1>1 DEF Advance
<1>2. CASE Client
  <2>1. [type |-> "delete"] \in Event
    BY DEF Event
  <2>2. \A wish \in Wish : [type |-> "ask", desired |-> wish] \in Event
    BY DEF Event
  <2>3. \A to \in Sizings : [type |-> "resize", sizing |-> to] \in Event
    BY ConstantsAssumption DEF Event
  <2>4. CASE Delete
    BY <1>1, <2>1, <2>4 DEF Delete
  <2>5. ASSUME NEW wish \in Wish, Ask(wish) PROVE UNCHANGED row \/ ByChart
    BY <1>1, <2>2, <2>5 DEF Ask
  <2>6. ASSUME NEW to \in Sizings, Resize(to) PROVE UNCHANGED row \/ ByChart
    BY <1>1, <2>3, <2>6 DEF Resize
  <2> QED
    BY <1>2, <2>4, <2>5, <2>6 DEF Client, Wish
<1>3. CASE Crash
  <2>1. [type |-> "delete"] \in Event
    BY DEF Event
  <2> QED
    BY <1>1, <1>3, <2>1 DEF Crash
<1>4. CASE Turn
  <2>1. CASE Follows
    <3>1. loop.heard \in Ends \cup {Lost}
      BY <2>1, LoopTypes DEF Follows, Types
    <3>2. PICK move \in Moves : Advance(EventOf(loop.heard, move), 0)
      BY <2>1 DEF Follows
    <3>3. EventOf(loop.heard, move) \in Event
      BY <3>1, HeardTypes DEF Types
    <3> QED
      BY <1>1, <2>1, <3>2, <3>3 DEF Follows
  <2>2. CASE Refuses
    <3>1. [type |-> "refused"] \in Event
      BY DEF Event
    <3> QED
      BY <1>1, <2>2, <3>1 DEF Refuses
  <2>3. CASE Sizes
    <3>1. loop.host \in Host
      BY <2>3, LoopTypes DEF Sizes, Types
    <3>2. [type |-> "sized", sizing |-> vm[loop.host].size] \in Event
      BY <3>1 DEF Types, Event, HostTypes, VM
    <3> QED
      BY <1>1, <2>3, <3>2 DEF Sizes
  <2>4. ASSUME NEW joins \in BOOLEAN, Looks(joins) PROVE UNCHANGED row \/ ByChart
    <3> DEFINE e == [type |-> "read", seen |-> loop.saw, joins |-> joins, awaiting |-> FALSE]
    <3>1. loop.saw \in Seens
      BY <2>4, LoopTypes DEF Looks, Types
    <3>2. e \in Event
      BY <3>1 DEF Event
    <3>3. UNCHANGED row \/ (Exists /\ Advance(e, boot[loop.host]))
      BY <2>4 DEF Looks
    <3> QED
      BY <1>1, <3>2, <3>3
  <2>5. CASE ~(Follows \/ Refuses \/ Sizes \/ \E joins \in BOOLEAN : Looks(joins))
    BY <1>4, <2>5 DEF Turn, LookBegins, Sees, SeesNothing, PollBegins, Waits, Sends, Runs, GivesUp,
                      SizesNothing
  <2> QED
    BY <2>1, <2>2, <2>3, <2>4, <2>5
<1>5. ASSUME NEW h \in Host, HostStep(h) PROVE UNCHANGED row
  BY <1>5 DEF HostStep, RunsLate, Cancels, Collects, WorkBegins, WorkDone, WorkFails, WorkCancelled,
              Reboot, Drifts, serverVars
<1>6. CASE UNCHANGED vars
  BY <1>6 DEF vars
<1> QED
  BY <1>2, <1>3, <1>4, <1>5, <1>6 DEF Next

\* No event of the chart takes a row out of the deleting region but its removal.
LEMMA DeletingStays ==
  ASSUME NEW r \in Row, r.state \in Deleting, NEW e \in Event
  PROVE  Transition(r, e) = Gone \/ Transition(r, e).state \in Deleting
<1> DEFINE t == Transition(r, e)
<1> USE DEF Deleting, Making, Made, Standing, Stepping, Undoing, Starting, Stopping, Pausing,
            Resizing, JoinSent, JoinAsked, Row
<1>1. CASE e.type \in {"ask", "resize", "sized", "refused"}
  BY <1>1 DEF Transition, OnAsk, OnResize, OnRefused
<1>2. CASE e.type \in {"delete", "read", "lost"}
  BY <1>2 DEF Transition, OnDelete, OnRead, OnLost, EnterDeleting, Goto
<1>3. CASE e.type = "reported"
  <2>1. Told(r, e).state = r.state /\ Told(r, e) \in Row
    BY <1>3 DEF Told, NoSize, Event
  <2>2. t = IF r.state = "deleting.draining" THEN Goto(Told(r, e), "deleting.due")
            ELSE IF r.state = "deleting.sent" THEN Deleted(r, e) ELSE r
    BY <1>3 DEF Transition, OnReported
  <2> QED
    BY <2>1, <2>2 DEF Deleted, Goto
<1> QED
  BY <1>1, <1>2, <1>3 DEF Event

\* A recorded delete only ever ends in the row's removal: no late report, lost step,
\* wish or restart takes the machine out of the deleting region again.
THEOREM DeletesAreFinal == Spec => DeleteIsFinal
<1>1. Types /\ [Next]_vars => [Exists /\ row.state \in Deleting => row' = Gone \/ row'.state \in Deleting]_row
  <2> SUFFICES ASSUME Types, [Next]_vars, Exists, row.state \in Deleting, row' # row
               PROVE  row' = Gone \/ row'.state \in Deleting
    OBVIOUS
  <2>1. row \in Row /\ row.state # "undone"
    BY DEF Types, ServerTypes, Exists, Deleting
  <2>2. CASE Create \/ Expire
    BY <2>1, <2>2 DEF Create, Expire
  <2>3. CASE \E e \in Event : row' = Transition(row, e)
    BY <2>1, <2>3, DeletingStays
  <2> QED
    BY <2>2, <2>3, RowSteps
<1> QED
  BY <1>1, InitTypes, TypesStep, PTL DEF Spec, DeleteIsFinal

\* The leaves a row reaches only with an error and keeps it at.
Says(r) ==
  r.state \in {"made.failed", "undoing.due", "undoing.sent", "undoing.held", "undone",
              "deleting.held"} => r.error # None

\* No event of the chart leaves a failed row without its error.
LEMMA SaysStays ==
  ASSUME NEW r \in Row, Says(r), NEW e \in Event, Transition(r, e) # Gone
  PROVE  Says(Transition(r, e))
<1> DEFINE t == Transition(r, e)
<1> USE DEF Deleting, Making, Made, Standing, Stepping, Undoing, Starting, Stopping, Pausing,
            Resizing, JoinSent, JoinAsked, Row
<1>1. CASE e.type \in {"ask", "resize"}
  BY <1>1 DEF Transition, OnAsk, OnResize, Asked, Owed, Goto, Says
<1>2. CASE e.type \in {"delete", "sized", "refused"}
  BY <1>2 DEF Transition, OnDelete, OnRefused, EnterDeleting, Says, None
<1>3. CASE e.type = "read"
  <2>1. Decided(r, e) = r \/ Decided(r, e).state \in {"made.lost", "made.settled"} \cup Stepping
    BY DEF Decided, Goto
  <2> QED
    BY <1>3, <2>1 DEF Transition, OnRead, Goto, Says
<1>4. CASE e.type = "lost"
  BY <1>4 DEF Transition, OnLost, Goto, Says, None
<1>5. CASE e.type = "reported"
  <2>1. Told(r, e) \in Row /\ e.error # None
    BY <1>5 DEF Told, NoSize, Event
  <2>2. \A p \in BOOLEAN : Says(Ended(r, e, p))
    BY <2>1 DEF Ended, Says
  <2>3. r.state = "undoing.sent" => Says(Undone(r, e))
    BY DEF Undone, Goto, Says
  <2>4. Deleted(r, e) # Gone => Says(Deleted(r, e))
    BY <2>1 DEF Deleted, Goto, Says
  <2>5. t = OnReported(r, e)
    BY <1>5 DEF Transition
  <2> QED
    BY ZenonT(30), <2>1, <2>2, <2>3, <2>4, <2>5 DEF OnReported, Goto, Says
<1> QED
  BY <1>1, <1>2, <1>3, <1>4, <1>5 DEF Event

\* A row whose phase reads failed always says why.
THEOREM FailuresSayWhy == Spec => []FailedSays
<1> DEFINE Inv == Types /\ (Exists => Says(row))
<1>1. Init => Inv
  BY InitTypes DEF Init, Exists
<1>2. Inv /\ [Next]_vars => Inv'
  <2> SUFFICES ASSUME Inv, [Next]_vars PROVE Inv'
    OBVIOUS
  <2>1. Types'
    BY TypesStep
  <2>2. CASE UNCHANGED row
    BY <2>1, <2>2 DEF Exists, Says
  <2>3. CASE Create \/ Expire
    BY <2>1, <2>3 DEF Create, Expire, Exists, Says
  <2>4. CASE Exists /\ \E e \in Event : row' = Transition(row, e)
    BY <2>1, <2>4, SaysStays DEF Exists, Types, ServerTypes
  <2> QED
    BY <2>2, <2>3, <2>4, RowSteps
<1>3. Inv => FailedSays
  BY DEF Types, ServerTypes, Exists, Says, FailedSays, PhaseOf, Row, Leaf, Making, Made, Standing,
         Stepping, Undoing, Deleting, Starting, Stopping, Pausing, Resizing, JoinSent, JoinAsked
<1> QED
  BY <1>1, <1>2, <1>3, PTL DEF Spec
================================================================================
