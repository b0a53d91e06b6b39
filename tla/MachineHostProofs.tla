--------------------------- MODULE MachineHostProofs ---------------------------
(***************************************************************************)
(* Proofs about MachineLife that reach its hosts: which of their work and  *)
(* their VMs a row stands for, however calls are lost, doubled and late,   *)
(* and whichever processes restart, for every set of hosts and every bound;*)
(* and, while only steps change the VM, that a settled machine is what it  *)
(* was last asked to be.                                                   *)
(***************************************************************************)
EXTENDS MachineLifeProofs

--------------------------------------------------------------------------------
(* The inductive invariant. *)

\* A host that was sent `o` will not run it any more: it restarted since, or it
\* has come as far on the machine.
Spent(o) == \/ o.boot < boot[o.host]
            \/ o.boot = boot[o.host] /\ o.seq <= seen[o.host]

\* Nothing runs on the host, and nothing that was sent to it ever will.
Quiet(h) == /\ \A id \in DOMAIN entry[h] : ~Running(h, id)
            /\ \A o \in sent : o.host = h => Spent(o)

Clean(h) == Quiet(h) /\ vm[h] = NoVM

\* What was sent, by its sequences and boots: each sequence is one operation, and
\* the row's is the last of them.
Numbers ==
  /\ \A o \in sent : o.seq <= last /\ o.boot <= boot[o.host]
  /\ \A o, p \in sent : o.seq = p.seq => o = p
  /\ op # NoOp => /\ op.seq = last /\ op.boot <= boot[op.host]
                  /\ \A o \in sent : /\ o.seq = op.seq => o = op
                                     /\ o.host = op.host => o.boot <= op.boot
  /\ loop.at = "sending" => loop.op \in sent

\* An entry is of an operation that was sent to this boot of its host, which has
\* come at least as far.
Entries(h) ==
  /\ seen[h] <= last
  /\ \A id \in DOMAIN entry[h] :
       /\ id <= seen[h] /\ entry[h][id].before < id
       /\ \E o \in sent : /\ o.seq = id /\ o.host = h /\ o.boot = boot[h]
                          /\ o.kind = entry[h][id].kind

\* What runs on a host queues up: each behind one that runs and is no earlier than
\* any that runs before it.
Chain(h) ==
  /\ \A i, j \in DOMAIN entry[h] :
       Running(h, i) /\ Running(h, j) /\ i < j =>
         /\ entry[h][j].at = "queued"
         /\ Running(h, entry[h][j].before) /\ i <= entry[h][j].before
  /\ \A i \in DOMAIN entry[h] : Running(h, i) => Running(h, seen[h])

\* What ran was sent and cannot be taken again, and what queues has not begun.
RanSpent ==
  /\ \A id \in DOMAIN ran : /\ ran[id] = 1
                            /\ \E o \in sent : o.seq = id
                            /\ \A o \in sent : o.seq = id => Spent(o)
  /\ \A h \in Host : \A id \in DOMAIN entry[h] :
       Running(h, id) /\ entry[h][id].at = "queued" => id \notin DOMAIN ran

Hosts == RanSpent /\ \A h \in Host : Entries(h) /\ Chain(h)

\* Every host but the row's is clean, and all are once the row is gone or undone.
Home == \A h \in Host : ~Exists \/ row.state = "undone" \/ row.host # h => Clean(h)

\* Between two steps its host is quiet, but before the remove that follows a make
\* nobody could build again.
Rest == Exists /\ op = NoOp /\ row.state \notin {"undoing.due", "deleting.due"} => Quiet(row.host)

\* A loop that looks at its row still has it, on the host it looks at.
Look == loop.at \in {"seeing", "reading"} =>
          Exists /\ row.host = loop.host /\ op = NoOp /\ row.state # "undone"

\* A remove that ended done left no VM.
Removed ==
  op # NoOp /\ op.kind = "remove" /\ Held(op.host, op.seq)
    /\ entry[op.host][op.seq].status = "done" => vm[op.host] = NoVM

\* The step a loop heard of is over, unless it is a make that was given up.
HeardTrue ==
  loop.at = "heard" =>
    /\ Quiet(op.host) \/ (loop.heard = Lost /\ op.kind = "make")
    /\ op.kind = "remove" /\ loop.heard.status = "done" => vm[op.host] = NoVM

Inv == OpInv /\ Numbers /\ Hosts /\ Home /\ Rest /\ Look /\ Removed /\ HeardTrue

--------------------------------------------------------------------------------
(* Steps of a host. *)

\* An entry that is done was so before, or its work ends now as it is meant to.
EndsDone(g, i) == entry'[g][i].status = "done" =>
  /\ i \in DOMAIN entry[g] /\ entry'[g][i].kind = entry[g][i].kind
  /\ \/ entry[g][i].status = "done"
     \/ vm'[g] = DoneEffect(entry[g][i].kind, entry[g][i].to, vm[g])

\* What a step of a host keeps of everything sent and of every host's rest.
Keeps == /\ Hosts'
         /\ \A g \in Host : \A i \in DOMAIN entry'[g] : EndsDone(g, i)
         /\ \A o \in sent : Spent(o) => Spent(o)'
         /\ \A g \in Host : /\ Quiet(g) => Quiet(g)'
                            /\ Clean(g) => Clean(g)'

\* Entries whose first running one may end, or that are forgotten once ended, stay
\* chained (operations.ts: each fiber waits for the one before it).
LEMMA ChainShrinks ==
  ASSUME HostTypes, NEW h \in Host, Entries(h), Chain(h), NEW first \in Nat,
         UNCHANGED <<boot, seen, sent, last>>,
         DOMAIN entry'[h] \subseteq DOMAIN entry[h],
         \A i \in DOMAIN entry'[h] : /\ entry'[h][i].before = entry[h][i].before
                                     /\ entry'[h][i].kind = entry[h][i].kind
                                     /\ i # first => entry'[h][i].at = entry[h][i].at
                                     /\ Running(h, i)' => Running(h, i),
         \A i \in DOMAIN entry[h] : Running(h, i) => first <= i /\ (i = first \/ Running(h, i)')
  PROVE  Entries(h)' /\ Chain(h)'
<1>1. DOMAIN entry[h] \subseteq Nat /\ seen[h] \in Nat
  BY DEF HostTypes, EntryTypes
<1>2. \A i \in DOMAIN entry[h] : entry[h][i].before \in Nat
  BY DEF HostTypes, EntryTypes, Entry
<1>3. Entries(h)'
  BY DEF Entries
<1>4. ASSUME NEW i \in DOMAIN entry'[h], NEW j \in DOMAIN entry'[h],
             Running(h, i)', Running(h, j)', i < j
      PROVE  /\ entry'[h][j].at = "queued"
             /\ Running(h, entry[h][j].before)' /\ i <= entry'[h][j].before
  <2> DEFINE b == entry[h][j].before
  <2>1. Running(h, i) /\ Running(h, j) /\ first <= i
    BY <1>4
  <2>2. entry[h][j].at = "queued" /\ Running(h, b) /\ i <= b
    BY <1>4, <2>1 DEF Chain
  <2>3. j # first
    BY <1>1, <1>4, <2>1
  <2>4. b \in DOMAIN entry[h]
    BY <2>2 DEF Running, Held
  <2>5. CASE b = first
    <3>1. b = i
      BY <1>1, <1>4, <2>1, <2>2, <2>4, <2>5
    <3> QED
      BY <1>4, <2>2, <2>3, <3>1
  <2> QED
    BY <1>4, <2>2, <2>3, <2>4, <2>5
<1>5. ASSUME NEW i \in DOMAIN entry'[h], Running(h, i)' PROVE Running(h, seen[h])'
  <2>1. Running(h, i) /\ first <= i /\ i <= seen[h]
    BY <1>5 DEF Entries
  <2>2. Running(h, seen[h]) /\ seen[h] \in DOMAIN entry[h]
    BY <1>5, <2>1 DEF Chain, Running, Held
  <2>3. CASE seen[h] = first
    <3>1. seen[h] = i
      BY <1>1, <1>5, <2>1, <2>3
    <3> QED
      BY <1>5, <3>1
  <2> QED
    BY <2>2, <2>3
<1>6. Chain(h)'
  <2>1. \A i, j \in DOMAIN entry'[h] : Running(h, i)' /\ Running(h, j)' /\ i < j =>
          /\ entry'[h][j].at = "queued"
          /\ Running(h, entry[h][j].before)' /\ i <= entry'[h][j].before
    BY <1>4
  <2>2. \A i \in DOMAIN entry'[h] : Running(h, i)' => Running(h, seen[h])'
    BY <1>5
  <2>3. \A j \in DOMAIN entry'[h] : entry'[h][j].before = entry[h][j].before
    OBVIOUS
  <2> QED
    BY <2>1, <2>2, <2>3 DEF Chain, Running, Held
<1> QED
  BY <1>3, <1>6

\* A host that a step leaves alone keeps what it has.
LEMMA OtherHost ==
  ASSUME NEW g, UNCHANGED <<sent, last, entry[g], boot[g], seen[g], vm[g]>>
  PROVE  /\ Entries(g) => Entries(g)'
         /\ Chain(g) => Chain(g)'
         /\ Quiet(g) => Quiet(g)'
         /\ Clean(g) => Clean(g)'
<1>1. \A i : Running(g, i)' <=> Running(g, i)
  BY DEF Running, Held
<1>2. \A o \in sent : o.host = g => (Spent(o)' <=> Spent(o))
  BY DEF Spent
<1>3. Entries(g) => Entries(g)'
  BY DEF Entries
<1>4. Chain(g) => Chain(g)'
  BY <1>1 DEF Chain
<1>5. Quiet(g) => Quiet(g)'
  BY <1>1, <1>2 DEF Quiet
<1> QED
  BY <1>3, <1>4, <1>5 DEF Clean

\* The entry of a sequence is of the one operation sent with it.
LEMMA EntryOf ==
  ASSUME HostTypes, NetTypes, Numbers, NEW h \in Host, Entries(h), NEW id \in DOMAIN entry[h],
         NEW o \in sent, o.seq = id
  PROVE  o.host = h /\ o.boot = boot[h] /\ o.kind = entry[h][id].kind /\ Spent(o)
<1>1. PICK p \in sent : p.seq = id /\ p.host = h /\ p.boot = boot[h] /\ p.kind = entry[h][id].kind
  BY DEF Entries
<1>2. p = o
  BY <1>1 DEF Numbers
<1> QED
  BY <1>1, <1>2 DEF Entries, Spent

\* A step that ends or forgets entries of one host, and begins no work, keeps what
\* every host has.
LEMMA ShrinkKeeps ==
  ASSUME HostTypes, NetTypes, Hosts, NEW h \in Host, NEW first \in Nat,
         UNCHANGED <<boot, seen, sent, last, ran>>,
         \A g \in Host \ {h} : UNCHANGED <<entry[g], vm[g]>>,
         DOMAIN entry'[h] \subseteq DOMAIN entry[h],
         \A i \in DOMAIN entry'[h] : /\ entry'[h][i].before = entry[h][i].before
                                     /\ entry'[h][i].kind = entry[h][i].kind
                                     /\ entry'[h][i].at = entry[h][i].at
                                     /\ Running(h, i)' => Running(h, i)
                                     /\ EndsDone(h, i),
         \A i \in DOMAIN entry[h] : Running(h, i) => first <= i /\ (i = first \/ Running(h, i)'),
         Clean(h) => vm'[h] = NoVM
  PROVE  Keeps
<1>1. Entries(h)' /\ Chain(h)'
  BY ChainShrinks DEF Hosts
<1>2. \A o \in sent : Spent(o) => Spent(o)'
  BY DEF Spent
<1>3. \A g \in Host \ {h} : /\ Entries(g)' /\ Chain(g)'
                            /\ Quiet(g) => Quiet(g)'
                            /\ Clean(g) => Clean(g)'
  BY OtherHost DEF Hosts
<1>4. Quiet(h) => Quiet(h)'
  BY <1>2 DEF Quiet
<1>5. RanSpent'
  <2>1. \A g \in Host : \A id \in DOMAIN entry'[g] :
          Running(g, id)' /\ entry'[g][id].at = "queued" => 
            id \in DOMAIN entry[g] /\ Running(g, id) /\ entry[g][id].at = "queued"
    <3>1. \A g \in Host \ {h} : \A id : Running(g, id)' <=> Running(g, id)
      BY DEF Running, Held
    <3> QED
      BY <3>1
  <2> QED
    BY <1>2, <2>1 DEF RanSpent, Hosts
<1>6. \A g \in Host : \A i \in DOMAIN entry'[g] : EndsDone(g, i)
  BY DEF EndsDone
<1> QED
  BY <1>1, <1>2, <1>3, <1>4, <1>5, <1>6 DEF Keeps, Hosts, Clean

\* Cutting or ending an entry leaves the rest of it.
LEMMA EntryExcept ==
  ASSUME NEW e \in Entry, NEW status, NEW error, NEW size
  PROVE  /\ LET n == [e EXCEPT !.cut = TRUE] IN
              n.before = e.before /\ n.kind = e.kind /\ n.at = e.at /\ n.status = e.status
         /\ LET n == [e EXCEPT !.status = status, !.error = error, !.size = size] IN
              n.before = e.before /\ n.kind = e.kind /\ n.at = e.at /\ n.status = status
BY DEF Entry

\* A cancel only marks the entry it interrupts.
LEMMA CancelsKeeps ==
  ASSUME HostTypes, NetTypes, Hosts, NEW h \in Host, NEW id \in DOMAIN entry[h], Cancels(h, id)
  PROVE  Keeps
<1>1. /\ \A g \in Host \ {h} : entry'[g] = entry[g]
      /\ DOMAIN entry'[h] = DOMAIN entry[h]
      /\ \A i \in DOMAIN entry[h] : entry'[h][i] = IF i = id THEN [entry[h][i] EXCEPT !.cut = TRUE] ELSE entry[h][i]
  BY DEF Cancels, HostTypes, EntryTypes
<1>2. \A i \in DOMAIN entry[h] : /\ entry'[h][i].before = entry[h][i].before
                                 /\ entry'[h][i].kind = entry[h][i].kind
                                 /\ entry'[h][i].at = entry[h][i].at
                                 /\ entry'[h][i].status = entry[h][i].status
  <2>1. \A i \in DOMAIN entry[h] : entry[h][i] \in Entry
    BY DEF HostTypes, EntryTypes
  <2> QED
    BY ZenonT(30), <1>1, <2>1, EntryExcept
<1>3. \A i \in DOMAIN entry[h] : (Running(h, i)' <=> Running(h, i)) /\ 0 <= i
  BY <1>1, <1>2 DEF Running, Held, HostTypes, EntryTypes
<1> QED
  BY <1>1, <1>2, <1>3, ShrinkKeeps DEF Cancels, serverVars, netVars, Clean, EndsDone

\* A collected entry had ended.
LEMMA CollectsKeeps ==
  ASSUME HostTypes, NetTypes, Hosts, NEW h \in Host, NEW id \in DOMAIN entry[h], Collects(h, id)
  PROVE  Keeps
<1>1. /\ \A g \in Host \ {h} : entry'[g] = entry[g]
      /\ DOMAIN entry'[h] = DOMAIN entry[h] \ {id}
      /\ \A i \in DOMAIN entry[h] \ {id} : entry'[h][i] = entry[h][i]
  BY DEF Collects, HostTypes, EntryTypes
<1>2. \A i \in DOMAIN entry'[h] : Running(h, i)' <=> Running(h, i)
  BY <1>1 DEF Running, Held
<1>3. \A i \in DOMAIN entry[h] : Running(h, i) => 0 <= i /\ Running(h, i)'
  BY <1>1, <1>2 DEF Collects, HostTypes, EntryTypes
<1> QED
  BY <1>1, <1>2, <1>3, ShrinkKeeps DEF Collects, serverVars, netVars, Clean, EndsDone

\* Work that is on is the first of what runs on its host.
LEMMA WorkIsFirst ==
  ASSUME HostTypes, NEW h \in Host, Chain(h), NEW id \in DOMAIN entry[h], Running(h, id),
         entry[h][id].at = "working" \/ ~Running(h, entry[h][id].before)
  PROVE  \A i \in DOMAIN entry[h] : Running(h, i) => id <= i
<1> SUFFICES ASSUME NEW i \in DOMAIN entry[h], Running(h, i), ~(id <= i) PROVE FALSE
  OBVIOUS
<1>1. i < id
  BY DEF HostTypes, EntryTypes
<1> QED
  BY <1>1 DEF Chain

\* Work that ends, done, failed or cancelled, lets the next one begin.
LEMMA EndKeeps ==
  ASSUME HostTypes, NetTypes, Hosts, NEW h \in Host, NEW id \in DOMAIN entry[h], Working(h, id),
         NEW status, status # "running", NEW error, NEW size, End(h, id, status, error, size),
         NEW v, vm' = [vm EXCEPT ![h] = v], UNCHANGED <<boot, seen, sent, last, ran>>,
         status = "done" => v = DoneEffect(entry[h][id].kind, entry[h][id].to, vm[h])
  PROVE  Keeps
<1>1. /\ \A g \in Host \ {h} : entry'[g] = entry[g]
      /\ DOMAIN entry'[h] = DOMAIN entry[h]
      /\ \A i \in DOMAIN entry[h] : entry'[h][i] =
           IF i = id THEN [entry[h][i] EXCEPT !.status = status, !.error = error, !.size = size]
           ELSE entry[h][i]
  BY DEF End, HostTypes, EntryTypes
<1>2. \A i \in DOMAIN entry[h] : /\ entry'[h][i].before = entry[h][i].before
                                 /\ entry'[h][i].kind = entry[h][i].kind
                                 /\ entry'[h][i].at = entry[h][i].at
                                 /\ entry'[h][i].status = IF i = id THEN status ELSE entry[h][i].status
  <2>1. \A i \in DOMAIN entry[h] : entry[h][i] \in Entry
    BY DEF HostTypes, EntryTypes
  <2>2. entry'[h][id] = [entry[h][id] EXCEPT !.status = status, !.error = error, !.size = size]
    BY <1>1
  <2> DEFINE n == [entry[h][id] EXCEPT !.status = status, !.error = error, !.size = size]
  <2>4. entry[h][id] \in Entry
    BY <2>1
  <2>5. n.before = entry[h][id].before /\ n.kind = entry[h][id].kind
        /\ n.at = entry[h][id].at /\ n.status = status
    BY <2>4, EntryExcept
  <2>3. \A i \in DOMAIN entry[h] : i # id => entry'[h][i] = entry[h][i]
    BY <1>1
  <2> QED
    BY <2>2, <2>3, <2>5
<1>3. \A i \in DOMAIN entry[h] : (Running(h, i)' <=> Running(h, i) /\ i # id)
  BY <1>1, <1>2 DEF Running, Held
<1>4. Running(h, id) /\ id \in Nat /\ \A i \in DOMAIN entry[h] : Running(h, i) => id <= i
  BY WorkIsFirst DEF Working, Hosts, HostTypes, EntryTypes
<1>5. ~Clean(h)
  BY <1>4 DEF Clean, Quiet
<1>6. \A g \in Host \ {h} : vm'[g] = vm[g]
  BY DEF HostTypes
<1>7. \A i \in DOMAIN entry'[h] : /\ entry'[h][i].before = entry[h][i].before
                                  /\ entry'[h][i].kind = entry[h][i].kind
                                  /\ entry'[h][i].at = entry[h][i].at
                                  /\ Running(h, i)' => Running(h, i)
                                  /\ EndsDone(h, i)
  <2>1. vm'[h] = v
    BY DEF HostTypes
  <2> QED
    BY <1>1, <1>2, <1>3, <2>1 DEF EndsDone
<1>8. \A i \in DOMAIN entry[h] : Running(h, i) => id <= i /\ (i = id \/ Running(h, i)')
  BY <1>3, <1>4
<1> QED
  BY <1>1, <1>4, <1>5, <1>6, <1>7, <1>8, ShrinkKeeps

\* Work that is counted was not before, and every operation of it is spent.
LEMMA CountedKeeps ==
  ASSUME HostTypes, NetTypes, Numbers, Hosts, NEW h \in Host, NEW o \in sent, o.host = h,
         o.seq \notin DOMAIN ran, ran' = Counted(o.seq), UNCHANGED sent, Spent(o)',
         \A p \in sent : Spent(p) => Spent(p)',
         \A id \in DOMAIN entry'[h] : Running(h, id)' /\ entry'[h][id].at = "queued" =>
           id \in DOMAIN entry[h] /\ Running(h, id) /\ entry[h][id].at = "queued" /\ id # o.seq,
         \A g \in Host \ {h} : UNCHANGED entry[g]
  PROVE  RanSpent'
<1>1. DOMAIN ran' = DOMAIN ran \cup {o.seq}
  BY DEF Counted
<1>2. ran'[o.seq] = 1 /\ \A id \in DOMAIN ran : ran'[id] = ran[id]
  BY DEF Counted
<1>3. \A id \in DOMAIN ran' : /\ ran'[id] = 1
                              /\ \E p \in sent : p.seq = id
                              /\ \A p \in sent : p.seq = id => Spent(p)'
  BY <1>1, <1>2 DEF Hosts, RanSpent, Numbers
<1>4. ASSUME NEW g \in Host, NEW id \in DOMAIN entry'[g], Running(g, id)', entry'[g][id].at = "queued"
      PROVE  id \notin DOMAIN ran'
  <2>1. CASE g = h
    BY <1>1, <1>4, <2>1 DEF Hosts, RanSpent
  <2>2. CASE g # h
    <3>1. id \in DOMAIN entry[g] /\ Running(g, id) /\ entry[g][id].at = "queued"
      BY <1>4, <2>2 DEF Running, Held
    <3>2. id # o.seq
      BY <2>2, <3>1, EntryOf DEF Hosts
    <3> QED
      BY <1>1, <3>1, <3>2 DEF Hosts, RanSpent
  <2> QED
    BY <2>1, <2>2
<1> QED
  BY <1>3, <1>4 DEF RanSpent

\* Work that begins was queued, was sent, and is the first of what runs on its host.
LEMMA BeginsKeeps ==
  ASSUME HostTypes, NetTypes, Numbers, Hosts, NEW h \in Host, NEW id \in DOMAIN entry[h],
         WorkBegins(h, id)
  PROVE  Keeps
<1> DEFINE e == entry[h][id]
           next == IF e.cut THEN [e EXCEPT !.status = "cancelled"] ELSE [e EXCEPT !.at = "working"]
<1>1. /\ \A g \in Host \ {h} : entry'[g] = entry[g]
      /\ DOMAIN entry'[h] = DOMAIN entry[h] \ {e.before}
      /\ \A i \in DOMAIN entry'[h] : entry'[h][i] = IF i = id THEN next ELSE entry[h][i]
  BY DEF WorkBegins, HostTypes, EntryTypes
<1>2. /\ Running(h, id) /\ e.at = "queued" /\ ~Running(h, e.before)
      /\ e \in Entry /\ e.before # id
      /\ UNCHANGED <<boot, seen, sent, last, vm>>
  BY DEF WorkBegins, serverVars, netVars, HostTypes, EntryTypes, Hosts, Entries, Entry
<1>3. /\ next.before = e.before /\ next.kind = e.kind
      /\ next.status = (IF e.cut THEN "cancelled" ELSE e.status)
      /\ next.at = (IF e.cut THEN e.at ELSE "working")
  BY <1>2 DEF Entry
<1>4. \A i \in DOMAIN entry'[h] : /\ i \in DOMAIN entry[h]
                                  /\ entry'[h][i].before = entry[h][i].before
                                  /\ entry'[h][i].kind = entry[h][i].kind
                                  /\ i # id => entry'[h][i].at = entry[h][i].at
                                  /\ i # id => entry'[h][i].status = entry[h][i].status
  <2> HIDE DEF next
  <2> QED
    BY <1>1, <1>3
<1>5. \A i : Running(h, i)' <=> Running(h, i) /\ (i = id => ~e.cut)
  <2>1. entry'[h][id] = next /\ id \in DOMAIN entry'[h]
    BY <1>1, <1>2
  <2> HIDE DEF next
  <2> QED
    BY <1>1, <1>2, <1>3, <1>4, <2>1 DEF Running, Held
<1>6. id \in Nat /\ \A i \in DOMAIN entry[h] : Running(h, i) => id <= i
  BY <1>2, WorkIsFirst DEF Hosts, HostTypes, EntryTypes
<1>7. Entries(h)' /\ Chain(h)'
  <2>1. \A i \in DOMAIN entry'[h] : /\ entry'[h][i].before = entry[h][i].before
                                    /\ entry'[h][i].kind = entry[h][i].kind
                                    /\ i # id => entry'[h][i].at = entry[h][i].at
                                    /\ Running(h, i)' => Running(h, i)
    BY <1>4, <1>5
  <2>2. \A i \in DOMAIN entry[h] : Running(h, i) => id <= i /\ (i = id \/ Running(h, i)')
    BY <1>5, <1>6
  <2>3. Entries(h) /\ Chain(h) /\ DOMAIN entry'[h] \subseteq DOMAIN entry[h]
    BY <1>1 DEF Hosts
  <2> QED
    BY <1>2, <1>6, <2>1, <2>2, <2>3, ChainShrinks
<1>8. \A o \in sent : Spent(o) => Spent(o)'
  BY <1>2 DEF Spent
<1>9. \A g \in Host \ {h} : /\ Entries(g)' /\ Chain(g)'
                            /\ Quiet(g) => Quiet(g)'
                            /\ Clean(g) => Clean(g)'
  BY <1>1, <1>2, OtherHost DEF Hosts
<1>10. ~Quiet(h) /\ ~Clean(h)
  BY <1>2 DEF Clean, Quiet
<1>11. PICK o \in sent : o.seq = id /\ o.host = h
  BY DEF Hosts, Entries
<1>12. Spent(o)'
  BY <1>2, <1>8, <1>11, EntryOf DEF Hosts
<1>13. id \notin DOMAIN ran
  BY <1>2 DEF Hosts, RanSpent
<1>14. \A i \in DOMAIN entry'[h] : Running(h, i)' /\ entry'[h][i].at = "queued" =>
           i \in DOMAIN entry[h] /\ Running(h, i) /\ entry[h][i].at = "queued" /\ i # id
  <2>1. id \in DOMAIN entry'[h] /\ ~e.cut => entry'[h][id].at = "working"
    <3>1. entry'[h][id] = next
      BY <1>1, <1>2
    <3> HIDE DEF next
    <3> QED
      BY <1>3, <3>1
  <2> QED
    BY <1>4, <1>5, <2>1
<1>15. RanSpent'
  <2>1. CASE ~e.cut
    <3>1. ran' = Counted(o.seq)
      BY <1>11, <2>1 DEF WorkBegins
    <3> QED
      BY <1>1, <1>2, <1>8, <1>11, <1>12, <1>13, <1>14, <3>1, CountedKeeps
  <2>2. CASE e.cut
    <3>1. ran' = ran
      BY <2>2 DEF WorkBegins
    <3>2. \A g \in Host \ {h} : \A i : Running(g, i)' <=> Running(g, i)
      BY <1>1 DEF Running, Held
    <3> QED
      BY <1>1, <1>2, <1>8, <1>14, <3>1, <3>2 DEF RanSpent, Hosts
  <2> QED
    BY <2>1, <2>2
<1>16. \A g \in Host : \A i \in DOMAIN entry'[g] : EndsDone(g, i)
  <2>1. id \in DOMAIN entry'[h] => entry'[h][id].status # "done"
    <3>1. id \in DOMAIN entry'[h] => entry'[h][id] = next
      BY <1>1
    <3>2. e.status = "running"
      BY <1>2 DEF Running
    <3> HIDE DEF next
    <3> QED
      BY <1>3, <3>1, <3>2
  <2> QED
    BY <1>1, <1>4, <2>1 DEF EndsDone
<1> QED
  BY <1>7, <1>8, <1>9, <1>10, <1>15, <1>16 DEF Keeps, Hosts

\* A restarted host runs nothing, and takes nothing that was sent to it before.
LEMMA RebootKeeps ==
  ASSUME HostTypes, NetTypes, last \in Nat, Numbers, Hosts, NEW h \in Host, Reboot(h)
  PROVE  Keeps
<1>1. /\ \A g \in Host \ {h} : entry'[g] = entry[g] /\ boot'[g] = boot[g] /\ seen'[g] = seen[g]
                               /\ vm'[g] = vm[g]
      /\ entry'[h] = <<>> /\ DOMAIN entry'[h] = {} /\ boot'[h] = boot[h] + 1 /\ seen'[h] = 0
      /\ UNCHANGED <<sent, last, ran>>
  BY DEF Reboot, HostTypes, EntryTypes, serverVars, netVars
<1>2. \A o \in sent : o.host = h => Spent(o)'
  BY <1>1 DEF Numbers, Spent, NetTypes, HostTypes, Operation
<1>3. \A g \in Host \ {h} : /\ Entries(g)' /\ Chain(g)'
                            /\ Quiet(g) => Quiet(g)'
                            /\ Clean(g) => Clean(g)'
  BY <1>1, OtherHost DEF Hosts
<1>4. \A o \in sent : Spent(o) => Spent(o)'
  BY <1>1, <1>2 DEF Spent, NetTypes, Operation
<1>5. Entries(h)' /\ Chain(h)' /\ Quiet(h)'
  <2>1. Entries(h)'
    BY <1>1 DEF Entries
  <2> QED
    BY <1>1, <1>2, <2>1 DEF Chain, Quiet
<1>6. Clean(h) => Clean(h)'
  <2> SUFFICES ASSUME Clean(h) PROVE vm'[h] = NoVM
    BY <1>5 DEF Clean
  <2>1. {i \in DOMAIN entry[h] : Working(h, i)} = {}
    BY DEF Clean, Quiet, Working
  <2>2. vm[h] = NoVM /\ NoVM.is = "none"
    BY DEF Clean, NoVM
  <2> QED
    BY <2>1, <2>2 DEF Reboot, HostTypes
<1>7. RanSpent'
  <2>1. \A g \in Host \ {h} : \A i : Running(g, i)' <=> Running(g, i)
    BY <1>1 DEF Running, Held
  <2> QED
    BY <1>1, <1>4, <2>1 DEF RanSpent, Hosts
<1>8. \A g \in Host : \A i \in DOMAIN entry'[g] : EndsDone(g, i)
  BY <1>1 DEF EndsDone
<1> QED
  BY <1>3, <1>4, <1>5, <1>6, <1>7, <1>8 DEF Keeps, Hosts

\* A VM that changes by itself is there.
LEMMA DriftKeeps ==
  ASSUME HostTypes, NetTypes, Hosts, NEW h \in Host, Drifts(h)
  PROVE  Keeps
<1>1. UNCHANGED <<boot, entry, seen, ran, sent, last>> /\ vm[h].is # "none"
  BY DEF Drifts, serverVars, netVars
<1>2. \A g \in Host \ {h} : vm'[g] = vm[g]
  BY DEF Drifts, HostTypes
<1>3. \A i \in DOMAIN entry[h] : (Running(h, i)' <=> Running(h, i)) /\ 0 <= i
  BY <1>1 DEF Running, Held, HostTypes, EntryTypes
<1>4. ~Clean(h)
  BY <1>1 DEF Clean, NoVM
<1> QED
  BY <1>1, <1>2, <1>3, <1>4, ShrinkKeeps DEF EndsDone

\* A host that takes an operation (`accept`) has not run it, and queues it behind
\* what runs, if anything does.
LEMMA AcceptKeeps ==
  ASSUME HostTypes, NetTypes, Numbers, Hosts, NEW h \in Host, NEW o \in sent, o.host = h,
         Takes(o), Accept(o), UNCHANGED <<sent, last>>
  PROVE  Keeps
<1> DEFINE waits == Running(h, seen[h])
           new == [kind |-> o.kind, to |-> o.to, status |-> "running", error |-> None,
                   size |-> NoSize, at |-> IF waits THEN "queued" ELSE "working",
                   before |-> seen[h], cut |-> FALSE]
<1>1. o.seq \in Nat /\ seen[h] \in Nat /\ o.seq > seen[h] /\ o.boot = boot[h] /\ boot[h] \in Nat
      /\ DOMAIN entry[h] \subseteq Nat
  BY DEF NetTypes, Operation, Takes, HostTypes, EntryTypes
<1>2. o.seq \notin DOMAIN entry[h] /\ ~Spent(o) /\ o.seq \notin DOMAIN ran
  BY <1>1 DEF Takes, Held, Spent, Hosts, RanSpent
<1>3. /\ \A g \in Host \ {h} : entry'[g] = entry[g] /\ seen'[g] = seen[g]
      /\ DOMAIN entry'[h] = (DOMAIN entry[h] \cup {o.seq}) \ (IF waits THEN {} ELSE {seen[h]})
      /\ o.seq \in DOMAIN entry'[h] /\ entry'[h][o.seq] = new
      /\ \A i \in DOMAIN entry'[h] \ {o.seq} : entry'[h][i] = IF i = seen[h] THEN [entry[h][i] EXCEPT !.cut = TRUE] ELSE entry[h][i]
      /\ seen'[h] = o.seq
      /\ UNCHANGED <<boot, vm>>
  <2>1. entry' = [entry EXCEPT ![h] =
          [id \in (DOMAIN entry[h] \cup {o.seq}) \ (IF waits THEN {} ELSE {seen[h]}) |->
             CASE id = o.seq -> new
               [] id # o.seq /\ id = seen[h] -> [entry[h][id] EXCEPT !.cut = TRUE]
               [] OTHER -> entry[h][id]]]
    BY DEF Accept
  <2>2. seen' = [seen EXCEPT ![h] = o.seq] /\ UNCHANGED <<boot, vm>>
    BY DEF Accept
  <2> HIDE DEF waits, new
  <2>3. entry'[h] = [id \in (DOMAIN entry[h] \cup {o.seq}) \ (IF waits THEN {} ELSE {seen[h]}) |->
             CASE id = o.seq -> new
               [] id # o.seq /\ id = seen[h] -> [entry[h][id] EXCEPT !.cut = TRUE]
               [] OTHER -> entry[h][id]]
    BY <2>1 DEF HostTypes, EntryTypes
  <2> QED
    BY <1>1, <2>1, <2>2, <2>3 DEF HostTypes, EntryTypes
<1>4. new.status = "running" /\ new.kind = o.kind /\ new.before = seen[h]
      /\ new.at = IF waits THEN "queued" ELSE "working"
  OBVIOUS
<1>5. \A i \in DOMAIN entry'[h] : i # o.seq =>
        /\ i \in DOMAIN entry[h]
        /\ entry'[h][i].before = entry[h][i].before
        /\ entry'[h][i].kind = entry[h][i].kind
        /\ entry'[h][i].at = entry[h][i].at
        /\ entry'[h][i].status = entry[h][i].status
  <2>1. \A i \in DOMAIN entry[h] : entry[h][i] \in Entry
    BY <1>1 DEF HostTypes, EntryTypes
  <2> HIDE DEF waits, new
  <2>2. ASSUME NEW i \in DOMAIN entry'[h], i # o.seq, i # seen[h]
        PROVE  i \in DOMAIN entry[h] /\ entry'[h][i] = entry[h][i]
    BY <1>3, <2>2
  <2>3. ASSUME seen[h] \in DOMAIN entry'[h], seen[h] # o.seq
        PROVE  seen[h] \in DOMAIN entry[h] /\ entry'[h][seen[h]] = [entry[h][seen[h]] EXCEPT !.cut = TRUE]
    BY <1>3, <2>3
  <2> DEFINE m == [entry[h][seen[h]] EXCEPT !.cut = TRUE]
  <2>4. ASSUME seen[h] \in DOMAIN entry[h]
        PROVE  /\ m.before = entry[h][seen[h]].before /\ m.kind = entry[h][seen[h]].kind
               /\ m.at = entry[h][seen[h]].at /\ m.status = entry[h][seen[h]].status
    BY <2>1, <2>4, EntryExcept
  <2> HIDE DEF m
  <2>5. seen[h] \in DOMAIN entry'[h] => entry'[h][seen[h]] = m
    BY <1>1, <2>3 DEF m
  <2> QED
    BY <1>1, <2>2, <2>3, <2>4, <2>5
<1> HIDE DEF waits, new
<1>6. \A i \in DOMAIN entry[h] : Running(h, i) => waits
  BY <1>1 DEF waits, Hosts, Chain
<1>7. \A i : Running(h, i)' <=> Running(h, i) \/ i = o.seq
  <2>1. ASSUME NEW i, Running(h, i) PROVE i \in DOMAIN entry'[h] /\ i # o.seq
    BY <1>2, <1>3, <1>6, <2>1 DEF Running, Held
  <2> QED
    BY <1>3, <1>4, <1>5, <2>1 DEF Running, Held
<1>8. Entries(h)'
  <2>1. \A i \in DOMAIN entry'[h] : i <= o.seq /\ entry'[h][i].before < i
    <3>1. \A i \in DOMAIN entry'[h] \ {o.seq} : i \in Nat /\ i <= seen[h] /\ entry[h][i].before < i
      BY <1>1, <1>5 DEF Hosts, Entries
    <3> QED
      BY <1>1, <1>3, <1>4, <1>5, <3>1
  <2>2. \A i \in DOMAIN entry'[h] : \E p \in sent : /\ p.seq = i /\ p.host = h /\ p.boot = boot[h]
                                                    /\ p.kind = entry'[h][i].kind
    BY <1>1, <1>3, <1>4, <1>5 DEF Hosts, Entries
  <2> QED
    BY <1>3, <2>1, <2>2 DEF Entries, Numbers
<1>9. Chain(h)'
  <2>1. ASSUME NEW i \in DOMAIN entry'[h], NEW j \in DOMAIN entry'[h],
               Running(h, i)', Running(h, j)', i < j
        PROVE  /\ entry'[h][j].at = "queued"
               /\ Running(h, entry[h][j].before)' /\ i <= entry'[h][j].before
    <3>1. i # o.seq /\ Running(h, i) /\ i <= seen[h]
      <4>1. i # o.seq
        BY <1>1, <1>5, <2>1 DEF Hosts, Entries
      <4> QED
        BY <1>1, <1>5, <1>7, <2>1, <4>1 DEF Hosts, Entries
    <3>2. CASE j = o.seq
      <4>1. waits
        BY <1>5, <1>6, <2>1, <3>1
      <4> QED
        BY <1>3, <1>4, <1>7, <3>1, <3>2, <4>1 DEF waits, Running, Held
    <3>3. CASE j # o.seq
      <4>1. Running(h, j) /\ entry'[h][j].before = entry[h][j].before
        BY <1>5, <1>7, <2>1, <3>3
      <4>2. entry[h][j].at = "queued" /\ Running(h, entry[h][j].before) /\ i <= entry[h][j].before
        BY <1>5, <2>1, <3>1, <3>3, <4>1 DEF Hosts, Chain
      <4> QED
        BY <1>5, <1>7, <2>1, <3>3, <4>1, <4>2 DEF Running, Held
    <3> QED
      BY <3>2, <3>3
  <2>2. Running(h, seen[h])'
    BY <1>3, <1>7 DEF Running, Held
  <2> QED
    BY <2>1, <2>2 DEF Chain
<1>10. \A p \in sent : Spent(p) => Spent(p)'
  BY <1>1, <1>3 DEF Spent, NetTypes, Operation, HostTypes
<1>11. \A g \in Host \ {h} : /\ Entries(g)' /\ Chain(g)'
                             /\ Quiet(g) => Quiet(g)'
                             /\ Clean(g) => Clean(g)'
  BY <1>3, OtherHost DEF Hosts
<1>12. ~Quiet(h) /\ ~Clean(h)
  BY <1>2 DEF Clean, Quiet
<1>13. Spent(o)'
  BY <1>1, <1>3 DEF Spent
<1>14. RanSpent'
  <2>1. CASE ~waits
    <3>1. ran' = Counted(o.seq)
      BY <2>1 DEF Accept, waits
    <3>2. \A i \in DOMAIN entry'[h] : ~(Running(h, i)' /\ entry'[h][i].at = "queued")
      BY <1>3, <1>4, <1>5, <1>6, <1>7, <2>1
    <3> QED
      BY <1>1, <1>2, <1>3, <1>10, <1>13, <3>1, <3>2, CountedKeeps
  <2>2. CASE waits
    <3>1. ran' = ran
      BY <2>2 DEF Accept, waits
    <3>2. \A g \in Host \ {h} : \A i : Running(g, i)' <=> Running(g, i)
      BY <1>3 DEF Running, Held
    <3> QED
      BY <1>2, <1>3, <1>5, <1>7, <1>10, <3>1, <3>2 DEF RanSpent, Hosts
  <2> QED
    BY <2>1, <2>2
<1>15. \A g \in Host : \A i \in DOMAIN entry'[g] : EndsDone(g, i)
  <2>1. \A i \in DOMAIN entry'[h] : EndsDone(h, i)
    BY <1>3, <1>4, <1>5 DEF EndsDone
  <2> QED
    BY <1>3, <2>1 DEF EndsDone
<1> QED
  BY <1>8, <1>9, <1>10, <1>11, <1>12, <1>14, <1>15 DEF Keeps, Hosts

\* Whatever a host does keeps what is true of the hosts.
LEMMA HostKeeps ==
  ASSUME HostTypes, NetTypes, last \in Nat, Numbers, Hosts, NEW h \in Host, HostStep(h)
  PROVE  Keeps
<1>1. ASSUME NEW o \in sent, o.host = h, RunsLate(o) PROVE Keeps
  BY <1>1, AcceptKeeps DEF HostStep, RunsLate, serverVars, netVars
<1>2. ASSUME NEW id \in DOMAIN entry[h], WorkDone(h, id) PROVE Keeps
  <2> DEFINE e == entry[h][id]
  <2>1. /\ Working(h, id) /\ End(h, id, "done", None, IF e.kind = "resize" THEN e.to ELSE NoSize)
        /\ vm' = [vm EXCEPT ![h] = DoneEffect(e.kind, e.to, vm[h])]
        /\ UNCHANGED <<boot, seen, sent, last, ran>>
    BY <1>2 DEF WorkDone, serverVars, netVars, HostTypes
  <2> QED
    BY <2>1, EndKeeps
<1>3. ASSUME NEW id \in DOMAIN entry[h], WorkFails(h, id) PROVE Keeps
  <2>1. PICK error, size : End(h, id, "failed", error, size)
    BY <1>3 DEF WorkFails
  <2>2. Working(h, id) /\ UNCHANGED <<boot, seen, sent, last, ran>>
    BY <1>3 DEF WorkFails, serverVars, netVars
  <2>3. PICK v : vm' = [vm EXCEPT ![h] = v]
    <3>1. CASE UNCHANGED vm
      <4>1. vm' = [vm EXCEPT ![h] = vm[h]]
        BY <3>1 DEF HostTypes
      <4> QED
        BY <4>1
    <3>2. CASE ~UNCHANGED vm
      BY <1>3, <3>2 DEF WorkFails
    <3> QED
      BY <3>1, <3>2
  <2>4. "failed" # "running" /\ "failed" # "done"
    OBVIOUS
  <2> QED
    BY <2>1, <2>2, <2>3, <2>4, EndKeeps
<1>4. ASSUME NEW id \in DOMAIN entry[h], WorkCancelled(h, id) PROVE Keeps
  <2>1. /\ Working(h, id) /\ End(h, id, "cancelled", None, NoSize)
        /\ UNCHANGED <<boot, seen, sent, last, ran>>
    BY <1>4 DEF WorkCancelled, serverVars, netVars
  <2>2. PICK v : vm' = [vm EXCEPT ![h] = v]
    BY <1>4 DEF WorkCancelled
  <2>3. "cancelled" # "running" /\ "cancelled" # "done"
    OBVIOUS
  <2> QED
    BY <2>1, <2>2, <2>3, EndKeeps
<1> QED
  BY <1>1, <1>2, <1>3, <1>4, CancelsKeeps, CollectsKeeps, BeginsKeeps, RebootKeeps, DriftKeeps
     DEF HostStep

--------------------------------------------------------------------------------
(* What the row's own operation says of its host. *)

\* An operation of its type has a host, a sequence and a boot.
LEMMA OpFields ==
  ASSUME Types, op # NoOp
  PROVE  op.host \in Host /\ op.seq \in Nat /\ op.boot \in Nat /\ op.kind \in Kind
BY DEF Types, ServerTypes, Operation

\* The host holds the row's operation only as it was sent, and has come no further.
LEMMA OwnEntry ==
  ASSUME Types, Numbers, Hosts, op # NoOp, Held(op.host, op.seq)
  PROVE  /\ op \in sent /\ op.boot = boot[op.host] /\ seen[op.host] = op.seq
         /\ entry[op.host][op.seq].kind = op.kind
<1> DEFINE h == op.host
<1>1. h \in Host /\ op.seq \in Nat /\ seen[h] \in Nat /\ Entries(h) /\ op.seq \in DOMAIN entry[h]
  BY OpFields DEF Types, HostTypes, Hosts, Held
<1>2. PICK o \in sent : o.seq = op.seq /\ o.host = h /\ o.boot = boot[h] /\ o.kind = entry[h][op.seq].kind
  BY <1>1 DEF Entries
<1>3. o = op
  BY <1>2 DEF Numbers
<1>4. op.seq <= seen[h] /\ seen[h] <= op.seq
  BY <1>1 DEF Entries, Numbers
<1> QED
  BY <1>1, <1>2, <1>3, <1>4

\* A host that came as far as the row's operation, and does not run it, runs nothing.
LEMMA SeenQuiet ==
  ASSUME Types, Numbers, Hosts, op # NoOp, seen[op.host] = op.seq, ~Running(op.host, op.seq)
  PROVE  Quiet(op.host)
<1>1. op.host \in Host /\ op.seq = last /\ boot[op.host] \in Nat
  BY OpFields DEF Types, HostTypes, Numbers
<1>2. \A id \in DOMAIN entry[op.host] : ~Running(op.host, id)
  BY <1>1 DEF Hosts, Chain
<1>3. \A o \in sent : o.host = op.host => Spent(o)
  BY <1>1 DEF Numbers, Spent, Types, NetTypes, Operation
<1> QED
  BY <1>2, <1>3 DEF Quiet

\* Once the row's operation has ended on its host, nothing of it is left to run.
LEMMA EndedQuiet ==
  ASSUME Types, Numbers, Hosts, op # NoOp, Held(op.host, op.seq), ~Running(op.host, op.seq)
  PROVE  Quiet(op.host)
BY OwnEntry, SeenQuiet

\* A host that restarted since the row's operation was begun has nothing of it.
LEMMA RestartedQuiet ==
  ASSUME Types, Numbers, Hosts, op # NoOp, boot[op.host] # op.boot
  PROVE  Quiet(op.host)
<1>1. op.host \in Host /\ boot[op.host] \in Nat /\ op.boot \in Nat /\ op.boot < boot[op.host]
  BY OpFields DEF Types, HostTypes, Numbers
<1>2. \A o \in sent : o.host = op.host => o.boot \in Nat /\ o.boot < boot[op.host]
  BY <1>1 DEF Numbers, Types, NetTypes, Operation
<1>3. \A o \in sent : o.host = op.host => Spent(o)
  BY <1>2 DEF Spent
<1>4. DOMAIN entry[op.host] = {}
  BY <1>1, <1>2 DEF Hosts, Entries
<1> QED
  BY <1>3, <1>4 DEF Quiet

\* A host that takes no more of the row's operation, and does not hold it, is quiet.
LEMMA RefusedQuiet ==
  ASSUME Types, Numbers, Hosts, op # NoOp, ~Takes(op), ~Held(op.host, op.seq)
  PROVE  Quiet(op.host)
<1>1. CASE boot[op.host] # op.boot
  BY <1>1, RestartedQuiet
<1>2. CASE boot[op.host] = op.boot
  <2>1. op.host \in Host /\ op.seq \in Nat /\ seen[op.host] \in Nat
    BY OpFields DEF Types, HostTypes
  <2>2. seen[op.host] = op.seq
    BY <1>2, <2>1 DEF Takes, Numbers, Hosts, Entries
  <2> QED
    BY <2>2, SeenQuiet DEF Running
<1> QED
  BY <1>1, <1>2

\* A step of a host keeps what the row says of every host.
LEMMA StoreStays ==
  ASSUME Inv, Keeps, UNCHANGED <<row, op, last, sent>>, boot' \in [Host -> Nat],
         \A g \in Host : boot[g] <= boot'[g],
         loop'.at = "sending" => loop.at = "sending" /\ loop'.op = loop.op
  PROVE  Numbers' /\ Home' /\ Rest' /\ Removed'
<1> USE DEF Inv
<1>1. Home'
  BY DEF Home, Keeps, Exists
<1>2. Rest'
  <2> SUFFICES ASSUME Rest!1' PROVE Quiet(row.host)'
    BY DEF Rest
  <2>1. row.host \in Host /\ Quiet(row.host)
    BY DEF Rest, Exists, OpInv, Types, ServerTypes, Row
  <2> QED
    BY <2>1 DEF Keeps
<1>3. Removed'
  <2> SUFFICES ASSUME op # NoOp, op.kind = "remove", Held(op.host, op.seq)',
                      entry'[op.host][op.seq].status = "done"
               PROVE  vm'[op.host] = NoVM
    BY DEF Removed
  <2> DEFINE h == op.host
  <2>1. h \in Host /\ op.seq \in DOMAIN entry'[h]
    BY OpFields DEF OpInv, Held
  <2>2. EndsDone(h, op.seq)
    BY <2>1 DEF Keeps
  <2>3. op.seq \in DOMAIN entry[h]
    BY <2>2 DEF EndsDone
  <2>4. entry[h][op.seq].kind = "remove"
    BY <2>3, OwnEntry DEF OpInv, Held
  <2>5. CASE entry[h][op.seq].status = "done"
    <3>1. Quiet(h)
      BY <2>3, <2>5, EndedQuiet DEF OpInv, Held, Running
    <3>2. vm[h] = NoVM
      BY <2>3, <2>5 DEF Removed, Held
    <3> QED
      BY <2>1, <3>1, <3>2 DEF Keeps, Clean
  <2>6. CASE entry[h][op.seq].status # "done"
    BY <2>2, <2>4, <2>6 DEF EndsDone, DoneEffect
  <2> QED
    BY <2>5, <2>6
<1>4. Numbers'
  <2>1. \A o \in sent : o.host \in Host /\ o.boot \in Nat
    BY DEF OpInv, Types, NetTypes, Operation
  <2>2. \A o \in sent : o.boot <= boot'[o.host]
    BY <2>1 DEF Numbers, OpInv, Types, HostTypes
  <2>3. op # NoOp => op.boot <= boot'[op.host]
    BY OpFields DEF Numbers, OpInv, Types, HostTypes
  <2> QED
    BY <2>2, <2>3 DEF Numbers
<1> QED
  BY <1>1, <1>2, <1>3, <1>4

\* What a host does by itself keeps the invariant.
LEMMA HostInv ==
  ASSUME Inv, Types', NEW h \in Host, HostStep(h)
  PROVE  Inv'
<1>1. /\ UNCHANGED <<row, op, last, loop, sent>>
      /\ \A g \in Host : boot[g] <= boot'[g]
  <2>1. UNCHANGED <<row, op, last, loop, sent>>
    BY DEF HostStep, RunsLate, Cancels, Collects, WorkBegins, WorkDone, WorkFails, WorkCancelled,
           Reboot, Drifts, serverVars, netVars
  <2>2. boot' = boot \/ Reboot(h)
    BY DEF HostStep, RunsLate, Accept, Cancels, Collects, WorkBegins, WorkDone, WorkFails,
           WorkCancelled, Drifts
  <2>3. \A g \in Host : boot[g] \in Nat /\ boot'[g] \in {boot[g], boot[g] + 1}
    BY <2>2 DEF Reboot, Inv, OpInv, Types, HostTypes
  <2>4. \A g \in Host : boot[g] <= boot'[g]
    BY <2>3
  <2> QED
    BY <2>1, <2>4
<1>2. Keeps
  BY HostKeeps DEF Inv, OpInv, Types, ServerTypes
<1>3. OpInv'
  BY HostOp DEF Inv, OpInv
<1>4. Numbers' /\ Home' /\ Rest' /\ Removed'
  BY <1>1, <1>2, StoreStays DEF Types, HostTypes
<1>5. Look'
  BY <1>1 DEF Inv, Look, Exists
<1>6. HeardTrue'
  <2> SUFFICES ASSUME loop.at = "heard" PROVE HeardTrue'
    BY <1>1 DEF HeardTrue
  <2>1. PICK g \in Host : g = op.host
    BY OpFields DEF Inv, OpInv, LoopHasOp
  <2>2. (Quiet(g) => Quiet(g)') /\ (Clean(g) => Clean(g)')
    BY <1>2 DEF Keeps
  <2>3. Quiet(g) \/ (loop.heard = Lost /\ op.kind = "make")
    BY <2>1 DEF Inv, HeardTrue
  <2>4. loop.heard = Lost => loop.heard.status # "done"
    BY DEF Lost
  <2>5. op.kind = "remove" /\ loop.heard.status = "done" => vm'[g] = NoVM
    BY <2>1, <2>2, <2>3, <2>4 DEF Inv, HeardTrue, Clean
  <2> QED
    BY <1>1, <2>1, <2>2, <2>3, <2>5 DEF HeardTrue, Quiet, Running, Held, Spent
<1> QED
  BY <1>2, <1>3, <1>4, <1>5, <1>6 DEF Inv, Keeps

--------------------------------------------------------------------------------
(* The chart, by what its events say of the hosts. *)

Due == {"undoing.due", "deleting.due"}

\* A request removes or revives nothing, but an undone row that is deleted.
LEMMA RequestMoves ==
  ASSUME NEW r \in Row, NEW e \in Event, e.type \in {"ask", "resize", "sized", "delete", "refused"},
         NEW t, t = Transition(r, e)
  PROVE  /\ t = Gone => r.state = "undone"
         /\ t # Gone => /\ t.state = "undone" => r.state = "undone"
                        /\ r.state \in Due => t.state \in Due
<1> USE DEF Making, Standing, Stepping, Starting, Stopping, Pausing, Resizing, JoinSent, JoinAsked
<1>1. CASE e.type = "ask"
  <2>1. t \in Row /\ t = OnAsk(r, e)
    BY <1>1, AskTypes DEF Event, Transition
  <2> QED
    BY <2>1, RowNotGone DEF OnAsk, Asked, Goto, Row, Due
<1>2. CASE e.type = "resize"
  <2>1. t \in Row /\ t = OnResize(r, e)
    BY <1>2, ResizeTypes DEF Event, Transition
  <2> QED
    BY <2>1, RowNotGone DEF OnResize, Owed, Goto, Row, Due
<1>3. CASE e.type = "delete"
  <2>1. t = OnDelete(r)
    BY <1>3 DEF Transition
  <2> QED
    BY <2>1 DEF OnDelete, EnterDeleting, Gone, Row, Due
<1>4. CASE e.type \in {"sized", "refused"}
  <2>1. \/ r.state = "making.due" /\ t.state = "undoing.due"
        \/ t.state = r.state
    BY <1>4 DEF Transition, OnRefused, Row
  <2>2. t # Gone
    BY <2>1, RowNotGone DEF Gone
  <2> QED
    BY <2>1, <2>2 DEF Due
<1> QED
  BY <1>1, <1>2, <1>3, <1>4

\* A read undoes nothing, and leaves no row that was due its remove.
LEMMA ReadMoves ==
  ASSUME NEW r \in Row, NEW e \in Event, e.type = "read", NEW t, t = Transition(r, e)
  PROVE  /\ t.state = "undone" => r.state = "undone"
         /\ r.state \in Due /\ t.state \notin Due => StepOf(t.state) # None
<1> USE DEF Starting, Stopping, Pausing, Resizing, JoinSent, JoinAsked
<1>1. t = OnRead(r, e)
  BY DEF Transition
<1>2. Decided(r, e).state \in {r.state, "made.lost", "made.settled", Starting, Stopping,
                               Pausing, Resizing, JoinSent}
  BY DEF Decided, Goto, NoSize, Row
<1> QED
  BY <1>1, <1>2 DEF OnRead, Goto, StepOf, None, Row, Due

\* The row goes, is undone or moves only when a remove of it ended done, and a step
\* that was lost while it made the machine leaves the row due its remove.
LEMMA EndMoves ==
  ASSUME NEW r \in Row, NEW e \in Event, e.type \in {"reported", "lost"},
         StepOf(r.state) # None, NEW t, t = Transition(r, e)
  PROVE  /\ t = Gone \/ t.state = "undone" \/ t.host # r.host =>
              /\ e.type = "reported" /\ e.status = "done"
              /\ r.state \in {"undoing.sent", "deleting.sent"}
         /\ e.type = "lost" /\ r.state \in {"making.sent", "deleting.draining"} => t.state \in Due
<1> USE DEF Starting, Stopping, Pausing, Resizing, JoinSent, JoinAsked, Row
<1>1. CASE e.type = "lost"
  BY <1>1 DEF Transition, OnLost, Goto, StepOf, None, Stepping, Gone, Due
<1>2. CASE e.type = "reported"
  <2>1. Told(r, e) \in Row /\ Told(r, e).state = r.state /\ Told(r, e).host = r.host
    BY <1>2 DEF Told, NoSize, Event
  <2>2. \A p \in BOOLEAN : /\ Ended(r, e, p).state \in {"made.failed", "made.observing"}
                           /\ Ended(r, e, p).host = r.host
    BY <2>1 DEF Ended
  <2>3. r.state = "undoing.sent" /\ e.status # "done" => Undone(r, e).state # "undone" /\ Undone(r, e).host = r.host
                                      /\ Undone(r, e) # Gone
    <3>1. e.status \in {"done", "failed", "cancelled"}
      BY <1>2 DEF Event
    <3>2. e.status # "done" => Undone(r, e).state \in {"undoing.held", "undoing.due"} /\ Undone(r, e).host = r.host
      BY <3>1 DEF Undone, Goto
    <3> QED
      BY <3>2 DEF Gone
  <2>4. r.state = "deleting.sent" /\ e.status # "done" => Deleted(r, e).state # "undone" /\ Deleted(r, e).host = r.host
                                      /\ Deleted(r, e) # Gone
    <3>1. e.status # "done" => Deleted(r, e).state \in {"deleting.held", "deleting.due"} /\ Deleted(r, e).host = r.host
      BY DEF Deleted, Goto
    <3> QED
      BY <3>1 DEF Gone
  <2>5. CASE r.state \in {"undoing.sent", "deleting.sent"}
    BY <1>2, <2>3, <2>4, <2>5 DEF Transition, OnReported
  <2>6. CASE r.state \notin {"undoing.sent", "deleting.sent"}
    <3>1. /\ t.state \in {"made.failed", "made.observing", "made.settled", "undoing.due", "deleting.due"}
          /\ t.host = r.host
      BY <1>2, <2>1, <2>2, <2>6 DEF Transition, OnReported, Goto, StepOf, None
    <3> QED
      BY <1>2, <3>1 DEF Gone
  <2> QED
    BY <2>5, <2>6
<1> QED
  BY <1>1, <1>2

--------------------------------------------------------------------------------
(* Steps of the control plane. *)

\* What every host has, while nothing is sent and no host steps.
LEMMA HostsSame ==
  ASSUME UNCHANGED <<hostVars, sent>>
  PROVE  \A h : /\ Quiet(h)' <=> Quiet(h)
                /\ Clean(h)' <=> Clean(h)
                /\ \A id : (Held(h, id)' <=> Held(h, id)) /\ (Running(h, id)' <=> Running(h, id))
BY DEF hostVars, Quiet, Clean, Running, Held, Spent

LEMMA HostsLater ==
  ASSUME Types, Types', Hosts, UNCHANGED <<hostVars, sent>>, last <= last'
  PROVE  Hosts'
<1> USE DEF hostVars
<1>1. \A h : \A id : Running(h, id)' <=> Running(h, id)
  BY HostsSame
<1>2. \A o : Spent(o)' <=> Spent(o)
  BY DEF Spent
<1>3. \A h \in Host : Entries(h)'
  <2>1. \A h \in Host : seen[h] <= last'
    BY DEF Hosts, Entries, Types, ServerTypes, HostTypes
  <2> QED
    BY <2>1 DEF Hosts, Entries
<1>4. \A h \in Host : Chain(h)'
  BY <1>1 DEF Hosts, Chain, Running, Held
<1>5. RanSpent'
  BY <1>1, <1>2 DEF Hosts, RanSpent
<1> QED
  BY <1>3, <1>4, <1>5 DEF Hosts

\* The parts of the invariant that no type or operation carries.
Parts == Numbers /\ Hosts /\ Home /\ Rest /\ Look /\ Removed /\ HeardTrue

\* A request, with no operation begun or ended, keeps what the row says of hosts.
LEMMA RequestInv ==
  ASSUME Inv, Types', UNCHANGED <<hostVars, sent, op, last>>,
         loop' = loop \/ loop' = [at |-> "idle"],
         \/ row' = row
         \/ Exists /\ \E e \in Event : /\ e.type \in {"ask", "resize", "sized", "delete", "refused"}
                                       /\ row' = Transition(row, e)
  PROVE  Parts'
<1> USE DEF Inv
<1>1. Hosts'
  BY HostsLater DEF OpInv, Types, ServerTypes
<1>2. /\ ~Exists => ~Exists'
      /\ ~Exists' => ~Exists \/ row.state = "undone"
      /\ Exists' => /\ row'.host = row.host
                    /\ row'.state = "undone" => row.state = "undone"
                    /\ row.state \in Due => row'.state \in Due
  <2>1. CASE row' = row
    BY <2>1 DEF Exists
  <2>2. ASSUME NEW e \in Event, e.type \in {"ask", "resize", "sized", "delete", "refused"},
               row' = Transition(row, e), Exists
        PROVE  <1>2!1 /\ <1>2!2 /\ <1>2!3
    <3>1. row \in Row
      BY <2>2 DEF OpInv, Types, ServerTypes, Exists
    <3> QED
      BY <2>2, <3>1, RequestMoves, RequestSteps DEF Exists
  <2> QED
    BY <2>1, <2>2
<1>3. Home'
  BY <1>2, HostsSame DEF Home
<1>4. Rest'
  BY <1>2, HostsSame DEF Rest, Due, Quiet, Running, Held, Spent, hostVars
<1>5. Look'
  BY <1>2 DEF Look
<1>6. Numbers'
  BY DEF Numbers, hostVars
<1>7. Removed'
  BY DEF Removed, Held, hostVars
<1>8. HeardTrue'
  BY DEF HeardTrue, hostVars, Quiet, Running, Held, Spent
<1> QED
  BY <1>1, <1>3, <1>4, <1>5, <1>6, <1>7, <1>8 DEF Parts

\* A request written on a row leaves its operation as it is.
LEMMA RequestAdvance ==
  ASSUME OpInv, Exists, NEW e \in Event, e.type \in {"ask", "resize", "sized", "delete", "refused"},
         Advance(e, 0)
  PROVE  UNCHANGED <<op, last>> /\ (row' = row \/ row' = Transition(row, e))
<1>1. op # NoOp => op' = op
  BY RequestOp
<1>2. ~Begins(row, e, op)
  BY DEF Begins
<1>3. op = NoOp => op' = op
  BY <1>2 DEF Advance
<1> QED
  BY <1>1, <1>2, <1>3 DEF Advance

\* A create takes a name that nothing is left of, and an expiry frees one.
LEMMA NameInv ==
  ASSUME Inv, Types', Create \/ Expire PROVE Parts'
<1> USE DEF Inv
<1>1. /\ UNCHANGED <<hostVars, sent, op, last, loop>>
      /\ \A h \in Host : Clean(h)
      /\ loop.at \notin {"seeing", "reading"}
  BY DEF Create, Expire, netVars, Home, Look
<1>2. Hosts'
  BY <1>1, HostsLater DEF OpInv, Types, ServerTypes
<1>3. Home'
  BY <1>1, HostsSame DEF Home
<1>4. Rest'
  <2>1. Exists' => row'.host \in Host
    BY DEF Exists, Types, ServerTypes, Row
  <2>2. \A h \in Host : Quiet(h)'
    BY <1>1, HostsSame DEF Clean
  <2> QED
    BY <2>1, <2>2 DEF Rest, Quiet, Running, Held, Spent
<1>5. Look' /\ Numbers' /\ Removed' /\ HeardTrue'
  BY <1>1 DEF Look, Numbers, Removed, HeardTrue, hostVars, Quiet, Running, Held, Spent
<1> QED
  BY <1>2, <1>3, <1>4, <1>5 DEF Parts

\* Whatever a client asks, at any turn of the loop.
LEMMA ClientInv ==
  ASSUME Inv, Types', Client PROVE Parts'
<1> USE DEF Inv
<1>1. CASE Delete
  <2>1. [type |-> "delete"] \in Event
    BY DEF Event
  <2> QED
    BY <1>1, <2>1, RequestAdvance, RequestInv DEF Delete, netVars
<1>2. ASSUME NEW wish \in Wish, Ask(wish) PROVE Parts'
  <2>1. [type |-> "ask", desired |-> wish] \in Event
    BY DEF Event
  <2> QED
    BY <1>2, <2>1, RequestAdvance, RequestInv DEF Ask, netVars
<1>3. ASSUME NEW to \in Sizings, Resize(to) PROVE Parts'
  <2>1. [type |-> "resize", sizing |-> to] \in Event
    BY ConstantsAssumption DEF Event
  <2> QED
    BY <1>3, <2>1, RequestAdvance, RequestInv DEF Resize, netVars
<1> QED
  BY <1>1, <1>2, <1>3, NameInv DEF Client, Wish

\* A restart of the control plane deletes an ephemeral row as a client would.
LEMMA CrashInv ==
  ASSUME Inv, Types', Crash PROVE Parts'
<1> USE DEF Inv
<1>1. UNCHANGED <<hostVars, sent>> /\ loop' = [at |-> "idle"]
  BY DEF Crash, netVars
<1>2. CASE Exists /\ Ephemeral
  <2>1. [type |-> "delete"] \in Event
    BY DEF Event
  <2> QED
    BY <1>1, <1>2, <2>1, RequestAdvance, RequestInv DEF Crash
<1>3. CASE ~(Exists /\ Ephemeral)
  BY <1>1, <1>3, RequestInv DEF Crash
<1> QED
  BY <1>2, <1>3

\* A refusal, or sizes read after a lost resize.
LEMMA RefusesInv ==
  ASSUME Inv, Types', Refuses \/ Sizes PROVE Parts'
<1> USE DEF Inv
<1>1. UNCHANGED <<hostVars, sent>> /\ loop' = [at |-> "idle"]
  BY DEF Refuses, Sizes, netVars
<1>2. CASE UNCHANGED <<row, op, last>>
  BY <1>1, <1>2, RequestInv
<1>3. CASE Refuses /\ Exists
  <2>1. [type |-> "refused"] \in Event
    BY DEF Event
  <2> QED
    BY <1>1, <1>3, <2>1, RequestAdvance, RequestInv DEF Refuses
<1>4. CASE Sizes /\ Exists /\ vm[loop.host].is # "none"
  <2>1. loop.host \in Host
    BY <1>4, LoopTypes DEF Sizes, OpInv, Types
  <2>2. [type |-> "sized", sizing |-> vm[loop.host].size] \in Event
    BY <2>1 DEF OpInv, Types, Event, HostTypes, VM
  <2> QED
    BY <1>1, <1>4, <2>2, RequestAdvance, RequestInv DEF Sizes
<1> QED
  BY <1>2, <1>3, <1>4 DEF Refuses, Sizes

\* A turn that writes neither the row nor its operation, and sends nothing.
LEMMA QuietTurn ==
  ASSUME Inv, Types', UNCHANGED <<hostVars, sent, row, op, last>>, loop'.at # "sending",
         Look', HeardTrue'
  PROVE  Parts'
<1> USE DEF Inv
<1>1. Hosts'
  BY HostsLater DEF OpInv, Types, ServerTypes
<1>2. Home'
  BY HostsSame DEF Home, Exists
<1>3. Rest' /\ Numbers' /\ Removed'
  BY DEF Rest, Exists, Numbers, Removed, hostVars, Quiet, Running, Held, Spent
<1> QED
  BY <1>1, <1>2, <1>3 DEF Parts

\* A loop that begins to look finds a row with no operation, and holds its host.
LEMMA LookInv ==
  ASSUME Inv, Types', LookBegins \/ Sees \/ SeesNothing \/ GivesUp \/ SizesNothing \/ PollBegins
  PROVE  Parts'
<1> USE DEF Inv
<1>1. UNCHANGED <<hostVars, sent, row, op, last>>
  BY DEF LookBegins, Sees, SeesNothing, GivesUp, SizesNothing, PollBegins, netVars
<1>2. loop'.at \notin {"sending", "heard"}
  BY DEF LookBegins, Sees, SeesNothing, GivesUp, SizesNothing, PollBegins
<1>3. HeardTrue'
  BY <1>2 DEF HeardTrue
<1>4. Look'
  <2>1. CASE LookBegins
    <3>1. Exists /\ loop'.host = row.host
      BY <2>1 DEF LookBegins
    <3>2. StepOf(row.state) = None /\ row.state # "undone"
      BY <2>1 DEF LookBegins, ActivityOf, StepOf, Starting, Stopping, Pausing, Resizing,
                  JoinSent, JoinAsked
    <3>3. op = NoOp
      BY <3>2 DEF OpInv, OpIsStep
    <3> QED
      BY <1>1, <3>1, <3>2, <3>3 DEF Look, Exists
  <2>2. CASE Sees \/ SeesNothing
    <3>1. loop.at = "seeing" /\ loop'.host = loop.host
      BY <2>2 DEF Sees, SeesNothing
    <3> QED
      BY <1>1, <3>1 DEF Look, Exists
  <2>3. CASE GivesUp \/ SizesNothing \/ PollBegins
    <3>1. loop'.at \notin {"seeing", "reading"}
      BY <2>3 DEF GivesUp, SizesNothing, PollBegins
    <3> QED
      BY <3>1 DEF Look
  <2> QED
    BY <2>1, <2>2, <2>3
<1> QED
  BY <1>1, <1>2, <1>3, <1>4, QuietTurn

\* What waitOperation answers is true of the host: the step is over there.
LEMMA WaitsInv ==
  ASSUME Inv, Types', Waits PROVE Parts'
<1> USE DEF Inv
<1>1. UNCHANGED <<hostVars, sent, row, op, last>> /\ loop.at = "waiting" /\ loop.op = op /\ op # NoOp
  BY DEF Waits, netVars, OpInv, LoopHasOp
<1> DEFINE h == op.host
           report == entry[h][op.seq]
<1>2. \/ loop'.at = "idle"
      \/ /\ ~Held(h, op.seq) /\ loop'.at = "heard" /\ loop'.heard = Lost
         /\ boot[h] # op.boot \/ op.kind = "make"
      \/ /\ Held(h, op.seq) /\ ~Running(h, op.seq) /\ loop'.at = "heard"
         /\ loop'.heard.status = report.status
  BY <1>1 DEF Waits, Heard, Running
<1>3. loop'.at \notin {"sending", "seeing", "reading"}
  BY <1>2
<1>4. HeardTrue'
  <2> SUFFICES ASSUME loop'.at = "heard"
               PROVE  /\ Quiet(h) \/ (loop'.heard = Lost /\ op.kind = "make")
                      /\ op.kind = "remove" /\ loop'.heard.status = "done" => vm[h] = NoVM
    BY <1>1 DEF HeardTrue, hostVars, Quiet, Running, Held, Spent
  <2>1. CASE ~Held(h, op.seq)
    <3>1. loop'.heard = Lost /\ Lost.status # "done"
      BY <1>2, <2>1 DEF Lost
    <3> QED
      BY <1>1, <1>2, <2>1, <3>1, RestartedQuiet DEF OpInv
  <2>2. CASE Held(h, op.seq)
    <3>1. Quiet(h)
      BY <1>1, <1>2, <2>2, EndedQuiet DEF OpInv
    <3> QED
      BY <1>1, <1>2, <2>2, <3>1 DEF Removed
  <2> QED
    BY <2>1, <2>2
<1> QED
  BY <1>1, <1>3, <1>4, QuietTurn DEF Look

\* A step that is sent is the row's own, and its host is the only one not clean.
LEMMA SendsInv ==
  ASSUME Inv, Types', Sends PROVE Parts'
<1> USE DEF Inv
<1>1. /\ UNCHANGED <<hostVars, row, op, last>> /\ op # NoOp /\ sent' = sent \cup {op}
      /\ loop'.at = "sending" /\ loop'.op = op
  <2>1. loop.op = op /\ loop'.at = "sending" /\ loop'.op = loop.op
    BY DEF Sends, OpInv, LoopHasOp, Types, Loop
  <2> QED
    BY <2>1 DEF Sends, OpInv, LoopHasOp
<1>2. Exists /\ row.state # "undone" /\ row.host = op.host
  BY <1>1 DEF OpInv, OpIsStep, StepOf, None, Starting, Stopping, Pausing, Resizing, JoinSent, JoinAsked
<1>3. Numbers'
  <2>1. op.seq = last /\ op.boot <= boot[op.host]
    BY <1>1 DEF Numbers
  <2>2. op.seq <= last
    BY <1>1, <2>1, OpFields DEF OpInv
  <2>3. op.boot <= op.boot
    BY <1>1, OpFields DEF OpInv
  <2> QED
    BY <1>1, <2>1, <2>2, <2>3 DEF Numbers, hostVars
<1>4. Hosts'
  <2>1. \A h \in Host : \A id : Running(h, id)' <=> Running(h, id)
    BY <1>1 DEF hostVars, Running, Held
  <2>2. \A o : Spent(o)' <=> Spent(o)
    BY <1>1 DEF hostVars, Spent
  <2>3. \A h \in Host : Entries(h)'
    BY <1>1 DEF Hosts, Entries, hostVars
  <2>4. \A h \in Host : Chain(h)'
    BY <1>1, <2>1 DEF Hosts, Chain, hostVars, Running, Held
  <2>5. RanSpent'
    <3>1. \A id \in DOMAIN ran : op.seq = id => op \in sent
      BY <1>1 DEF Hosts, RanSpent, Numbers
    <3> QED
      BY <1>1, <2>1, <2>2, <3>1 DEF Hosts, RanSpent, hostVars
  <2> QED
    BY <2>3, <2>4, <2>5 DEF Hosts
<1>5. Home'
  <2>1. \A h \in Host : h # op.host => Clean(h)
    BY <1>2 DEF Home
  <2>2. \A h \in Host : h # op.host => Clean(h)'
    BY <1>1, <2>1 DEF Clean, Quiet, Running, Held, Spent, hostVars
  <2> QED
    BY <1>1, <1>2, <2>2 DEF Home, Exists
<1>6. Rest' /\ Look' /\ Removed' /\ HeardTrue'
  BY <1>1 DEF Rest, Look, Removed, HeardTrue, Held, hostVars
<1> QED
  BY <1>3, <1>4, <1>5, <1>6 DEF Parts

\* A host that answers that it will not run the step has nothing of it.
LEMMA RunsInv ==
  ASSUME Inv, Types', Runs PROVE Parts'
<1> USE DEF Inv
<1>1. UNCHANGED <<row, op, last, sent>> /\ op # NoOp /\ loop.op = op /\ op \in sent
  BY DEF Runs, OpInv, LoopHasOp, Numbers, netVars
<1>2. CASE Takes(op)
  <2>1. Accept(op) /\ loop' = [at |-> "idle"] /\ op.host \in Host
    BY <1>1, <1>2, OpFields DEF Runs, OpInv
  <2>2. Keeps
    BY <1>1, <1>2, <2>1, AcceptKeeps DEF OpInv, Types
  <2>3. boot' = boot /\ \A g \in Host : boot[g] <= boot'[g]
    BY <2>1 DEF Accept, OpInv, Types, HostTypes
  <2>4. Numbers' /\ Home' /\ Rest' /\ Removed'
    BY <1>1, <2>1, <2>2, <2>3, StoreStays DEF Types, HostTypes
  <2> QED
    BY <2>1, <2>2, <2>4 DEF Parts, Keeps, Look, HeardTrue
<1>3. CASE ~Takes(op)
  <2>1. UNCHANGED hostVars /\ (loop' = [at |-> "idle"] \/ (loop' = Heard(Lost) /\ ~Held(op.host, op.seq)))
    BY <1>1, <1>3 DEF Runs
  <2>2. loop'.at \in {"idle", "heard"} /\ (loop'.at = "heard" => loop'.heard = Lost /\ ~Held(op.host, op.seq))
    BY <2>1 DEF Heard
  <2>3. HeardTrue'
    <3>1. loop'.at = "heard" => Quiet(op.host)
      BY <1>1, <1>3, <2>2, RefusedQuiet DEF OpInv
    <3>2. Lost.status # "done"
      BY DEF Lost
    <3> QED
      BY <1>1, <2>1, <2>2, <3>1, <3>2 DEF HeardTrue, hostVars, Quiet, Running, Held, Spent
  <2> QED
    BY <1>1, <2>1, <2>2, <2>3, QuietTurn DEF Look
<1> QED
  BY <1>2, <1>3

\* The step a read begins is the machine's next, on the host that was read.
LEMMA LooksInv ==
  ASSUME Inv, OpInv', NEW joins \in BOOLEAN, Looks(joins) PROVE Parts'
<1> USE DEF Inv
<1> DEFINE e == [type |-> "read", seen |-> loop.saw, joins |-> joins, awaiting |-> FALSE]
           b == boot[loop.host]
           t == Transition(row, e)
<1>1. /\ UNCHANGED <<hostVars, sent>> /\ loop' = [at |-> "idle"]
      /\ Exists /\ row.host = loop.host /\ op = NoOp /\ row.state # "undone" /\ row \in Row
  BY DEF Looks, netVars, Look, OpInv, Types, ServerTypes, Exists
<1>2. loop.host \in Host /\ e \in Event
  <2>1. loop.saw \in Seens /\ loop.host \in Host
    BY LoopTypes DEF Looks, OpInv, Types
  <2> QED
    BY <2>1 DEF Event
<1>3. e.type = "read" /\ Advance(e, b)
  BY <1>1 DEF Looks
<1> HIDE DEF e
<1>4. row' = t /\ t # Gone /\ t.host = row.host /\ t.state # "undone"
      /\ (row.state \in Due /\ t.state \notin Due => StepOf(t.state) # None)
  BY <1>1, <1>2, <1>3, ReadSteps, ReadMoves DEF Advance, Throws
<1>5. \/ op' = NoOp /\ last' = last
      \/ /\ last' = last + 1
         /\ op'.seq = last + 1 /\ op'.host = row.host /\ op'.boot = b
  BY <1>1, <1>3 DEF Advance
<1>6. last \in Nat /\ last <= last'
  BY <1>5 DEF OpInv, Types, ServerTypes
<1>7. Hosts'
  BY <1>1, <1>6, HostsLater DEF OpInv
<1>8. Home'
  BY <1>1, <1>4, HostsSame DEF Home, Exists
<1>9. Rest'
  <2> SUFFICES ASSUME op' = NoOp, row'.state \notin Due PROVE Quiet(row.host)
    BY <1>1, <1>4 DEF Rest, Due, Quiet, Running, Held, Spent, hostVars
  <2>1. StepOf(row'.state) = None
    BY <1>4 DEF OpInv, OpIsStep, Exists
  <2> QED
    BY <1>1, <1>4, <2>1 DEF Rest, Due
<1>10. Numbers'
  <2>1. \A o \in sent : o.seq \in Nat /\ o.seq <= last /\ o.boot <= boot[o.host]
    BY DEF Numbers, OpInv, Types, NetTypes, Operation
  <2>2. b \in Nat
    BY <1>2 DEF OpInv, Types, HostTypes
  <2>3. \A o \in sent : o.seq <= last' /\ (last' = last + 1 => o.seq # last + 1)
    BY <1>5, <1>6, <2>1
  <2> QED
    BY <1>1, <1>5, <1>6, <2>1, <2>2, <2>3 DEF Numbers, hostVars
<1>11. Removed'
  <2>1. \A id \in DOMAIN entry[row.host] : id \in Nat /\ id <= last
    BY <1>1, <1>6 DEF Hosts, Entries, OpInv, Types, HostTypes, EntryTypes, Row
  <2>2. op' # NoOp => ~Held(row.host, last + 1)
    BY <1>6, <2>1 DEF Held
  <2> QED
    BY <1>1, <1>5, <2>2 DEF Removed, Held, hostVars
<1> QED
  BY <1>1, <1>7, <1>8, <1>9, <1>10, <1>11 DEF Parts, Look, HeardTrue

\* The row takes what was heard: it lets its host go only once it is clean.
LEMMA FollowsInv ==
  ASSUME Inv, OpInv', Follows PROVE Parts'
<1> USE DEF Inv
<1>1. /\ UNCHANGED <<hostVars, sent>> /\ loop.at = "heard"
      /\ Exists /\ loop.op = op /\ op # NoOp /\ row \in Row
      /\ loop'.at \notin {"seeing", "reading", "sending", "heard"}
  BY DEF Follows, OpInv, LoopHasOp, Types, ServerTypes, Exists
<1>2. PICK move \in Moves : Advance(EventOf(loop.heard, move), 0)
  BY DEF Follows
<1> DEFINE e == EventOf(loop.heard, move)
           t == Transition(row, e)
<1>3. e \in Event
  <2>1. loop.heard \in Ends \cup {Lost}
    BY <1>1, LoopTypes DEF OpInv, Types
  <2> QED
    BY <2>1, HeardTypes DEF OpInv, Types
<1>4. /\ e.type \in {"reported", "lost"}
      /\ e.type = "lost" => loop.heard = Lost
      /\ e.type = "reported" => e.status = loop.heard.status /\ loop.heard # Lost
      /\ loop.heard = Lost => e.type = "lost"
  <2>1. loop.heard \in Ends \cup {Lost}
    BY <1>1, LoopTypes DEF OpInv, Types
  <2> QED
    BY <2>1 DEF EventOf, Ends, Lost
<1> HIDE DEF e
<1>5. /\ StepOf(row.state) # None /\ StepOf(row.state) \in {"any", op.kind} /\ op.host = row.host
  BY <1>1 DEF OpInv, OpIsStep
<1>6. t # row /\ StepOf(t.state) = None
  BY <1>1, <1>3, <1>4, <1>5, EndSteps
<1>7. row' = t /\ op' = NoOp /\ last' = last
  <2>1. ~Throws(row, e, op) /\ ~Begins(row, e, op) /\ Finishes(row, e, op)
    BY <1>1, <1>6 DEF Throws, Begins, Finishes
  <2> QED
    BY <1>2, <2>1 DEF Advance, e
<1>8. t = Gone \/ t.state = "undone" \/ t.host # row.host => Clean(row.host)
  <2> SUFFICES ASSUME t = Gone \/ t.state = "undone" \/ t.host # row.host PROVE Clean(row.host)
    OBVIOUS
  <2>1. e.type = "reported" /\ e.status = "done" /\ row.state \in {"undoing.sent", "deleting.sent"}
    BY <1>1, <1>3, <1>4, <1>5, EndMoves
  <2>2. op.kind = "remove"
    BY <1>5, <2>1 DEF StepOf, Starting, Stopping, Pausing, Resizing, JoinSent, JoinAsked
  <2>3. Quiet(op.host) /\ vm[op.host] = NoVM
    BY <1>1, <1>4, <2>1, <2>2 DEF HeardTrue
  <2> QED
    BY <1>5, <2>3 DEF Clean
<1>9. Home'
  <2>1. \A h \in Host : h # row.host => Clean(h)
    BY DEF Home
  <2> QED
    BY <1>1, <1>7, <1>8, <2>1, HostsSame DEF Home, Exists
<1>10. Rest'
  <2> SUFFICES ASSUME t # Gone, t.state \notin Due PROVE Quiet(t.host)
    BY <1>1, <1>7 DEF Rest, Due, Exists, Quiet, Running, Held, Spent, hostVars
  <2>1. CASE t.host # row.host
    <3>1. t.host \in Host
      BY <1>7, <2>1 DEF OpInv, Types, ServerTypes, Row
    <3> QED
      BY <2>1, <3>1 DEF Home, Clean
  <2>2. CASE t.host = row.host
    <3>1. ~(loop.heard = Lost /\ op.kind = "make")
      <4> SUFFICES ASSUME loop.heard = Lost, op.kind = "make" PROVE FALSE
        OBVIOUS
      <4>1. row.state \in {"making.sent", "deleting.draining"}
        BY <1>5 DEF StepOf, None, Starting, Stopping, Pausing, Resizing, JoinSent, JoinAsked
      <4> QED
        BY <1>1, <1>3, <1>4, <1>5, <4>1, EndMoves
    <3> QED
      BY <1>1, <1>5, <2>2, <3>1 DEF HeardTrue
  <2> QED
    BY <2>1, <2>2
<1>11. Hosts'
  BY <1>1, <1>7, HostsLater DEF OpInv, Types, ServerTypes
<1>12. Numbers'
  BY <1>1, <1>7 DEF Numbers, hostVars
<1> QED
  BY <1>1, <1>7, <1>9, <1>10, <1>11, <1>12 DEF Parts, Look, Removed, HeardTrue

--------------------------------------------------------------------------------
(* The theorems. *)

\* With no row and idle hosts nothing is out of order.
LEMMA InvInit == Init => Inv
<1> SUFFICES ASSUME Init PROVE Inv
  OBVIOUS
<1>1. \A h \in Host : DOMAIN entry[h] = {} /\ seen[h] = 0 /\ vm[h] = NoVM
  BY DEF Init
<1>2. DOMAIN ran = {} /\ sent = {} /\ last = 0 /\ op = NoOp /\ ~Exists /\ loop.at = "idle"
  BY DEF Init, Exists
<1>3. OpInv
  BY OpInvInit
<1>4. Hosts
  <2>1. \A h \in Host : Entries(h) /\ Chain(h)
    BY <1>1, <1>2 DEF Entries, Chain
  <2>2. RanSpent
    BY <1>1, <1>2 DEF RanSpent
  <2> QED
    BY <2>1, <2>2 DEF Hosts
<1>5. Home
  BY <1>1, <1>2 DEF Home, Clean, Quiet
<1>6. Numbers /\ Rest /\ Look /\ Removed /\ HeardTrue
  BY <1>2 DEF Numbers, Rest, Look, Removed, HeardTrue
<1> QED
  BY <1>3, <1>4, <1>5, <1>6 DEF Inv

\* Every step keeps the invariant.
LEMMA InvStep == Inv /\ [Next]_vars => Inv'
<1> SUFFICES ASSUME Inv, [Next]_vars PROVE Inv'
  OBVIOUS
<1>1. OpInv' /\ Types'
  BY OpInvStep DEF Inv, OpInv
<1>2. CASE UNCHANGED vars
  <2>1. Parts'
    BY <1>1, <1>2, RequestInv DEF vars, hostVars
  <2> QED
    BY <1>1, <2>1 DEF Inv, Parts
<1>3. CASE Client
  BY <1>1, <1>3, ClientInv DEF Inv, Parts
<1>4. CASE Turn
  <2>1. Parts'
    BY <1>1, <1>4, LookInv, RefusesInv, LooksInv, WaitsInv, SendsInv, RunsInv, FollowsInv DEF Turn
  <2> QED
    BY <1>1, <2>1 DEF Inv, Parts
<1>5. CASE Crash
  BY <1>1, <1>5, CrashInv DEF Inv, Parts
<1>6. ASSUME NEW h \in Host, HostStep(h) PROVE Inv'
  BY <1>1, <1>6, HostInv
<1> QED
  BY <1>2, <1>3, <1>4, <1>5, <1>6 DEF Next

LEMMA InvHolds == Spec => []Inv
BY InvInit, InvStep, PTL DEF Spec

\* A machine is on its row's host only, over every move past capacity, every lost
\* call and every restart.
THEOREM MachinesHaveOneHome == Spec => []OneHome
<1>1. Inv => OneHome
  BY DEF Inv, Home, OneHome, Clean
<1> QED
  BY <1>1, InvHolds, PTL

\* A name without a row, or with an undone one, has nothing on any host: no VM and
\* no work that could still make one.
THEOREM NothingIsOrphaned == Spec => []NoOrphan
<1>1. Inv => NoOrphan
  BY DEF Inv, Home, NoOrphan, Clean, Quiet
<1> QED
  BY <1>1, InvHolds, PTL

\* No step of a machine is ever worked on beside another, on one host or on two.
THEOREM WorkIsOne == Spec => []OneWork
<1>1. Inv => OneWork
  <2> SUFFICES ASSUME Inv, NEW g \in Host, NEW h \in Host, NEW i \in DOMAIN entry[g],
                      NEW j \in DOMAIN entry[h], Working(g, i), Working(h, j)
               PROVE  g = h /\ i = j
    BY DEF OneWork
  <2>1. ~Clean(g) /\ ~Clean(h)
    BY DEF Working, Clean, Quiet
  <2>2. g = h
    BY <2>1 DEF Inv, Home
  <2>3. i \in Nat /\ j \in Nat /\ Chain(h)
    BY DEF Inv, Hosts, OpInv, Types, HostTypes, EntryTypes
  <2>4. ~(i < j) /\ ~(j < i)
    BY <2>2, <2>3 DEF Chain, Working
  <2> QED
    BY <2>2, <2>3, <2>4
<1> QED
  BY <1>1, InvHolds, PTL

\* An operation's work begins at most once, however often it is sent or however late
\* it arrives, and whatever its host was told to forget.
THEOREM WorkBeginsOnce == Spec => []OnceOnly
<1>1. Inv => OnceOnly
  BY DEF Inv, Hosts, RanSpent, OnceOnly
<1> QED
  BY <1>1, InvHolds, PTL

\* A row that shows a client a phase to rest in has no work under way for it.
THEOREM RestingRowsAreIdle == Spec => []RestIsIdle
<1>1. Inv => RestIsIdle
  <2> SUFFICES ASSUME Inv, Exists, ActivityOf(row.state) \in {"recheck", "none"}, NEW h \in Host
               PROVE  Quiet(h)
    BY DEF RestIsIdle, Quiet
  <2>1. op = NoOp /\ row.state \notin {"undoing.due", "deleting.due"}
    BY DEF Inv, OpInv, OpIsStep, ActivityOf, StepOf, None, Starting, Stopping, Pausing, Resizing,
           JoinSent, JoinAsked
  <2> QED
    BY <2>1 DEF Inv, Rest, Home, Clean
<1> QED
  BY <1>1, InvHolds, PTL

--------------------------------------------------------------------------------
(* The promise of Lifecycle. *)

\* The events of the chart move a row between the stages of Lifecycle as it allows.
LEMMA StageMoves ==
  ASSUME NEW r \in Row, NEW e \in Event, NEW t, t = Transition(r, e)
  PROVE  /\ r.state \in Making \cup Undoing =>
              t # Gone /\ t.state \in Making \cup Undoing \cup Made \cup {"undone"} \cup Deleting
         /\ r.state \in Made => t # Gone /\ t.state \in Made \cup Deleting
         /\ r.state = "undone" => t = Gone \/ t.state = "undone"
         /\ r.state \in Deleting => t = Gone \/ t.state \in Deleting
<1> USE DEF Making, Made, Standing, Stepping, Undoing, Deleting, Starting, Stopping, Pausing,
            Resizing, JoinSent, JoinAsked
<1>1. r.state \in Deleting => t = Gone \/ t.state \in Deleting
  BY DeletingStays
<1>2. t \in Row \cup {Gone}
  BY TransitionTypes
<1>3. r.state = "undone" => t = Gone \/ t.state = "undone"
  <2>1. CASE e.type \in {"ask", "resize", "sized", "refused"}
    BY <2>1 DEF Transition, OnAsk, OnResize, OnRefused, Row
  <2>2. CASE e.type \in {"delete", "read", "lost"}
    BY <2>2 DEF Transition, OnDelete, OnRead, OnLost, Row
  <2>3. CASE e.type = "reported"
    BY <2>3 DEF Transition, OnReported, Row
  <2> QED
    BY <2>1, <2>2, <2>3 DEF Event
<1>4. ASSUME r.state \in Made
      PROVE  t.state \in Made \cup Deleting
  <2>1. CASE e.type \in {"ask", "resize", "sized", "refused"}
    BY <1>4, <2>1 DEF Transition, OnAsk, OnResize, OnRefused, Asked, Owed, Goto, Row
  <2>2. CASE e.type \in {"delete", "lost"}
    BY <1>4, <2>2 DEF Transition, OnDelete, OnLost, EnterDeleting, Goto, Row
  <2>3. CASE e.type = "read"
    <3>1. Decided(r, e).state \in {r.state, "made.lost", "made.settled", Starting, Stopping,
                                   Pausing, Resizing, JoinSent}
      BY DEF Decided, Goto, NoSize, Row
    <3> QED
      BY <1>4, <2>3, <3>1 DEF Transition, OnRead
  <2>4. CASE e.type = "reported"
    <3>1. Told(r, e) \in Row /\ Told(r, e).state = r.state
      BY <2>4 DEF Told, Row, NoSize, Event
    <3>2. \A p \in BOOLEAN : Ended(r, e, p).state \in {"made.failed", "made.observing"}
      BY <3>1 DEF Ended, Row
    <3> QED
      BY <1>4, <2>4, <3>1, <3>2 DEF Transition, OnReported, Goto, Row
  <2> QED
    BY <2>1, <2>2, <2>3, <2>4 DEF Event
<1>5. ASSUME r.state \in Making \cup Undoing
      PROVE  t.state \in Making \cup Undoing \cup Made \cup {"undone"} \cup Deleting
  <2>1. CASE e.type \in {"ask", "resize", "sized", "refused"}
    BY <1>5, <2>1 DEF Transition, OnAsk, OnResize, OnRefused, Asked, Owed, Goto, Row
  <2>2. CASE e.type \in {"delete", "lost", "read"}
    BY <1>5, <2>2 DEF Transition, OnDelete, OnLost, OnRead, EnterDeleting, Goto, Row
  <2>3. CASE e.type = "reported"
    <3>1. Told(r, e) \in Row /\ Told(r, e).state = r.state
      BY <2>3 DEF Told, Row, NoSize, Event
    <3>2. Undone(r, e).state \in {"undoing.held", "undoing.due", "undone", "making.due"}
      BY DEF Undone, Goto, Row
    <3> QED
      BY <1>5, <2>3, <3>1, <3>2 DEF Transition, OnReported, Row
  <2> QED
    BY <2>1, <2>2, <2>3 DEF Event
<1>6. Gone.state \notin Making \cup Undoing \cup Made \cup {"undone"} \cup Deleting
  BY DEF Gone
<1> QED
  BY <1>1, <1>3, <1>4, <1>5, <1>6

\* A name that is free, or whose create failed, has no body.
LEMMA NoBody == Inv /\ (~Exists \/ row.state = "undone") => ~Body
BY DEF Inv, Home, Body, Clean, Quiet

\* The stage of a row.
StageOf(r) ==
  CASE r = Gone -> "absent"
    [] r # Gone /\ r.state \in Making \cup Undoing -> "coming"
    [] r # Gone /\ r.state \in Made -> "here"
    [] r # Gone /\ r.state = "undone" -> "failed"
    [] OTHER -> "leaving"

\* The regions of the chart do not overlap, so each is a stage of its own.
LEMMA Stages ==
  ASSUME NEW r, NEW stage, stage = StageOf(r)
  PROVE  /\ r = Gone => stage = "absent"
         /\ r # Gone => /\ r.state \in Making \cup Undoing => stage = "coming"
                        /\ r.state \in Made => stage = "here"
                        /\ r.state = "undone" => stage = "failed"
                        /\ r.state \in Deleting => stage = "leaving"
BY DEF StageOf, Making, Made, Standing, Stepping, Undoing, Deleting, Starting, Stopping, Pausing,
       Resizing, JoinSent, JoinAsked

\* No step writes both the row and what a host has.
LEMMA RowOrHosts == [Next]_vars => UNCHANGED row \/ UNCHANGED hostVars
<1>1. CASE Client
  BY <1>1 DEF Client, Create, Delete, Expire, Ask, Resize
<1>2. CASE Turn
  <2>1. CASE Runs
    BY <2>1 DEF Runs
  <2>2. CASE Turn /\ ~Runs
    BY <2>2 DEF Turn, LookBegins, Sees, SeesNothing, Refuses, Looks, PollBegins, Waits, Sends,
                GivesUp, Follows, Sizes, SizesNothing
  <2> QED
    BY <1>2, <2>1, <2>2
<1>3. CASE Crash
  BY <1>3 DEF Crash
<1>4. ASSUME NEW h \in Host, HostStep(h) PROVE UNCHANGED row
  BY <1>4 DEF HostStep, RunsLate, Cancels, Collects, WorkBegins, WorkDone, WorkFails, WorkCancelled,
              Reboot, Drifts, serverVars
<1>5. CASE UNCHANGED vars
  BY <1>5 DEF vars
<1> QED
  BY <1>1, <1>2, <1>3, <1>4, <1>5 DEF Next

\* How a chart's step moves the stage.
LEMMA StageSteps ==
  ASSUME NEW r \in Row, NEW e \in Event, NEW t, t = Transition(r, e),
         NEW from, from = StageOf(r), NEW to, to = StageOf(t)
  PROVE  \/ from = "coming" /\ to \in {"coming", "here", "leaving"}
         \/ from = "coming" /\ to = "failed" /\ t.state = "undone"
         \/ from = "here" /\ to \in {"here", "leaving"}
         \/ from = "failed" /\ (to = "failed" \/ (to = "absent" /\ t = Gone))
         \/ from = "leaving" /\ (to = "leaving" \/ (to = "absent" /\ t = Gone))
<1>1. r # Gone /\ r.state \in Leaf
  BY DEF Row, Gone, Leaf, Making, Made, Standing, Stepping, Undoing, Deleting, Starting, Stopping,
         Pausing, Resizing, JoinSent, JoinAsked
<1>2. \/ r.state \in Making \cup Undoing
      \/ r.state \in Made \/ r.state = "undone" \/ r.state \in Deleting
  BY <1>1 DEF Leaf
<1>3. /\ r.state \in Making \cup Undoing =>
           t # Gone /\ t.state \in Making \cup Undoing \cup Made \cup {"undone"} \cup Deleting
      /\ r.state \in Made => t # Gone /\ t.state \in Made \cup Deleting
      /\ r.state = "undone" => t = Gone \/ t.state = "undone"
      /\ r.state \in Deleting => t = Gone \/ t.state \in Deleting
  BY StageMoves
<1>4. /\ r.state \in Making \cup Undoing => from = "coming"
      /\ r.state \in Made => from = "here"
      /\ r.state = "undone" => from = "failed"
      /\ r.state \in Deleting => from = "leaving"
  BY <1>1, Stages
<1>5. /\ t = Gone => to = "absent"
      /\ t # Gone => /\ t.state \in Making \cup Undoing => to = "coming"
                     /\ t.state \in Made => to = "here"
                     /\ t.state = "undone" => to = "failed"
                     /\ t.state \in Deleting => to = "leaving"
  BY Stages
<1> QED
  BY <1>2, <1>3, <1>4, <1>5

\* Every step of a machine's life is a step of its promise, or none of it.
LEMMA PromiseStep == Inv /\ Inv' /\ [Next]_vars => [Promise!Next]_(Promise!vars)
<1> SUFFICES ASSUME Inv, Inv', [Next]_vars PROVE [Promise!Next]_(Promise!vars)
  OBVIOUS
<1> USE DEF Promise!vars
<1>1. Body \in BOOLEAN /\ Body' \in BOOLEAN
  BY DEF Body
<1>2. Exists => row \in Row /\ row.state \in Leaf
  BY DEF Inv, OpInv, Types, ServerTypes, Exists, Row
<1>3. Stage = StageOf(row) /\ Stage' = StageOf(row')
  BY DEF Stage, StageOf, Exists
<1>4. PICK s : s = StageOf(row)
  OBVIOUS
<1>5. PICK z : z = StageOf(row')
  OBVIOUS
<1>6. Stage = s /\ Stage' = z
  BY <1>3, <1>4, <1>5
<1>7. ~Exists \/ row.state = "undone" => Body = FALSE
  BY <1>1, NoBody
<1>8. ~Exists' \/ row'.state = "undone" => Body' = FALSE
  BY <1>1 DEF Inv, Home, Body, Clean, Quiet
<1>9. /\ ~Exists => s = "absent"
      /\ Exists /\ row.state = "undone" => s = "failed"
      /\ s \in {"absent", "coming", "here", "failed", "leaving"}
      /\ s \in {"absent", "failed"} => ~Exists \/ row.state = "undone"
  BY <1>2, <1>4 DEF StageOf, Exists, Leaf, Making, Made, Standing, Stepping, Undoing, Deleting,
                    Starting, Stopping, Pausing, Resizing, JoinSent, JoinAsked
<1>10. CASE UNCHANGED row
  <2>1. z = s
    BY <1>4, <1>5, <1>10
  <2>2. CASE s \in {"absent", "failed"}
    <3>1. Body' = Body
      BY <1>7, <1>8, <1>9, <1>10, <2>2 DEF Exists
    <3> QED
      BY <1>6, <2>1, <3>1
  <2>3. CASE s \in {"coming", "here", "leaving"}
    BY <1>1, <1>6, <2>1, <2>3 DEF Promise!Next, Promise!Change
  <2> QED
    BY <1>9, <2>2, <2>3
<1>11. CASE ~UNCHANGED row
  <2>1. Body' = Body
    BY <1>11, RowOrHosts DEF hostVars, Body, Running, Held
  <2>2. CASE Create
    <3>1. s \in {"absent", "failed"} /\ Body = FALSE
      BY <1>7, <1>9, <2>2 DEF Create
    <3>2. row'.state = "making.due" /\ row' # Gone
      BY <2>2 DEF Create, Gone
    <3>3. z = "coming"
      BY <1>5, <3>2, Stages DEF Making
    <3> QED
      BY <1>6, <2>1, <3>1, <3>3 DEF Promise!Next, Promise!Create
  <2>3. CASE Expire
    <3>1. s = "failed" /\ Body = FALSE /\ row' = Gone
      BY <1>7, <1>9, <2>3 DEF Expire
    <3>2. z = "absent"
      BY <1>5, <3>1, Stages
    <3> QED
      BY <1>6, <2>1, <3>1, <3>2 DEF Promise!Next, Promise!Free
  <2>4. ASSUME Exists, NEW e \in Event, row' = Transition(row, e)
        PROVE  [Promise!Next]_(Promise!vars)
    <3>1. \/ s = "coming" /\ z \in {"coming", "here", "leaving"}
          \/ s = "coming" /\ z = "failed" /\ row'.state = "undone"
          \/ s = "here" /\ z \in {"here", "leaving"}
          \/ s = "failed" /\ (z = "failed" \/ (z = "absent" /\ row' = Gone))
          \/ s = "leaving" /\ (z = "leaving" \/ (z = "absent" /\ row' = Gone))
      BY <1>2, <1>4, <1>5, <2>4, StageSteps
    <3>2. (z = "failed" /\ row'.state = "undone") \/ (z = "absent" /\ row' = Gone) => Body = FALSE
      BY <1>8, <2>1 DEF Exists
    <3> QED
      BY <1>6, <2>1, <3>1, <3>2 DEF Promise!Next, Promise!Arrive, Promise!Fail, Promise!Leave, Promise!Free
  <2> QED
    BY <1>11, <2>2, <2>3, <2>4, RowSteps DEF Inv, OpInv
<1> QED
  BY <1>10, <1>11

\* The control plane and its hosts keep the promise of Lifecycle: a name is given
\* only when nothing of its last bearer is left, a failed create leaves nothing, and
\* a delete ends in nothing and is never undone.
THEOREM PromiseKept == Spec => KeepsPromise
<1>1. Init => Promise!Init
  <2> SUFFICES ASSUME Init PROVE Promise!Init
    OBVIOUS
  <2>1. ~Exists /\ \A h \in Host : vm[h] = NoVM /\ DOMAIN entry[h] = {}
    BY DEF Init, Exists
  <2> QED
    BY <2>1 DEF Promise!Init, Stage, Body
<1> QED
  BY <1>1, InvHolds, PromiseStep, PTL DEF Spec, KeepsPromise, Promise!Spec
--------------------------------------------------------------------------------
(* The VM itself: the inductive invariants. *)

Bounds == {"creates", "asks", "fails", "crashes", "reboots", "joins", "drifts"}

\* No VM changed by itself so far, as far as the bound tells.
Undrifted == left["drifts"] = MaxDrifts

\* No host restarted so far.
Unrestarted == left["reboots"] = MaxReboots

\* Every bound is there, and those two are never raised.
Budget == left \in [Bounds -> Int] /\ left["drifts"] <= MaxDrifts /\ left["reboots"] <= MaxReboots

\* While a step other than a remove is recorded, its host runs nothing else, and
\* will run nothing else that it was sent.
Alone ==
  op # NoOp /\ op.kind # "remove" =>
    /\ \A o \in sent : o.host = op.host => o = op \/ Spent(o)
    /\ \A id \in DOMAIN entry[op.host] : Running(op.host, id) => id = op.seq

\* There is one way to have no VM.
NoneIs == \A h \in Host : vm[h].is = "none" => vm[h] = NoVM

\* A made machine is no part of one.
Whole == Exists /\ row.state \in Made => vm[row.host].is # "partial"

\* A machine that is to run and is prepared is ready, and nothing is under way that
\* would change that.
Ready ==
  Exists /\ row.state \in Made /\ row.prepared /\ row.desired = "running" =>
    vm[row.host].is = "ready" /\ (op = NoOp \/ op.kind \in {"resize", "join"})

\* Only a machine that runs and is prepared joins unasked.
Joins == Exists /\ row.state = JoinSent => row.prepared /\ row.desired = "running"

\* What a loop saw of a machine at rest is so until it is written.
Saw == loop.at = "reading" /\ loop.saw # "unknown" /\ row.state \in Standing =>
         Seen(loop.host) = loop.saw

\* What a step that ended done left of its machine.
Leaves(kind) ==
  /\ kind = "make" => /\ vm[op.host].is # "partial"
                      /\ Source = "copy" => vm[op.host].is = "ready"
  /\ kind = "start" => vm[op.host].is = "ready"

Done ==
  /\ op # NoOp /\ Held(op.host, op.seq) /\ entry[op.host][op.seq].status = "done" => Leaves(op.kind)
  /\ loop.at = "heard" /\ loop.heard.status = "done" => Leaves(op.kind)

\* What is so of the machine while only steps change it.
Steady == NoneIs /\ Whole /\ Ready /\ Joins /\ Saw /\ Done /\ SettledTrue

SettledInv == Budget /\ Alone /\ (Undrifted => Steady)
--------------------------------------------------------------------------------
(* What a step does to a VM. *)

\* What a step whose work is done, or cut, may leave of a VM (smolvm.ts, tart.ts).
LEMMA EffectKeeps ==
  ASSUME NEW v \in VM, v.is = "none" => v = NoVM, NEW kind \in Kind, NEW to \in Nat, NEW w,
         w \in CutEffects(kind, to, v) \/ (CanDo(kind, v) /\ w = DoneEffect(kind, to, v))
  PROVE  /\ w.is = "none" => w = NoVM
         /\ kind \notin {"make", "remove"} /\ v.is # "partial" => w.is # "partial"
         /\ kind \in {"resize", "join"} /\ v.is = "ready" => w.is = "ready"
<1> DEFINE Goal == /\ w.is = "none" => w = NoVM
                   /\ kind \notin {"make", "remove"} /\ v.is # "partial" => w.is # "partial"
                   /\ kind \in {"resize", "join"} /\ v.is = "ready" => w.is = "ready"
<1>1. \A is \in {"up", "ready", "stopped", "paused", "partial"} :
        /\ [v EXCEPT !.is = is].is = is
        /\ [v EXCEPT !.size = to].is = v.is
  BY DEF VM
<1>2. [v EXCEPT !.is = IF v.is \in {"up", "ready"} THEN "paused" ELSE @].is
        = IF v.is \in {"up", "ready"} THEN "paused" ELSE v.is
  BY DEF VM
<1>3. CanDo(kind, v) /\ w = DoneEffect(kind, to, v) => Goal
  BY <1>1, <1>2 DEF CanDo, DoneEffect, NoVM, Kind, VM
<1>4. w \in CutEffects(kind, to, v) => Goal
  BY <1>1, <1>2, <1>3 DEF CanDo, CutEffects, DoneEffect, NoVM, Kind, VM
<1> QED
  BY <1>3, <1>4

\* Nothing raises the bounds of changes that no step made and of restarts.
LEMMA BudgetSteps ==
  ASSUME Budget, [Next]_vars
  PROVE  /\ Budget'
         /\ Undrifted' => Undrifted /\ left'["drifts"] = left["drifts"]
         /\ Unrestarted' => Unrestarted /\ left'["reboots"] = left["reboots"]
<1>1. MaxDrifts \in Nat /\ MaxReboots \in Nat
  BY ConstantsAssumption
<1>2. SUFFICES left' \in [Bounds -> Int] /\ left'["drifts"] <= left["drifts"] /\ left'["reboots"] <= left["reboots"]
  BY <1>1 DEF Budget, Undrifted, Unrestarted, Bounds
<1>3. ASSUME NEW what \in Bounds, Spend(what) PROVE <1>2!1
  BY <1>3 DEF Spend, Budget, Bounds
<1>4. \A what \in {"creates", "asks", "crashes", "joins", "fails", "drifts"} : what \in Bounds
  BY DEF Bounds
<1>5. CASE UNCHANGED left
  BY <1>5 DEF Budget, Bounds
<1>6. CASE Client
  BY <1>3, <1>4, <1>5, <1>6 DEF Client, Create, Delete, Expire, Ask, Resize
<1>7. CASE Turn
  <2>1. CASE Refuses \/ \E joins \in BOOLEAN : Looks(joins)
    BY <1>3, <1>4, <1>5, <2>1 DEF Refuses, Looks
  <2> QED
    BY <1>5, <1>7, <2>1 DEF Turn, LookBegins, Sees, SeesNothing, PollBegins, Waits, Sends, Runs,
                            GivesUp, Follows, Sizes, SizesNothing
<1>8. CASE Crash
  BY <1>3, <1>4, <1>8 DEF Crash
<1>9. ASSUME NEW h \in Host, HostStep(h) PROVE <1>2!1
  <2>1. CASE Reboot(h)
    <3>1. PICK stops \in BOOLEAN :
            left' = [left EXCEPT !.reboots = @ - 1, !.drifts = IF stops THEN @ - 1 ELSE @]
      BY <2>1 DEF Reboot
    <3>2. left["drifts"] \in Int /\ left["reboots"] \in Int
      BY DEF Budget, Bounds
    <3>3. PICK m, n : m = left["reboots"] - 1 /\ n = IF stops THEN left["drifts"] - 1 ELSE left["drifts"]
      OBVIOUS
    <3>4. m \in Int /\ n \in Int /\ n <= left["drifts"] /\ m <= left["reboots"]
      BY <3>2, <3>3
    <3>5. left' = [[left EXCEPT !["reboots"] = m] EXCEPT !["drifts"] = n]
      BY <3>1, <3>3
    <3>6. left' \in [Bounds -> Int] /\ left'["drifts"] = n /\ left'["reboots"] = m
      BY <3>4, <3>5 DEF Budget, Bounds
    <3> QED
      BY <3>4, <3>6
  <2>2. CASE Drifts(h)
    BY <1>3, <1>4, <2>2 DEF Drifts
  <2>3. ASSUME NEW id \in DOMAIN entry[h], WorkFails(h, id) PROVE <1>2!1
    BY <1>3, <1>4, <1>5, <2>3 DEF WorkFails
  <2> QED
    BY <1>5, <1>9, <2>1, <2>2, <2>3 DEF HostStep, RunsLate, Cancels, Collects, WorkBegins, WorkDone,
                                        WorkCancelled
<1>10. CASE UNCHANGED vars
  BY <1>5, <1>10 DEF vars
<1> QED
  BY <1>6, <1>7, <1>8, <1>9, <1>10 DEF Next

\* What a step of a host may leave of its VM, when no VM changes by itself: what it
\* was, or what one of its operations leaves.
Effects(h, id) ==
  CutEffects(entry[h][id].kind, entry[h][id].to, vm[h])
    \cup {w \in {DoneEffect(entry[h][id].kind, entry[h][id].to, vm[h])} :
            CanDo(entry[h][id].kind, vm[h])}

LEMMA VmSteps ==
  ASSUME Types, Budget, NEW h \in Host, HostStep(h), left'["drifts"] = left["drifts"]
  PROVE  /\ \A g \in Host \ {h} : vm'[g] = vm[g]
         /\ \/ vm'[h] = vm[h]
            \/ \E id \in DOMAIN entry[h] : Working(h, id) /\ vm'[h] \in Effects(h, id)
<1> DEFINE VmIs == /\ \A g \in Host \ {h} : vm'[g] = vm[g]
                   /\ \/ vm'[h] = vm[h]
                      \/ \E id \in DOMAIN entry[h] : Working(h, id) /\ vm'[h] \in Effects(h, id)
<1>1. vm \in [Host -> VM] /\ left \in [Bounds -> Int] /\ left["drifts"] \in Int /\ "drifts" \in Bounds
  BY DEF Types, HostTypes, Budget, Bounds
<1>2. ASSUME NEW v, vm' = [vm EXCEPT ![h] = v],
             v = vm[h] \/ \E id \in DOMAIN entry[h] : Working(h, id) /\ v \in Effects(h, id)
      PROVE  VmIs
  BY <1>1, <1>2
<1>3. CASE UNCHANGED vm
  BY <1>3
<1>4. ASSUME NEW id \in DOMAIN entry[h], WorkDone(h, id) PROVE VmIs
  <2>1. Working(h, id) /\ CanDo(entry[h][id].kind, vm[h])
        /\ vm' = [vm EXCEPT ![h] = DoneEffect(entry[h][id].kind, entry[h][id].to, vm[h])]
    BY <1>1, <1>4 DEF WorkDone
  <2>2. DoneEffect(entry[h][id].kind, entry[h][id].to, vm[h]) \in Effects(h, id)
    BY <2>1 DEF Effects
  <2> QED
    BY <1>2, <2>1, <2>2
<1>5. ASSUME NEW id \in DOMAIN entry[h], WorkFails(h, id), ~UNCHANGED vm PROVE VmIs
  <2>1. PICK v \in CutEffects(entry[h][id].kind, entry[h][id].to, vm[h]) : vm' = [vm EXCEPT ![h] = v]
    BY <1>5 DEF WorkFails
  <2>2. Working(h, id) /\ v \in Effects(h, id)
    BY <1>5 DEF WorkFails, Effects
  <2> QED
    BY <1>2, <2>1, <2>2
<1>6. ASSUME NEW id \in DOMAIN entry[h], WorkCancelled(h, id) PROVE VmIs
  <2>1. PICK v \in CutEffects(entry[h][id].kind, entry[h][id].to, vm[h]) : vm' = [vm EXCEPT ![h] = v]
    BY <1>6 DEF WorkCancelled
  <2>2. Working(h, id) /\ v \in Effects(h, id)
    BY <1>6 DEF WorkCancelled, Effects
  <2> QED
    BY <1>2, <2>1, <2>2
<1>7. CASE Reboot(h)
  <2>1. PICK v \in {vm[h]} \cup UNION {CutEffects(entry[h][id].kind, entry[h][id].to, vm[h]) :
                                      id \in {i \in DOMAIN entry[h] : Working(h, i)}},
             stops \in BOOLEAN :
          /\ vm' = [vm EXCEPT ![h] = IF stops THEN [v EXCEPT !.is = "stopped"] ELSE v]
          /\ left' = [left EXCEPT !.reboots = @ - 1, !.drifts = IF stops THEN @ - 1 ELSE @]
    BY <1>7 DEF Reboot
  <2>2. ~stops
    <3> SUFFICES ASSUME stops PROVE FALSE
      OBVIOUS
    <3>1. left' = [left EXCEPT !.reboots = @ - 1, !.drifts = @ - 1]
      BY <2>1
    <3>2. left'["drifts"] = left["drifts"] - 1
      BY <1>1, <3>1
    <3> QED
      BY <1>1, <3>2
  <2>3. vm' = [vm EXCEPT ![h] = v]
    BY <2>1, <2>2
  <2>4. v = vm[h] \/ \E id \in DOMAIN entry[h] : Working(h, id) /\ v \in Effects(h, id)
    BY DEF Effects
  <2> QED
    BY <1>2, <2>3, <2>4
<1>8. ~Drifts(h)
  BY <1>1 DEF Drifts, Spend
<1> QED
  BY <1>3, <1>4, <1>5, <1>6, <1>7, <1>8 DEF HostStep, RunsLate, Accept, Cancels, Collects, WorkBegins

\* What runs on a host after one of its steps did before, or could still be taken.
LEMMA RunningGrows ==
  ASSUME Types, NEW h \in Host,
         HostStep(h) \/ \E o \in sent : o.host = h /\ Takes(o) /\ Accept(o),
         NEW g \in Host, NEW id, Running(g, id)'
  PROVE  Running(g, id) \/ \E o \in sent : o.host = g /\ o.seq = id /\ ~Spent(o)
<1>1. DOMAIN entry = Host /\ \A k \in Host : \A i \in DOMAIN entry[k] : entry[k][i] \in Entry
  BY DEF Types, HostTypes, EntryTypes
<1>2. id \in DOMAIN entry'[g] /\ entry'[g][id].status = "running"
  BY DEF Running, Held
<1>3. CASE UNCHANGED entry
  BY <1>3 DEF Running, Held
<1>4. ASSUME NEW i \in DOMAIN entry[h], Cancels(h, i) PROVE Running(g, id)
  <2>1. CASE g = h /\ id = i
    BY <1>4, <2>1 DEF Cancels
  <2>2. CASE ~(g = h /\ id = i)
    <3>1. id \in DOMAIN entry[g] /\ entry'[g][id] = entry[g][id]
      BY <1>1, <1>2, <1>4, <2>2 DEF Cancels
    <3> QED
      BY <1>2, <3>1 DEF Running, Held
  <2> QED
    BY <2>1, <2>2
<1>5. ASSUME NEW i \in DOMAIN entry[h], Collects(h, i) PROVE Running(g, id)
  <2>1. id \in DOMAIN entry[g] /\ entry'[g][id] = entry[g][id]
    BY <1>1, <1>2, <1>5 DEF Collects
  <2> QED
    BY <1>2, <2>1 DEF Running, Held
<1>6. ASSUME NEW i \in DOMAIN entry[h], WorkBegins(h, i) PROVE Running(g, id)
  <2>1. CASE g = h /\ id = i
    BY <1>6, <2>1 DEF WorkBegins
  <2>2. CASE ~(g = h /\ id = i)
    <3>1. id \in DOMAIN entry[g] /\ entry'[g][id] = entry[g][id]
      BY <1>1, <1>2, <1>6, <2>2 DEF WorkBegins
    <3> QED
      BY <1>2, <3>1 DEF Running, Held
  <2> QED
    BY <2>1, <2>2
<1>7. ASSUME NEW i \in DOMAIN entry[h], NEW status, NEW error, NEW size, Working(h, i),
             End(h, i, status, error, size)
      PROVE  Running(g, id)
  <2>1. CASE g = h /\ id = i
    BY <1>7, <2>1 DEF Working
  <2>2. CASE ~(g = h /\ id = i)
    <3>1. id \in DOMAIN entry[g] /\ entry'[g][id] = entry[g][id]
      BY <1>1, <1>2, <1>7, <2>2 DEF End
    <3> QED
      BY <1>2, <3>1 DEF Running, Held
  <2> QED
    BY <2>1, <2>2
<1>8. ASSUME NEW o \in sent, o.host = h, Takes(o), Accept(o)
      PROVE  Running(g, id) \/ \E p \in sent : p.host = g /\ p.seq = id /\ ~Spent(p)
  <2>1. ~Spent(o)
    BY <1>8 DEF Takes, Spent, Types, HostTypes, NetTypes, Operation
  <2>2. CASE g = h /\ id = o.seq
    BY <1>8, <2>1, <2>2
  <2>3. CASE g # h
    <3>1. entry'[g] = entry[g]
      BY <1>1, <1>8, <2>3 DEF Accept
    <3> QED
      BY <3>1 DEF Running, Held
  <2>4. CASE g = h /\ id # o.seq
    <3>1. /\ id \in DOMAIN entry[h]
          /\ entry'[h][id] = entry[h][id] \/ entry'[h][id] = [entry[h][id] EXCEPT !.cut = TRUE]
      BY <1>1, <1>2, <1>8, <2>4 DEF Accept
    <3>2. entry'[h][id].status = entry[h][id].status
      BY <1>1, <3>1, EntryExcept
    <3> QED
      BY <1>2, <2>4, <3>1, <3>2 DEF Running, Held
  <2> QED
    BY <2>2, <2>3, <2>4
<1>9. ~Reboot(h) \/ g # h
  <2> SUFFICES ASSUME Reboot(h), g = h PROVE FALSE
    OBVIOUS
  <2>1. entry'[h] = <<>>
    BY <1>1 DEF Reboot
  <2> QED
    BY <1>2, <2>1
<1>10. CASE Reboot(h)
  <2>1. entry'[g] = entry[g]
    BY <1>1, <1>9, <1>10 DEF Reboot
  <2> QED
    BY <2>1 DEF Running, Held
<1>11. CASE Drifts(h)
  BY <1>3, <1>11 DEF Drifts
<1>12. ASSUME NEW i \in DOMAIN entry[h], WorkDone(h, i) \/ WorkFails(h, i) \/ WorkCancelled(h, i)
       PROVE  Running(g, id)
  BY <1>7, <1>12 DEF WorkDone, WorkFails, WorkCancelled
<1> QED
  BY <1>4, <1>5, <1>6, <1>8, <1>10, <1>11, <1>12 DEF HostStep, RunsLate

\* A host's step leaves the row's operation alone on its host.
LEMMA HostAlone ==
  ASSUME Inv, Alone, Keeps, UNCHANGED <<op, sent>>,
         \A g \in Host : \A id : Running(g, id)' =>
           Running(g, id) \/ \E o \in sent : o.host = g /\ o.seq = id /\ ~Spent(o)
  PROVE  Alone'
<1> SUFFICES ASSUME op # NoOp, op.kind # "remove"
             PROVE  /\ \A o \in sent : o.host = op.host => o = op \/ Spent(o)'
                    /\ \A id \in DOMAIN entry'[op.host] : Running(op.host, id)' => id = op.seq
  BY DEF Alone, Running, Held
<1>1. op.host \in Host
  BY OpFields DEF Inv, OpInv
<1>2. \A o \in sent : o.host = op.host => o = op \/ Spent(o)
  BY DEF Alone
<1>3. \A id : Running(op.host, id) => id = op.seq
  BY DEF Alone, Running, Held
<1> QED
  BY <1>1, <1>2, <1>3 DEF Keeps

\* The VM of a made machine changes only by the work of its row's own step.
LEMMA VmSteady ==
  ASSUME Inv, Alone, NoneIs,
         \A g \in Host : vm'[g] = vm[g] \/ \E id \in DOMAIN entry[g] : Working(g, id) /\ vm'[g] \in Effects(g, id)
  PROVE  /\ \A g \in Host : vm'[g].is = "none" => vm'[g] = NoVM
         /\ \A g \in Host : Quiet(g) => vm'[g] = vm[g]
         /\ Exists /\ row.state \in Made /\ vm'[row.host] # vm[row.host] =>
              /\ op # NoOp /\ op.kind = StepOf(row.state)
              /\ vm[row.host].is # "partial" => vm'[row.host].is # "partial"
              /\ op.kind \in {"resize", "join"} /\ vm[row.host].is = "ready" => vm'[row.host].is = "ready"
<1> USE DEF Inv
<1>1. \A g \in Host : vm[g] \in VM /\ (vm[g].is = "none" => vm[g] = NoVM)
  BY DEF OpInv, Types, HostTypes, NoneIs
<1>2. \A g \in Host : \A id \in DOMAIN entry[g] : entry[g][id].kind \in Kind /\ entry[g][id].to \in Nat
  BY DEF OpInv, Types, HostTypes, EntryTypes, Entry
<1>3. ASSUME NEW g \in Host, NEW id \in DOMAIN entry[g], vm'[g] \in Effects(g, id)
      PROVE  /\ vm'[g].is = "none" => vm'[g] = NoVM
             /\ entry[g][id].kind \notin {"make", "remove"} /\ vm[g].is # "partial" => vm'[g].is # "partial"
             /\ entry[g][id].kind \in {"resize", "join"} /\ vm[g].is = "ready" => vm'[g].is = "ready"
  BY <1>1, <1>2, <1>3, EffectKeeps DEF Effects
<1>4. \A g \in Host : vm'[g].is = "none" => vm'[g] = NoVM
  BY <1>1, <1>3
<1>5. \A g \in Host : Quiet(g) => vm'[g] = vm[g]
  BY DEF Quiet, Working
<1>6. ASSUME Exists, row.state \in Made, vm'[row.host] # vm[row.host]
      PROVE  /\ op # NoOp /\ op.kind = StepOf(row.state)
             /\ vm[row.host].is # "partial" => vm'[row.host].is # "partial"
             /\ op.kind \in {"resize", "join"} /\ vm[row.host].is = "ready" => vm'[row.host].is = "ready"
  <2>1. row.host \in Host
    BY <1>6 DEF OpInv, Types, ServerTypes, Exists, Row
  <2>2. PICK id \in DOMAIN entry[row.host] : Working(row.host, id) /\ vm'[row.host] \in Effects(row.host, id)
    BY <1>6, <2>1
  <2>3. ~Quiet(row.host)
    BY <2>2 DEF Quiet, Working
  <2>4. op # NoOp
    BY <1>6, <2>3 DEF Rest, Made, Standing, Stepping, Starting, Stopping, Pausing, Resizing, JoinSent, JoinAsked
  <2>5. op.host = row.host /\ op.kind = StepOf(row.state) /\ op.kind \notin {"make", "remove"}
    BY <1>6, <2>4 DEF OpInv, OpIsStep, StepOf, None, Made, Standing, Stepping, Starting, Stopping, Pausing,
                      Resizing, JoinSent, JoinAsked
  <2>6. id = op.seq
    BY <2>2, <2>4, <2>5 DEF Alone, Working
  <2>7. entry[row.host][id].kind = op.kind
    BY <2>4, <2>5, <2>6, OwnEntry DEF OpInv, Held
  <2> QED
    BY <1>3, <2>1, <2>2, <2>4, <2>5, <2>7
<1> QED
  BY <1>4, <1>5, <1>6

\* While no VM changes by itself, what is so of the machine stays so at its host.
LEMMA HostSteady ==
  ASSUME Inv, Alone, Steady, UNCHANGED <<row, op>>,
         loop' = loop \/ loop' = [at |-> "idle"],
         \A g \in Host : \A i \in DOMAIN entry'[g] : EndsDone(g, i),
         \A g \in Host : vm'[g] = vm[g] \/ \E id \in DOMAIN entry[g] : Working(g, id) /\ vm'[g] \in Effects(g, id)
  PROVE  Steady'
<1> USE DEF Inv
<1>1. /\ \A g \in Host : vm'[g].is = "none" => vm'[g] = NoVM
      /\ \A g \in Host : Quiet(g) => vm'[g] = vm[g]
  BY VmSteady DEF Steady
<1>2. Exists /\ row.state \in Made /\ vm'[row.host] # vm[row.host] =>
              /\ op # NoOp /\ op.kind = StepOf(row.state)
              /\ vm[row.host].is # "partial" => vm'[row.host].is # "partial"
              /\ op.kind \in {"resize", "join"} /\ vm[row.host].is = "ready" => vm'[row.host].is = "ready"
  BY VmSteady DEF Steady
<1>3. NoneIs'
  BY <1>1 DEF NoneIs
<1>4. Whole'
  BY <1>2 DEF Steady, Whole, Exists
<1>5. Ready'
  BY <1>2 DEF Steady, Ready, Exists
<1>6. Joins'
  BY DEF Steady, Joins, Exists
<1>7. SettledTrue'
  <2>1. Exists /\ row.state \in {"made.settled", "made.lost"} => vm'[row.host] = vm[row.host]
    BY <1>2 DEF OpInv, OpIsStep, StepOf, None, Made, Standing, Starting, Stopping, Pausing, Resizing,
                JoinSent, JoinAsked
  <2> QED
    BY <2>1 DEF Steady, SettledTrue, Matches, Exists
<1>8. Saw'
  <2> SUFFICES ASSUME loop' = loop, loop.at = "reading", loop.saw # "unknown", row.state \in Standing
               PROVE  Seen(loop.host)' = loop.saw
    BY DEF Saw
  <2>1. Exists /\ row.host = loop.host /\ op = NoOp /\ loop.host \in Host
    BY LoopTypes DEF Look, OpInv, Types
  <2>2. Quiet(loop.host)
    BY <2>1 DEF Rest, Standing
  <2>3. vm'[loop.host] = vm[loop.host]
    BY <1>1, <2>1, <2>2
  <2> QED
    BY <2>3 DEF Steady, Saw, Seen
<1>9. Done'
  <2>1. ASSUME op # NoOp, Leaves(op.kind), Quiet(op.host) PROVE Leaves(op.kind)'
    <3>1. vm'[op.host] = vm[op.host]
      BY <1>1, <2>1, OpFields DEF OpInv
    <3> QED
      BY <2>1, <3>1 DEF Leaves
  <2>2. ASSUME op # NoOp, Held(op.host, op.seq)', entry'[op.host][op.seq].status = "done"
        PROVE  Leaves(op.kind)'
    <3>1. op.host \in Host /\ EndsDone(op.host, op.seq)
      BY <2>2, OpFields DEF OpInv, Held
    <3>2. op.seq \in DOMAIN entry[op.host] /\ entry[op.host][op.seq].kind = op.kind
      BY <2>2, <3>1, OwnEntry DEF OpInv, EndsDone, Held
    <3>3. CASE entry[op.host][op.seq].status = "done"
      <4>1. Quiet(op.host)
        BY <2>2, <3>2, <3>3, EndedQuiet DEF OpInv, Held, Running
      <4> QED
        BY <2>1, <2>2, <3>2, <3>3, <4>1 DEF Steady, Done, Held
    <3>4. CASE entry[op.host][op.seq].status # "done"
      <4>1. PICK v : v = vm[op.host]
        OBVIOUS
      <4>2. v \in VM /\ vm'[op.host] = DoneEffect(op.kind, entry[op.host][op.seq].to, v)
        BY <2>2, <3>1, <3>2, <3>4, <4>1 DEF EndsDone, OpInv, Types, HostTypes
      <4>3. [v EXCEPT !.is = "ready"].is = "ready"
        BY <4>2 DEF VM
      <4> QED
        BY <4>2, <4>3 DEF Leaves, DoneEffect
    <3> QED
      BY <3>3, <3>4
  <2>3. ASSUME loop.at = "heard", loop.heard.status = "done" PROVE Leaves(op.kind)'
    <3>1. loop.heard # Lost
      BY <2>3 DEF Lost
    <3>2. op # NoOp /\ Quiet(op.host) /\ Leaves(op.kind)
      BY <2>3, <3>1 DEF OpInv, LoopHasOp, HeardTrue, Steady, Done
    <3> QED
      BY <2>1, <3>2
  <2> QED
    BY <2>2, <2>3 DEF Done, Leaves
<1> QED
  BY <1>3, <1>4, <1>5, <1>6, <1>7, <1>8, <1>9 DEF Steady

--------------------------------------------------------------------------------
(* The chart, by what its events say of the VM. *)

\* A request makes no row prepared, joining, settled or lost that was not, and
\* settles it as nothing else.
LEMMA RequestSettles ==
  ASSUME NEW r \in Row, NEW e \in Event, e.type \in {"ask", "resize", "sized", "delete", "refused"},
         NEW t, t = Transition(r, e), t # Gone
  PROVE  /\ t.host = r.host
         /\ t.state \in Made => r.state \in Made
         /\ t.state \in Standing => r.state \in Standing
         /\ t.state \in Made /\ t.prepared /\ t.desired = "running" => r.prepared /\ r.desired = "running"
         /\ t.state \in {JoinSent, "made.settled", "made.lost"} =>
              t.state = r.state /\ t.desired = r.desired /\ t.prepared = r.prepared
<1> USE DEF Made, Making, Standing, Stepping, Starting, Stopping, Pausing, Resizing, JoinSent, JoinAsked, Row
<1>1. CASE e.type = "ask"
  <2>1. PICK q \in Row : /\ q = Asked(r, e) /\ q.state = r.state /\ q.host = r.host
                         /\ q.prepared /\ q.desired = "running" => r.prepared /\ r.desired = "running"
    <3>1. Asked(r, e) \in Row
      BY <1>1 DEF Asked, Event, Wish, Errors
    <3> QED
      BY <1>1, <3>1 DEF Asked
  <2>2. t = CASE r.state \in Making -> q
              [] r.state \in Standing -> [q EXCEPT !.state = "made.observing"]
              [] r.state = JoinSent -> [q EXCEPT !.state = JoinAsked]
              [] r.state \in Stepping \ {JoinSent} -> q
              [] OTHER -> r
    BY <1>1, <2>1 DEF Transition, OnAsk, Goto
  <2>3. CASE r.state \in Standing
    BY <2>1, <2>2, <2>3
  <2>4. CASE r.state \in Making
    BY <2>1, <2>2, <2>4
  <2>5. CASE r.state \in Stepping
    BY <2>1, <2>2, <2>5
  <2> QED
    BY <2>2, <2>3, <2>4, <2>5
<1>2. CASE e.type = "resize"
  BY <1>2 DEF Transition, OnResize, Owed, Goto
<1>3. CASE e.type = "delete"
  BY <1>3 DEF Transition, OnDelete, EnterDeleting
<1>4. CASE e.type = "refused"
  BY <1>4 DEF Transition, OnRefused
<1>5. CASE e.type = "sized"
  BY <1>5 DEF Transition
<1> QED
  BY <1>1, <1>2, <1>3, <1>4, <1>5

\* A read settles or loses a machine only as it saw it, and starts, stops or pauses
\* none that is prepared and runs as it is to.
LEMMA ReadSettles ==
  ASSUME NEW r \in Row, NEW e \in Event, e.type = "read", NEW t, t = Transition(r, e),
         StepOf(r.state) = None
  PROVE  /\ t.host = r.host /\ t.desired = r.desired /\ t.prepared = r.prepared
         /\ r.state \in Due \cup {"undoing.held", "deleting.held"} => StepOf(t.state) = "remove"
         /\ t.state \in Made => r.state \in Standing
         /\ t.state = JoinSent => r.prepared /\ r.desired = "running"
         /\ t.state = "made.settled" => \/ r.state = "made.settled"
                                        \/ r.desired = "running" /\ r.prepared /\ e.seen = "running"
                                        \/ r.desired = "stopped" /\ e.seen = "stopped"
                                        \/ r.desired = "paused" /\ e.seen \in {"paused", "stopped"}
         /\ t.state = "made.lost" => r.state = "made.lost" \/ e.seen = "missing"
         /\ r.prepared /\ r.desired = "running" /\ e.seen \in {"running", "unknown"} /\ t.state \in Made =>
              StepOf(t.state) \in {None, "resize", "join"}
<1> USE DEF Made, Standing, Stepping, Starting, Stopping, Pausing, Resizing, JoinSent, JoinAsked, Row
<1>1. t = OnRead(r, e)
  BY DEF Transition
<1>2. CASE r.state \in {"made.observing", "made.settled", "made.lost"}
  <2>1. t = Decided(r, e)
    BY <1>1, <1>2 DEF OnRead
  <2>2. t.host = r.host /\ t.desired = r.desired /\ t.prepared = r.prepared
    BY <2>1 DEF Decided, Goto
  <2>3. e.seen \in {"running", "stopped", "paused", "missing", "unknown"}
    BY DEF Event, Seens
  <2>4. CASE e.seen = "unknown"
    BY <1>2, <2>1, <2>4 DEF Decided, StepOf, None, Due
  <2>5. CASE e.seen = "missing"
    BY <1>2, <2>1, <2>2, <2>5 DEF Decided, Goto, StepOf, None, Due
  <2>6. CASE e.seen \notin {"unknown", "missing"} /\ r.resize # NoSize
    <3>1. t.state = Resizing
      BY <2>1, <2>6 DEF Decided
    <3> QED
      BY <1>2, <2>2, <2>6, <3>1 DEF StepOf, None, Due
  <2>7. CASE e.seen \notin {"unknown", "missing"} /\ r.resize = NoSize
    BY <1>2, <2>1, <2>2, <2>3, <2>7 DEF Decided, Goto, StepOf, None, Due
  <2> QED
    BY <2>4, <2>5, <2>6, <2>7
<1>3. CASE r.state \notin {"made.observing", "made.settled", "made.lost"}
  BY <1>1, <1>3 DEF OnRead, Goto, StepOf, None, Due, Leaf
<1> QED
  BY <1>2, <1>3

\* The end of a step settles nothing but a join, and prepares only what it made or
\* started.
LEMMA EndSettles ==
  ASSUME NEW r \in Row, NEW e \in Event, e.type \in {"reported", "lost"},
         StepOf(r.state) # None, NEW t, t = Transition(r, e), t # Gone, t.state \in Made
  PROVE  /\ t.host = r.host /\ t.desired = r.desired /\ r.state \in {"making.sent"} \cup Stepping
         /\ t.state \notin {JoinSent, "made.lost"}
         /\ t.state = "made.settled" => r.state = JoinSent /\ t.prepared = r.prepared
         /\ r.state = "making.sent" => e.type = "reported" /\ e.status = "done" /\ t.prepared = e.prepared
         /\ t.prepared => \/ r.prepared /\ r.state \in Stepping
                          \/ r.state = Starting /\ e.type = "reported" /\ e.status = "done"
                          \/ r.state = "making.sent"
<1> USE DEF Made, Standing, Stepping, Starting, Stopping, Pausing, Resizing, JoinSent, JoinAsked, Row
<1>1. CASE e.type = "lost"
  BY <1>1 DEF Transition, OnLost, Goto, StepOf, None
<1>2. CASE e.type = "reported"
  <2>1. Told(r, e) \in Row /\ \A f \in {"state", "host", "desired", "prepared"} : Told(r, e)[f] = r[f]
    BY <1>2 DEF Told, NoSize, Event
  <2>2. PICK m \in Row : /\ m = Told(r, e) /\ m.state = r.state /\ m.host = r.host
                         /\ m.desired = r.desired /\ m.prepared = r.prepared
    BY <2>1
  <2>3. \A p \in BOOLEAN :
          /\ Ended(r, e, p).state \in {"made.failed", "made.observing"}
          /\ Ended(r, e, p).host = r.host /\ Ended(r, e, p).desired = r.desired
          /\ Ended(r, e, p).prepared \in {p, r.prepared}
          /\ e.status # "done" => Ended(r, e, p).prepared = r.prepared
    BY <2>2 DEF Ended
  <2>4. CASE r.state \in {Starting, Stopping, Pausing}
    <3>1. t = Ended(r, e, r.state = Starting)
      BY <1>2, <2>4 DEF Transition, OnReported
    <3> QED
      BY <1>2, <2>3, <2>4, <3>1
  <2>5. CASE r.state \in {"undoing.sent", "deleting.sent"}
    <3>1. e.status \in {"done", "failed", "cancelled"}
      BY <1>2 DEF Event
    <3>2. r.state = "undoing.sent" => Undone(r, e).state \in {"undoing.held", "undoing.due", "undone", "making.due"}
      BY <3>1 DEF Undone, Goto
    <3>3. r.state = "deleting.sent" => Deleted(r, e) = Gone \/ Deleted(r, e).state \in {"deleting.held", "deleting.due"}
      BY DEF Deleted, Goto
    <3>4. r.state = "undoing.sent" => t = Undone(r, e)
      BY <1>2 DEF Transition, OnReported
    <3>5. r.state = "deleting.sent" => t = Deleted(r, e)
      BY <1>2 DEF Transition, OnReported
    <3> QED
      BY <2>5, <3>2, <3>3, <3>4, <3>5
  <2>6. CASE r.state \notin {Starting, Stopping, Pausing, "undoing.sent", "deleting.sent"}
    <3>1. CASE r.state = "making.sent"
      <4>1. t = IF e.status = "done" THEN [m EXCEPT !.state = "made.observing", !.prepared = e.prepared]
                ELSE [m EXCEPT !.state = "undoing.due", !.error = e.error]
        BY <1>2, <2>2, <3>1 DEF Transition, OnReported
      <4> QED
        BY <1>2, <2>2, <3>1, <4>1
    <3>2. CASE r.state = Resizing
      <4>1. t = IF e.status = "failed" THEN [m EXCEPT !.state = "made.failed", !.error = e.error]
                ELSE [m EXCEPT !.state = "made.observing"]
        BY <1>2, <2>2, <3>2 DEF Transition, OnReported, Goto
      <4> QED
        BY <1>2, <2>2, <3>2, <4>1
    <3>3. CASE r.state \in {JoinSent, JoinAsked}
      BY <1>2, <2>6, <3>3 DEF Transition, OnReported, Goto
    <3>4. CASE r.state = "deleting.draining"
      <4>1. t = [m EXCEPT !.state = "deleting.due"]
        BY <1>2, <2>2, <3>4 DEF Transition, OnReported, Goto
      <4> QED
        BY <2>2, <4>1
    <3> QED
      BY <2>6, <3>1, <3>2, <3>3, <3>4 DEF StepOf, None
  <2> QED
    BY <2>4, <2>5, <2>6
<1> QED
  BY <1>1, <1>2

--------------------------------------------------------------------------------
(* Steps of the control plane. *)

\* A request, with no operation begun or ended, keeps what is so of the machine.
LEMMA RequestSteady ==
  ASSUME OpInv, Steady, UNCHANGED <<hostVars, op>>,
         loop' = loop \/ loop' = [at |-> "idle"],
         \/ row' = row
         \/ Exists /\ \E e \in Event : /\ e.type \in {"ask", "resize", "sized", "delete", "refused"}
                                       /\ row' = Transition(row, e)
  PROVE  Steady'
<1> USE DEF hostVars
<1>1. Exists' => /\ Exists /\ row'.host = row.host
                 /\ row'.state \in Made => row.state \in Made
                 /\ row'.state \in Standing => row.state \in Standing
                 /\ row'.state \in Made /\ row'.prepared /\ row'.desired = "running" =>
                      row.prepared /\ row.desired = "running"
                 /\ row'.state \in {JoinSent, "made.settled", "made.lost"} =>
                      /\ row'.state = row.state
                      /\ row'.desired = row.desired /\ row'.prepared = row.prepared
  <2>1. CASE row' = row
    BY <2>1 DEF Exists
  <2>2. CASE row' # row
    <3>1. row \in Row /\ Exists
      BY <2>2 DEF OpInv, Types, ServerTypes, Exists
    <3> QED
      BY <2>2, <3>1, RequestSettles DEF Exists
  <2> QED
    BY <2>1, <2>2
<1>2. ~Exists' => row'.state \notin Standing
  BY DEF Exists, Gone, Standing
<1>3. NoneIs' /\ Done'
  BY DEF Steady, NoneIs, Done, Held, Leaves
<1>4. Whole' /\ Ready'
  BY <1>1 DEF Steady, Whole, Ready
<1>5. Joins'
  BY <1>1 DEF Steady, Joins
<1>6. Saw'
  BY <1>1, <1>2 DEF Steady, Saw, Seen
<1>7. SettledTrue'
  BY <1>1 DEF Steady, SettledTrue, Matches
<1> QED
  BY <1>3, <1>4, <1>5, <1>6, <1>7 DEF Steady

\* A turn that writes nothing keeps it, with what it saw and heard being so.
LEMMA TurnSteady ==
  ASSUME Steady, UNCHANGED <<hostVars, row, op>>,
         loop'.at # "reading" \/ loop'.saw = "unknown" \/ loop'.saw = Seen(loop'.host),
         loop'.at = "heard" /\ loop'.heard.status = "done" => Leaves(op.kind)
  PROVE  Steady'
<1> USE DEF hostVars
<1>1. NoneIs' /\ Whole' /\ Ready' /\ Joins' /\ SettledTrue'
  BY DEF Steady, NoneIs, Whole, Ready, Joins, SettledTrue, Matches, Exists
<1>2. Saw'
  BY DEF Saw, Seen
<1>3. Done'
  BY DEF Steady, Done, Held, Leaves
<1> QED
  BY <1>1, <1>2, <1>3 DEF Steady

\* A request or a turn that begins and sends nothing leaves the operation alone.
LEMMA SameAlone ==
  ASSUME Alone, UNCHANGED <<hostVars, op, sent>> PROVE Alone'
BY HostsSame DEF Alone, Running, Held, Spent, hostVars

\* Whatever a client asks, a restart deletes, or a loop is refused or told of sizes.
LEMMA AskSettled ==
  ASSUME Inv, OpInv', Alone, Client \/ Crash \/ Refuses \/ Sizes
  PROVE  Alone' /\ (Steady => Steady')
<1> USE DEF Inv
<1>1. UNCHANGED <<hostVars, sent>>
  BY DEF Client, Create, Delete, Expire, Ask, Resize, Crash, Refuses, Sizes, netVars
<1>2. ASSUME Exists, NEW e \in Event, e.type \in {"ask", "resize", "sized", "delete", "refused"},
             Advance(e, 0), loop' = loop \/ loop' = [at |-> "idle"]
      PROVE  Alone' /\ (Steady => Steady')
  <2>1. op' = op /\ (row' = row \/ row' = Transition(row, e))
    BY <1>2, RequestAdvance
  <2> QED
    BY <1>1, <1>2, <2>1, SameAlone, RequestSteady
<1>3. CASE UNCHANGED <<row, op>> /\ (loop' = loop \/ loop' = [at |-> "idle"])
  BY <1>1, <1>3, SameAlone, RequestSteady
<1>4. CASE Create
  <2>1. op' = op /\ loop' = loop /\ row'.state = "making.due" /\ Exists'
        /\ loop.at \notin {"seeing", "reading"}
    BY <1>4 DEF Create, Look, Exists, Gone
  <2>2. op = NoOp
    BY <1>4 DEF Create, OpInv, OpIsStep, StepOf, Starting, Stopping, Pausing, Resizing, JoinSent, JoinAsked
  <2>3. loop.at # "heard"
    BY <2>2 DEF OpInv, LoopHasOp
  <2>4. Whole' /\ Ready' /\ Joins' /\ Saw' /\ SettledTrue'
    BY <2>1 DEF Whole, Ready, Joins, Saw, SettledTrue, Made, Standing, Stepping, Starting, Stopping,
                Pausing, Resizing, JoinSent, JoinAsked
  <2>5. Steady => NoneIs' /\ Done'
    BY <1>1, <2>1, <2>2, <2>3 DEF Steady, NoneIs, Done, hostVars
  <2> QED
    BY <1>1, <2>1, <2>4, <2>5, SameAlone DEF Steady
<1>5. CASE Expire
  <2>1. op' = op /\ loop' = loop /\ Exists /\ row.state = "undone"
        /\ row' = Transition(row, [type |-> "delete"])
    BY <1>5 DEF Expire, Transition, OnDelete, Making, Standing, Stepping, Starting, Stopping, Pausing,
                Resizing, JoinSent, JoinAsked
  <2>2. [type |-> "delete"] \in Event
    BY DEF Event
  <2> QED
    BY <1>1, <2>1, <2>2, SameAlone, RequestSteady
<1>6. CASE Delete
  <2>1. [type |-> "delete"] \in Event
    BY DEF Event
  <2> QED
    BY <1>2, <1>6, <2>1 DEF Delete
<1>7. ASSUME NEW wish \in Wish, Ask(wish) PROVE Alone' /\ (Steady => Steady')
  <2>1. [type |-> "ask", desired |-> wish] \in Event
    BY DEF Event
  <2> QED
    BY <1>2, <1>7, <2>1 DEF Ask
<1>8. ASSUME NEW to \in Sizings, Resize(to) PROVE Alone' /\ (Steady => Steady')
  <2>1. [type |-> "resize", sizing |-> to] \in Event
    BY ConstantsAssumption DEF Event
  <2> QED
    BY <1>2, <1>8, <2>1 DEF Resize
<1>9. CASE Crash
  <2>1. [type |-> "delete"] \in Event
    BY DEF Event
  <2> QED
    BY <1>2, <1>3, <1>9, <2>1 DEF Crash
<1>10. CASE Refuses
  <2>1. [type |-> "refused"] \in Event
    BY DEF Event
  <2> QED
    BY <1>2, <1>3, <1>10, <2>1 DEF Refuses
<1>11. CASE Sizes
  <2>1. loop.host \in Host
    BY <1>11, LoopTypes DEF Sizes, OpInv, Types
  <2>2. [type |-> "sized", sizing |-> vm[loop.host].size] \in Event
    BY <2>1 DEF OpInv, Types, Event, HostTypes, VM
  <2> QED
    BY <1>2, <1>3, <1>11, <2>2 DEF Sizes
<1> QED
  BY <1>4, <1>5, <1>6, <1>7, <1>8, <1>9, <1>10, <1>11 DEF Client, Wish

\* A turn that only reads, or stops waiting.
LEMMA PollSettled ==
  ASSUME Inv, Alone, LookBegins \/ Sees \/ SeesNothing \/ GivesUp \/ SizesNothing \/ PollBegins \/ Waits
  PROVE  Alone' /\ (Steady => Steady')
<1> USE DEF Inv
<1>1. UNCHANGED <<hostVars, sent, row, op>>
  BY DEF LookBegins, Sees, SeesNothing, GivesUp, SizesNothing, PollBegins, Waits, netVars
<1>2. loop'.at # "reading" \/ loop'.saw = "unknown" \/ loop'.saw = Seen(loop'.host)
  <2>1. CASE Waits
    BY <2>1 DEF Waits, Heard
  <2> QED
    BY <2>1 DEF LookBegins, Sees, SeesNothing, GivesUp, SizesNothing, PollBegins
<1>3. Steady /\ loop'.at = "heard" /\ loop'.heard.status = "done" => Leaves(op.kind)
  <2> SUFFICES ASSUME Steady, loop'.at = "heard", loop'.heard.status = "done" PROVE Leaves(op.kind)
    OBVIOUS
  <2>1. Waits /\ loop.op = op /\ op # NoOp
    BY DEF LookBegins, Sees, SeesNothing, GivesUp, SizesNothing, PollBegins, Waits, OpInv, LoopHasOp
  <2>2. Lost.status # "done"
    BY DEF Lost
  <2>3. Held(op.host, op.seq) /\ entry[op.host][op.seq].status = "done"
    BY <2>1, <2>2 DEF Waits, Heard
  <2> QED
    BY <2>1, <2>3 DEF Steady, Done
<1> QED
  BY <1>1, <1>2, <1>3, SameAlone, TurnSteady

\* The step that is sent is the row's own.
LEMMA SendsSettled ==
  ASSUME Inv, Alone, Sends PROVE Alone' /\ (Steady => Steady')
<1> USE DEF Inv
<1>1. /\ UNCHANGED <<hostVars, row, op>> /\ sent' = sent \cup {op} /\ loop'.at = "sending"
  <2>1. loop.op = op /\ loop'.at = "sending"
    BY DEF Sends, OpInv, LoopHasOp, Types, Loop
  <2> QED
    BY <2>1 DEF Sends
<1>2. Alone'
  BY <1>1 DEF Alone, Running, Held, Spent, hostVars
<1>3. Steady => Steady'
  BY <1>1, TurnSteady
<1> QED
  BY <1>2, <1>3

\* A host that takes the step runs nothing else; one that does not says that it is lost.
LEMMA RunsSettled ==
  ASSUME Inv, Alone, Runs PROVE Alone' /\ (Steady => Steady')
<1> USE DEF Inv
<1>1. UNCHANGED <<row, op, last, sent>> /\ op # NoOp /\ loop.op = op /\ op \in sent
  BY DEF Runs, OpInv, LoopHasOp, Numbers, netVars
<1>2. CASE Takes(op)
  <2>1. Accept(op) /\ loop' = [at |-> "idle"] /\ op.host \in Host /\ vm' = vm
    BY <1>1, <1>2, OpFields DEF Runs, OpInv, Accept
  <2>2. Keeps
    BY <1>1, <1>2, <2>1, AcceptKeeps DEF OpInv, Types
  <2>3. \A g \in Host : \A id : Running(g, id)' =>
           Running(g, id) \/ \E o \in sent : o.host = g /\ o.seq = id /\ ~Spent(o)
    BY <1>1, <1>2, <2>1, RunningGrows DEF OpInv
  <2>4. Alone'
    BY <1>1, <2>2, <2>3, HostAlone
  <2>5. Steady => Steady'
    BY <1>1, <2>1, <2>2, HostSteady DEF Keeps
  <2> QED
    BY <2>4, <2>5
<1>3. CASE ~Takes(op)
  <2>1. UNCHANGED hostVars /\ (loop' = [at |-> "idle"] \/ loop' = Heard(Lost))
    BY <1>1, <1>3 DEF Runs
  <2>2. loop'.at \in {"idle", "heard"} /\ (loop'.at = "heard" => loop'.heard.status # "done")
    BY <2>1 DEF Heard, Lost
  <2> QED
    BY <1>1, <2>1, <2>2, SameAlone, TurnSteady
<1> QED
  BY <1>2, <1>3

\* A host's own step.
LEMMA HostSettled ==
  ASSUME Inv, Alone, Budget, NEW h \in Host, HostStep(h)
  PROVE  Alone' /\ (Steady /\ left'["drifts"] = left["drifts"] => Steady')
<1> USE DEF Inv
<1>1. UNCHANGED <<row, op, last, loop, sent>>
  BY DEF HostStep, RunsLate, Cancels, Collects, WorkBegins, WorkDone, WorkFails, WorkCancelled,
         Reboot, Drifts, serverVars, netVars
<1>2. Keeps
  BY HostKeeps DEF OpInv, Types, ServerTypes
<1>3. \A g \in Host : \A id : Running(g, id)' =>
         Running(g, id) \/ \E o \in sent : o.host = g /\ o.seq = id /\ ~Spent(o)
  BY RunningGrows DEF OpInv
<1>4. Alone'
  BY <1>1, <1>2, <1>3, HostAlone
<1>5. ASSUME Steady, left'["drifts"] = left["drifts"] PROVE Steady'
  <2>1. \A g \in Host : vm'[g] = vm[g] \/ \E id \in DOMAIN entry[g] : Working(g, id) /\ vm'[g] \in Effects(g, id)
    BY <1>5, VmSteps DEF OpInv
  <2> QED
    BY <1>1, <1>2, <1>5, <2>1, HostSteady DEF Keeps
<1> QED
  BY <1>4, <1>5

\* What a read decides is decided of the machine as it is, on a host that is quiet.
LEMMA LooksSettled ==
  ASSUME Inv, OpInv', NEW joins \in BOOLEAN, Looks(joins)
  PROVE  Alone' /\ (Steady => Steady')
<1> USE DEF Inv
<1> DEFINE e == [type |-> "read", seen |-> loop.saw, joins |-> joins, awaiting |-> FALSE]
           b == boot[loop.host]
<1>1. /\ UNCHANGED <<hostVars, sent>> /\ loop'.at = "idle"
      /\ Exists /\ row.host = loop.host /\ op = NoOp /\ row.state # "undone" /\ row \in Row
      /\ loop.at = "reading"
  BY DEF Looks, netVars, Look, OpInv, Types, ServerTypes, Exists
<1>2. loop.host \in Host /\ e \in Event /\ e.seen = loop.saw /\ loop.saw \in Seens
  <2>1. loop.saw \in Seens /\ loop.host \in Host
    BY LoopTypes DEF Looks, OpInv, Types
  <2> QED
    BY <2>1 DEF Event
<1>3. e.type = "read" /\ Advance(e, b)
  BY <1>1 DEF Looks
<1> HIDE DEF e
<1>4. StepOf(row.state) = None
  BY <1>1 DEF OpInv, OpIsStep
<1>5. PICK t : t = Transition(row, e)
  OBVIOUS
<1>6. row' = t /\ t # Gone /\ t \in Row
  <2>1. row' = t /\ t # Gone
    BY <1>1, <1>2, <1>3, <1>4, <1>5, ReadSteps DEF Advance, Throws
  <2> QED
    BY <2>1 DEF OpInv, Types, ServerTypes
<1>7. /\ t.host = row.host /\ t.desired = row.desired /\ t.prepared = row.prepared
      /\ row.state \in Due \cup {"undoing.held", "deleting.held"} => StepOf(t.state) = "remove"
      /\ t.state \in Made => row.state \in Standing
      /\ t.state = JoinSent => row.prepared /\ row.desired = "running"
      /\ t.state = "made.settled" => \/ row.state = "made.settled"
                                     \/ row.desired = "running" /\ row.prepared /\ loop.saw = "running"
                                     \/ row.desired = "stopped" /\ loop.saw = "stopped"
                                     \/ row.desired = "paused" /\ loop.saw \in {"paused", "stopped"}
      /\ t.state = "made.lost" => row.state = "made.lost" \/ loop.saw = "missing"
      /\ row.prepared /\ row.desired = "running" /\ loop.saw \in {"running", "unknown"} /\ t.state \in Made =>
           StepOf(t.state) \in {None, "resize", "join"}
  BY <1>1, <1>2, <1>3, <1>4, <1>5, ReadSettles
<1>8. /\ op' # NoOp => op'.host = row.host /\ StepOf(t.state) \in {"any", op'.kind} /\ op'.seq = last + 1
      /\ StepOf(t.state) = None => op' = NoOp
  <2>1. op' # NoOp => op'.host = row.host /\ op'.seq = last + 1
    BY <1>1, <1>3 DEF Advance
  <2>2. op' # NoOp => StepOf(t.state) \in {"any", op'.kind}
    BY <1>6 DEF OpInv, OpIsStep
  <2>3. StepOf(t.state) = None => op' = NoOp
    BY <1>6 DEF OpInv, OpIsStep
  <2> QED
    BY <2>1, <2>2, <2>3
<1>9. row.state \notin Due => Quiet(row.host)
  BY <1>1 DEF Rest, Due
<1>10. row.host \in Host
  BY <1>1, <1>2
<1>11. Alone'
  <2> SUFFICES ASSUME op' # NoOp, op'.kind # "remove"
               PROVE  /\ \A o \in sent : o.host = row.host => Spent(o)
                      /\ \A id \in DOMAIN entry[row.host] : ~Running(row.host, id)
    BY <1>1, <1>8 DEF Alone, Running, Held, Spent, hostVars
  <2>1. row.state \notin Due
    BY <1>7, <1>8
  <2> QED
    BY <1>9, <2>1 DEF Quiet
<1>12. ASSUME Steady PROVE Steady'
  <2> USE <1>12 DEF Steady
  <2>1. row.state \in Standing /\ loop.saw # "unknown" => Seen(row.host) = loop.saw
    BY <1>1 DEF Saw
  <2>2. vm[row.host] \in VM
    BY <1>10 DEF OpInv, Types, HostTypes
  <2>3. NoneIs' /\ Saw'
    BY <1>1 DEF NoneIs, Saw, hostVars
  <2>4. Done'
    <3>1. op' # NoOp => ~Held(op'.host, op'.seq)
      <4>1. \A id \in DOMAIN entry[row.host] : id \in Nat /\ id <= last
        BY <1>10 DEF Hosts, Entries, OpInv, Types, HostTypes, EntryTypes, ServerTypes
      <4>2. last \in Nat
        BY DEF OpInv, Types, ServerTypes
      <4> QED
        BY <1>8, <4>1, <4>2 DEF Held
    <3> QED
      BY <1>1, <3>1 DEF Done, Held, hostVars
  <2>5. Whole'
    <3>1. t.state \in Made => row.state \in Made
      BY <1>7 DEF Made
    <3> QED
      BY <1>1, <1>6, <1>7, <3>1 DEF Whole, hostVars
  <2>6. Ready'
    <3> SUFFICES ASSUME t.state \in Made, t.prepared, t.desired = "running"
                 PROVE  vm[row.host].is = "ready" /\ (op' = NoOp \/ op'.kind \in {"resize", "join"})
      BY <1>1, <1>6, <1>7 DEF Ready, hostVars
    <3>1. row.state \in Standing /\ vm[row.host].is = "ready"
      BY <1>1, <1>7 DEF Ready, Made
    <3>2. loop.saw \in {"running", "unknown"}
      BY <2>1, <3>1 DEF Seen
    <3>3. StepOf(t.state) \in {None, "resize", "join"}
      BY <1>7, <3>2
    <3> QED
      BY <1>8, <3>1, <3>3
  <2>7. Joins'
    BY <1>6, <1>7 DEF Joins
  <2>8. SettledTrue'
    <3>1. ASSUME t.state = "made.settled", row.state # "made.settled" PROVE Matches'
      <4>1. row.state \in Standing /\ vm[row.host].is # "partial"
        BY <1>1, <1>7, <3>1 DEF Whole, Made, Standing
      <4>2. CASE row.desired = "running"
        BY <1>1, <1>6, <1>7, <3>1, <4>1, <4>2 DEF Matches, Ready, Made, hostVars
      <4>3. CASE row.desired # "running"
        <5>1. loop.saw = Seen(row.host) /\ loop.saw # "unknown"
          BY <1>7, <2>1, <3>1, <4>1, <4>3
        <5> QED
          BY <1>1, <1>6, <1>7, <2>2, <3>1, <4>1, <4>3, <5>1 DEF Matches, Seen, VM, hostVars
      <4> QED
        BY <4>2, <4>3
    <3>2. ASSUME t.state = "made.lost", row.state # "made.lost" PROVE vm[row.host] = NoVM
      <4>1. Seen(row.host) = "missing"
        BY <1>7, <2>1, <3>2 DEF Made, Standing
      <4>2. vm[row.host].is = "none"
        BY <2>2, <4>1 DEF Seen, VM
      <4> QED
        BY <1>10, <4>2 DEF NoneIs
    <3>3. row.state = "made.settled" => Matches
      BY <1>1 DEF SettledTrue
    <3>4. row.state = "made.lost" => vm[row.host] = NoVM
      BY <1>1 DEF SettledTrue
    <3>5. t.state = "made.settled" => Matches'
      BY <1>1, <1>6, <1>7, <3>1, <3>3 DEF Matches, hostVars
    <3>6. t.state = "made.lost" => vm[row.host] = NoVM
      BY <3>2, <3>4
    <3> QED
      BY <1>1, <1>6, <1>7, <3>5, <3>6 DEF SettledTrue, hostVars
  <2> QED
    BY <2>3, <2>4, <2>5, <2>6, <2>7, <2>8
<1> QED
  BY <1>11, <1>12

\* The row takes what was heard of its own step, which is over.
LEMMA FollowsSettled ==
  ASSUME Inv, Inv', Follows PROVE Alone' /\ (Steady => Steady')
<1> USE DEF Inv
<1>1. /\ UNCHANGED <<hostVars, sent>> /\ loop.at = "heard"
      /\ Exists /\ loop.op = op /\ op # NoOp /\ row \in Row
      /\ loop'.at \notin {"reading", "heard"}
  BY DEF Follows, OpInv, LoopHasOp, Types, ServerTypes, Exists
<1>2. PICK move \in Moves : Advance(EventOf(loop.heard, move), 0)
  BY DEF Follows
<1>3. PICK e : e = EventOf(loop.heard, move)
  OBVIOUS
<1>4. loop.heard \in Ends \cup {Lost}
  BY <1>1, LoopTypes DEF OpInv, Types
<1>5. /\ e \in Event /\ e.type \in {"reported", "lost"}
      /\ e.type = "reported" => e.status = loop.heard.status /\ e.prepared = (Source = "copy")
  <2>1. e \in Event
    BY <1>1, <1>3, <1>4, HeardTypes DEF OpInv, Types
  <2> QED
    BY <1>3, <1>4, <2>1 DEF EventOf, Ends, Lost
<1>6. StepOf(row.state) # None /\ StepOf(row.state) \in {"any", op.kind} /\ op.host = row.host
  BY <1>1 DEF OpInv, OpIsStep
<1>7. PICK t : t = Transition(row, e)
  OBVIOUS
<1>8. t # row /\ StepOf(t.state) = None
  BY <1>1, <1>5, <1>6, <1>7, EndSteps
<1>9. row' = t /\ op' = NoOp
  <2>1. ~Throws(row, e, op) /\ ~Begins(row, e, op) /\ Finishes(row, e, op)
    BY <1>1, <1>7, <1>8 DEF Throws, Begins, Finishes
  <2> QED
    BY <1>2, <1>3, <1>7, <2>1 DEF Advance
<1>10. Alone'
  BY <1>9 DEF Alone
<1>11. ASSUME Steady PROVE Steady'
  <2> USE <1>11 DEF Steady
  <2>1. NoneIs' /\ Done' /\ Saw'
    BY <1>1, <1>9 DEF NoneIs, Done, Saw, hostVars
  <2>2. t # Gone /\ t.state \in Made =>
         /\ t.host = row.host /\ t.desired = row.desired /\ row.state \in {"making.sent"} \cup Stepping
         /\ t.state \notin {JoinSent, "made.lost"}
         /\ t.state = "made.settled" => row.state = JoinSent /\ t.prepared = row.prepared
         /\ row.state = "making.sent" => loop.heard.status = "done" /\ (t.prepared => Source = "copy")
         /\ t.prepared => \/ row.prepared /\ row.state \in Stepping
                          \/ row.state = Starting /\ loop.heard.status = "done"
                          \/ row.state = "making.sent"
    BY <1>1, <1>5, <1>6, <1>7, EndSettles
  <2>3. row.state = "making.sent" => op.kind = "make"
    BY <1>6 DEF StepOf, Starting, Stopping, Pausing, Resizing, JoinSent, JoinAsked
  <2>4. row.state = Starting => op.kind = "start"
    BY <1>6 DEF StepOf, Starting, Stopping, Pausing, Resizing, JoinSent, JoinAsked
  <2>5. loop.heard.status = "done" => Leaves(op.kind)
    BY <1>1 DEF Done
  <2>6. Whole'
    <3> SUFFICES ASSUME t # Gone, t.state \in Made PROVE vm[row.host].is # "partial"
      BY <1>1, <1>9, <2>2 DEF Whole, Exists, hostVars
    <3>1. CASE row.state = "making.sent"
      BY <1>6, <2>2, <2>3, <2>5, <3>1 DEF Leaves
    <3>2. CASE row.state \in Stepping
      BY <1>1, <3>2 DEF Whole, Made
    <3> QED
      BY <2>2, <3>1, <3>2
  <2>7. t # Gone /\ t.state \in Made /\ t.prepared /\ t.desired = "running" => vm[row.host].is = "ready"
    <3> SUFFICES ASSUME t # Gone, t.state \in Made, t.prepared, t.desired = "running"
                 PROVE  vm[row.host].is = "ready"
      OBVIOUS
    <3>1. CASE row.state = "making.sent"
      BY <1>6, <2>2, <2>3, <2>5, <3>1 DEF Leaves
    <3>2. CASE row.prepared /\ row.state \in Stepping
      BY <1>1, <2>2, <3>2 DEF Ready, Made
    <3>3. CASE row.state = Starting /\ loop.heard.status = "done"
      BY <1>6, <2>4, <2>5, <3>3 DEF Leaves
    <3> QED
      BY <2>2, <3>1, <3>2, <3>3
  <2>8. Ready'
    BY <1>1, <1>9, <2>2, <2>7 DEF Ready, Exists, hostVars
  <2>9. Joins'
    BY <1>9, <2>2 DEF Joins, Exists, Made, Stepping
  <2>10. SettledTrue'
    <3>1. t # Gone /\ t.state = "made.settled" => row.prepared /\ row.desired = "running"
      BY <1>1, <2>2 DEF Joins, Made, Standing
    <3>2. t # Gone /\ t.state = "made.settled" => Matches'
      BY <1>1, <1>9, <2>2, <2>7, <3>1 DEF Matches, Made, Standing, hostVars
    <3>3. t # Gone => t.state # "made.lost"
      BY <2>2 DEF Made, Standing
    <3> QED
      BY <1>9, <3>2, <3>3 DEF SettledTrue, Exists
  <2> QED
    BY <2>1, <2>6, <2>8, <2>9, <2>10
<1> QED
  BY <1>10, <1>11

--------------------------------------------------------------------------------
(* The theorem. *)

LEMMA SettledInit == Init => SettledInv
<1> SUFFICES ASSUME Init PROVE SettledInv
  OBVIOUS
<1>1. ~Exists /\ op = NoOp /\ loop.at = "idle" /\ row = Gone
  BY DEF Init, Exists
<1>2. Budget
  <2>1. left \in [Bounds -> Int] /\ left["drifts"] = MaxDrifts /\ left["reboots"] = MaxReboots
    BY ConstantsAssumption DEF Init, Bounds
  <2> QED
    BY <2>1, ConstantsAssumption DEF Budget
<1>3. NoneIs
  BY DEF Init, NoneIs
<1>4. Alone /\ Whole /\ Ready /\ Joins /\ Saw /\ Done /\ SettledTrue
  BY <1>1 DEF Alone, Whole, Ready, Joins, Saw, Done, SettledTrue
<1> QED
  BY <1>2, <1>3, <1>4 DEF SettledInv, Steady

LEMMA SettledStep == Inv /\ Inv' /\ SettledInv /\ [Next]_vars => SettledInv'
<1> SUFFICES ASSUME Inv, Inv', SettledInv, [Next]_vars PROVE SettledInv'
  OBVIOUS
<1>1. Budget' /\ (Undrifted' => Undrifted /\ left'["drifts"] = left["drifts"])
  BY BudgetSteps DEF SettledInv
<1>2. SUFFICES Alone' /\ (Steady /\ left'["drifts"] = left["drifts"] => Steady')
  BY <1>1 DEF SettledInv
<1>3. OpInv' /\ Alone /\ Budget
  BY DEF Inv, SettledInv
<1>4. CASE UNCHANGED vars
  BY <1>3, <1>4, SameAlone, RequestSteady DEF vars, hostVars, Inv
<1>5. CASE Client \/ Crash
  BY <1>3, <1>5, AskSettled
<1>6. CASE Turn
  BY <1>3, <1>6, AskSettled, PollSettled, SendsSettled, RunsSettled, LooksSettled, FollowsSettled DEF Turn
<1>7. ASSUME NEW h \in Host, HostStep(h) PROVE <1>2!1
  BY <1>3, <1>7, HostSettled
<1> QED
  BY <1>4, <1>5, <1>6, <1>7 DEF Next

\* Until a VM first changes by itself, a settled machine is what it was last asked to
\* be and a lost one is nowhere (machine-chart.ts, decided), whatever requests, late
\* answers, failures and restarts fall between a read of the VM and what is written of it.
THEOREM SettlingIsTrue == Spec => [](Undrifted => SettledTrue)
<1>1. SettledInv => (Undrifted => SettledTrue)
  BY DEF SettledInv, Steady
<1> QED
  BY <1>1, InvInit, InvStep, SettledInit, SettledStep, PTL DEF Spec

--------------------------------------------------------------------------------
(* Sizes: the invariant. *)

\* What was cancelled or may be forgotten is of the past: not the row's operation,
\* but for a cancel of one that is no longer wanted, which a resize always is.
Past ==
  /\ \A id \in collects \cup cancels : id <= last
  /\ op # NoOp => /\ op.seq \notin collects
                  /\ op.kind = "resize" => op.seq \notin cancels /\ op.to # NoSize

\* A resize of the row's is not cut short, and only a resize reports sizes.
Uncut ==
  op # NoOp /\ Held(op.host, op.seq) =>
    LET report == entry[op.host][op.seq] IN
    /\ op.kind = "resize" => /\ ~report.cut /\ report.status # "cancelled"
                             /\ report.to = op.to
    /\ report.size # NoSize => op.kind = "resize" /\ report.status # "running"

\* A host that did not restart holds the row's operation once it had it, and until
\* the row has taken its end.
Keepers ==
  op # NoOp => /\ op.boot = boot[op.host]
               /\ seen[op.host] = op.seq => Held(op.host, op.seq)

\* What a loop heard is what the host holds, and only a make is lost.
Hears ==
  /\ loop.at # "sizing"
  /\ loop.at = "heard" =>
       IF loop.heard = Lost THEN op.kind = "make"
       ELSE /\ Held(op.host, op.seq)
            /\ entry[op.host][op.seq].status = loop.heard.status
            /\ entry[op.host][op.seq].size = loop.heard.size

\* What the row's size is, or will be once it has taken the end of its operation.
SizeDue ==
  IF op # NoOp /\ Held(op.host, op.seq) /\ entry[op.host][op.seq].size # NoSize
  THEN entry[op.host][op.seq].size ELSE row.size

\* A machine is made at one size.
AsMade == Exists /\ row.state \in Making \cup Undoing => row.size = 1

SizeFits ==
  Exists /\ row.state \in Making \cup Made /\ vm[row.host] # NoVM => vm[row.host].size = SizeDue

\* What is so of the sizes while no host restarts.
Measured == Keepers /\ Hears /\ AsMade /\ SizeFits

SizesInv == Past /\ Uncut /\ (Unrestarted => Measured)

--------------------------------------------------------------------------------
(* Sizes: the chart, and what steps do to a VM. *)

\* What a step whose work is done, or cut, may leave of a VM's size.
LEMMA EffectSizes ==
  ASSUME NEW v \in VM, NEW kind \in Kind, kind # "remove", NEW to \in Nat, NEW w,
         w \in CutEffects(kind, to, v) \/ (CanDo(kind, v) /\ w = DoneEffect(kind, to, v))
  PROVE  /\ kind # "make" /\ w # NoVM => v # NoVM
         /\ kind \notin {"make", "resize"} => w.size = v.size
         /\ kind = "make" => w = v \/ w.size = 1
         /\ kind = "resize" => w.size = v.size \/ (w.size = to /\ CanDo(kind, v))
<1>1. \A is \in {"up", "ready", "stopped", "paused", "partial"} :
        /\ [v EXCEPT !.is = is].size = v.size
        /\ [v EXCEPT !.size = to].size = to
  BY DEF VM
<1>2. [v EXCEPT !.is = IF v.is \in {"up", "ready"} THEN "paused" ELSE @].size = v.size
  BY DEF VM
<1>3. kind \notin {"make", "remove"} /\ CanDo(kind, v) => v # NoVM
  BY DEF CanDo, NoVM, Kind
<1>4. ~CanDo(kind, v) => w = v
  BY DEF CutEffects
<1>5. CanDo(kind, v) /\ kind = "make" => w = v \/ w.size = 1
  BY DEF CutEffects, DoneEffect
<1>6. CanDo(kind, v) /\ kind = "resize" => w = v \/ w = [v EXCEPT !.size = to]
  BY DEF CutEffects, DoneEffect
<1>7. CanDo(kind, v) /\ kind \notin {"make", "resize", "remove"} => w.size = v.size
  BY <1>1, <1>2 DEF CutEffects, DoneEffect, Kind
<1> QED
  BY <1>1, <1>3, <1>4, <1>5, <1>6, <1>7

\* A request resizes no row, and makes none.
LEMMA RequestSizes ==
  ASSUME NEW r \in Row, NEW e \in Event, e.type \in {"ask", "resize", "delete", "refused"},
         NEW t, t = Transition(r, e), t # Gone
  PROVE  /\ t.size = r.size /\ t.host = r.host
         /\ t.state \in Making \cup Made => r.state \in Making \cup Made
         /\ t.state \in Making \cup Undoing => r.state \in Making \cup Undoing
<1> USE DEF Made, Making, Undoing, Standing, Stepping, Starting, Stopping, Pausing, Resizing, JoinSent, JoinAsked, Row
<1>1. CASE e.type = "ask"
  <2>1. PICK q \in Row : q = Asked(r, e) /\ q.state = r.state /\ q.host = r.host /\ q.size = r.size
    <3>1. Asked(r, e) \in Row
      BY <1>1 DEF Asked, Event, Wish, Errors
    <3> QED
      BY <1>1, <3>1 DEF Asked
  <2>2. t \in {r, q, [q EXCEPT !.state = "made.observing"], [q EXCEPT !.state = JoinAsked]}
        /\ (t.state # r.state => r.state \in Standing \cup {JoinSent})
    BY <1>1, <2>1 DEF Transition, OnAsk, Goto
  <2>3. t.size = r.size /\ t.host = r.host /\ t.state \in {r.state, "made.observing", JoinAsked}
    BY <2>1, <2>2
  <2> QED
    BY <2>2, <2>3
<1>2. CASE e.type = "resize"
  BY <1>2 DEF Transition, OnResize, Owed, Goto
<1>3. CASE e.type = "delete"
  BY <1>3 DEF Transition, OnDelete, EnterDeleting
<1>4. CASE e.type = "refused"
  BY <1>4 DEF Transition, OnRefused
<1> QED
  BY <1>1, <1>2, <1>3, <1>4

\* A read resizes no row, and sends a resize only when one is owed.
LEMMA ReadSizes ==
  ASSUME NEW r \in Row, NEW e \in Event, e.type = "read", NEW t, t = Transition(r, e),
         StepOf(r.state) = None
  PROVE  /\ t.size = r.size
         /\ t.state \in Making \cup Made => r.state \in Making \cup Made
         /\ t.state \in Making \cup Undoing => r.state \in Making \cup Undoing
         /\ StepOf(t.state) = "resize" => r.resize # NoSize
         /\ StepOf(t.state) # "any"
<1> USE DEF Made, Making, Undoing, Standing, Stepping, Starting, Stopping, Pausing, Resizing, JoinSent, JoinAsked, Row
<1>1. t = OnRead(r, e)
  BY DEF Transition
<1>2. CASE r.state \in {"made.observing", "made.settled", "made.lost"}
  <2>1. t = Decided(r, e)
    BY <1>1, <1>2 DEF OnRead
  <2>2. CASE e.seen \notin {"unknown", "missing"} /\ r.resize # NoSize
    <3>1. t = [r EXCEPT !.state = Resizing, !.resize = NoSize]
      BY <2>1, <2>2 DEF Decided
    <3> QED
      BY <1>2, <2>2, <3>1 DEF StepOf
  <2>3. CASE ~(e.seen \notin {"unknown", "missing"} /\ r.resize # NoSize)
    <3>1. t = r \/ \E leaf \in {"made.lost", "made.settled", Starting, Stopping, Pausing, JoinSent} :
                     t = [r EXCEPT !.state = leaf]
      BY <2>1, <2>3 DEF Decided, Goto
    <3> QED
      BY <1>2, <3>1 DEF StepOf, None
  <2> QED
    BY <2>2, <2>3
<1>3. CASE r.state \notin {"made.observing", "made.settled", "made.lost"}
  BY <1>1, <1>3 DEF OnRead, Goto, StepOf, None, Leaf
<1> QED
  BY <1>2, <1>3

\* The end of a step gives the row the sizes it reports, if any.
LEMMA EndSizes ==
  ASSUME NEW r \in Row, NEW e \in Event, e.type \in {"reported", "lost"},
         StepOf(r.state) # None, NEW t, t = Transition(r, e), t # Gone
  PROVE  /\ t.state \in Made => /\ r.state \in {"making.sent"} \cup Stepping
                                /\ e.type = "reported" =>
                                     \/ t.size = IF e.size = NoSize THEN r.size ELSE e.size
                                     \/ r.state \in {JoinSent, JoinAsked} /\ t.size = r.size
                                /\ e.type = "lost" => r.state \in Stepping
         /\ t.state \in Making => /\ e.type = "reported" /\ e.status = "done"
                                  /\ r.state = "undoing.sent" /\ t.size = r.size
         /\ t.state \in Undoing => \/ t.size = r.size /\ r.state \in {"undoing.sent", "making.sent"}
                                   \/ e.type = "reported" /\ r.state = "making.sent" /\ t.size = e.size
                                        /\ e.size # NoSize
<1> USE DEF Made, Making, Undoing, Standing, Stepping, Starting, Stopping, Pausing, Resizing, JoinSent, JoinAsked, Row
<1>1. CASE e.type = "lost"
  BY <1>1 DEF Transition, OnLost, Goto, StepOf, None
<1>2. CASE e.type = "reported"
  <2>1. Told(r, e) \in Row
    BY <1>2 DEF Told, NoSize, Event
  <2>2. PICK m \in Row : /\ m = Told(r, e) /\ m.state = r.state
                         /\ m.size = IF e.size = NoSize THEN r.size ELSE e.size
    BY <1>2, <2>1 DEF Told, Event
  <2>3. \A p \in BOOLEAN :
          /\ Ended(r, e, p).state \in {"made.failed", "made.observing"}
          /\ Ended(r, e, p).size = m.size
    BY <2>2 DEF Ended
  <2>4. CASE r.state \in {Starting, Stopping, Pausing}
    <3>1. t = Ended(r, e, r.state = Starting)
      BY <1>2, <2>4 DEF Transition, OnReported
    <3> QED
      BY <1>2, <2>2, <2>3, <2>4, <3>1
  <2>5. CASE r.state = "undoing.sent"
    <3>1. e.status \in {"done", "failed", "cancelled"}
      BY <1>2 DEF Event
    <3>2. t = Undone(r, e)
      BY <1>2, <2>5 DEF Transition, OnReported
    <3>3. t.size = r.size /\ t.state \in {"undoing.held", "undoing.due", "undone", "making.due"}
          /\ (t.state = "making.due" => e.status = "done")
      BY <2>5, <3>1, <3>2 DEF Undone, Goto
    <3> QED
      BY <1>2, <2>5, <3>3
  <2>6. CASE r.state = "deleting.sent"
    <3>1. t = Deleted(r, e)
      BY <1>2, <2>6 DEF Transition, OnReported
    <3>2. t.state \in {"deleting.held", "deleting.due"}
      BY <3>1 DEF Deleted, Goto
    <3> QED
      BY <3>2
  <2>7. CASE r.state = "making.sent"
    <3>1. t = IF e.status = "done" THEN [m EXCEPT !.state = "made.observing", !.prepared = e.prepared]
              ELSE [m EXCEPT !.state = "undoing.due", !.error = e.error]
      BY <1>2, <2>2, <2>7 DEF Transition, OnReported
    <3> QED
      BY <1>2, <2>2, <2>7, <3>1
  <2>8. CASE r.state = Resizing
    <3>1. t = IF e.status = "failed" THEN [m EXCEPT !.state = "made.failed", !.error = e.error]
              ELSE [m EXCEPT !.state = "made.observing"]
      BY <1>2, <2>2, <2>8 DEF Transition, OnReported, Goto
    <3> QED
      BY <1>2, <2>2, <2>8, <3>1
  <2>9. CASE r.state \in {JoinSent, JoinAsked}
    BY <1>2, <2>9 DEF Transition, OnReported, Goto
  <2>10. CASE r.state = "deleting.draining"
    <3>1. t = [m EXCEPT !.state = "deleting.due"]
      BY <1>2, <2>2, <2>10 DEF Transition, OnReported, Goto
    <3> QED
      BY <2>2, <3>1
  <2> QED
    BY <2>4, <2>5, <2>6, <2>7, <2>8, <2>9, <2>10 DEF StepOf, None
<1> QED
  BY <1>1, <1>2

--------------------------------------------------------------------------------
(* Sizes: steps of a host. *)

\* What an entry keeps until its operation's work ends.
Stays(n, e) ==
  /\ n.to = e.to /\ n.size = e.size
  /\ n.cut => e.cut \/ op.seq \in cancels
  /\ n.status = e.status \/ (n.status = "cancelled" /\ e.cut /\ e.status = "running")

LEMMA StaysSame == ASSUME NEW e, NEW n, n = e PROVE Stays(n, e)
BY DEF Stays

\* No operation comes after the row's, so its own entry is neither cut nor forgotten
\* for another, and is new where its host takes it.
LEMMA OwnStays ==
  ASSUME Inv, Past, op # NoOp, NEW h \in Host,
         \/ \E o \in sent : o.host = h /\ Takes(o) /\ Accept(o)
         \/ \E id \in DOMAIN entry[h] : Cancels(h, id) \/ Collects(h, id) \/ WorkBegins(h, id)
  PROVE  /\ Held(op.host, op.seq) =>
              /\ op.seq \in DOMAIN entry'[op.host]
              /\ Stays(entry'[op.host][op.seq], entry[op.host][op.seq])
         /\ ~Held(op.host, op.seq) /\ op.seq \in DOMAIN entry'[op.host] =>
              LET n == entry'[op.host][op.seq] IN
              ~n.cut /\ n.status = "running" /\ n.size = NoSize /\ n.to = op.to
         /\ seen'[op.host] = op.seq => seen[op.host] = op.seq \/ op.seq \in DOMAIN entry'[op.host]
<1> USE DEF Inv
<1>1. /\ DOMAIN entry = Host /\ op.host \in Host /\ op.seq \in Nat /\ last \in Nat
      /\ \A g \in Host : \A i \in DOMAIN entry[g] : entry[g][i] \in Entry /\ i \in Nat
      /\ seen \in [Host -> Nat]
  BY OpFields DEF OpInv, Types, HostTypes, EntryTypes, ServerTypes
<1>2. op.seq = last /\ op.seq \notin collects
  BY DEF Numbers, Past
<1>3. ASSUME entry'[op.host] = entry[op.host], seen'[op.host] = seen[op.host]
      PROVE  /\ Held(op.host, op.seq) =>
                  /\ op.seq \in DOMAIN entry'[op.host]
                  /\ Stays(entry'[op.host][op.seq], entry[op.host][op.seq])
             /\ ~Held(op.host, op.seq) => op.seq \notin DOMAIN entry'[op.host]
             /\ seen'[op.host] = op.seq => seen[op.host] = op.seq
  BY <1>3, StaysSame DEF Held
<1>4. ASSUME NEW o \in sent, o.host = h, Takes(o), Accept(o), h = op.host
      PROVE  /\ Held(op.host, op.seq) => o.seq # op.seq /\ FALSE
             /\ op.seq \in DOMAIN entry'[op.host] =>
                  LET n == entry'[op.host][op.seq] IN
                  ~n.cut /\ n.status = "running" /\ n.size = NoSize /\ n.to = op.to
             /\ seen'[op.host] = op.seq => op.seq \in DOMAIN entry'[op.host]
  <2>1. o.seq <= last /\ o.seq > seen[h] /\ o.seq \in Nat /\ ~Held(h, o.seq)
    BY <1>4 DEF Takes, Numbers, OpInv, Types, NetTypes, Operation
  <2>2. ~Held(op.host, op.seq)
    BY <1>1, <1>2, <1>4, <2>1 DEF Held, Hosts, Entries
  <2>3. op.seq \in DOMAIN entry'[op.host] <=> o.seq = op.seq
    BY SMTT(30), <1>1, <1>4, <2>1, <2>2 DEF Accept, Held
  <2>4. o.seq = op.seq => o = op
    BY DEF Numbers
  <2>5. o.seq = op.seq =>
          LET n == entry'[op.host][op.seq] IN
          ~n.cut /\ n.status = "running" /\ n.size = NoSize /\ n.to = op.to
    BY <1>1, <1>4, <2>3, <2>4 DEF Accept
  <2>6. seen'[op.host] = o.seq
    BY <1>1, <1>4 DEF Accept
  <2> QED
    BY <2>2, <2>3, <2>5, <2>6
<1>5. ASSUME NEW o \in sent, o.host = h, Takes(o), Accept(o), h # op.host
      PROVE  entry'[op.host] = entry[op.host] /\ seen'[op.host] = seen[op.host]
  BY <1>1, <1>5 DEF Accept
<1>6. ASSUME NEW id \in DOMAIN entry[h], Cancels(h, id) \/ Collects(h, id) \/ WorkBegins(h, id), h # op.host
      PROVE  entry'[op.host] = entry[op.host] /\ seen'[op.host] = seen[op.host]
  BY <1>1, <1>6 DEF Cancels, Collects, WorkBegins
<1>7. ASSUME NEW id \in DOMAIN entry[h], Cancels(h, id), h = op.host
      PROVE  /\ seen' = seen /\ DOMAIN entry'[h] = DOMAIN entry[h]
             /\ Held(h, op.seq) => Stays(entry'[h][op.seq], entry[h][op.seq])
  <2>1. entry'[h] = [entry[h] EXCEPT ![id].cut = TRUE] /\ id \in cancels /\ seen' = seen
    BY <1>1, <1>7 DEF Cancels
  <2>2. CASE id = op.seq
    <3>1. entry[h][id] \in Entry /\ entry'[h][id] = [entry[h][id] EXCEPT !.cut = TRUE]
      BY <1>1, <2>1
    <3> QED
      BY <2>1, <2>2, <3>1 DEF Stays, Entry
  <2>3. CASE id # op.seq
    BY <2>1, <2>3, StaysSame DEF Held
  <2> QED
    BY <2>1, <2>2, <2>3
<1>8. ASSUME NEW id \in DOMAIN entry[h], Collects(h, id), h = op.host
      PROVE  /\ seen' = seen /\ (op.seq \in DOMAIN entry'[h] <=> op.seq \in DOMAIN entry[h])
             /\ Held(h, op.seq) => Stays(entry'[h][op.seq], entry[h][op.seq])
  <2>1. entry'[h] = [i \in DOMAIN entry[h] \ {id} |-> entry[h][i]] /\ id # op.seq /\ seen' = seen
    BY <1>1, <1>2, <1>8 DEF Collects
  <2> QED
    BY <2>1, StaysSame DEF Held
<1>9. ASSUME NEW id \in DOMAIN entry[h], WorkBegins(h, id), h = op.host
      PROVE  /\ seen' = seen /\ (op.seq \in DOMAIN entry'[h] <=> op.seq \in DOMAIN entry[h])
             /\ Held(h, op.seq) => Stays(entry'[h][op.seq], entry[h][op.seq])
  <2> DEFINE e == entry[h][id]
             next == IF e.cut THEN [e EXCEPT !.status = "cancelled"] ELSE [e EXCEPT !.at = "working"]
  <2>1. /\ entry'[h] = [i \in DOMAIN entry[h] \ {e.before} |-> IF i = id THEN next ELSE entry[h][i]]
        /\ seen' = seen /\ e.status = "running"
    BY <1>1, <1>9 DEF WorkBegins, Running
  <2>2. e \in Entry /\ e.before < id /\ id <= last
    BY <1>1 DEF Hosts, Entries
  <2>3. e.before # op.seq
    BY <1>1, <1>2, <2>2 DEF Entry
  <2>4. Stays(next, e)
    BY <2>1, <2>2 DEF Stays, Entry
  <2> QED
    BY <1>9, <2>1, <2>3, <2>4, StaysSame DEF Held
<1> QED
  BY <1>3, <1>4, <1>5, <1>6, <1>7, <1>8, <1>9 DEF Held

\* The end of an operation's work changes its own entry only.
LEMMA OwnEnds ==
  ASSUME Inv, op # NoOp, NEW h \in Host, NEW id \in DOMAIN entry[h], Working(h, id),
         NEW status, NEW error, NEW size, End(h, id, status, error, size)
  PROVE  /\ (op.seq \in DOMAIN entry'[op.host] <=> op.seq \in DOMAIN entry[op.host])
         /\ ~(h = op.host /\ id = op.seq) => entry'[op.host][op.seq] = entry[op.host][op.seq]
         /\ h = op.host /\ id = op.seq =>
              LET n == entry'[op.host][op.seq] IN
              /\ n.status = status /\ n.size = size
              /\ n.to = entry[op.host][op.seq].to /\ n.cut = entry[op.host][op.seq].cut
<1>1. /\ DOMAIN entry = Host /\ op.host \in Host
      /\ entry[h][id] \in Entry
  BY OpFields DEF Inv, OpInv, Types, HostTypes, EntryTypes
<1>2. entry' = [entry EXCEPT ![h] = [entry[h] EXCEPT ![id] =
         [entry[h][id] EXCEPT !.status = status, !.error = error, !.size = size]]]
  BY DEF End
<1>3. h # op.host => entry'[op.host] = entry[op.host]
  BY <1>1, <1>2
<1>4. h = op.host => entry'[h] = [entry[h] EXCEPT ![id] =
         [entry[h][id] EXCEPT !.status = status, !.error = error, !.size = size]]
  BY <1>1, <1>2
<1>5. PICK n : n = [entry[h][id] EXCEPT !.status = status, !.error = error, !.size = size]
  OBVIOUS
<1>6. n.status = status /\ n.size = size /\ n.to = entry[h][id].to /\ n.cut = entry[h][id].cut
  BY <1>1, <1>5 DEF Entry
<1>7. CASE h # op.host
  BY <1>3, <1>7
<1>8. CASE h = op.host
  <2>1. entry'[h] = [entry[h] EXCEPT ![id] = n]
    BY <1>4, <1>5, <1>8
  <2>2. DOMAIN entry'[h] = DOMAIN entry[h] /\ entry'[h][id] = n
    BY <2>1
  <2>3. id # op.seq => entry'[h][op.seq] = entry[h][op.seq]
    BY <2>1
  <2> QED
    BY <1>6, <1>8, <2>2, <2>3
<1> QED
  BY <1>7, <1>8

\* A step of a host leaves the row's resize uncut, and only its end reports sizes.
LEMMA HostUncut ==
  ASSUME Inv, Past, Uncut, UNCHANGED op, NEW h \in Host,
         HostStep(h) \/ \E o \in sent : o.host = h /\ Takes(o) /\ Accept(o)
  PROVE  Uncut'
<1> SUFFICES ASSUME op # NoOp, op.seq \in DOMAIN entry'[op.host]
             PROVE  /\ op.kind = "resize" => /\ ~entry'[op.host][op.seq].cut
                                             /\ entry'[op.host][op.seq].status # "cancelled"
                                             /\ entry'[op.host][op.seq].to = op.to
                    /\ entry'[op.host][op.seq].size # NoSize =>
                         op.kind = "resize" /\ entry'[op.host][op.seq].status # "running"
  BY DEF Uncut, Held
<1> DEFINE e == entry[op.host][op.seq]
           n == entry'[op.host][op.seq]
           Goal == /\ op.kind = "resize" => ~n.cut /\ n.status # "cancelled" /\ n.to = op.to
                   /\ n.size # NoSize => op.kind = "resize" /\ n.status # "running"
<1>1. Held(op.host, op.seq) =>
        /\ op.kind = "resize" => ~e.cut /\ e.status # "cancelled" /\ e.to = op.to
        /\ e.size # NoSize => op.kind = "resize" /\ e.status # "running"
        /\ e.kind = op.kind
  BY OwnEntry DEF Uncut, Inv, OpInv
<1>2. op.kind = "resize" => op.seq \notin cancels
  BY DEF Past
<1>3. ASSUME \/ \E o \in sent : o.host = h /\ Takes(o) /\ Accept(o)
             \/ \E id \in DOMAIN entry[h] : Cancels(h, id) \/ Collects(h, id) \/ WorkBegins(h, id)
      PROVE  Goal
  <2>1. CASE Held(op.host, op.seq)
    <3>1. Stays(n, e)
      BY <1>3, <2>1, OwnStays
    <3> QED
      BY <1>1, <1>2, <2>1, <3>1 DEF Stays
  <2>2. CASE ~Held(op.host, op.seq)
    <3>1. ~n.cut /\ n.status = "running" /\ n.size = NoSize /\ n.to = op.to
      BY <1>3, <2>2, OwnStays
    <3> QED
      BY <3>1
  <2> QED
    BY <2>1, <2>2
<1>4. ASSUME entry'[op.host] = entry[op.host] PROVE Goal
  BY <1>1, <1>4 DEF Held
<1>5. ASSUME NEW id \in DOMAIN entry[h], WorkDone(h, id) \/ WorkFails(h, id) \/ WorkCancelled(h, id)
      PROVE  Goal
  <2>1. PICK status, error, size : Working(h, id) /\ End(h, id, status, error, size)
    BY <1>5 DEF WorkDone, WorkFails, WorkCancelled
  <2>2. op.seq \in DOMAIN entry[op.host]
    BY <2>1, OwnEnds
  <2>3. CASE ~(h = op.host /\ id = op.seq)
    <3>1. n = e
      BY <2>1, <2>3, OwnEnds
    <3> QED
      BY <1>1, <2>2, <3>1 DEF Held
  <2>4. CASE h = op.host /\ id = op.seq
    <3>1. n.status # "running" /\ (n.size # NoSize => e.kind = "resize")
          /\ n.to = e.to /\ n.cut = e.cut /\ (n.status = "cancelled" => e.cut)
      <4>1. CASE WorkDone(h, id)
        <5>1. PICK z : z = (IF e.kind = "resize" THEN e.to ELSE NoSize) /\ End(h, id, "done", None, z)
          BY <2>4, <4>1 DEF WorkDone
        <5>2. n.status = "done" /\ n.size = z /\ n.to = e.to /\ n.cut = e.cut
          BY <2>1, <2>4, <5>1, OwnEnds
        <5> QED
          BY <5>1, <5>2
      <4>2. CASE WorkFails(h, id)
        <5>1. PICK error1, z : End(h, id, "failed", error1, z) /\ (z # NoSize => e.kind = "resize")
          BY <2>4, <4>2 DEF WorkFails
        <5>2. n.status = "failed" /\ n.size = z /\ n.to = e.to /\ n.cut = e.cut
          BY <2>1, <2>4, <5>1, OwnEnds
        <5> QED
          BY <5>1, <5>2
      <4>3. CASE WorkCancelled(h, id)
        <5>1. e.cut
          BY <2>4, <4>3 DEF WorkCancelled
        <5>2. n.status = "cancelled" /\ n.size = NoSize
          <6>1. PICK s, r, z : End(h, id, s, r, z) /\ s = "cancelled" /\ z = NoSize
            BY <4>3 DEF WorkCancelled
          <6>2. n.status = s /\ n.size = z
            BY <2>1, <2>4, <6>1, OwnEnds
          <6> QED
            BY <6>1, <6>2
        <5>3. n.to = e.to /\ n.cut = e.cut
          BY <2>1, <2>4, <5>1, OwnEnds
        <5> QED
          BY <5>1, <5>2, <5>3
      <4> QED
        BY <1>5, <4>1, <4>2, <4>3
    <3> QED
      BY <1>1, <2>2, <3>1 DEF Held
  <2> QED
    BY <2>3, <2>4
<1>6. CASE Reboot(h)
  <2>1. op.host \in Host /\ DOMAIN entry = Host
    BY OpFields DEF Inv, OpInv, Types, HostTypes, EntryTypes
  <2>2. h # op.host
    BY <1>6, <2>1 DEF Reboot
  <2> QED
    BY <1>4, <1>6, <2>1, <2>2 DEF Reboot
<1>7. CASE Drifts(h)
  BY <1>4, <1>7 DEF Drifts
<1> QED
  BY <1>3, <1>4, <1>5, <1>6, <1>7 DEF HostStep, RunsLate

\* An operation's work leaves its machine at the size that is due once it ended.
LEMMA WorkFits ==
  ASSUME Inv, Alone, Past, Uncut, AsMade, SizeFits, UNCHANGED <<row, op>>, NEW h \in Host,
         NEW id \in DOMAIN entry[h], WorkDone(h, id) \/ WorkFails(h, id) \/ WorkCancelled(h, id)
  PROVE  SizeFits'
<1> USE DEF Inv
<1> SUFFICES ASSUME Exists, row.state \in Making \cup Made, vm'[row.host] # NoVM
             PROVE  vm'[row.host].size = SizeDue'
  BY DEF SizeFits, Exists
<1>1. PICK status, error, size : Working(h, id) /\ End(h, id, status, error, size)
  BY DEF WorkDone, WorkFails, WorkCancelled
<1>2. row.host = h
  <2>1. ~Quiet(h)
    BY <1>1 DEF Quiet, Working
  <2> QED
    BY <2>1 DEF Home, Clean
<1>3. op # NoOp /\ op.host = h /\ op.kind # "remove" /\ (op.kind = "make" => row.size = 1)
  <2>1. ~Quiet(h)
    BY <1>1 DEF Quiet, Working
  <2>2. op # NoOp
    BY <1>2, <2>1 DEF Rest, Making, Made, Standing, Stepping, Starting, Stopping, Pausing, Resizing,
                      JoinSent, JoinAsked
  <2>3. op.host = h /\ op.kind = StepOf(row.state)
    BY <1>2, <2>2 DEF OpInv, OpIsStep, StepOf, None, Making, Made, Standing, Stepping, Starting, Stopping,
                      Pausing, Resizing, JoinSent, JoinAsked
  <2>4. op.kind # "remove" /\ (op.kind = "make" => row.state \in Making)
    BY <2>3 DEF StepOf, None, Making, Made, Standing, Stepping, Starting, Stopping, Pausing, Resizing,
                JoinSent, JoinAsked
  <2> QED
    BY <2>2, <2>3, <2>4 DEF AsMade
<1>4. id = op.seq
  BY <1>1, <1>3 DEF Alone, Working
<1> DEFINE e == entry[h][id]
           v == vm[h]
           w == vm'[h]
<1>5. /\ e.kind = op.kind /\ e.to \in Nat /\ e.kind \in Kind /\ e.status = "running"
      /\ v \in VM /\ vm \in [Host -> VM]
  BY <1>1, <1>3, <1>4, OwnEntry DEF OpInv, Types, HostTypes, EntryTypes, Entry, Working, Running, Held
<1>6. /\ e.size = NoSize
      /\ op.kind = "resize" => ~e.cut /\ e.to # NoSize
  BY <1>3, <1>4, <1>5 DEF Uncut, Held, Past
<1>7. v # NoVM => v.size = row.size
  BY <1>2, <1>3, <1>4, <1>6 DEF SizeFits, SizeDue
<1>8. w \in CutEffects(e.kind, e.to, v) \/ (CanDo(e.kind, v) /\ w = DoneEffect(e.kind, e.to, v))
  <2>1. CASE WorkDone(h, id)
    BY <1>5, <2>1 DEF WorkDone
  <2>2. CASE WorkFails(h, id) /\ CanDo(e.kind, v)
    BY <1>5, <2>2 DEF WorkFails
  <2>3. CASE WorkFails(h, id) /\ ~CanDo(e.kind, v)
    BY <2>3 DEF WorkFails, CutEffects
  <2>4. CASE WorkCancelled(h, id)
    BY <1>5, <2>4 DEF WorkCancelled
  <2> QED
    BY <2>1, <2>2, <2>3, <2>4
<1>9. /\ e.kind # "make" /\ w # NoVM => v # NoVM
      /\ e.kind \notin {"make", "resize"} => w.size = v.size
      /\ e.kind = "make" => w = v \/ w.size = 1
      /\ e.kind = "resize" => w.size = v.size \/ (w.size = e.to /\ CanDo(e.kind, v))
  BY <1>3, <1>5, <1>8, EffectSizes
<1>10. \A z : (\E s, r : End(h, id, s, r, z)) => SizeDue' = IF z # NoSize THEN z ELSE row.size
  <2> SUFFICES ASSUME NEW z, NEW s, NEW r, End(h, id, s, r, z)
               PROVE  SizeDue' = IF z # NoSize THEN z ELSE row.size
    OBVIOUS
  <2>1. op.seq \in DOMAIN entry'[op.host] /\ entry'[op.host][op.seq].size = z
    BY <1>1, <1>3, <1>4, OwnEnds
  <2> QED
    BY <1>3, <2>1 DEF SizeDue, Held
<1>11. CASE e.kind # "resize"
  <2>1. w.size = row.size
    BY <1>2, <1>3, <1>5, <1>7, <1>9, <1>11
  <2>2. \E s, r : End(h, id, s, r, NoSize)
    <3>1. CASE WorkDone(h, id)
      BY <1>11, <3>1 DEF WorkDone
    <3>2. CASE WorkFails(h, id)
      BY <1>11, <3>2 DEF WorkFails
    <3>3. CASE WorkCancelled(h, id)
      BY <3>3 DEF WorkCancelled
    <3> QED
      BY <3>1, <3>2, <3>3
  <2> QED
    BY <1>2, <1>10, <2>1, <2>2
<1>12. CASE e.kind = "resize"
  <2>1. CASE WorkDone(h, id)
    <3>1. End(h, id, "done", None, e.to) /\ w = [v EXCEPT !.size = e.to]
      BY <1>5, <1>12, <2>1 DEF WorkDone, DoneEffect
    <3>2. w.size = e.to
      BY <1>5, <3>1 DEF VM
    <3> QED
      BY <1>2, <1>5, <1>6, <1>10, <1>12, <3>1, <3>2
  <2>2. CASE WorkFails(h, id) /\ CanDo(e.kind, v)
    <3>1. \E r : End(h, id, "failed", r, w.size)
      BY <1>12, <2>2 DEF WorkFails
    <3>2. SizeDue' = IF w.size # NoSize THEN w.size ELSE row.size
      BY <1>10, <3>1
    <3>3. w.size = NoSize => w.size = row.size
      BY <1>2, <1>5, <1>6, <1>7, <1>9, <1>12
    <3> QED
      BY <1>2, <3>2, <3>3
  <2>3. CASE WorkFails(h, id) /\ ~CanDo(e.kind, v)
    <3>1. \E r : End(h, id, "failed", r, NoSize)
      BY <1>12, <2>3 DEF WorkFails
    <3>2. w.size = row.size
      BY <1>2, <1>7, <1>9, <1>12, <2>3
    <3> QED
      BY <1>2, <1>10, <3>1, <3>2
  <2>4. ~WorkCancelled(h, id)
    BY <1>5, <1>6, <1>12 DEF WorkCancelled
  <2> QED
    BY <2>1, <2>2, <2>3, <2>4
<1> QED
  BY <1>11, <1>12

\* While no host restarts, a step of one keeps what is so of the sizes.
LEMMA HostMeasured ==
  ASSUME Inv, Alone, Past, Uncut, Measured, UNCHANGED <<row, op>>,
         loop' = loop \/ loop' = [at |-> "idle"], NEW h \in Host,
         HostStep(h) \/ \E o \in sent : o.host = h /\ Takes(o) /\ Accept(o), ~Reboot(h)
  PROVE  Measured'
<1> USE DEF Inv
<1> DEFINE Stay == \/ \E o \in sent : o.host = h /\ Takes(o) /\ Accept(o)
                   \/ \E id \in DOMAIN entry[h] : Cancels(h, id) \/ Collects(h, id) \/ WorkBegins(h, id)
           e == entry[op.host][op.seq]
           n == entry'[op.host][op.seq]
<1>1. \/ Stay
      \/ \E id \in DOMAIN entry[h] : WorkDone(h, id) \/ WorkFails(h, id) \/ WorkCancelled(h, id)
      \/ Drifts(h)
  BY DEF HostStep, RunsLate
<1>2. boot' = boot /\ (Stay => vm' = vm)
  BY <1>1 DEF Accept, Cancels, Collects, WorkBegins, WorkDone, WorkFails, WorkCancelled, Drifts
<1>3. ASSUME NEW id \in DOMAIN entry[h], WorkDone(h, id) \/ WorkFails(h, id) \/ WorkCancelled(h, id)
      PROVE  \E status, error, size : Working(h, id) /\ End(h, id, status, error, size) /\ seen' = seen
  BY <1>3 DEF WorkDone, WorkFails, WorkCancelled
<1>4. op # NoOp =>
        /\ Held(op.host, op.seq) => op.seq \in DOMAIN entry'[op.host]
        /\ seen'[op.host] = op.seq => seen[op.host] = op.seq \/ op.seq \in DOMAIN entry'[op.host]
  <2> SUFFICES ASSUME op # NoOp
               PROVE  /\ Held(op.host, op.seq) => op.seq \in DOMAIN entry'[op.host]
                      /\ seen'[op.host] = op.seq => seen[op.host] = op.seq \/ op.seq \in DOMAIN entry'[op.host]
    OBVIOUS
  <2>1. CASE Stay
    BY <2>1, OwnStays
  <2>2. ASSUME NEW id \in DOMAIN entry[h], WorkDone(h, id) \/ WorkFails(h, id) \/ WorkCancelled(h, id)
        PROVE  /\ Held(op.host, op.seq) => op.seq \in DOMAIN entry'[op.host]
               /\ seen' = seen
    BY <1>3, <2>2, OwnEnds DEF Held
  <2>3. CASE Drifts(h)
    BY <2>3 DEF Drifts, Held
  <2> QED
    BY <1>1, <2>1, <2>2, <2>3
<1>5. op # NoOp /\ Held(op.host, op.seq) /\ e.status # "running" => n.status = e.status /\ n.size = e.size
  <2> SUFFICES ASSUME op # NoOp, Held(op.host, op.seq), e.status # "running"
               PROVE  n.status = e.status /\ n.size = e.size
    OBVIOUS
  <2>1. CASE Stay
    BY <2>1, OwnStays DEF Stays
  <2>2. ASSUME NEW id \in DOMAIN entry[h], WorkDone(h, id) \/ WorkFails(h, id) \/ WorkCancelled(h, id)
        PROVE  n = e
    <3>1. PICK status, error, size : Working(h, id) /\ End(h, id, status, error, size)
      BY <1>3, <2>2
    <3>2. ~(h = op.host /\ id = op.seq)
      BY <3>1 DEF Working, Running
    <3> QED
      BY <3>1, <3>2, OwnEnds
  <2>3. CASE Drifts(h)
    BY <2>3 DEF Drifts
  <2> QED
    BY <1>1, <2>1, <2>2, <2>3
<1>6. Keepers'
  BY <1>2, <1>4 DEF Measured, Keepers, Held
<1>7. Hears'
  <2> SUFFICES ASSUME loop' = loop, loop.at = "heard", loop.heard # Lost
               PROVE  /\ op.seq \in DOMAIN entry'[op.host]
                      /\ n.status = loop.heard.status /\ n.size = loop.heard.size
    BY DEF Measured, Hears, Held
  <2>1. op # NoOp /\ Held(op.host, op.seq) /\ e.status = loop.heard.status /\ e.size = loop.heard.size
    BY DEF Measured, Hears, OpInv, LoopHasOp
  <2>2. loop.heard.status # "running"
    BY LoopTypes DEF OpInv, Types, Ends
  <2> QED
    BY <1>4, <1>5, <2>1, <2>2
<1>8. AsMade'
  BY DEF Measured, AsMade, Exists
<1>9. SizeFits'
  <2>1. CASE Stay
    <3>1. SizeDue' = SizeDue
      <4>1. CASE op = NoOp
        BY <4>1 DEF SizeDue
      <4>2. CASE op # NoOp /\ Held(op.host, op.seq)
        BY <2>1, <4>2, OwnStays DEF SizeDue, Stays, Held
      <4>3. CASE op # NoOp /\ ~Held(op.host, op.seq)
        BY <2>1, <4>3, OwnStays DEF SizeDue, Held
      <4> QED
        BY <4>1, <4>2, <4>3
    <3> QED
      BY <1>2, <2>1, <3>1 DEF Measured, SizeFits, Exists
  <2>2. CASE \E id \in DOMAIN entry[h] : WorkDone(h, id) \/ WorkFails(h, id) \/ WorkCancelled(h, id)
    BY <2>2, WorkFits DEF Measured
  <2>3. CASE Drifts(h)
    <3>1. SizeDue' = SizeDue
      BY <2>3 DEF Drifts, SizeDue, Held
    <3>2. vm[h] \in VM /\ vm \in [Host -> VM]
      BY DEF OpInv, Types, HostTypes
    <3>3. \A g \in Host : vm'[g] # NoVM => vm[g] # NoVM /\ vm'[g].size = vm[g].size
      BY <2>3, <3>2 DEF Drifts, VM, NoVM
    <3>4. Exists => row.host \in Host
      BY DEF OpInv, Types, ServerTypes, Exists, Row
    <3> QED
      BY <3>1, <3>3, <3>4 DEF Measured, SizeFits, Exists
  <2> QED
    BY <1>1, <2>1, <2>2, <2>3
<1> QED
  BY <1>6, <1>7, <1>8, <1>9 DEF Measured

\* A step of a host keeps the invariant of the sizes.
LEMMA HostSizes ==
  ASSUME Inv, Alone, Budget, Past, Uncut, NEW h \in Host, HostStep(h)
  PROVE  Past' /\ Uncut' /\ (Measured /\ left'["reboots"] = left["reboots"] => Measured')
<1>1. UNCHANGED <<row, op, last, loop, cancels, collects>>
  BY DEF HostStep, RunsLate, Cancels, Collects, WorkBegins, WorkDone, WorkFails, WorkCancelled,
         Reboot, Drifts, serverVars, netVars
<1>2. Past'
  BY <1>1 DEF Past
<1>3. Uncut'
  BY <1>1, HostUncut
<1>4. Reboot(h) => left'["reboots"] # left["reboots"]
  <2> SUFFICES ASSUME Reboot(h) PROVE left'["reboots"] # left["reboots"]
    OBVIOUS
  <2>1. PICK n : left' = [left EXCEPT !.reboots = @ - 1, !.drifts = n]
    BY DEF Reboot
  <2>2. "reboots" \in DOMAIN left /\ left["reboots"] \in Int
    BY DEF Budget, Bounds
  <2>3. left'["reboots"] = left["reboots"] - 1
    BY <2>1, <2>2
  <2> QED
    BY <2>2, <2>3
<1>5. ASSUME Measured, left'["reboots"] = left["reboots"] PROVE Measured'
  BY <1>1, <1>4, <1>5, HostMeasured
<1> QED
  BY <1>2, <1>3, <1>5

--------------------------------------------------------------------------------
(* Sizes: steps of the control plane. *)

\* A request, with no operation begun or ended, keeps what is so of the sizes.
LEMMA RequestMeasured ==
  ASSUME OpInv, Past, Uncut, UNCHANGED <<hostVars, op, last, cancels, collects>>,
         loop' = loop \/ loop' = [at |-> "idle"],
         \/ row' = row
         \/ Exists /\ \E e \in Event : /\ e.type \in {"ask", "resize", "delete", "refused"}
                                       /\ row' = Transition(row, e)
  PROVE  Past' /\ Uncut' /\ (Measured => Measured')
<1> USE DEF hostVars
<1>1. Exists' => /\ Exists /\ row'.host = row.host /\ row'.size = row.size
                 /\ row'.state \in Making \cup Made => row.state \in Making \cup Made
                 /\ row'.state \in Making \cup Undoing => row.state \in Making \cup Undoing
  <2>1. CASE row' = row
    BY <2>1 DEF Exists
  <2>2. CASE row' # row
    <3>1. row \in Row /\ Exists
      BY <2>2 DEF OpInv, Types, ServerTypes, Exists
    <3> QED
      BY <2>2, <3>1, RequestSizes DEF Exists
  <2> QED
    BY <2>1, <2>2
<1>2. Past'
  BY DEF Past
<1>3. Uncut'
  BY DEF Uncut, Held
<1>4. Measured => Keepers' /\ Hears'
  BY DEF Measured, Keepers, Hears, Held
<1>5. Measured => AsMade' /\ SizeFits'
  BY <1>1 DEF Measured, AsMade, SizeFits, SizeDue, Held
<1> QED
  BY <1>2, <1>3, <1>4, <1>5 DEF Measured

\* Whatever a client asks, a restart deletes, or a loop is refused or told of sizes.
LEMMA AskSizes ==
  ASSUME Inv, OpInv', Past, Uncut, Client \/ Crash \/ Refuses \/ Sizes
  PROVE  Past' /\ Uncut' /\ (Measured => Measured')
<1> USE DEF Inv
<1>1. UNCHANGED <<hostVars, cancels, collects>>
  BY DEF Client, Create, Delete, Expire, Ask, Resize, Crash, Refuses, Sizes, netVars
<1>2. ASSUME Exists, NEW e \in Event, e.type \in {"ask", "resize", "delete", "refused"},
             Advance(e, 0), loop' = loop \/ loop' = [at |-> "idle"]
      PROVE  Past' /\ Uncut' /\ (Measured => Measured')
  <2>1. UNCHANGED <<op, last>> /\ (row' = row \/ row' = Transition(row, e))
    BY <1>2, RequestAdvance
  <2> QED
    BY <1>1, <1>2, <2>1, RequestMeasured
<1>3. CASE UNCHANGED <<row, op, last>> /\ (loop' = loop \/ loop' = [at |-> "idle"])
  BY <1>1, <1>3, RequestMeasured
<1>4. CASE Create
  <2>1. /\ UNCHANGED <<op, last, loop>> /\ Exists' /\ row'.state = "making.due" /\ row'.size = 1
        /\ ~Exists \/ row.state = "undone"
    BY <1>4 DEF Create, Exists, Gone
  <2>2. row'.host \in Host
    BY <2>1 DEF OpInv, Types, ServerTypes, Exists, Row
  <2>3. Past' /\ Uncut' /\ (Measured => Keepers' /\ Hears')
    BY <1>1, <2>1 DEF Past, Uncut, Held, Measured, Keepers, Hears, hostVars
  <2>4. AsMade'
    BY <2>1 DEF AsMade
  <2>5. SizeFits'
    BY <1>1, <2>1, <2>2 DEF SizeFits, Home, Clean, hostVars
  <2> QED
    BY <2>3, <2>4, <2>5 DEF Measured
<1>5. CASE Expire
  <2>1. UNCHANGED <<op, last, loop>> /\ row' = Gone
    BY <1>5 DEF Expire
  <2>2. Past' /\ Uncut' /\ (Measured => Keepers' /\ Hears')
    BY <1>1, <2>1 DEF Past, Uncut, Held, Measured, Keepers, Hears, hostVars
  <2> QED
    BY <2>1, <2>2 DEF Measured, AsMade, SizeFits, Exists
<1>6. CASE Delete
  <2>1. [type |-> "delete"] \in Event
    BY DEF Event
  <2> QED
    BY <1>2, <1>6, <2>1 DEF Delete
<1>7. ASSUME NEW wish \in Wish, Ask(wish) PROVE Past' /\ Uncut' /\ (Measured => Measured')
  <2>1. [type |-> "ask", desired |-> wish] \in Event
    BY DEF Event
  <2> QED
    BY <1>2, <1>7, <2>1 DEF Ask
<1>8. ASSUME NEW to \in Sizings, Resize(to) PROVE Past' /\ Uncut' /\ (Measured => Measured')
  <2>1. [type |-> "resize", sizing |-> to] \in Event
    BY ConstantsAssumption DEF Event
  <2> QED
    BY <1>2, <1>8, <2>1 DEF Resize
<1>9. CASE Crash
  <2>1. [type |-> "delete"] \in Event
    BY DEF Event
  <2> QED
    BY <1>2, <1>3, <1>9, <2>1 DEF Crash
<1>10. CASE Refuses
  <2>1. [type |-> "refused"] \in Event
    BY DEF Event
  <2> QED
    BY <1>2, <1>3, <1>10, <2>1 DEF Refuses
<1>11. CASE Sizes
  <2>1. loop.host \in Host /\ loop.at = "sizing"
    BY <1>11, LoopTypes DEF Sizes, OpInv, Types
  <2>2. [type |-> "sized", sizing |-> vm[loop.host].size] \in Event
    BY <2>1 DEF OpInv, Types, Event, HostTypes, VM
  <2>3. UNCHANGED <<op, last>>
    BY <1>11, <2>2, RequestAdvance DEF Sizes
  <2>4. Past' /\ Uncut'
    BY <1>1, <2>3 DEF Past, Uncut, Held, hostVars
  <2>5. ~Measured
    BY <2>1 DEF Measured, Hears
  <2> QED
    BY <2>4, <2>5
<1> QED
  BY <1>4, <1>5, <1>6, <1>7, <1>8, <1>9, <1>10, <1>11 DEF Client, Wish

\* A turn that writes nothing keeps it, with what it heard being so.
LEMMA TurnMeasured ==
  ASSUME Inv, Past, Uncut, UNCHANGED <<hostVars, row, op, last, collects>>,
         cancels' = cancels \/ (op # NoOp /\ op.kind # "resize" /\ cancels' = cancels \cup {op.seq}),
         Measured => Hears'
  PROVE  Past' /\ Uncut' /\ (Measured => Measured')
<1> USE DEF hostVars
<1>1. op # NoOp => op.seq = last /\ last \in Nat
  BY DEF Inv, Numbers, OpInv, Types, ServerTypes
<1>2. Past'
  BY <1>1 DEF Past
<1>3. Uncut'
  BY DEF Uncut, Held
<1>4. Measured => Keepers' /\ AsMade' /\ SizeFits'
  BY DEF Measured, Keepers, AsMade, SizeFits, SizeDue, Held, Exists
<1> QED
  BY <1>2, <1>3, <1>4 DEF Measured

\* A turn that only reads, asks or sends.  A host that did not restart never says
\* that it does not hold the row's step once it took it.
LEMMA PollSizes ==
  ASSUME Inv, Past, Uncut,
         LookBegins \/ Sees \/ SeesNothing \/ GivesUp \/ SizesNothing \/ PollBegins \/ Waits \/ Sends
  PROVE  Past' /\ Uncut' /\ (Measured => Measured')
<1> USE DEF Inv
<1>1. UNCHANGED <<hostVars, row, op, last, collects>>
  BY DEF LookBegins, Sees, SeesNothing, GivesUp, SizesNothing, PollBegins, Waits, Sends, netVars
<1>2. cancels' = cancels \/ (op # NoOp /\ op.kind # "resize" /\ cancels' = cancels \cup {op.seq})
  <2>1. CASE PollBegins
    BY <2>1 DEF PollBegins, Wants
  <2> QED
    BY <2>1 DEF LookBegins, Sees, SeesNothing, GivesUp, SizesNothing, Waits, Sends, netVars
<1>3. ASSUME Measured PROVE Hears'
  <2>1. CASE Waits
    <3>1. op # NoOp /\ loop.op = op /\ Keepers /\ op.host \in Host
      BY <1>3, <2>1, OpFields DEF Waits, OpInv, LoopHasOp, Measured
    <3>2. CASE ~Held(op.host, op.seq)
      <4>1. op.kind = "make" /\ loop' = Heard(Lost)
        BY <2>1, <3>1, <3>2 DEF Waits, Keepers
      <4> QED
        BY <1>1, <4>1 DEF Hears, Heard
    <3>3. CASE Held(op.host, op.seq)
      <4> DEFINE report == entry[op.host][op.seq]
                 h == [status |-> report.status, error |-> report.error, size |-> report.size]
      <4>1. loop' = [at |-> "idle"] \/ loop' = Heard(h)
        BY <2>1, <3>1, <3>3 DEF Waits
      <4>2. report.status # "lost"
        BY <3>1, <3>3 DEF OpInv, Types, HostTypes, EntryTypes, Entry, Held
      <4>3. h # Lost /\ h.status = report.status /\ h.size = report.size
        BY <4>2 DEF Lost
      <4> HIDE DEF h
      <4> QED
        BY <1>1, <3>3, <4>1, <4>3 DEF Hears, Heard, Held, hostVars
    <3> QED
      BY <3>2, <3>3
  <2>2. CASE Sends
    <3>1. loop'.at = "sending"
      BY <2>2 DEF Sends, OpInv, Types, Loop
    <3> QED
      BY <3>1 DEF Hears
  <2>3. CASE ~Waits /\ ~Sends
    BY <2>3 DEF LookBegins, Sees, SeesNothing, GivesUp, SizesNothing, PollBegins, Hears
  <2> QED
    BY <2>1, <2>2, <2>3
<1> QED
  BY <1>1, <1>2, <1>3, TurnMeasured

\* A host that did not restart takes the row's step, or holds it.
LEMMA RunsSizes ==
  ASSUME Inv, Past, Uncut, Alone, Runs PROVE Past' /\ Uncut' /\ (Measured => Measured')
<1> USE DEF Inv
<1>1. UNCHANGED <<row, op, last, sent, cancels, collects>> /\ op # NoOp /\ loop.op = op /\ op \in sent
  BY DEF Runs, OpInv, LoopHasOp, Numbers, netVars
<1>2. op.host \in Host
  BY <1>1, OpFields DEF OpInv
<1>3. CASE Takes(op)
  <2>1. Accept(op) /\ loop' = [at |-> "idle"]
    BY <1>1, <1>3 DEF Runs
  <2>2. Past'
    BY <1>1 DEF Past
  <2>3. Uncut'
    BY <1>1, <1>2, <1>3, <2>1, HostUncut
  <2>4. ~Reboot(op.host)
    <3>1. boot' = boot /\ boot[op.host] \in Nat
      BY <1>2, <2>1 DEF Accept, OpInv, Types, HostTypes
    <3>2. DOMAIN boot = Host
      BY DEF OpInv, Types, HostTypes
    <3>3. Reboot(op.host) => boot'[op.host] = boot[op.host] + 1
      BY <1>2, <3>2 DEF Reboot
    <3> QED
      BY <3>1, <3>3
  <2>5. Measured => Measured'
    BY <1>1, <1>2, <1>3, <2>1, <2>4, HostMeasured
  <2> QED
    BY <2>2, <2>3, <2>5
<1>4. CASE ~Takes(op)
  <2>1. UNCHANGED hostVars /\ (Held(op.host, op.seq) => loop' = [at |-> "idle"])
    BY <1>1, <1>4 DEF Runs
  <2>2. Measured => Held(op.host, op.seq)
    <3> SUFFICES ASSUME Keepers, ~Held(op.host, op.seq) PROVE Takes(op)
      BY <1>4 DEF Measured
    <3>1. op.boot = boot[op.host] /\ seen[op.host] # op.seq
      BY <1>1 DEF Keepers
    <3>2. seen[op.host] <= op.seq /\ seen[op.host] \in Nat /\ op.seq \in Nat
      BY <1>1, <1>2, OpFields DEF Numbers, Hosts, Entries, OpInv, Types, HostTypes
    <3> QED
      BY <3>1, <3>2 DEF Takes
  <2>3. Measured => Hears'
    BY <2>1, <2>2 DEF Hears
  <2> QED
    BY <1>1, <2>1, <2>3, TurnMeasured
<1> QED
  BY <1>3, <1>4

\* What a read decides resizes nothing, and sends a resize only to a size that is owed.
LEMMA LooksSizes ==
  ASSUME Inv, OpInv', Past, Uncut, NEW joins \in BOOLEAN, Looks(joins)
  PROVE  Past' /\ Uncut' /\ (Measured => Measured')
<1> USE DEF Inv
<1> DEFINE e == [type |-> "read", seen |-> loop.saw, joins |-> joins, awaiting |-> FALSE]
           b == boot[loop.host]
<1>1. /\ UNCHANGED <<hostVars, cancels, collects>> /\ loop'.at = "idle"
      /\ Exists /\ row.host = loop.host /\ op = NoOp /\ row \in Row
      /\ loop.at = "reading"
  BY DEF Looks, netVars, Look, OpInv, Types, ServerTypes, Exists
<1>2. loop.host \in Host /\ e \in Event /\ last \in Nat
  <2>1. loop.saw \in Seens /\ loop.host \in Host
    BY LoopTypes DEF Looks, OpInv, Types
  <2> QED
    BY <2>1 DEF Event, OpInv, Types, ServerTypes
<1>3. e.type = "read" /\ Advance(e, b)
  BY <1>1 DEF Looks
<1> HIDE DEF e
<1>4. StepOf(row.state) = None
  BY <1>1 DEF OpInv, OpIsStep
<1>5. PICK t : t = Transition(row, e)
  OBVIOUS
<1>6. row' = t /\ t # Gone /\ t.host = row.host
  BY <1>1, <1>2, <1>3, <1>4, <1>5, ReadSteps DEF Advance, Throws
<1>7. /\ t.size = row.size
      /\ t.state \in Making \cup Made => row.state \in Making \cup Made
      /\ t.state \in Making \cup Undoing => row.state \in Making \cup Undoing
      /\ StepOf(t.state) = "resize" => row.resize # NoSize
  BY <1>1, <1>2, <1>3, <1>4, <1>5, ReadSizes
<1>8. /\ op' # NoOp => /\ op'.seq = last + 1 /\ op'.host = row.host /\ op'.boot = b
                       /\ op'.kind = "resize" => op'.to # NoSize
                       /\ last' = last + 1
      /\ op' = NoOp => last' \in {last, last + 1}
  <2>1. CASE Begins(row, e, op)
    <3>1. op' = [seq |-> last + 1, kind |-> StepOf(t.state), host |-> row.host, boot |-> b, to |-> row.resize]
          /\ last' = last + 1
      BY <1>3, <1>6, <2>1 DEF Advance
    <3> QED
      BY <1>7, <3>1
  <2>2. CASE ~Begins(row, e, op)
    BY <1>1, <1>3, <2>2 DEF Advance
  <2> QED
    BY <2>1, <2>2
<1>9. \A id \in DOMAIN entry[row.host] : id \in Nat /\ id <= last
  BY <1>1, <1>2 DEF Hosts, Entries, OpInv, Types, HostTypes, EntryTypes
<1>10. op' # NoOp => op'.seq \notin DOMAIN entry'[op'.host] /\ seen[row.host] # op'.seq
  <2>1. seen[row.host] \in Nat /\ seen[row.host] <= last
    BY <1>1, <1>2 DEF Hosts, Entries, OpInv, Types, HostTypes
  <2> QED
    BY <1>1, <1>2, <1>8, <1>9, <2>1 DEF Held, hostVars
<1>11. Past'
  <2>1. \A id \in collects \cup cancels : id <= last /\ id \in Nat
    BY DEF Past, OpInv, Types, NetTypes
  <2> QED
    BY <1>1, <1>2, <1>8, <2>1 DEF Past
<1>12. Uncut'
  BY <1>10 DEF Uncut, Held
<1>13. Keepers'
  BY <1>1, <1>8, <1>10 DEF Keepers, hostVars
<1>14. Hears'
  BY <1>1 DEF Hears
<1>15. Measured => AsMade'
  BY <1>1, <1>6, <1>7 DEF Measured, AsMade
<1>16. Measured => SizeFits'
  <2>1. SizeDue' = row'.size /\ SizeDue = row.size
    BY <1>1, <1>10 DEF SizeDue, Held
  <2> QED
    BY <1>1, <1>6, <1>7, <2>1 DEF Measured, SizeFits, hostVars
<1> QED
  BY <1>11, <1>12, <1>13, <1>14, <1>15, <1>16 DEF Measured

\* The row takes the sizes its own step ended with.
LEMMA FollowsSizes ==
  ASSUME Inv, Inv', Past, Uncut, Follows
  PROVE  Past' /\ Uncut' /\ (Measured => Measured')
<1> USE DEF Inv
<1>1. /\ UNCHANGED <<hostVars, cancels>> /\ loop.at = "heard" /\ collects' = collects \cup {op.seq}
      /\ Exists /\ loop.op = op /\ op # NoOp /\ row \in Row
      /\ loop'.at = IF loop.heard = Lost /\ op.kind = "resize" THEN "sizing" ELSE "idle"
  BY DEF Follows, OpInv, LoopHasOp, Types, ServerTypes, Exists
<1>2. PICK move \in Moves : Advance(EventOf(loop.heard, move), 0)
  BY DEF Follows
<1>3. PICK e : e = EventOf(loop.heard, move)
  OBVIOUS
<1>4. loop.heard \in Ends \cup {Lost}
  BY <1>1, LoopTypes DEF OpInv, Types
<1>5. /\ e \in Event /\ e.type \in {"reported", "lost"}
      /\ e.type = "reported" => /\ loop.heard # Lost
                                /\ e.status = loop.heard.status /\ e.size = loop.heard.size
      /\ e.type = "lost" => loop.heard = Lost
  <2>1. e \in Event
    BY <1>1, <1>3, <1>4, HeardTypes DEF OpInv, Types
  <2> QED
    BY <1>3, <1>4, <2>1 DEF EventOf, Ends, Lost
<1>6. StepOf(row.state) # None /\ StepOf(row.state) \in {"any", op.kind} /\ op.host = row.host
  BY <1>1 DEF OpInv, OpIsStep
<1>7. PICK t : t = Transition(row, e)
  OBVIOUS
<1>8. t # row /\ StepOf(t.state) = None
  BY <1>1, <1>5, <1>6, <1>7, EndSteps
<1>9. row' = t /\ op' = NoOp /\ last' = last
  <2>1. ~Throws(row, e, op) /\ ~Begins(row, e, op) /\ Finishes(row, e, op)
    BY <1>1, <1>7, <1>8 DEF Throws, Begins, Finishes
  <2> QED
    BY <1>2, <1>3, <1>7, <2>1 DEF Advance
<1>10. Past' /\ Uncut'
  <2>1. op.seq = last /\ last \in Nat
    BY <1>1 DEF Numbers, OpInv, Types, ServerTypes
  <2> QED
    BY <1>1, <1>9, <2>1 DEF Past, Uncut
<1>11. ASSUME Measured PROVE Measured'
  <2> USE <1>11 DEF Measured
  <2>1. Keepers'
    BY <1>9 DEF Keepers
  <2>2. Hears'
    BY <1>1 DEF Hears
  <2>3. t # Gone =>
          /\ t.state \in Made => /\ row.state \in {"making.sent"} \cup Stepping
                                 /\ e.type = "reported" =>
                                      \/ t.size = IF e.size = NoSize THEN row.size ELSE e.size
                                      \/ row.state \in {JoinSent, JoinAsked} /\ t.size = row.size
                                 /\ e.type = "lost" => row.state \in Stepping
          /\ t.state \in Making => /\ e.type = "reported" /\ e.status = "done"
                                   /\ row.state = "undoing.sent" /\ t.size = row.size
          /\ t.state \in Undoing => \/ t.size = row.size /\ row.state \in {"undoing.sent", "making.sent"}
                                    \/ e.type = "reported" /\ row.state = "making.sent" /\ t.size = e.size
                                         /\ e.size # NoSize
    BY <1>1, <1>5, <1>6, <1>7, EndSizes
  <2>4. e.type = "reported" =>
          /\ Held(op.host, op.seq) /\ entry[op.host][op.seq].size = e.size
          /\ e.size # NoSize => op.kind = "resize"
    <3>1. e.type = "reported" => Held(op.host, op.seq) /\ entry[op.host][op.seq].size = e.size
      BY <1>1, <1>5 DEF Hears
    <3> QED
      BY <1>1, <3>1 DEF Uncut
  <2>5. /\ row.state = "making.sent" => op.kind = "make"
        /\ row.state = "undoing.sent" => op.kind = "remove"
        /\ row.state \in {JoinSent, JoinAsked} => op.kind = "join"
        /\ row.state \in Stepping => op.kind # "make"
    BY <1>6 DEF StepOf, None, Stepping, Starting, Stopping, Pausing, Resizing, JoinSent, JoinAsked
  <2>6. AsMade'
    <3> SUFFICES ASSUME t # Gone, t.state \in Making \cup Undoing PROVE t.size = 1
      BY <1>9 DEF AsMade, Exists
    <3>1. t.size = row.size /\ row.state \in Making \cup Undoing
      BY <2>3, <2>4, <2>5 DEF Making, Undoing
    <3> QED
      BY <1>1, <3>1 DEF AsMade
  <2>7. SizeFits'
    <3> SUFFICES ASSUME t # Gone, t.state \in Making \cup Made, vm[t.host] # NoVM
                 PROVE  vm[t.host].size = t.size
      BY <1>1, <1>9 DEF SizeFits, SizeDue, Exists, hostVars
    <3>1. CASE t.state \in Made
      <4>1. t.host = row.host
        BY <1>1, <1>5, <1>6, <1>7, <3>1, EndSettles
      <4>2. row.state \in Making \cup Made
        BY <2>3, <3>1 DEF Making, Made
      <4>3. vm[row.host].size = SizeDue
        BY <1>1, <4>1, <4>2 DEF SizeFits
      <4>4. e.type = "reported"
        BY <1>1, <1>5, <2>3, <2>5, <3>1 DEF Hears
      <4>5. SizeDue = IF e.size # NoSize THEN e.size ELSE row.size
        BY <1>1, <2>4, <4>4 DEF SizeDue
      <4> QED
        BY <2>3, <2>4, <2>5, <3>1, <4>1, <4>3, <4>4, <4>5
    <3>2. CASE t.state \in Making
      <4>1. loop.heard.status = "done" /\ op.kind = "remove"
        BY <1>5, <2>3, <2>5, <3>2
      <4>2. vm[row.host] = NoVM
        BY <1>1, <1>6, <4>1 DEF HeardTrue
      <4>3. t \in Row
        BY <1>9 DEF OpInv, Types, ServerTypes
      <4> QED
        BY <1>1, <4>2, <4>3 DEF Home, Clean, Row
    <3> QED
      BY <3>1, <3>2
  <2> QED
    BY <2>1, <2>2, <2>6, <2>7
<1> QED
  BY <1>10, <1>11

--------------------------------------------------------------------------------
(* Sizes: the theorem. *)

LEMMA SizesInit == Init => SizesInv
<1> SUFFICES ASSUME Init PROVE SizesInv
  OBVIOUS
<1>1. ~Exists /\ op = NoOp /\ loop.at = "idle" /\ cancels = {} /\ collects = {}
  BY DEF Init, Exists
<1> QED
  BY <1>1 DEF SizesInv, Past, Uncut, Measured, Keepers, Hears, AsMade, SizeFits

LEMMA SizesStep ==
  Inv /\ Inv' /\ SettledInv /\ SizesInv /\ [Next]_vars => SizesInv'
<1> SUFFICES ASSUME Inv, Inv', SettledInv, SizesInv, [Next]_vars PROVE SizesInv'
  OBVIOUS
<1>1. Unrestarted' => Unrestarted /\ left'["reboots"] = left["reboots"]
  BY BudgetSteps DEF SettledInv
<1>2. SUFFICES Past' /\ Uncut' /\ (Measured /\ left'["reboots"] = left["reboots"] => Measured')
  BY <1>1 DEF SizesInv
<1>3. OpInv /\ OpInv' /\ Alone /\ Budget /\ Past /\ Uncut
  BY DEF Inv, SettledInv, SizesInv
<1>4. CASE UNCHANGED vars
  BY <1>3, <1>4, RequestMeasured DEF vars, hostVars, netVars, serverVars
<1>5. CASE Client \/ Crash
  BY <1>3, <1>5, AskSizes
<1>6. CASE Turn
  BY <1>3, <1>6, AskSizes, PollSizes, RunsSizes, LooksSizes, FollowsSizes DEF Turn
<1>7. ASSUME NEW h \in Host, HostStep(h) PROVE <1>2!1
  BY <1>3, <1>7, HostSizes
<1> QED
  BY <1>4, <1>5, <1>6, <1>7 DEF Next

\* Until a host first restarts, a row at rest with no resize owed shows the sizes its
\* VM has (machine-chart.ts, reportedSizing): whatever resizes are asked while another
\* runs, fail halfway, or answer late, and whatever restarts the control plane does.
THEOREM SizesAreTrue == Spec => [](Unrestarted => SizesTrue)
<1>1. Inv /\ SizesInv => (Unrestarted => SizesTrue)
  <2> SUFFICES ASSUME Inv, SizesInv, Unrestarted, Exists,
                      row.state \in {"made.settled", "made.failed"}, vm[row.host] # NoVM
               PROVE  row.size = vm[row.host].size
    BY DEF SizesTrue
  <2>1. op = NoOp
    BY DEF Inv, OpInv, OpIsStep, StepOf, Starting, Stopping, Pausing, Resizing, JoinSent, JoinAsked
  <2> QED
    BY <2>1 DEF SizesInv, Measured, SizeFits, SizeDue, Made, Standing
<1> QED
  BY <1>1, InvInit, InvStep, SettledInit, SettledStep, SizesInit, SizesStep, PTL DEF Spec
================================================================================
