-------------------------------- MODULE BuildsProofs --------------------------------
(***************************************************************************)
(* Proofs about Builds that hold however many builds a template has, keeps *)
(* and loses: what the store names it has, nothing stays in it of a build  *)
(* that is gone, and a ready build has its own copy for as long as it is   *)
(* ready.                                                                  *)
(***************************************************************************)
EXTENDS Builds, TLAPS

--------------------------------------------------------------------------------
(* The types. *)

\* What a copy may be published as.
Names == {K!None} \cup {NameOf(c) : c \in Copies}

Rows == [state : K!Leaf, error : {K!None, "Internal"}, published : Names, machine : {"builder"}, build : Nat]

Kinds == {"capture", "publish", "fetch", "deleteCheckpoint"}

Ops == [kind : Kinds, leases : SUBSET [on : {K!BuildStore, "builder"} \cup Names, mode : {"own", "share"}],
        at : {"begun", "running", "done", "failed", "cleared", "lost"}, objects : SUBSET (0..MaxBuilds)]

BuildRows == [number : Nat, id : Ids, phase : {"building", "ready", "failed"}]

Runs == [at : {"idle", "making", "capturing", "publishing"}] \cup [at : {"tidying"}, recorded : SUBSET Copies]

Copiers == {Idle} \cup [at : {"reading"}, ready : SUBSET Nat]
                  \cup [at : {"fetching"}, due : SUBSET [from : Ids, number : Nat]]

Types ==
  /\ template \subseteq BuildRows
  /\ last \in Nat /\ ids \in 0..MaxBuilds
  /\ run \in [Ids -> Runs]
  /\ copy \in [Copies -> Rows \cup {Gone}]
  /\ op \in [Copies -> Ops \cup {NoOp}]
  /\ copier \in Copiers
  /\ remover \in {Idle} \cup [at : {"tidying"}, recorded : SUBSET Copies]
  /\ store \in [manifests : SUBSET Ids, objects : SUBSET (0..MaxBuilds)]

--------------------------------------------------------------------------------
(* The copies and the store. *)

Built(id) == <<"built", id>>

\* An operation is the step of its row's leaf, or one a delete drains, and holds that
\* step's leases; a leaf with a step has its operation.
OpIsStep(c) ==
  /\ op[c] # NoOp => /\ Exists(c)
                     /\ K!StepOf(copy[c].state) \in {"any", op[c].kind}
                     /\ op[c].leases = K!LeasesOf(copy[c], NameOf(c), op[c].kind)
  /\ op[c] = NoOp /\ Exists(c) => K!StepOf(copy[c].state) = K!None

\* No operation holds a lease against another's.
Apart ==
  \A c, d \in Copies :
    c # d /\ op[c] # NoOp /\ op[d] # NoOp =>
      \A l \in op[c].leases, m \in op[d].leases : ~Conflicting(l, m)

\* A copy that was fetched was neither captured nor published here, and one that was built was
\* not fetched; it has its published name from its publish on.
Origin(c) ==
  /\ c[1] = "fetched" =>
       /\ Exists(c) => /\ copy[c].state \notin {"capturing.due", "capturing.sent", "publishing.due", "publishing.sent"}
                       /\ copy[c].published # NameOf(c)
       /\ op[c] # NoOp => op[c].kind \in {"fetch", "deleteCheckpoint"}
  /\ c[1] = "built" =>
       /\ Exists(c) => /\ copy[c].state \notin {"fetching.due", "fetching.sent"}
                       /\ copy[c].published \in {K!None, NameOf(c)}
                       /\ copy[c].state \in {"capturing.due", "capturing.sent"} => copy[c].published = K!None
                       /\ copy[c].state \in {"publishing.due", "publishing.sent"} => copy[c].published = NameOf(c)
       /\ op[c] # NoOp => /\ op[c].kind # "fetch"
                          /\ op[c].kind = "publish" => copy[c].published = NameOf(c)
                          /\ op[c].kind = "capture" => copy[c].published = K!None

\* What a copy's host has done of its step.
Progress(c) ==
  op[c] # NoOp =>
    /\ op[c].kind = "publish" /\ op[c].at = "running" => op[c].objects \subseteq store.objects
    /\ op[c].kind = "publish" /\ op[c].at = "done" => c[2] \in store.manifests
    /\ op[c].kind = "deleteCheckpoint" /\ Published(c) =>
         /\ op[c].at \in {"running", "done"} => c[2] \notin store.manifests
         /\ op[c].at = "done" => store.objects \subseteq UNION {Needs(i) : i \in store.manifests}
    /\ op[c].at = "running" => op[c].kind = "publish" \/ (op[c].kind = "deleteCheckpoint" /\ Published(c))

\* A copy that failed says so, whoever waits for it.
Says(c) == Exists(c) /\ copy[c].state \in K!Discarding \cup {"failed"} => copy[c].error # K!None

CopyOk(c) == OpIsStep(c) /\ Origin(c) /\ Progress(c) /\ Says(c)

\* A build whose copy was published, and did not go or fail since.
Alive(id) == BuiltBy(id) # Gone /\ BuiltBy(id).state # "failed" /\ Published(Built(id))

\* All that is in the store is of such builds.
Owned ==
  /\ store.manifests \subseteq {i \in Ids : Alive(i)}
  /\ store.objects \subseteq UNION {Needs(i) : i \in {j \in Ids : Alive(j)}}

StoreInv == (\A c \in Copies : CopyOk(c)) /\ Apart /\ StoreWhole /\ Owned

--------------------------------------------------------------------------------
(* The builds and their runs. *)

Lives(b) == b.phase # "failed"

\* One build runs at a time, and neither a number nor an id is used again.
Fresh ==
  /\ \A b \in template : b.number <= last /\ b.id <= ids
  /\ \A b, x \in template : /\ b.id = x.id \/ b.number = x.number => b = x
                            /\ b.phase = "building" /\ x.phase = "building" => b = x

\* A build's id and number belong together, as long as the template has either.
Pair(id, number) ==
  /\ id <= ids /\ number <= last
  /\ \A b \in template : b.id = id <=> b.number = number

Paired ==
  /\ \A c \in Copies : Exists(c) => Pair(c[2], copy[c].build)
  /\ copier.at = "fetching" => \A d \in copier.due : Pair(d.from, d.number)

\* What a build's own copy is when its run is where it is.
RunOf(id) ==
  /\ run[id].at # "idle" => id <= ids
  /\ run[id].at \in {"making", "capturing", "publishing"} =>
       \E b \in template : b.id = id /\ b.phase = "building"
  /\ run[id].at = "making" => BuiltBy(id) = Gone
  /\ run[id].at = "capturing" =>
       BuiltBy(id) # Gone /\ BuiltBy(id).state \notin {"publishing.due", "publishing.sent"}
  /\ run[id].at = "publishing" =>
       /\ BuiltBy(id) # Gone /\ BuiltBy(id).state \notin {"capturing.due", "capturing.sent"}
       /\ BuiltBy(id).state = "ready" => id \in store.manifests

\* Nothing deletes the copy of a build that lives.
Kept == \A b \in template : Lives(b) /\ BuiltBy(b.id) # Gone => BuiltBy(b.id).state \notin K!Deleting

\* A sweep that is under way has read the copy.
Swept(c) == \/ \E i \in Ids : run[i].at = "tidying" /\ c \in run[i].recorded
            \/ remover # Idle /\ c \in remover.recorded

\* The copy of a build that does not live goes, or such a sweep will see to it.
Going ==
  \A id \in Ids :
     BuiltBy(id) # Gone /\ (\A b \in template : b.id = id => ~Lives(b)) =>
       BuiltBy(id).state \in K!Deleting \/ Swept(Built(id))

BuildInv == /\ Fresh /\ Paired /\ \A id \in Ids : RunOf(id)
            /\ Kept /\ Going /\ ReadyHasCopy

Inv == Types /\ StoreInv /\ BuildInv

--------------------------------------------------------------------------------
(* Rows and their events. *)

\* A copy is of a build, which has one of its own and one that was fetched.
LEMMA CopyParts ==
  /\ \A c \in Copies : c[1] \in {"built", "fetched"} /\ c[2] \in Ids /\ (c[1] = "built" => c = Built(c[2]))
  /\ \A id \in Ids : Built(id) \in Copies /\ Built(id)[1] = "built" /\ Built(id)[2] = id
  /\ \A id \in Ids : <<"fetched", id>> \in Copies /\ <<"fetched", id>>[1] = "fetched" /\ <<"fetched", id>>[2] = id
BY DEF Copies, Built

\* No two copies have one name, and none has what stands for no name.
LEMMA NamesDiffer ==
  /\ \A c \in Copies : NameOf(c) # K!None /\ NameOf(c) # K!BuildStore
  /\ \A c, d \in Copies : NameOf(c) = NameOf(d) => c = d
BY NamesAssumption

\* The fields of a row.
LEMMA RowFields ==
  ASSUME NEW r \in Rows
  PROVE  /\ r.state \in K!Leaf /\ r.error \in {K!None, "Internal"} /\ r.machine = "builder"
         /\ r.published \in Names /\ r.build \in Nat
         /\ r # Gone
<1>1. r.state \in K!Leaf /\ r.error \in {K!None, "Internal"} /\ r.machine = "builder"
      /\ r.published \in Names /\ r.build \in Nat
  BY DEF Rows
<1>2. Gone.state \notin K!Leaf
  BY DEF Gone, K!Gone, K!Leaf, K!Due, K!Sent, K!Discarding, K!Deleting
<1> QED
  BY <1>1, <1>2

\* What a row is, apart from the leaf it is in and its error.
Same(r, t) == t \in Rows /\ t.published = r.published /\ t.build = r.build /\ t.machine = r.machine

\* A row that goes to a leaf, with an error or without, is otherwise the same.
LEMMA GoWithFields ==
  ASSUME NEW r \in Rows, NEW leaf \in K!Leaf, NEW error \in {K!None, "Internal"},
         NEW t, t = [r EXCEPT !.state = leaf, !.error = error]
  PROVE  Same(r, t) /\ t.state = leaf /\ t.error = error
BY DEF Rows, Same

LEMMA GotoFields ==
  ASSUME NEW r \in Rows, NEW leaf \in K!Leaf, NEW t, t = [r EXCEPT !.state = leaf]
  PROVE  Same(r, t) /\ t.state = leaf /\ t.error = r.error
BY DEF Rows, Same

LEMMA ErrorFields ==
  ASSUME NEW r \in Rows, NEW error \in {K!None, "Internal"}, NEW t, t = [r EXCEPT !.error = error]
  PROVE  Same(r, t) /\ t.state = r.state /\ t.error = error
BY DEF Rows, Same

\* A row that is to be published takes the name it is published as.
LEMMA PublishFields ==
  ASSUME NEW r \in Rows, NEW leaf \in K!Leaf, NEW c \in Copies,
         NEW t, t = [r EXCEPT !.state = leaf, !.published = NameOf(c)]
  PROVE  /\ t \in Rows /\ t.state = leaf /\ t.published = NameOf(c)
         /\ t.error = r.error /\ t.build = r.build /\ t.machine = r.machine
<1>1. NameOf(c) \in Names
  BY DEF Names
<1> QED
  BY <1>1 DEF Rows

\* The step of each leaf.
LEMMA StepsOf ==
  /\ K!StepOf("capturing.sent") = "capture" /\ K!StepOf("fetching.sent") = "fetch"
  /\ K!StepOf("publishing.sent") = "publish"
  /\ K!StepOf("discarding.sent") = "deleteCheckpoint" /\ K!StepOf("deleting.sent") = "deleteCheckpoint"
  /\ K!StepOf("deleting.draining") = "any"
  /\ \A leaf \in {"capturing.due", "fetching.due", "publishing.due", "ready", "failed", "discarding.due",
                  "discarding.held", "deleting.due", "deleting.held", "gone"} : K!StepOf(leaf) = K!None
  /\ K!None \notin Kinds /\ "any" \notin Kinds /\ K!None # "any"
BY DEF K!StepOf, Kinds, K!None

\* A delete of a row: it is on its way out, with the step in flight as it was.
LEMMA DeleteMoves ==
  ASSUME NEW r \in Rows, NEW t, t = K!Transition(r, [type |-> "delete"])
  PROVE  /\ t = Gone <=> r.state = "failed"
         /\ t # Gone => /\ Same(r, t) /\ t.state \in K!Deleting
                        /\ K!StepOf(r.state) = K!None => K!StepOf(t.state) = K!None
                        /\ \A k \in Kinds : K!StepOf(r.state) \in {"any", k} => K!StepOf(t.state) \in {"any", k}
<1>1. t = K!OnDelete(r)
  BY DEF K!Transition
<1>2. r.state \in K!Leaf
  BY RowFields
<1>3. \A leaf \in K!Deleting : leaf \in K!Leaf
  BY DEF K!Leaf
<1>4. Gone \notin Rows
  BY RowFields
<1>5. K!Deleting = {"deleting.draining", "deleting.due", "deleting.sent", "deleting.held"}
  BY DEF K!Deleting
<1>6. \/ t = [r EXCEPT !.state = "deleting.draining", !.error = K!None] /\ r.state \in K!Sent
      \/ /\ t = [r EXCEPT !.state = "deleting.due", !.error = K!None]
         /\ r.state \in K!Due \cup {"ready", "discarding.due", "discarding.held", "deleting.held"}
      \/ t = [r EXCEPT !.state = "deleting.sent", !.error = K!None] /\ r.state = "discarding.sent"
      \/ t = Gone /\ r.state = "failed"
      \/ /\ t = [r EXCEPT !.error = K!None]
         /\ r.state \in {"deleting.draining", "deleting.due", "deleting.sent"}
  BY <1>1, <1>2 DEF K!OnDelete, K!GoWith, Gone, K!Leaf, K!Due, K!Sent, K!Discarding, K!Deleting
<1>7. \/ Same(r, t) /\ t.state = "deleting.draining" /\ r.state \in K!Sent
      \/ /\ Same(r, t) /\ t.state = "deleting.due"
         /\ r.state \in K!Due \cup {"ready", "discarding.due", "discarding.held", "deleting.held"}
      \/ Same(r, t) /\ t.state = "deleting.sent" /\ r.state = "discarding.sent"
      \/ t = Gone /\ r.state = "failed"
      \/ /\ Same(r, t) /\ t.state = r.state
         /\ r.state \in {"deleting.draining", "deleting.due", "deleting.sent"}
  <2>1. \A leaf \in K!Deleting : t = [r EXCEPT !.state = leaf, !.error = K!None] => Same(r, t) /\ t.state = leaf
    BY <1>3, GoWithFields
  <2>2. t = [r EXCEPT !.error = K!None] => Same(r, t) /\ t.state = r.state
    BY ErrorFields
  <2> QED
    BY <1>5, <1>6, <2>1, <2>2
<1>8. CASE Same(r, t) /\ t.state = "deleting.draining" /\ r.state \in K!Sent
  BY <1>4, <1>5, <1>8, StepsOf DEF Same, K!Sent, Kinds
<1>9. CASE /\ Same(r, t) /\ t.state = "deleting.due"
           /\ r.state \in K!Due \cup {"ready", "discarding.due", "discarding.held", "deleting.held"}
  <2>1. K!StepOf(r.state) = K!None /\ r.state # "failed"
    BY <1>9, StepsOf DEF K!Due
  <2> QED
    BY <1>4, <1>5, <1>9, <2>1, StepsOf DEF Same
<1>10. CASE Same(r, t) /\ t.state = "deleting.sent" /\ r.state = "discarding.sent"
  BY <1>4, <1>5, <1>10, StepsOf DEF Same
<1>11. CASE t = Gone /\ r.state = "failed"
  BY <1>11
<1>12. CASE /\ Same(r, t) /\ t.state = r.state
            /\ r.state \in {"deleting.draining", "deleting.due", "deleting.sent"}
  BY <1>4, <1>5, <1>12 DEF Same
<1> QED
  BY <1>7, <1>8, <1>9, <1>10, <1>11, <1>12
\* A look at a row that is due begins its step.
LEMMA ReadMoves ==
  ASSUME NEW r \in Rows, NEW t, t = K!Transition(r, [type |-> "read"]),
         K!ActivityOf(r.state) \in {"read", "recheck"}
  PROVE  /\ Same(r, t) /\ t.error = r.error
         /\ \/ r.state = "capturing.due" /\ t.state = "capturing.sent"
            \/ r.state = "fetching.due" /\ t.state = "fetching.sent"
            \/ r.state = "publishing.due" /\ t.state = "publishing.sent"
            \/ r.state \in {"discarding.due", "discarding.held"} /\ t.state = "discarding.sent"
            \/ r.state \in {"deleting.due", "deleting.held"} /\ t.state = "deleting.sent"
<1>1. t = [r EXCEPT !.state = K!SentOf(r.state)]
  BY DEF K!Transition, K!OnRead, K!Goto
<1>2. r.state \in K!Leaf
  BY RowFields
<1>3. r.state \in K!Due \cup {"discarding.due", "discarding.held", "deleting.due", "deleting.held"}
  BY <1>2 DEF K!ActivityOf, K!Leaf, K!Due, K!Sent, K!Discarding, K!Deleting
<1>4. \/ r.state = "capturing.due" /\ K!SentOf(r.state) = "capturing.sent"
      \/ r.state = "fetching.due" /\ K!SentOf(r.state) = "fetching.sent"
      \/ r.state = "publishing.due" /\ K!SentOf(r.state) = "publishing.sent"
      \/ r.state \in {"discarding.due", "discarding.held"} /\ K!SentOf(r.state) = "discarding.sent"
      \/ r.state \in {"deleting.due", "deleting.held"} /\ K!SentOf(r.state) = "deleting.sent"
  BY <1>3 DEF K!SentOf, K!Due
<1>5. K!SentOf(r.state) \in K!Leaf
  BY <1>4 DEF K!Leaf, K!Sent, K!Discarding, K!Deleting
<1>6. PICK leaf \in K!Leaf : leaf = K!SentOf(r.state)
  BY <1>5
<1>7. Same(r, t) /\ t.state = leaf /\ t.error = r.error
  BY <1>1, <1>6, GotoFields
<1> QED
  BY <1>4, <1>6, <1>7

\* Only a copy at rest is published.
LEMMA PublishMoves ==
  ASSUME NEW r \in Rows, NEW c \in Copies, NEW t,
         t = K!Transition(r, [type |-> "publish", as |-> NameOf(c)])
  PROVE  IF r.state = "ready"
         THEN /\ t \in Rows /\ t.state = "publishing.due" /\ t.published = NameOf(c)
              /\ t.error = r.error /\ t.build = r.build /\ t.machine = r.machine
         ELSE t = r
<1>1. t = IF r.state = "ready" THEN [r EXCEPT !.state = "publishing.due", !.published = NameOf(c)] ELSE r
  BY DEF K!Transition, K!OnPublish
<1>2. "publishing.due" \in K!Leaf
  BY DEF K!Leaf, K!Due
<1>3. CASE r.state = "ready"
  <2>1. PICK leaf \in K!Leaf : leaf = "publishing.due"
    BY <1>2
  <2>2. t = [r EXCEPT !.state = leaf, !.published = NameOf(c)]
    BY <1>1, <1>3, <2>1
  <2>3. /\ t \in Rows /\ t.state = leaf /\ t.published = NameOf(c)
        /\ t.error = r.error /\ t.build = r.build /\ t.machine = r.machine
    <3>1. NameOf(c) \in Names
      BY DEF Names
    <3> QED
      BY <2>2, <3>1 DEF Rows
  <2> QED
    BY <1>3, <2>1, <2>3
<1>4. CASE r.state # "ready"
  BY <1>1, <1>4
<1> QED
  BY <1>3, <1>4

\* What a loop hears of its step.
Heard == [type : {"reported"}, status : {"done", "failed"}, error : {"Internal"}, cleared : BOOLEAN]
         \cup [type : {"lost"}, error : {"Internal"}]

Done(e) == e.type = "reported" /\ e.status = "done"

\* The end of a step is the row's.
LEMMA HeardMoves ==
  ASSUME NEW r \in Rows, NEW e \in Heard, NEW t, t = K!Transition(r, e),
         r.state \in K!Sent \cup {"discarding.sent", "deleting.draining", "deleting.sent"}
  PROVE  \/ t = Gone /\ r.state = "deleting.sent" /\ Done(e)
         \/ Same(r, t) /\ t.state = "ready" /\ t.error = r.error /\ r.state \in K!Sent /\ Done(e)
         \/ Same(r, t) /\ t.state = "failed" /\ t.error = "Internal"
              /\ r.state \in {"capturing.sent", "fetching.sent"}
         \/ Same(r, t) /\ t.state = "discarding.due" /\ t.error = "Internal" /\ r.state \in K!Sent
         \/ Same(r, t) /\ t.state = "failed" /\ t.error = r.error /\ r.state = "discarding.sent" /\ Done(e)
         \/ Same(r, t) /\ t.state \in {"discarding.due", "discarding.held"} /\ t.error = r.error
              /\ r.state = "discarding.sent"
         \/ Same(r, t) /\ t.state \in {"deleting.due", "deleting.held"}
              /\ r.state \in {"deleting.draining", "deleting.sent"}
<1>1. /\ e.type \in {"reported", "lost"} /\ e.error = "Internal"
      /\ e.type = "reported" => e.status \in {"done", "failed"} /\ e.cleared \in BOOLEAN
  BY DEF Heard
<1>2. {"ready", "failed", "discarding.due", "discarding.held", "deleting.due", "deleting.held"} \subseteq K!Leaf
  BY DEF K!Leaf, K!Discarding, K!Deleting
<1>3. "Internal" \in {K!None, "Internal"}
  OBVIOUS
<1>4. \A leaf \in K!Leaf : t = [r EXCEPT !.state = leaf, !.error = "Internal"] =>
        Same(r, t) /\ t.state = leaf /\ t.error = "Internal"
  <2> SUFFICES ASSUME NEW leaf \in K!Leaf, t = [r EXCEPT !.state = leaf, !.error = "Internal"]
               PROVE  Same(r, t) /\ t.state = leaf /\ t.error = "Internal"
    OBVIOUS
  <2>1. PICK error \in {K!None, "Internal"} : error = "Internal"
    BY <1>3
  <2>2. t = [r EXCEPT !.state = leaf, !.error = error]
    BY <2>1
  <2>3. Same(r, t) /\ t.state = leaf /\ t.error = error
    BY <2>2 DEF Rows, Same
  <2> QED
    BY <2>1, <2>3
<1>5. \A leaf \in K!Leaf : t = [r EXCEPT !.state = leaf] => Same(r, t) /\ t.state = leaf /\ t.error = r.error
  BY GotoFields
<1>6. CASE e.type = "reported"
  <2>1. t = K!OnReported(r, e)
    BY <1>6 DEF K!Transition
  <2>2. CASE r.state \in {"capturing.sent", "fetching.sent"}
    <3>1. \/ t = [r EXCEPT !.state = "ready"] /\ Done(e)
          \/ t = [r EXCEPT !.state = "failed", !.error = "Internal"]
          \/ t = [r EXCEPT !.state = "discarding.due", !.error = "Internal"]
      BY <1>1, <1>6, <2>1, <2>2 DEF K!OnReported, K!MakeEnded, K!Goto, K!GoWith, Done
    <3> QED
      BY <1>2, <1>4, <1>5, <2>2, <3>1 DEF K!Sent
  <2>3. CASE r.state = "publishing.sent"
    <3>1. \/ t = [r EXCEPT !.state = "ready"] /\ Done(e)
          \/ t = [r EXCEPT !.state = "discarding.due", !.error = "Internal"]
      BY <1>1, <1>6, <2>1, <2>3 DEF K!OnReported, K!PublishEnded, K!Goto, K!GoWith, Done
    <3> QED
      BY <1>2, <1>4, <1>5, <2>3, <3>1 DEF K!Sent
  <2>4. CASE r.state = "discarding.sent"
    <3>1. \/ t = [r EXCEPT !.state = "failed"] /\ Done(e)
          \/ t = [r EXCEPT !.state = "discarding.held"]
      BY <1>1, <1>6, <2>1, <2>4 DEF K!OnReported, K!Discarded, K!Goto, Done
    <3> QED
      BY <1>2, <1>4, <1>5, <2>4, <3>1
  <2>5. CASE r.state = "deleting.draining"
    <3>1. t = [r EXCEPT !.state = "deleting.due"]
      BY <2>1, <2>5 DEF K!OnReported, K!Goto
    <3> QED
      BY <1>2, <1>5, <2>5, <3>1
  <2>6. CASE r.state = "deleting.sent"
    <3>1. \/ t = Gone /\ Done(e)
          \/ t = [r EXCEPT !.state = "deleting.held", !.error = "Internal"]
      BY <1>1, <1>6, <2>1, <2>6 DEF K!OnReported, K!Deleted, K!GoWith, Done, Gone
    <3> QED
      BY <1>2, <1>4, <2>6, <3>1
  <2> QED
    BY <2>2, <2>3, <2>4, <2>5, <2>6 DEF K!Sent
<1>7. CASE e.type = "lost"
  <2>1. t = K!OnLost(r, e)
    BY <1>7 DEF K!Transition
  <2>2. \/ t = [r EXCEPT !.state = "discarding.due", !.error = "Internal"] /\ r.state \in K!Sent
        \/ t = [r EXCEPT !.state = "discarding.due"] /\ r.state = "discarding.sent"
        \/ t = [r EXCEPT !.state = "deleting.due"] /\ r.state \in {"deleting.draining", "deleting.sent"}
    BY <1>1, <2>1 DEF K!OnLost, K!Goto, K!GoWith, K!Sent
  <2> QED
    BY <1>2, <1>4, <1>5, <2>2
<1> QED
  BY <1>1, <1>6, <1>7

--------------------------------------------------------------------------------
(* What an event does to a copy and its operation. *)

\* The types of the copies, of their operations and of the store.
LEMMA TypeFacts ==
  ASSUME Types
  PROVE  /\ \A c \in Copies : copy[c] \in Rows \cup {Gone} /\ op[c] \in Ops \cup {NoOp}
         /\ \A c \in Copies : op[c] # NoOp => op[c] \in Ops /\ op[c].kind \in Kinds
         /\ \A c \in Copies : Exists(c) => copy[c] \in Rows
         /\ store.manifests \subseteq Ids /\ store.objects \subseteq 0..MaxBuilds
         /\ store = [manifests |-> store.manifests, objects |-> store.objects]
<1>1. \A c \in Copies : copy[c] \in Rows \cup {Gone} /\ op[c] \in Ops \cup {NoOp}
  BY DEF Types
<1>2. \A o \in Ops : o.kind \in Kinds
  BY DEF Ops
<1>3. /\ store.manifests \subseteq Ids /\ store.objects \subseteq 0..MaxBuilds
      /\ store = [manifests |-> store.manifests, objects |-> store.objects]
  BY DEF Types
<1> QED
  BY <1>1, <1>2, <1>3 DEF Exists

\* The leaf of an operation's row.
LEMMA LeafOfStep ==
  ASSUME NEW leaf \in K!Leaf, NEW kind \in Kinds, K!StepOf(leaf) \in {"any", kind}
  PROVE  /\ leaf \in K!Sent \cup {"discarding.sent", "deleting.draining", "deleting.sent"}
         /\ leaf = "capturing.sent" => kind = "capture"
         /\ leaf = "fetching.sent" => kind = "fetch"
         /\ leaf = "publishing.sent" => kind = "publish"
         /\ leaf \in {"discarding.sent", "deleting.sent"} => kind = "deleteCheckpoint"
         /\ kind = "capture" => leaf \in {"capturing.sent", "deleting.draining"}
         /\ kind = "fetch" => leaf \in {"fetching.sent", "deleting.draining"}
         /\ kind = "publish" => leaf \in {"publishing.sent", "deleting.draining"}
         /\ kind = "deleteCheckpoint" => leaf \in {"discarding.sent", "deleting.draining", "deleting.sent"}
BY StepsOf DEF K!Leaf, K!Due, K!Sent, K!Discarding, K!Deleting, Kinds

\* The leases of a step are of its row's name, machine and publication only.
LEMMA SameLeases ==
  ASSUME NEW r, NEW t, t.published = r.published, t.machine = r.machine, NEW name, NEW kind
  PROVE  K!LeasesOf(t, name, kind) = K!LeasesOf(r, name, kind)
BY DEF K!LeasesOf

\* A copy that no step touched is as well as it was, while the store stays.
LEMMA CopyStays ==
  ASSUME NEW c, CopyOk(c), UNCHANGED <<copy[c], op[c], store>>
  PROVE  CopyOk(c)'
BY DEF CopyOk, OpIsStep, Origin, Progress, Says, Published, Exists

\* What an event makes of a copy and its operation is written.
LEMMA AdvanceIs ==
  ASSUME NEW c \in Copies, NEW e, NEW t, NEW o, Advance(c, e), Next1(c, e).row = t, Next1(c, e).op = o
  PROVE  copy' = [copy EXCEPT ![c] = t] /\ op' = [op EXCEPT ![c] = o]
BY DEF Advance

\* A sweep deletes rows and leaves their steps to drain.
LEMMA DiscardIs ==
  ASSUME Types, StoreInv, NEW cs, Discard(cs)
  PROVE  /\ op' = op /\ DOMAIN copy' = Copies
         /\ \A c \in Copies : copy'[c] = IF c \in cs /\ Exists(c) THEN K!Transition(copy[c], [type |-> "delete"])
                                         ELSE copy[c]
<1>1. ASSUME NEW c \in Copies, Exists(c)
      PROVE  Next1(c, [type |-> "delete"]) = [row |-> K!Transition(copy[c], [type |-> "delete"]), op |-> op[c]]
  <2> DEFINE e == [type |-> "delete"]
             t == K!Transition(copy[c], e)
  <2>1. ~K!Begins(copy[c], e)
    BY DEF K!Begins
  <2>2. K!Finishes(copy[c], e) => op[c] = NoOp
    <3> SUFFICES ASSUME K!Finishes(copy[c], e), op[c] # NoOp PROVE FALSE
      OBVIOUS
    <3>1. K!StepOf(t.state) = K!None
      BY DEF K!Finishes
    <3>2. copy[c] \in Rows /\ op[c].kind \in Kinds
      BY <1>1, TypeFacts
    <3>3. K!StepOf(copy[c].state) \in {"any", op[c].kind}
      BY <1>1 DEF StoreInv, CopyOk, OpIsStep
    <3>4. t # Gone
      <4>1. copy[c].state # "failed"
        BY <3>2, <3>3, StepsOf
      <4> QED
        BY <3>2, <4>1, DeleteMoves
    <3>5. K!StepOf(t.state) \in {"any", op[c].kind}
      BY <3>2, <3>3, <3>4, DeleteMoves
    <3> QED
      BY <3>1, <3>2, <3>5, StepsOf
  <2> QED
    BY <2>1, <2>2 DEF Next1
<1> DEFINE next(c) == IF c \in cs /\ Exists(c) THEN Next1(c, [type |-> "delete"])
                      ELSE [row |-> copy[c], op |-> op[c]]
<1>2. ASSUME NEW c \in Copies
      PROVE  /\ op'[c] = op[c]
             /\ copy'[c] = IF c \in cs /\ Exists(c) THEN K!Transition(copy[c], [type |-> "delete"]) ELSE copy[c]
  <2>1. copy'[c] = next(c).row /\ op'[c] = next(c).op
    BY DEF Discard
  <2>2. CASE c \in cs /\ Exists(c)
    <3>1. PICK t : t = K!Transition(copy[c], [type |-> "delete"])
      OBVIOUS
    <3>2. next(c) = [row |-> t, op |-> op[c]]
      BY <1>1, <2>2, <3>1
    <3>3. next(c).row = t /\ next(c).op = op[c]
      BY <3>2
    <3> QED
      BY <2>1, <2>2, <3>1, <3>3
  <2>3. CASE ~(c \in cs /\ Exists(c))
    BY <2>1, <2>3
  <2> QED
    BY <2>2, <2>3
<1>3. DOMAIN copy' = Copies /\ op' = [c \in Copies |-> op'[c]] /\ op = [c \in Copies |-> op[c]]
  BY DEF Discard, Types
<1> QED
  BY <1>2, <1>3

\* A look begins the step of a row that is due, if nobody holds what it needs.
LEMMA LookIs ==
  ASSUME Types, StoreInv, NEW c \in Copies, Looks(c)
  PROVE  LET r == copy[c]
             t == K!Transition(r, [type |-> "read"])
             o == [kind |-> K!StepOf(t.state), leases |-> K!LeasesOf(r, NameOf(c), K!StepOf(t.state)),
                   at |-> "begun", objects |-> {}]
         IN /\ Exists(c) /\ r \in Rows /\ K!ActivityOf(r.state) \in {"read", "recheck"}
            /\ \/ copy' = copy /\ op' = op
               \/ /\ copy' = [copy EXCEPT ![c] = t] /\ op' = [op EXCEPT ![c] = o]
                  /\ ~Busy(o.leases)
<1> DEFINE r == copy[c]
           e == [type |-> "read"]
           t == K!Transition(r, e)
           o == [kind |-> K!StepOf(t.state), leases |-> K!LeasesOf(r, NameOf(c), K!StepOf(t.state)),
                   at |-> "begun", objects |-> {}]
<1>1. Exists(c) /\ r \in Rows /\ K!ActivityOf(r.state) \in {"read", "recheck"}
  BY TypeFacts DEF Looks
<1>2. t # r
  BY <1>1, ReadMoves
<1>3. K!Begins(r, e)
  BY <1>2 DEF K!Begins
<1>4. Next1(c, e) = IF Busy(o.leases) THEN [row |-> r, op |-> op[c]] ELSE [row |-> t, op |-> o]
  BY <1>3 DEF Next1
<1>5. Advance(c, e)
  BY DEF Looks
<1> HIDE DEF t, o, e, r
<1>6. CASE Busy(o.leases)
  <2>1. Next1(c, e).row = copy[c] /\ Next1(c, e).op = op[c]
    BY <1>4, <1>6 DEF r
  <2>2. copy' = [copy EXCEPT ![c] = copy[c]] /\ op' = [op EXCEPT ![c] = op[c]]
    BY <1>5, <2>1, AdvanceIs
  <2>3. copy' = copy /\ op' = op
    BY <2>2 DEF Types
  <2> QED
    BY <1>1, <2>3 DEF r
<1>7. CASE ~Busy(o.leases)
  <2>1. Next1(c, e).row = t /\ Next1(c, e).op = o
    BY <1>4, <1>7
  <2>2. copy' = [copy EXCEPT ![c] = t] /\ op' = [op EXCEPT ![c] = o]
    BY <1>5, <2>1, AdvanceIs
  <2> QED
    BY <1>1, <1>7, <2>2 DEF t, o, e, r
<1> QED
  BY <1>6, <1>7

\* A copy is published from rest, when it has no operation.
LEMMA PublishIs ==
  ASSUME Types, StoreInv, NEW c \in Copies, Exists(c), Advance(c, [type |-> "publish", as |-> NameOf(c)])
  PROVE  /\ copy[c] \in Rows /\ op' = op
         /\ copy' = [copy EXCEPT ![c] = K!Transition(copy[c], [type |-> "publish", as |-> NameOf(c)])]
<1> DEFINE r == copy[c]
           e == [type |-> "publish", as |-> NameOf(c)]
           t == K!Transition(r, e)
<1>1. r \in Rows
  BY TypeFacts
<1>2. ~K!Begins(r, e)
  BY DEF K!Begins
<1>3. K!Finishes(r, e) => op[c] = NoOp
  <2> SUFFICES ASSUME K!Finishes(r, e), op[c] # NoOp PROVE FALSE
    OBVIOUS
  <2>1. t # r
    BY DEF K!Finishes
  <2>2. r.state = "ready"
    BY <1>1, <2>1, PublishMoves
  <2>3. op[c].kind \in Kinds /\ K!StepOf(r.state) \in {"any", op[c].kind}
    BY TypeFacts DEF StoreInv, CopyOk, OpIsStep
  <2> QED
    BY <2>2, <2>3, StepsOf
<1>4. Next1(c, e) = [row |-> t, op |-> op[c]]
  BY <1>2, <1>3 DEF Next1
<1>5. copy' = [copy EXCEPT ![c] = t] /\ op' = [op EXCEPT ![c] = op[c]]
  <2> HIDE DEF t
  <2>1. Next1(c, e).row = t /\ Next1(c, e).op = op[c]
    BY <1>4
  <2> QED
    BY <2>1, AdvanceIs
<1>6. op' = op
  BY <1>5 DEF Types
<1> QED
  BY <1>1, <1>5, <1>6

\* The end of a step finishes it, whatever the end was.
LEMMA FollowIs ==
  ASSUME Types, StoreInv, NEW c \in Copies, Follows(c)
  PROVE  /\ Exists(c) /\ copy[c] \in Rows /\ op[c] \in Ops /\ op' = [op EXCEPT ![c] = NoOp]
         /\ copy[c].state \in K!Sent \cup {"discarding.sent", "deleting.draining", "deleting.sent"}
         /\ \E e \in Heard : /\ copy' = [copy EXCEPT ![c] = K!Transition(copy[c], e)]
                             /\ Done(e) => op[c].at = "done"
<1> DEFINE r == copy[c]
           e == EventOf(c)
           t == K!Transition(r, e)
<1>1. Exists(c) /\ r \in Rows /\ op[c] \in Ops /\ op[c].kind \in Kinds
      /\ K!StepOf(r.state) \in {"any", op[c].kind}
  BY TypeFacts DEF Follows, StoreInv, CopyOk, OpIsStep
<1>2. r.state \in K!Leaf
  BY <1>1, RowFields
<1>3. r.state \in K!Sent \cup {"discarding.sent", "deleting.draining", "deleting.sent"}
  BY <1>1, <1>2, LeafOfStep
<1>4. e \in Heard /\ (Done(e) => op[c].at = "done")
  <2>1. op[c].at \in {"done", "failed", "cleared", "lost"}
    BY DEF Follows
  <2> QED
    BY <2>1 DEF EventOf, Heard, Done
<1>5. e.type # "read"
  BY <1>4 DEF Heard
<1>6. t # r /\ K!StepOf(t.state) = K!None
  <2>1. \/ t = Gone /\ r.state = "deleting.sent"
        \/ /\ t.state \in {"ready", "failed", "discarding.due", "discarding.held", "deleting.due", "deleting.held"}
           /\ t.state # r.state
    BY <1>1, <1>3, <1>4, HeardMoves DEF K!Sent
  <2>2. K!StepOf(Gone.state) = K!None
    BY StepsOf DEF Gone, K!Gone
  <2>3. r # Gone
    BY <1>1, RowFields
  <2> QED
    BY <2>1, <2>2, <2>3, StepsOf
<1>7. ~K!Begins(r, e) /\ K!Finishes(r, e)
  BY <1>5, <1>6 DEF K!Begins, K!Finishes
<1>8. Next1(c, e) = [row |-> t, op |-> NoOp]
  BY <1>7 DEF Next1
<1>9. copy' = [copy EXCEPT ![c] = t] /\ op' = [op EXCEPT ![c] = NoOp]
  <2> HIDE DEF t, e
  <2>1. Next1(c, e).row = t /\ Next1(c, e).op = NoOp
    BY <1>8
  <2>2. Advance(c, e)
    BY DEF Follows, e
  <2> QED
    BY <2>1, <2>2, AdvanceIs
<1> QED
  BY <1>1, <1>3, <1>4, <1>9

--------------------------------------------------------------------------------
(* The store, over what happens to rows. *)

\* What is in the store stays owned if the builds that are no longer alive left nothing there.
LEMMA OwnedStays ==
  ASSUME StoreInv, UNCHANGED store,
         \A id \in Ids : Alive(id) => \/ Alive(id)'
                                      \/ /\ id \notin store.manifests
                                         /\ store.objects \subseteq UNION {Needs(i) : i \in store.manifests},
         store.manifests \subseteq Ids
  PROVE  StoreWhole' /\ Owned'
<1>1. StoreWhole'
  BY DEF StoreInv, StoreWhole, Needs
<1>2. \A i \in store.manifests : Alive(i)'
  BY DEF StoreInv, Owned
<1>3. store.objects \subseteq UNION {Needs(i) : i \in {j \in Ids : Alive(j)'}}
  <2>1. CASE \A id \in Ids : Alive(id) => Alive(id)'
    BY <2>1 DEF StoreInv, Owned
  <2>2. CASE store.objects \subseteq UNION {Needs(i) : i \in store.manifests}
    BY <1>2, <2>2
  <2> QED
    BY <2>1, <2>2
<1> QED
  BY <1>1, <1>2, <1>3 DEF Owned, Needs

\* A row without a step has no operation.
LEMMA NoStepNoOp ==
  ASSUME Types, StoreInv, NEW c \in Copies, ~Exists(c) \/ K!StepOf(copy[c].state) = K!None
  PROVE  op[c] = NoOp
<1> SUFFICES ASSUME op[c] # NoOp PROVE FALSE
  OBVIOUS
<1>1. op[c].kind \in Kinds /\ Exists(c) /\ K!StepOf(copy[c].state) \in {"any", op[c].kind}
  BY TypeFacts DEF StoreInv, CopyOk, OpIsStep
<1> QED
  BY <1>1, StepsOf

\* A delete of rows takes nothing from the store, and leaves every step as it was.
LEMMA DiscardKeepsStore ==
  ASSUME Types, StoreInv, NEW cs, Discard(cs), UNCHANGED store
  PROVE  StoreInv'
<1>1. /\ op' = op
      /\ \A c \in Copies : copy'[c] = IF c \in cs /\ Exists(c) THEN K!Transition(copy[c], [type |-> "delete"])
                                      ELSE copy[c]
  BY DiscardIs
<1>2. ASSUME NEW c \in Copies, c \in cs, Exists(c)
      PROVE  CopyOk(c)' /\ (copy[c].state # "failed" => copy'[c] # Gone /\ Same(copy[c], copy'[c])
                                                        /\ copy'[c].state \in K!Deleting)
  <2>1. PICK r \in Rows : r = copy[c]
    BY <1>2, TypeFacts
  <2>2. PICK t : t = copy'[c]
    OBVIOUS
  <2>3. t = K!Transition(r, [type |-> "delete"])
    BY <1>1, <1>2, <2>1, <2>2
  <2>4. CopyOk(c) /\ r # Gone
    BY <1>2, <2>1 DEF StoreInv, Exists
  <2>5. CASE r.state = "failed"
    <3>1. t = Gone
      BY <2>3, <2>5, DeleteMoves
    <3>2. op[c] = NoOp
      BY <2>1, <2>5, NoStepNoOp, StepsOf
    <3> QED
      BY <1>1, <2>1, <2>2, <2>5, <3>1, <3>2 DEF CopyOk, OpIsStep, Origin, Progress, Says, Exists
  <2>6. CASE r.state # "failed"
    <3>1. /\ Same(r, t) /\ t.state \in K!Deleting /\ t # Gone
          /\ K!StepOf(r.state) = K!None => K!StepOf(t.state) = K!None
          /\ \A k \in Kinds : K!StepOf(r.state) \in {"any", k} => K!StepOf(t.state) \in {"any", k}
      BY <2>3, <2>6, DeleteMoves
    <3>2. t.state \notin {"capturing.due", "capturing.sent", "publishing.due", "publishing.sent", "fetching.due",
                          "fetching.sent", "failed"} \cup K!Discarding
      BY <3>1 DEF K!Deleting, K!Discarding
    <3>3. op[c] # NoOp => op[c].kind \in Kinds
      BY TypeFacts
    <3>4. \A kind : K!LeasesOf(t, NameOf(c), kind) = K!LeasesOf(r, NameOf(c), kind)
      BY <3>1, SameLeases DEF Same
    <3>5. OpIsStep(c)'
      BY <1>1, <2>1, <2>2, <2>4, <3>1, <3>3, <3>4 DEF CopyOk, OpIsStep, Exists
    <3>6. Origin(c)'
      BY <1>1, <2>1, <2>2, <2>4, <3>1, <3>2 DEF CopyOk, Origin, Exists, Same
    <3>7. Progress(c)'
      BY <1>1, <2>1, <2>2, <2>4, <3>1 DEF CopyOk, Progress, Published, Same, Needs
    <3>8. Says(c)'
      BY <2>2, <3>2 DEF Says
    <3> QED
      BY <2>1, <2>2, <3>1, <3>5, <3>6, <3>7, <3>8 DEF CopyOk
  <2> QED
    BY <2>5, <2>6
<1>3. \A c \in Copies : CopyOk(c)'
  <2> SUFFICES ASSUME NEW c \in Copies PROVE CopyOk(c)'
    OBVIOUS
  <2>1. CASE ~(c \in cs /\ Exists(c))
    BY <1>1, <2>1, CopyStays DEF StoreInv
  <2> QED
    BY <1>2, <2>1
<1>4. Apart'
  BY <1>1 DEF StoreInv, Apart, Conflicting
<1>5. StoreWhole' /\ Owned'
  <2>1. \A id \in Ids : Alive(id) => Alive(id)'
    <3> SUFFICES ASSUME NEW id \in Ids, Alive(id) PROVE Alive(id)'
      OBVIOUS
    <3>1. PICK c \in Copies : c = Built(id)
      BY CopyParts
    <3>2. copy[c] # Gone /\ copy[c].state # "failed" /\ copy[c].published = NameOf(c)
      BY <3>1 DEF Alive, BuiltBy, Built, Published
    <3>3. copy'[c] # Gone /\ copy'[c].state # "failed" /\ copy'[c].published = NameOf(c)
      BY <1>1, <1>2, <3>2 DEF Exists, Same, K!Deleting
    <3> QED
      BY <3>1, <3>3 DEF Alive, BuiltBy, Built, Published
  <2> QED
    BY <2>1, OwnedStays, TypeFacts
<1> QED
  BY <1>3, <1>4, <1>5 DEF StoreInv

\* A change of one row keeps the store if the row is well after it, its step conflicts with no
\* other, and it was not the last of what is in the store.
LEMMA RowKeepsStore ==
  ASSUME Types, StoreInv, NEW c \in Copies, NEW t, NEW o,
         copy' = [copy EXCEPT ![c] = t], op' = [op EXCEPT ![c] = o], UNCHANGED store,
         CopyOk(c)',
         o = NoOp \/ ~Busy(o.leases),
         (c[1] = "built" /\ Exists(c) /\ copy[c].state # "failed" /\ Published(c)) =>
            \/ t # Gone /\ t.state # "failed" /\ t.published = NameOf(c)
            \/ c[2] \notin store.manifests /\ store.objects \subseteq UNION {Needs(i) : i \in store.manifests}
  PROVE  StoreInv'
<1>1. /\ copy'[c] = t /\ op'[c] = o
      /\ \A d \in Copies \ {c} : copy'[d] = copy[d] /\ op'[d] = op[d]
  BY DEF Types
<1>2. \A d \in Copies : CopyOk(d)'
  <2> SUFFICES ASSUME NEW d \in Copies, d # c PROVE CopyOk(d)'
    OBVIOUS
  <2> QED
    BY <1>1, CopyStays DEF StoreInv
<1>3. Apart'
  <2>1. ASSUME NEW d \in Copies, d # c, o # NoOp, op[d] # NoOp, NEW l \in o.leases, NEW m \in op[d].leases
        PROVE  ~Conflicting(l, m) /\ ~Conflicting(m, l)
    BY <2>1 DEF Busy, Conflicting
  <2> SUFFICES ASSUME NEW d \in Copies, NEW x \in Copies, d # x, op'[d] # NoOp, op'[x] # NoOp,
                      NEW l \in op'[d].leases, NEW m \in op'[x].leases
               PROVE  ~Conflicting(l, m)
    BY DEF Apart, Conflicting
  <2>2. CASE d = c
    BY <1>1, <2>1, <2>2
  <2>3. CASE x = c
    BY <1>1, <2>1, <2>3
  <2>4. CASE d # c /\ x # c
    BY <1>1, <2>4 DEF StoreInv, Apart
  <2> QED
    BY <2>2, <2>3, <2>4
<1>4. StoreWhole' /\ Owned'
  <2>1. ASSUME NEW id \in Ids, Alive(id)
        PROVE  Alive(id)' \/ (/\ id \notin store.manifests
                              /\ store.objects \subseteq UNION {Needs(i) : i \in store.manifests})
    <3>1. PICK d \in Copies : d = Built(id) /\ d[1] = "built" /\ d[2] = id
      BY CopyParts
    <3>2. copy[d] # Gone /\ copy[d].state # "failed" /\ copy[d].published = NameOf(d)
      BY <2>1, <3>1 DEF Alive, BuiltBy, Built, Published
    <3>3. \/ copy'[d] # Gone /\ copy'[d].state # "failed" /\ copy'[d].published = NameOf(d)
          \/ id \notin store.manifests /\ store.objects \subseteq UNION {Needs(i) : i \in store.manifests}
      <4>1. CASE d = c
        BY <1>1, <3>1, <3>2, <4>1 DEF Exists, Published
      <4>2. CASE d # c
        BY <1>1, <3>2, <4>2
      <4> QED
        BY <4>1, <4>2
    <3> QED
      BY <3>1, <3>3 DEF Alive, BuiltBy, Built, Published
  <2> QED
    BY <2>1, OwnedStays, TypeFacts
<1> QED
  BY <1>2, <1>3, <1>4 DEF StoreInv

\* A look begins a step when no other holds what it needs.
LEMMA LooksKeepsStore ==
  ASSUME Types, StoreInv, NEW c \in Copies, Looks(c)
  PROVE  StoreInv'
<1>1. PICK r : r = copy[c]
  OBVIOUS
<1>2. PICK t : t = K!Transition(r, [type |-> "read"])
  OBVIOUS
<1>3. PICK o : o = [kind |-> K!StepOf(t.state), leases |-> K!LeasesOf(r, NameOf(c), K!StepOf(t.state)),
                    at |-> "begun", objects |-> {}]
  OBVIOUS
<1>4. /\ Exists(c) /\ r \in Rows /\ K!ActivityOf(r.state) \in {"read", "recheck"}
      /\ \/ copy' = copy /\ op' = op
         \/ copy' = [copy EXCEPT ![c] = t] /\ op' = [op EXCEPT ![c] = o] /\ ~Busy(o.leases)
  BY <1>1, <1>2, <1>3, LookIs
<1>5. UNCHANGED store
  BY DEF Looks
<1>6. CASE copy' = copy /\ op' = op
  <2>1. \A d \in Copies : CopyOk(d)'
    BY <1>5, <1>6, CopyStays DEF StoreInv
  <2>2. Apart' /\ StoreWhole' /\ Owned'
    BY <1>5, <1>6 DEF StoreInv, Apart, Conflicting, StoreWhole, Owned, Needs, Alive, BuiltBy, Published
  <2> QED
    BY <2>1, <2>2 DEF StoreInv
<1>7. CASE copy' = [copy EXCEPT ![c] = t] /\ op' = [op EXCEPT ![c] = o] /\ ~Busy(o.leases)
  <2>1. copy'[c] = t /\ op'[c] = o
    BY <1>7 DEF Types
  <2>2. CopyOk(c)
    BY DEF StoreInv
  <2>3. /\ Same(r, t) /\ t.error = r.error
        /\ \/ r.state = "capturing.due" /\ t.state = "capturing.sent"
           \/ r.state = "fetching.due" /\ t.state = "fetching.sent"
           \/ r.state = "publishing.due" /\ t.state = "publishing.sent"
           \/ r.state \in {"discarding.due", "discarding.held"} /\ t.state = "discarding.sent"
           \/ r.state \in {"deleting.due", "deleting.held"} /\ t.state = "deleting.sent"
    BY <1>2, <1>4, ReadMoves
  <2>4. /\ o.kind = K!StepOf(t.state) /\ o.leases = K!LeasesOf(r, NameOf(c), o.kind) /\ o.at = "begun"
        /\ t # Gone /\ r # Gone /\ o # NoOp /\ o.kind # K!None
    <3>1. o.kind \in Kinds
      BY <1>3, <2>3, StepsOf DEF Kinds
    <3>2. o # NoOp
      <4>1. NoOp.kind \notin Kinds
        BY DEF NoOp, Kinds
      <4> QED
        BY <3>1, <4>1
    <3> QED
      BY <1>3, <1>4, <2>3, <3>1, <3>2, RowFields, StepsOf DEF Same
  <2>5. OpIsStep(c)'
    <3>1. K!LeasesOf(t, NameOf(c), o.kind) = K!LeasesOf(r, NameOf(c), o.kind)
      BY <2>3, SameLeases DEF Same
    <3> QED
      BY <2>1, <2>4, <3>1 DEF OpIsStep, Exists
  <2>6. Origin(c)'
    BY <1>1, <1>4, <2>1, <2>2, <2>3, <2>4, StepsOf DEF CopyOk, Origin, Same, Exists
  <2>7. Progress(c)'
    BY <2>1, <2>4 DEF Progress
  <2>8. Says(c)'
    BY <1>1, <1>4, <2>1, <2>2, <2>3 DEF CopyOk, Says, K!Discarding
  <2>9. t # Gone /\ t.state # "failed" /\ (Published(c) => t.published = NameOf(c))
    BY <1>1, <2>3, <2>4 DEF Same, Published
  <2> QED
    BY <1>5, <1>7, <2>5, <2>6, <2>7, <2>8, <2>9, RowKeepsStore DEF CopyOk
<1> QED
  BY <1>4, <1>6, <1>7

\* The end of a step: a copy goes, or fails for good, only once nothing of it is in the store.
LEMMA FollowsKeepsStore ==
  ASSUME Types, StoreInv, NEW c \in Copies, Follows(c)
  PROVE  StoreInv'
<1>1. PICK r : r = copy[c]
  OBVIOUS
<1>2. /\ Exists(c) /\ r \in Rows /\ op[c] \in Ops /\ op' = [op EXCEPT ![c] = NoOp]
      /\ r.state \in K!Sent \cup {"discarding.sent", "deleting.draining", "deleting.sent"}
  BY <1>1, FollowIs
<1>3. PICK e \in Heard : copy' = [copy EXCEPT ![c] = K!Transition(r, e)] /\ (Done(e) => op[c].at = "done")
  BY <1>1, FollowIs
<1>4. PICK t : t = K!Transition(r, e)
  OBVIOUS
<1>5. copy' = [copy EXCEPT ![c] = t] /\ copy'[c] = t /\ op'[c] = NoOp
  BY <1>2, <1>3, <1>4 DEF Types
<1>6. CopyOk(c) /\ op[c] # NoOp /\ UNCHANGED store
  BY DEF StoreInv, Follows
<1>7. op[c].kind \in Kinds /\ K!StepOf(r.state) \in {"any", op[c].kind} /\ r.state \in K!Leaf
  BY <1>1, <1>2, <1>6, TypeFacts, RowFields DEF CopyOk, OpIsStep
<1>8. \/ t = Gone /\ r.state = "deleting.sent" /\ Done(e)
      \/ Same(r, t) /\ t.state = "ready" /\ t.error = r.error /\ r.state \in K!Sent /\ Done(e)
      \/ Same(r, t) /\ t.state = "failed" /\ t.error = "Internal"
           /\ r.state \in {"capturing.sent", "fetching.sent"}
      \/ Same(r, t) /\ t.state = "discarding.due" /\ t.error = "Internal" /\ r.state \in K!Sent
      \/ Same(r, t) /\ t.state = "failed" /\ t.error = r.error /\ r.state = "discarding.sent" /\ Done(e)
      \/ Same(r, t) /\ t.state \in {"discarding.due", "discarding.held"} /\ t.error = r.error
           /\ r.state = "discarding.sent"
      \/ Same(r, t) /\ t.state \in {"deleting.due", "deleting.held"}
           /\ r.state \in {"deleting.draining", "deleting.sent"}
  BY <1>2, <1>4, HeardMoves
<1>9. "Internal" # K!None
  BY DEF K!None
<1>10. t # Gone => /\ Same(r, t)
                   /\ t.state \in {"ready", "failed", "discarding.due", "discarding.held", "deleting.due", "deleting.held"}
                   /\ t.state \in K!Discarding \cup {"failed"} => t.error # K!None
  <2>1. r.state = "discarding.sent" => r.error # K!None
    BY <1>1, <1>2, <1>6 DEF CopyOk, Says, K!Discarding
  <2> QED
    BY <1>8, <1>9, <2>1 DEF K!Discarding
<1>11. CopyOk(c)'
  <2>1. OpIsStep(c)' /\ Progress(c)' /\ Says(c)'
    BY <1>5, <1>10, StepsOf DEF OpIsStep, Progress, Says, Exists
  <2>2. Origin(c)'
    BY <1>1, <1>2, <1>5, <1>6, <1>10 DEF CopyOk, Origin, Same, Exists
  <2> QED
    BY <2>1, <2>2 DEF CopyOk
<1>12. ASSUME c[1] = "built", Published(c), t = Gone \/ t.state = "failed"
       PROVE  c[2] \notin store.manifests /\ store.objects \subseteq UNION {Needs(i) : i \in store.manifests}
  <2>1. r.state \notin {"capturing.sent", "fetching.sent"}
    <3>1. K!None # NameOf(c) /\ r.published = NameOf(c)
      BY <1>1, <1>12, NamesDiffer DEF Published
    <3> QED
      BY <1>1, <1>2, <1>6, <1>12, <3>1 DEF CopyOk, Origin
  <2>2. r.state \in {"deleting.sent", "discarding.sent"} /\ Done(e)
    <3>1. Same(r, t) => t # Gone
      BY RowFields DEF Same
    <3> QED
      BY <1>8, <1>12, <2>1, <3>1
  <2>3. op[c].kind = "deleteCheckpoint"
    BY <1>7, <2>2, LeafOfStep
  <2> QED
    BY <1>3, <1>6, <1>12, <2>2, <2>3 DEF CopyOk, Progress
<1>13. Published(c) /\ t # Gone => t.published = NameOf(c)
  BY <1>1, <1>10 DEF Same, Published
<1> QED
  BY <1>2, <1>5, <1>6, <1>11, <1>12, <1>13, RowKeepsStore

\* The copy of a build is published under its own name.
LEMMA PublishKeepsStore ==
  ASSUME Types, StoreInv, NEW id \in Ids, Exists(Built(id)), UNCHANGED store,
         Advance(Built(id), [type |-> "publish", as |-> NameOf(Built(id))])
  PROVE  StoreInv'
<1>1. PICK c \in Copies : c = Built(id) /\ c[1] = "built" /\ c[2] = id
  BY CopyParts
<1>2. PICK r : r = copy[c]
  OBVIOUS
<1>3. PICK t : t = K!Transition(r, [type |-> "publish", as |-> NameOf(c)])
  OBVIOUS
<1>4. r \in Rows /\ op' = op /\ copy' = [copy EXCEPT ![c] = t] /\ copy'[c] = t
  <2>1. Exists(c) /\ Advance(c, [type |-> "publish", as |-> NameOf(c)])
    BY <1>1
  <2> QED
    BY <1>2, <1>3, <2>1, PublishIs DEF Types
<1>5. CopyOk(c) /\ Exists(c)
  BY <1>1 DEF StoreInv
<1>6. CASE r.state = "ready"
  <2>1. op[c] = NoOp /\ op' = [op EXCEPT ![c] = NoOp] /\ op'[c] = NoOp
    BY <1>2, <1>4, <1>6, NoStepNoOp, StepsOf DEF Types
  <2>2. /\ t \in Rows /\ t.state = "publishing.due" /\ t.published = NameOf(c)
        /\ t.error = r.error /\ t.build = r.build /\ t.machine = r.machine
    BY <1>3, <1>4, <1>6, PublishMoves
  <2>3. CopyOk(c)'
    <3>1. OpIsStep(c)' /\ Progress(c)' /\ Says(c)'
      BY <1>4, <2>1, <2>2, StepsOf DEF OpIsStep, Progress, Says, Exists, K!Discarding
    <3>2. Origin(c)'
      BY <1>1, <1>4, <2>1, <2>2 DEF Origin
    <3> QED
      BY <3>1, <3>2 DEF CopyOk
  <2>4. t # Gone
    BY <2>2, RowFields
  <2> QED
    BY <1>4, <2>1, <2>2, <2>3, <2>4, RowKeepsStore
<1>7. CASE r.state # "ready"
  <2>1. t = r
    BY <1>3, <1>4, <1>7, PublishMoves
  <2>2. copy' = copy
    BY <1>2, <1>4, <2>1 DEF Types
  <2>3. \A d \in Copies : CopyOk(d)'
    BY <1>4, <2>2, CopyStays DEF StoreInv
  <2>4. Apart' /\ StoreWhole' /\ Owned'
    BY ZenonT(30), <1>4, <2>2 DEF StoreInv, Apart, Conflicting, StoreWhole, Owned, Needs, Alive, BuiltBy, Published
  <2> QED
    BY <2>3, <2>4 DEF StoreInv
<1> QED
  BY <1>6, <1>7

\* The fields of the rows that a capture and a fetch begin with.
LEMMA BegunFields ==
  /\ \A id \in Ids : (CHOOSE b \in template : b.id = id).number \in Nat =>
       /\ Captured(id) \in Rows /\ Captured(id).state = "capturing.due" /\ Captured(id).published = K!None
       /\ Captured(id).build = (CHOOSE b \in template : b.id = id).number
  /\ \A d \in [from : Ids, number : Nat] :
       /\ Fetched(d) \in Rows /\ Fetched(d).state = "fetching.due"
       /\ Fetched(d).published = NameOf(Built(d.from)) /\ Fetched(d).build = d.number
<1>1. K!None \in Names /\ \A id \in Ids : NameOf(Built(id)) \in Names
  BY CopyParts DEF Names
<1>2. "capturing.due" \in K!Leaf /\ "fetching.due" \in K!Leaf
  BY DEF K!Leaf, K!Due
<1>3. ASSUME NEW id \in Ids, (CHOOSE b \in template : b.id = id).number \in Nat
      PROVE  /\ Captured(id) \in Rows /\ Captured(id).state = "capturing.due" /\ Captured(id).published = K!None
             /\ Captured(id).build = (CHOOSE b \in template : b.id = id).number
  <2>1. PICK n \in Nat : n = (CHOOSE b \in template : b.id = id).number
    BY <1>3
  <2>2. Captured(id) = [state |-> "capturing.due", error |-> K!None, published |-> K!None,
                        machine |-> "builder", build |-> n]
    BY <2>1 DEF Captured
  <2>3. /\ Captured(id).state = "capturing.due" /\ Captured(id).published = K!None
        /\ Captured(id).build = n
    BY <2>2
  <2>4. Captured(id) \in Rows
    BY <1>1, <1>2, <2>2 DEF Rows
  <2> QED
    BY <2>1, <2>3, <2>4
<1>4. ASSUME NEW d \in [from : Ids, number : Nat]
      PROVE  /\ Fetched(d) \in Rows /\ Fetched(d).state = "fetching.due"
             /\ Fetched(d).published = NameOf(Built(d.from)) /\ Fetched(d).build = d.number
  <2>1. PICK p \in Names : p = NameOf(Built(d.from))
    BY <1>1
  <2>2. Fetched(d) = [state |-> "fetching.due", error |-> K!None, published |-> p,
                      machine |-> "builder", build |-> d.number]
    BY <2>1 DEF Fetched, Built
  <2>3. d.number \in Nat
    OBVIOUS
  <2>4. Fetched(d).state = "fetching.due" /\ Fetched(d).published = p /\ Fetched(d).build = d.number
    BY <2>2
  <2>5. Fetched(d) \in Rows
    BY <1>1, <1>2, <2>2, <2>3 DEF Rows
  <2> QED
    BY <2>1, <2>4, <2>5
<1> QED
  BY <1>3, <1>4

\* A capture of a new build, or a fetch of one whose copy here failed or is none, begins with
\* nothing in the store.
LEMMA RowBeginsKeepsStore ==
  ASSUME Types, StoreInv, NEW c \in Copies, NEW t \in Rows,
         ~Exists(c) \/ copy[c].state = "failed",
         UNCHANGED <<op, store>>, copy' = [copy EXCEPT ![c] = t],
         \/ c[1] = "built" /\ t.state = "capturing.due" /\ t.published = K!None
         \/ c[1] = "fetched" /\ t.state = "fetching.due" /\ t.published # NameOf(c)
  PROVE  StoreInv'
<1>1. op[c] = NoOp /\ op' = [op EXCEPT ![c] = NoOp] /\ op'[c] = NoOp /\ copy'[c] = t
  BY NoStepNoOp, StepsOf DEF Types
<1>2. CopyOk(c)'
  <2>1. OpIsStep(c)' /\ Progress(c)' /\ Says(c)'
    BY <1>1, StepsOf DEF OpIsStep, Progress, Says, Exists, K!Discarding
  <2>2. Origin(c)'
    BY <1>1 DEF Origin
  <2> QED
    BY <2>1, <2>2 DEF CopyOk
<1> QED
  BY <1>1, <1>2, RowKeepsStore

--------------------------------------------------------------------------------
(* The store, over what hosts do. *)

\* Beside a delete of what was published runs no publish, and no other such delete.
LEMMA DeletesAlone ==
  ASSUME Types, StoreInv, NEW c \in Copies, NEW d \in Copies, c # d, op[c] # NoOp, op[d] # NoOp,
         op[c].kind = "deleteCheckpoint", Published(c)
  PROVE  op[d].kind # "publish" /\ ~(op[d].kind = "deleteCheckpoint" /\ Published(d))
<1>1. /\ op[c].leases = K!LeasesOf(copy[c], NameOf(c), op[c].kind)
      /\ op[d].leases = K!LeasesOf(copy[d], NameOf(d), op[d].kind)
  BY DEF StoreInv, CopyOk, OpIsStep
<1>2. [on |-> K!BuildStore, mode |-> "own"] \in op[c].leases
  BY <1>1 DEF K!LeasesOf, Published
<1>3. op[d].kind = "publish" => [on |-> K!BuildStore, mode |-> "share"] \in op[d].leases
  BY <1>1 DEF K!LeasesOf
<1>4. op[d].kind = "deleteCheckpoint" /\ Published(d) => [on |-> K!BuildStore, mode |-> "own"] \in op[d].leases
  BY <1>1 DEF K!LeasesOf, Published
<1>5. \A l \in op[c].leases, m \in op[d].leases : ~Conflicting(l, m)
  BY DEF StoreInv, Apart
<1>6. \A mode \in {"own", "share"} :
        Conflicting([on |-> K!BuildStore, mode |-> "own"], [on |-> K!BuildStore, mode |-> mode])
  BY DEF Conflicting
<1> QED
  BY <1>2, <1>3, <1>4, <1>5, <1>6

\* A publish is of a build's own copy, which is alive for as long.
LEMMA PublishIsAlive ==
  ASSUME Types, StoreInv, NEW c \in Copies, op[c] # NoOp, op[c].kind = "publish"
  PROVE  c[2] \in Ids /\ Alive(c[2])
<1>1. c[1] = "built" /\ c[2] \in Ids /\ c = Built(c[2])
  BY CopyParts DEF StoreInv, CopyOk, Origin
<1>2. Exists(c) /\ Published(c)
  BY <1>1 DEF StoreInv, CopyOk, Origin, OpIsStep, Published
<1>3. copy[c].state # "failed"
  <2>1. copy[c] \in Rows /\ op[c].kind \in Kinds
    BY <1>2, TypeFacts
  <2>2. copy[c].state \in K!Leaf /\ K!StepOf(copy[c].state) \in {"any", op[c].kind}
    BY <2>1, RowFields DEF StoreInv, CopyOk, OpIsStep
  <2> QED
    BY <2>1, <2>2, LeafOfStep DEF K!Sent
<1> QED
  BY <1>1, <1>2, <1>3 DEF Alive, BuiltBy, Built, Exists

\* A step of a host keeps the store if every step is as far as it says, and what is in the store
\* is whole and owned.
LEMMA HostKeepsStore ==
  ASSUME StoreInv, UNCHANGED copy,
         \A d \in Copies : /\ op'[d] # NoOp <=> op[d] # NoOp
                           /\ op[d] # NoOp => op'[d].kind = op[d].kind /\ op'[d].leases = op[d].leases
                           /\ Progress(d)',
         StoreWhole', Owned'
  PROVE  StoreInv'
<1>1. \A d \in Copies : CopyOk(d)'
  <2> SUFFICES ASSUME NEW d \in Copies PROVE CopyOk(d)'
    OBVIOUS
  <2>1. OpIsStep(d)' /\ Origin(d)' /\ Says(d)'
    BY DEF StoreInv, CopyOk, OpIsStep, Origin, Says, Exists
  <2> QED
    BY <2>1 DEF CopyOk
<1>2. Apart'
  BY DEF StoreInv, Apart, Conflicting
<1> QED
  BY <1>1, <1>2 DEF StoreInv

\* What stays of an operation, whatever a host does of it.
SameStep(o, p) == p # NoOp /\ p.kind = o.kind /\ p.leases = o.leases

LEMMA KeptByFields ==
  ASSUME NEW o \in Ops, NEW p, p.kind = o.kind, p.leases = o.leases
  PROVE  SameStep(o, p)
<1>1. NoOp.kind \notin Kinds /\ o.kind \in Kinds
  BY DEF NoOp, Kinds, Ops
<1> QED
  BY <1>1 DEF SameStep

\* A step of a copy's host: what is needed of it for the store to stay well.
LEMMA OneHostKeepsStore ==
  ASSUME Types, StoreInv, NEW c \in Copies, op[c] # NoOp, UNCHANGED copy, NEW p,
         op' = [op EXCEPT ![c] = p], SameStep(op[c], p),
         \A d \in Copies : Progress(d)',
         StoreWhole', Owned'
  PROVE  StoreInv'
<1>1. op'[c] = p /\ \A d \in Copies \ {c} : op'[d] = op[d]
  BY DEF Types
<1>2. \A d \in Copies : /\ op'[d] # NoOp <=> op[d] # NoOp
                        /\ op[d] # NoOp => op'[d].kind = op[d].kind /\ op'[d].leases = op[d].leases
  BY <1>1 DEF SameStep
<1> QED
  BY <1>2, HostKeepsStore

\* The store, where none of it changed.
LEMMA StoreSame ==
  ASSUME StoreInv, UNCHANGED <<copy, store>>
  PROVE  StoreWhole' /\ Owned'
BY DEF StoreInv, StoreWhole, Owned, Needs, Alive, BuiltBy, Published

\* What of another copy's operation a step of one leaves as it was.
LEMMA OtherProgress ==
  ASSUME NEW d, StoreInv, d \in Copies, UNCHANGED <<copy, op[d]>>,
         /\ op[d] # NoOp /\ op[d].kind = "publish" => store.objects \subseteq store.objects'
                                                      /\ store.manifests \subseteq store.manifests'
         /\ op[d] # NoOp /\ op[d].kind = "deleteCheckpoint" /\ Published(d) => UNCHANGED store
  PROVE  Progress(d)'
BY DEF StoreInv, CopyOk, Progress, Published, Needs

\* Each step of a host keeps what is in the store whole, and owned.
LEMMA HostsKeepStore ==
  ASSUME Types, StoreInv, NEW c \in Copies, Host(c)
  PROVE  StoreInv'
<1>1. UNCHANGED copy
  BY DEF Host, Captures, PublishLists, PublishEnds, Fetches, Unpublishes, Deletes, Fails, Puts, HostStep
<1>2. op[c] # NoOp /\ op[c] \in Ops
  <2>1. op[c] # NoOp
    BY DEF Host, Captures, PublishLists, PublishEnds, Fetches, Unpublishes, Deletes, Fails, Puts, Doing
  <2> QED
    BY <2>1, TypeFacts
<1>3. PICK o \in Ops : o = op[c]
  BY <1>2
<1>4. PICK p : p = op'[c]
  OBVIOUS
<1>5. CopyOk(c)
  BY DEF StoreInv
<1>6. ASSUME NEW at, op' = [op EXCEPT ![c].at = at]
      PROVE  op' = [op EXCEPT ![c] = p] /\ SameStep(op[c], p) /\ p.at = at /\ p.objects = o.objects
  <2>1. p = [o EXCEPT !.at = at] /\ op' = [op EXCEPT ![c] = p]
    BY <1>3, <1>4, <1>6 DEF Types
  <2>2. p.kind = o.kind /\ p.leases = o.leases /\ p.at = at /\ p.objects = o.objects
    BY <2>1 DEF Ops
  <2> QED
    BY <1>3, <2>1, <2>2, KeptByFields
<1>7. \A d \in Copies \ {c} : op' = [op EXCEPT ![c] = p] => op'[d] = op[d]
  BY DEF Types
<1>8. ASSUME op' = [op EXCEPT ![c] = p], SameStep(op[c], p), UNCHANGED store, Progress(c)'
      PROVE  StoreInv'
  <2>1. \A d \in Copies : Progress(d)'
    BY <1>1, <1>7, <1>8, OtherProgress
  <2> QED
    BY <1>1, <1>2, <1>8, <2>1, StoreSame, OneHostKeepsStore
<1>9. CASE Captures(c)
  <2>1. op' = [op EXCEPT ![c].at = "done"] /\ UNCHANGED store /\ o.kind = "capture"
    BY <1>3, <1>9 DEF Captures, Goes, Doing
  <2>2. op' = [op EXCEPT ![c] = p] /\ SameStep(op[c], p)
    BY <1>6, <2>1
  <2>3. Progress(c)'
    BY ZenonT(30), <1>3, <1>4, <1>6, <2>1 DEF Progress, SameStep
  <2> QED
    BY <1>8, <2>1, <2>2, <2>3
<1>10. CASE PublishLists(c)
  <2>1. op' = [op EXCEPT ![c].at = "running", ![c].objects = store.objects] /\ UNCHANGED store
        /\ o.kind = "publish"
    BY <1>3, <1>10 DEF PublishLists, Doing
  <2>2. p = [o EXCEPT !.at = "running", !.objects = store.objects] /\ op' = [op EXCEPT ![c] = p]
    BY <1>3, <1>4, <2>1 DEF Types
  <2>3. SameStep(op[c], p) /\ p.at = "running" /\ p.objects = store.objects
    <3>1. p.kind = o.kind /\ p.leases = o.leases /\ p.at = "running" /\ p.objects = store.objects
      BY <2>2 DEF Ops
    <3> QED
      BY <1>3, <3>1, KeptByFields
  <2>4. Progress(c)'
    BY <1>3, <1>4, <2>1, <2>3 DEF Progress, SameStep
  <2> QED
    BY <1>8, <2>1, <2>2, <2>3, <2>4
<1>11. CASE Fetches(c)
  <2>1. PICK at \in {"done", "cleared"} : op' = [op EXCEPT ![c].at = at] /\ UNCHANGED store /\ o.kind = "fetch"
    BY <1>3, <1>11 DEF Fetches, Goes, Doing
  <2>2. op' = [op EXCEPT ![c] = p] /\ SameStep(op[c], p) /\ p.at = at
    BY <1>6, <2>1
  <2>3. Progress(c)'
    BY <1>3, <1>4, <2>1, <2>2 DEF Progress, SameStep
  <2> QED
    BY <1>8, <2>1, <2>2, <2>3
<1>12. CASE Fails(c)
  <2>1. PICK at \in {"failed", "cleared"} : op' = [op EXCEPT ![c].at = at] /\ UNCHANGED store
    BY <1>12 DEF Fails, Goes, HostStep
  <2>2. op' = [op EXCEPT ![c] = p] /\ SameStep(op[c], p) /\ p.at = at
    BY <1>6, <2>1
  <2>3. Progress(c)'
    BY <1>4, <2>1, <2>2 DEF Progress
  <2> QED
    BY <1>8, <2>1, <2>2, <2>3
<1>13. CASE \E b \in 0..MaxBuilds : Puts(c, b)
  <2>1. PICK b \in 0..MaxBuilds : Puts(c, b)
    BY <1>13
  <2>2. /\ o.kind = "publish" /\ o.at = "running" /\ b \in Needs(c[2])
        /\ op' = [op EXCEPT ![c].objects = @ \cup {b}]
        /\ store' = [store EXCEPT !.objects = @ \cup {b}]
    BY <1>3, <2>1 DEF Puts, Doing
  <2>3. p = [o EXCEPT !.objects = o.objects \cup {b}] /\ op' = [op EXCEPT ![c] = p]
    BY <1>3, <1>4, <2>2 DEF Types
  <2>4. SameStep(op[c], p) /\ p.at = "running" /\ p.kind = "publish" /\ p.objects = o.objects \cup {b}
    <3>1. p.kind = o.kind /\ p.leases = o.leases /\ p.at = o.at /\ p.objects = o.objects \cup {b}
      BY <2>3 DEF Ops
    <3> QED
      BY <1>3, <2>2, <3>1, KeptByFields
  <2>5. store'.objects = store.objects \cup {b} /\ store'.manifests = store.manifests
    BY <2>2 DEF Types
  <2>6. o.objects \subseteq store.objects
    BY <1>2, <1>3, <1>5, <2>2 DEF CopyOk, Progress
  <2>7. c[2] \in Ids /\ Alive(c[2])
    BY <1>2, <1>3, <2>2, PublishIsAlive
  <2>8. Progress(c)'
    BY <1>4, <2>4, <2>5, <2>6 DEF Progress
  <2>9. \A d \in Copies : Progress(d)'
    <3> SUFFICES ASSUME NEW d \in Copies, d # c PROVE Progress(d)'
      BY <2>8
    <3>1. op[d] # NoOp /\ op[d].kind = "deleteCheckpoint" /\ Published(d) => UNCHANGED store
      BY <1>2, <1>3, <2>2, DeletesAlone
    <3> QED
      BY <1>1, <1>7, <2>3, <2>5, <3>1, OtherProgress
  <2>10. \A i \in Ids : Alive(i) <=> Alive(i)'
    BY <1>1 DEF Alive, BuiltBy, Published
  <2>11. StoreWhole' /\ Owned'
    BY <2>2, <2>5, <2>7, <2>10 DEF StoreInv, StoreWhole, Owned, Needs
  <2> QED
    BY <1>1, <1>2, <2>3, <2>4, <2>9, <2>11, OneHostKeepsStore
<1>14. CASE PublishEnds(c)
  <2>1. /\ o.kind = "publish" /\ o.at = "running" /\ Needs(c[2]) \subseteq o.objects
        /\ op' = [op EXCEPT ![c].at = "done"]
        /\ store' = [store EXCEPT !.manifests = @ \cup {c[2]}]
    BY <1>3, <1>14 DEF PublishEnds, Doing, Goes
  <2>2. op' = [op EXCEPT ![c] = p] /\ SameStep(op[c], p) /\ p.at = "done" /\ p.kind = "publish"
    BY <1>3, <1>6, <2>1 DEF SameStep
  <2>3. store'.objects = store.objects /\ store'.manifests = store.manifests \cup {c[2]}
    BY <2>1 DEF Types
  <2>4. o.objects \subseteq store.objects
    BY <1>2, <1>3, <1>5, <2>1 DEF CopyOk, Progress
  <2>5. c[2] \in Ids /\ Alive(c[2])
    BY <1>2, <1>3, <2>1, PublishIsAlive
  <2>6. Progress(c)'
    BY <1>4, <2>2, <2>3 DEF Progress
  <2>7. \A d \in Copies : Progress(d)'
    <3> SUFFICES ASSUME NEW d \in Copies, d # c PROVE Progress(d)'
      BY <2>6
    <3>1. op[d] # NoOp /\ op[d].kind = "deleteCheckpoint" /\ Published(d) => UNCHANGED store
      BY <1>2, <1>3, <2>1, DeletesAlone
    <3> QED
      BY <1>1, <1>7, <2>2, <2>3, <3>1, OtherProgress
  <2>8. \A i \in Ids : Alive(i) <=> Alive(i)'
    BY <1>1 DEF Alive, BuiltBy, Published
  <2>9. StoreWhole' /\ Owned'
    BY <2>1, <2>3, <2>4, <2>5, <2>8 DEF StoreInv, StoreWhole, Owned, Needs
  <2> QED
    BY <1>1, <1>2, <2>2, <2>7, <2>9, OneHostKeepsStore
<1>15. CASE Unpublishes(c)
  <2>1. /\ o.kind = "deleteCheckpoint" /\ Published(c)
        /\ op' = [op EXCEPT ![c].at = "running"]
        /\ store' = [store EXCEPT !.manifests = @ \ {c[2]}]
    BY <1>3, <1>15 DEF Unpublishes, Doing, Goes
  <2>2. op' = [op EXCEPT ![c] = p] /\ SameStep(op[c], p) /\ p.at = "running" /\ p.kind = "deleteCheckpoint"
    BY <1>3, <1>6, <2>1 DEF SameStep
  <2>3. store'.objects = store.objects /\ store'.manifests = store.manifests \ {c[2]}
    BY <2>1 DEF Types
  <2>4. Progress(c)'
    BY <1>1, <1>4, <2>1, <2>2, <2>3 DEF Progress, Published
  <2>5. \A d \in Copies : Progress(d)'
    <3> SUFFICES ASSUME NEW d \in Copies, d # c PROVE Progress(d)'
      BY <2>4
    <3>1. op[d] # NoOp => op[d].kind # "publish" /\ ~(op[d].kind = "deleteCheckpoint" /\ Published(d))
      BY <1>2, <1>3, <2>1, DeletesAlone
    <3> QED
      BY <1>1, <1>7, <2>2, <3>1, OtherProgress
  <2>6. \A i \in Ids : Alive(i) <=> Alive(i)'
    BY <1>1 DEF Alive, BuiltBy, Published
  <2>7. StoreWhole' /\ Owned'
    BY <2>3, <2>6 DEF StoreInv, StoreWhole, Owned, Needs
  <2> QED
    BY <1>1, <1>2, <2>2, <2>5, <2>7, OneHostKeepsStore
<1>16. CASE Deletes(c)
  <2>1. /\ op' = [op EXCEPT ![c].at = "done"] /\ o.kind = "deleteCheckpoint"
        /\ \/ ~Published(c) /\ UNCHANGED store
           \/ /\ o.at = "running"
              /\ store' = [store EXCEPT !.objects = @ \cap UNION {Manifest(id) : id \in Ids}]
    BY <1>3, <1>16 DEF Deletes, Doing, Goes
  <2>2. op' = [op EXCEPT ![c] = p] /\ SameStep(op[c], p) /\ p.at = "done" /\ p.kind = "deleteCheckpoint"
    BY <1>3, <1>6, <2>1 DEF SameStep
  <2>3. CASE ~Published(c) /\ UNCHANGED store
    <3>1. Progress(c)'
      BY <1>1, <1>4, <2>2, <2>3 DEF Progress, Published
    <3> QED
      BY <1>8, <2>2, <2>3, <3>1
  <2>4. CASE /\ o.at = "running"
             /\ store' = [store EXCEPT !.objects = @ \cap UNION {Manifest(id) : id \in Ids}]
    <3>1. Published(c) /\ c[2] \notin store.manifests
      BY <1>2, <1>3, <1>5, <2>1, <2>4 DEF CopyOk, Progress
    <3>2. UNION {Manifest(id) : id \in Ids} = UNION {Needs(i) : i \in store.manifests}
      BY TypeFacts DEF Manifest
    <3>3. /\ store'.objects = store.objects \cap UNION {Needs(i) : i \in store.manifests}
          /\ store'.manifests = store.manifests
      BY <2>4, <3>2 DEF Types
    <3>4. Progress(c)'
      BY <1>1, <1>4, <2>2, <3>1, <3>3 DEF Progress, Published, Needs
    <3>5. \A d \in Copies : Progress(d)'
      <4> SUFFICES ASSUME NEW d \in Copies, d # c PROVE Progress(d)'
        BY <3>4
      <4>1. op[d] # NoOp => op[d].kind # "publish" /\ ~(op[d].kind = "deleteCheckpoint" /\ Published(d))
        BY <1>2, <1>3, <2>1, <3>1, DeletesAlone
      <4> QED
        BY <1>1, <1>7, <2>2, <4>1, OtherProgress
    <3>6. \A i \in Ids : Alive(i) <=> Alive(i)'
      BY <1>1 DEF Alive, BuiltBy, Published
    <3>7. StoreWhole' /\ Owned'
      BY <3>3, <3>6 DEF StoreInv, StoreWhole, Owned, Needs
    <3> QED
      BY <1>1, <1>2, <2>2, <3>5, <3>7, OneHostKeepsStore
  <2> QED
    BY <2>1, <2>3, <2>4
<1> QED
  BY <1>9, <1>10, <1>11, <1>12, <1>13, <1>14, <1>15, <1>16 DEF Host

\* A host that starts again loses its steps where they were.
LEMMA RebootKeepsStore ==
  ASSUME Types, StoreInv, Reboot
  PROVE  StoreInv'
<1>1. UNCHANGED <<copy, store>> /\ op' = [c \in Copies |-> IF op[c] = NoOp THEN NoOp ELSE [op[c] EXCEPT !.at = "lost"]]
  BY DEF Reboot, HostStep
<1>2. ASSUME NEW d \in Copies
      PROVE  /\ op'[d] # NoOp <=> op[d] # NoOp
             /\ op[d] # NoOp => op'[d].kind = op[d].kind /\ op'[d].leases = op[d].leases
             /\ Progress(d)'
  <2>1. CASE op[d] = NoOp
    BY <1>1, <2>1 DEF Progress
  <2>2. CASE op[d] # NoOp
    <3>1. PICK o \in Ops : o = op[d]
      BY <2>2, TypeFacts
    <3>2. PICK p : p = op'[d]
      OBVIOUS
    <3>3. p = [o EXCEPT !.at = "lost"]
      BY <1>1, <2>2, <3>1, <3>2
    <3>4. p.kind = o.kind /\ p.leases = o.leases /\ p.at = "lost"
      BY <3>3 DEF Ops
    <3>5. SameStep(o, p)
      BY <3>4, KeptByFields
    <3>6. Progress(d)'
      BY <3>2, <3>4 DEF Progress
    <3> QED
      BY <2>2, <3>1, <3>2, <3>5, <3>6 DEF SameStep
  <2> QED
    BY <2>1, <2>2
<1> QED
  BY <1>1, <1>2, StoreSame, HostKeepsStore

--------------------------------------------------------------------------------
(* The builds, over what happens to rows. *)

\* The types of a template's builds, and the numbers of those that live.
LEMMA BuildFacts ==
  ASSUME NEW builds, builds \subseteq BuildRows
  PROVE  /\ \A b \in builds : b.number \in Nat /\ b.id \in Ids /\ b.phase \in {"building", "ready", "failed"}
         /\ \A n : n \in NumbersIn(builds, {"building", "ready"}) <=> \E b \in builds : Lives(b) /\ b.number = n
<1>1. \A b \in builds : b.number \in Nat /\ b.id \in Ids /\ b.phase \in {"building", "ready", "failed"}
  BY DEF BuildRows
<1>2. \A b \in builds : Lives(b) <=> b.phase \in {"building", "ready"}
  BY <1>1 DEF Lives
<1> QED
  BY <1>1, <1>2 DEF NumbersIn

\* A step on a row keeps the builds if it neither loses nor deletes the copy of one that lives,
\* and makes none ready that the store does not have.
LEMMA RowKeepsBuild ==
  ASSUME Types, BuildInv, NEW c \in Copies, NEW r, r = copy[c], NEW t, copy' = [copy EXCEPT ![c] = t],
         UNCHANGED <<planVars, run, copier, remover, store>>, Exists(c),
         t # Gone => t.build = r.build,
         c[1] = "built" =>
           /\ t = Gone => r.state \in K!Deleting
           /\ t # Gone => /\ t.state \in {"publishing.due", "publishing.sent"} => r.state \in {"publishing.due", "publishing.sent"}
                          /\ t.state \in {"capturing.due", "capturing.sent"} => r.state \in {"capturing.due", "capturing.sent"}
                          /\ t.state \in K!Deleting <=> r.state \in K!Deleting
                          /\ t.state = "ready" => r.state = "capturing.sent" \/ c[2] \in store.manifests
           /\ r.state # "ready"
  PROVE  BuildInv'
<1>1. copy'[c] = t /\ \A d \in Copies \ {c} : copy'[d] = copy[d]
  BY DEF Types
<1>2. template' = template /\ last' = last /\ ids' = ids
  BY DEF planVars
<1>3. \A id \in Ids : Built(id) \in Copies /\ Built(id)[1] = "built" /\ Built(id)[2] = id /\ BuiltBy(id) = copy[Built(id)]
                      /\ BuiltBy(id)' = copy'[Built(id)]
  BY CopyParts DEF BuiltBy, Built
<1>4. Fresh'
  BY <1>2 DEF BuildInv, Fresh
<1>5. Paired'
  BY <1>1, <1>2 DEF BuildInv, Paired, Pair, Exists
<1>6. \A id \in Ids : \/ BuiltBy(id)' = BuiltBy(id)
                      \/ c = Built(id) /\ c[1] = "built" /\ c[2] = id /\ BuiltBy(id)' = t /\ BuiltBy(id) = r
  BY <1>1, <1>3
<1>7. ASSUME NEW id \in Ids, run[id].at \in {"capturing", "publishing"}
      PROVE  BuiltBy(id) # Gone /\ BuiltBy(id).state \notin K!Deleting
  BY <1>7 DEF BuildInv, RunOf, Kept, Lives
<1>8. \A id \in Ids : RunOf(id)'
  <2> SUFFICES ASSUME NEW id \in Ids PROVE RunOf(id)'
    OBVIOUS
  <2>1. RunOf(id)
    BY DEF BuildInv
  <2>2. CASE BuiltBy(id)' = BuiltBy(id)
    BY <1>2, <2>1, <2>2 DEF RunOf
  <2>3. CASE c = Built(id) /\ c[1] = "built" /\ c[2] = id /\ BuiltBy(id)' = t /\ BuiltBy(id) = r
    BY <1>2, <1>7, <2>1, <2>3 DEF RunOf, Exists
  <2> QED
    BY <1>6, <2>2, <2>3
<1>9. Kept'
  <2> SUFFICES ASSUME NEW b \in template, Lives(b), BuiltBy(b.id)' # Gone
               PROVE  BuiltBy(b.id)'.state \notin K!Deleting
    BY <1>2 DEF Kept, Lives
  <2>1. b.id \in Ids
    BY BuildFacts DEF Types
  <2>2. BuiltBy(b.id) # Gone => BuiltBy(b.id).state \notin K!Deleting
    BY DEF BuildInv, Kept
  <2> QED
    BY <1>6, <2>1, <2>2 DEF Exists
<1>10. Going'
  <2> SUFFICES ASSUME NEW id \in Ids, BuiltBy(id)' # Gone, \A b \in template : b.id = id => ~Lives(b)
               PROVE  BuiltBy(id)'.state \in K!Deleting \/ Swept(Built(id))'
    BY <1>2 DEF Going, Lives
  <2>1. Swept(Built(id))' <=> Swept(Built(id))
    BY DEF Swept, Built
  <2>2. BuiltBy(id) # Gone => BuiltBy(id).state \in K!Deleting \/ Swept(Built(id))
    BY DEF BuildInv, Going
  <2> QED
    BY <1>6, <2>1, <2>2 DEF Exists
<1>11. ReadyHasCopy'
  <2> SUFFICES ASSUME NEW b \in template, IsReady(b)
               PROVE  BuiltBy(b.id)' # Gone /\ BuiltBy(b.id)'.state = "ready" /\ b.id \in store.manifests
    BY <1>2 DEF ReadyHasCopy, IsReady
  <2>1. b.id \in Ids
    BY BuildFacts DEF Types
  <2>2. BuiltBy(b.id) # Gone /\ BuiltBy(b.id).state = "ready" /\ b.id \in store.manifests
    BY DEF BuildInv, ReadyHasCopy
  <2> QED
    BY <1>6, <2>1, <2>2
<1> QED
  BY <1>4, <1>5, <1>8, <1>9, <1>10, <1>11 DEF BuildInv

\* Nor does what leaves the rows as they are, and takes no manifest of a ready copy.
LEMMA SameKeepsBuild ==
  ASSUME BuildInv, UNCHANGED <<planVars, run, copy, copier, remover>>,
         \A id : id \in store.manifests /\ BuiltBy(id).state = "ready" => id \in store'.manifests
  PROVE  BuildInv'
<1>1. template' = template /\ last' = last /\ ids' = ids
  BY DEF planVars
<1>2. Fresh' /\ Paired' /\ Kept'
  BY <1>1 DEF BuildInv, Fresh, Paired, Pair, Kept, Exists, BuiltBy, Lives
<1>3. \A id \in Ids : RunOf(id)'
  BY <1>1 DEF BuildInv, RunOf, BuiltBy
<1>4. Going'
  BY <1>1 DEF BuildInv, Going, Swept, BuiltBy, Lives
<1>5. ReadyHasCopy'
  BY <1>1 DEF BuildInv, ReadyHasCopy, BuiltBy, IsReady
<1> QED
  BY <1>2, <1>3, <1>4, <1>5 DEF BuildInv

\* A look moves a row on to its step.
LEMMA LooksKeepBuild ==
  ASSUME Types, StoreInv, BuildInv, NEW c \in Copies, Looks(c)
  PROVE  BuildInv'
<1>1. PICK r : r = copy[c]
  OBVIOUS
<1>2. PICK t : t = K!Transition(r, [type |-> "read"])
  OBVIOUS
<1>3. /\ Exists(c) /\ r \in Rows /\ K!ActivityOf(r.state) \in {"read", "recheck"}
      /\ copy' = copy \/ copy' = [copy EXCEPT ![c] = t]
  BY <1>1, <1>2, LookIs
<1>4. UNCHANGED <<planVars, run, copier, remover, store>>
  BY DEF Looks
<1>5. CASE copy' = copy
  BY <1>4, <1>5, SameKeepsBuild
<1>6. CASE copy' = [copy EXCEPT ![c] = t]
  <2>1. /\ Same(r, t)
        /\ \/ r.state = "capturing.due" /\ t.state = "capturing.sent"
           \/ r.state = "fetching.due" /\ t.state = "fetching.sent"
           \/ r.state = "publishing.due" /\ t.state = "publishing.sent"
           \/ r.state \in {"discarding.due", "discarding.held"} /\ t.state = "discarding.sent"
           \/ r.state \in {"deleting.due", "deleting.held"} /\ t.state = "deleting.sent"
    BY <1>2, <1>3, ReadMoves
  <2>2. t # Gone
    BY <2>1, RowFields DEF Same
  <2>3. /\ t.state \in {"publishing.due", "publishing.sent"} => r.state \in {"publishing.due", "publishing.sent"}
        /\ t.state \in {"capturing.due", "capturing.sent"} => r.state \in {"capturing.due", "capturing.sent"}
        /\ t.state \in K!Deleting <=> r.state \in K!Deleting
        /\ t.state # "ready" /\ r.state # "ready" /\ t.build = r.build
    BY <2>1 DEF K!Deleting, Same
  <2> QED
    BY <1>1, <1>3, <1>4, <1>6, <2>2, <2>3, RowKeepsBuild
<1> QED
  BY <1>3, <1>5, <1>6

\* The end of a step: a copy that its run waits for is there, and in the store once published.
LEMMA FollowsKeepBuild ==
  ASSUME Types, StoreInv, BuildInv, NEW c \in Copies, Follows(c)
  PROVE  BuildInv'
<1>1. PICK r : r = copy[c]
  OBVIOUS
<1>2. /\ Exists(c) /\ r \in Rows /\ op[c] \in Ops /\ op[c].kind \in Kinds /\ op[c] # NoOp
      /\ r.state \in K!Sent \cup {"discarding.sent", "deleting.draining", "deleting.sent"}
  BY <1>1, FollowIs, TypeFacts DEF Follows
<1>3. PICK e \in Heard : copy' = [copy EXCEPT ![c] = K!Transition(r, e)] /\ (Done(e) => op[c].at = "done")
  BY <1>1, FollowIs
<1>4. PICK t : t = K!Transition(r, e)
  OBVIOUS
<1>5. UNCHANGED <<planVars, run, copier, remover, store>>
  BY DEF Follows
<1>6. \/ t = Gone /\ r.state = "deleting.sent"
      \/ Same(r, t) /\ t.state = "ready" /\ r.state \in K!Sent /\ Done(e)
      \/ Same(r, t) /\ t.state \in {"failed", "discarding.due", "discarding.held"}
           /\ r.state \in K!Sent \cup {"discarding.sent"}
      \/ Same(r, t) /\ t.state \in {"deleting.due", "deleting.held"}
           /\ r.state \in {"deleting.draining", "deleting.sent"}
  BY <1>2, <1>4, HeardMoves DEF K!Sent
<1>7. t # Gone => /\ t.build = r.build /\ (t.state \in K!Deleting <=> r.state \in K!Deleting)
                  /\ t.state \notin {"publishing.due", "publishing.sent", "capturing.due", "capturing.sent"}
                  /\ t.state = "ready" => r.state \in K!Sent /\ Done(e)
  BY <1>6 DEF Same, K!Deleting, K!Sent
<1>8. t = Gone => r.state \in K!Deleting
  BY <1>6, RowFields DEF Same, K!Deleting
<1>9. ASSUME c[1] = "built", t # Gone, t.state = "ready", r.state # "capturing.sent"
      PROVE  c[2] \in store.manifests
  <2>1. CopyOk(c)
    BY DEF StoreInv
  <2>2. r.state = "publishing.sent"
    BY <1>1, <1>2, <1>7, <1>9, <2>1 DEF CopyOk, Origin, K!Sent
  <2>3. op[c].kind = "publish"
    <3>1. r.state \in K!Leaf /\ K!StepOf(r.state) \in {"any", op[c].kind}
      BY <1>1, <1>2, <2>1, RowFields DEF CopyOk, OpIsStep
    <3> QED
      BY <1>2, <2>2, <3>1, LeafOfStep
  <2> QED
    BY <1>2, <1>3, <1>7, <1>9, <2>1, <2>3 DEF CopyOk, Progress
<1>10. r.state # "ready"
  BY <1>2 DEF K!Sent
<1> QED
  BY <1>1, <1>2, <1>3, <1>4, <1>5, <1>7, <1>8, <1>9, <1>10, RowKeepsBuild

\* What a host does is not the builds' business, save that a manifest stays for as long as its
\* copy is ready.
LEMMA HostsKeepBuild ==
  ASSUME Types, StoreInv, BuildInv, NEW c \in Copies, Host(c)
  PROVE  BuildInv'
<1>1. UNCHANGED <<planVars, run, copy, copier, remover>>
  BY DEF Host, Captures, PublishLists, PublishEnds, Fetches, Unpublishes, Deletes, Fails, Puts, HostStep
<1>2. CASE ~Unpublishes(c)
  <2>1. store.manifests \subseteq store'.manifests
    BY <1>2 DEF Host, Captures, PublishLists, PublishEnds, Fetches, Deletes, Fails, Puts, Types
  <2> QED
    BY <1>1, <2>1, SameKeepsBuild
<1>3. CASE Unpublishes(c)
  <2>1. /\ op[c] # NoOp /\ op[c].kind = "deleteCheckpoint" /\ Published(c)
        /\ store'.manifests = store.manifests \ {c[2]}
    BY <1>3 DEF Unpublishes, Doing, Types
  <2>2. Exists(c) /\ CopyOk(c)
    BY <2>1 DEF StoreInv, CopyOk, OpIsStep
  <2>3. c[1] = "built" /\ c = Built(c[2])
    BY <2>1, <2>2, CopyParts DEF CopyOk, Origin, Published
  <2>4. copy[c].state # "ready"
    <3>1. copy[c].state \in K!Leaf /\ K!StepOf(copy[c].state) \in {"any", op[c].kind} /\ op[c].kind \in Kinds
      BY <2>1, <2>2, TypeFacts, RowFields DEF CopyOk, OpIsStep
    <3> QED
      BY <3>1, LeafOfStep DEF K!Sent
  <2>5. \A id : id \in store.manifests \ store'.manifests => BuiltBy(id).state # "ready"
    BY <2>1, <2>3, <2>4 DEF BuiltBy, Built
  <2> QED
    BY <1>1, <2>5, SameKeepsBuild
<1> QED
  BY <1>2, <1>3

--------------------------------------------------------------------------------
(* The builds, over what their runs do. *)

\* The one build that runs is the one whose run does.
LEMMA RunnerIs ==
  ASSUME Types, BuildInv, NEW id \in Ids, run[id].at \in {"making", "capturing", "publishing"}
  PROVE  \E b \in template :
           /\ b.id = id /\ b.phase = "building" /\ Lives(b) /\ b.number \in Nat /\ b.number <= last /\ id <= ids
           /\ b = CHOOSE x \in template : x.id = id
           /\ \A i \in Ids : run[i].at \in {"making", "capturing", "publishing"} => i = id
           /\ \A x \in template : x.id = id => x = b
<1>1. PICK b \in template : b.id = id /\ b.phase = "building"
  BY DEF BuildInv, RunOf
<1>2. b.number \in Nat /\ b.number <= last /\ id <= ids
  BY <1>1, BuildFacts DEF Types, BuildInv, Fresh
<1>3. \A x \in template : x.id = id => x = b
  BY <1>1 DEF BuildInv, Fresh
<1>4. b = CHOOSE x \in template : x.id = id
  BY <1>1, <1>3
<1>5. ASSUME NEW i \in Ids, run[i].at \in {"making", "capturing", "publishing"} PROVE i = id
  <2>1. PICK x \in template : x.id = i /\ x.phase = "building"
    BY <1>5 DEF BuildInv, RunOf
  <2> QED
    BY <1>1, <2>1 DEF BuildInv, Fresh
<1> QED
  BY <1>1, <1>2, <1>3, <1>4, <1>5 DEF Lives

\* The setup went well: the copy of the build begins.
LEMMA RunCopiesKeeps ==
  ASSUME Types, StoreInv, BuildInv, NEW id \in Ids, RunCopies(id)
  PROVE  StoreInv' /\ BuildInv'
<1>1. /\ run[id].at = "making" /\ run' = [run EXCEPT ![id] = [at |-> "capturing"]]
      /\ copy' = [copy EXCEPT ![<<"built", id>>] = Captured(id)]
      /\ UNCHANGED <<planVars, op, copier, remover, store>>
  BY DEF RunCopies, At
<1>2. PICK c \in Copies : c = Built(id) /\ c[1] = "built" /\ c[2] = id
  BY CopyParts
<1>3. PICK t : t = Captured(id)
  OBVIOUS
<1>4. PICK b \in template :
           /\ b.id = id /\ b.phase = "building" /\ Lives(b) /\ b.number \in Nat /\ b.number <= last /\ id <= ids
           /\ b = CHOOSE x \in template : x.id = id
           /\ \A i \in Ids : run[i].at \in {"making", "capturing", "publishing"} => i = id
           /\ \A x \in template : x.id = id => x = b
  BY <1>1, RunnerIs
<1>5. /\ t \in Rows /\ t.state = "capturing.due" /\ t.published = K!None /\ t.build = b.number /\ t # Gone
  BY <1>3, <1>4, BegunFields, RowFields
<1>6. /\ copy' = [copy EXCEPT ![c] = t] /\ copy'[c] = t
      /\ \A d \in Copies \ {c} : copy'[d] = copy[d]
  BY <1>1, <1>2, <1>3 DEF Types, Built
<1>7. copy[c] = Gone
  BY <1>1, <1>2 DEF BuildInv, RunOf, BuiltBy, Built
<1>8. StoreInv'
  BY <1>1, <1>2, <1>5, <1>6, <1>7, RowBeginsKeepsStore DEF Exists
<1>9. template' = template /\ last' = last /\ ids' = ids
  BY <1>1 DEF planVars
<1>10. /\ run'[id].at = "capturing"
       /\ \A i \in Ids \ {id} : run'[i] = run[i]
  BY <1>1 DEF Types
<1>11. /\ BuiltBy(id)' = t
       /\ \A i \in Ids \ {id} : BuiltBy(i)' = BuiltBy(i)
  BY <1>2, <1>6, CopyParts DEF BuiltBy, Built
<1>12. Fresh'
  BY <1>9 DEF BuildInv, Fresh
<1>13. Paired'
  <2>1. Pair(id, b.number)
    BY <1>4 DEF Pair, BuildInv, Fresh
  <2> QED
    BY <1>1, <1>2, <1>5, <1>6, <1>9, <2>1 DEF BuildInv, Paired, Pair, Exists
<1>14. \A i \in Ids : RunOf(i)'
  <2> SUFFICES ASSUME NEW i \in Ids PROVE RunOf(i)'
    OBVIOUS
  <2>1. CASE i = id
    BY <1>4, <1>5, <1>9, <1>10, <1>11, <2>1 DEF RunOf
  <2>2. CASE i # id
    BY <1>1, <1>9, <1>10, <1>11, <2>2 DEF BuildInv, RunOf
  <2> QED
    BY <2>1, <2>2
<1>15. \A x \in template : x.id \in Ids /\ (x.id = id => ~IsReady(x))
  BY <1>4, BuildFacts DEF Types, IsReady
<1>16. Kept'
  BY <1>5, <1>9, <1>11, <1>15 DEF BuildInv, Kept, Lives, K!Deleting
<1>17. Going'
  <2> SUFFICES ASSUME NEW i \in Ids, BuiltBy(i)' # Gone, \A x \in template : x.id = i => ~Lives(x)
               PROVE  BuiltBy(i)'.state \in K!Deleting \/ Swept(Built(i))'
    BY <1>9 DEF Going, Lives
  <2>1. i # id
    BY <1>4
  <2>2. BuiltBy(i).state \in K!Deleting \/ Swept(Built(i))
    BY <1>11, <2>1 DEF BuildInv, Going
  <2>3. Swept(Built(i)) => Swept(Built(i))'
    BY <1>1, <1>10 DEF Swept, Built
  <2> QED
    BY <1>11, <2>1, <2>2, <2>3
<1>18. ReadyHasCopy'
  BY <1>1, <1>9, <1>11, <1>15 DEF BuildInv, ReadyHasCopy, IsReady
<1> QED
  BY <1>8, <1>12, <1>13, <1>14, <1>16, <1>17, <1>18 DEF BuildInv

\* A wait on a copy ends well only when the copy is ready.
LEMMA RestsReady ==
  ASSUME Types, StoreInv, BuildInv, NEW id \in Ids, run[id].at \in {"capturing", "publishing"}, Rests(BuiltBy(id))
  PROVE  BuiltBy(id) # Gone /\ BuiltBy(id) \in Rows /\ BuiltBy(id).state = "ready"
<1>1. PICK c \in Copies : c = Built(id) /\ copy[c] = BuiltBy(id)
  BY CopyParts DEF BuiltBy, Built
<1>2. BuiltBy(id) # Gone
  BY DEF BuildInv, RunOf
<1>3. BuiltBy(id).error = K!None /\ K!ActivityOf(BuiltBy(id).state) = "none"
  BY <1>2 DEF Rests
<1>4. BuiltBy(id) \in Rows /\ BuiltBy(id).state \in K!Leaf
  BY <1>1, <1>2, TypeFacts, RowFields DEF Exists
<1>5. BuiltBy(id).state \in {"ready", "failed"}
  BY <1>3, <1>4 DEF K!ActivityOf, K!Leaf, K!Due, K!Sent, K!Discarding, K!Deleting
<1>6. BuiltBy(id).state # "failed"
  BY <1>1, <1>2, <1>3 DEF StoreInv, CopyOk, Says, Exists
<1> QED
  BY <1>2, <1>4, <1>5, <1>6

\* The copy of the build was captured: it is published.
LEMMA RunPublishesKeeps ==
  ASSUME Types, StoreInv, BuildInv, NEW id \in Ids, RunPublishes(id)
  PROVE  StoreInv' /\ BuildInv'
<1>1. /\ run[id].at = "capturing" /\ run' = [run EXCEPT ![id] = [at |-> "publishing"]]
      /\ UNCHANGED <<planVars, copier, remover, store>>
      /\ BuiltBy(id) # Gone /\ BuiltBy(id) \in Rows /\ BuiltBy(id).state = "ready"
  BY RestsReady DEF RunPublishes, At
<1>2. PICK c \in Copies : c = Built(id) /\ c[1] = "built" /\ c[2] = id
  BY CopyParts
<1>3. PICK r : r = copy[c]
  OBVIOUS
<1>4. r = BuiltBy(id) /\ Exists(c)
  BY <1>1, <1>2, <1>3 DEF BuiltBy, Built, Exists
<1>5. PICK t : t = K!Transition(r, [type |-> "publish", as |-> NameOf(c)])
  OBVIOUS
<1>6. Advance(c, [type |-> "publish", as |-> NameOf(c)])
  BY <1>1, <1>2 DEF RunPublishes, Built
<1>7. op' = op /\ copy' = [copy EXCEPT ![c] = t] /\ copy'[c] = t /\ \A d \in Copies \ {c} : copy'[d] = copy[d]
  BY ZenonT(30), <1>3, <1>4, <1>5, <1>6, PublishIs DEF Types
<1>8. /\ t \in Rows /\ t.state = "publishing.due" /\ t.build = r.build /\ t # Gone
  BY <1>1, <1>4, <1>5, PublishMoves, RowFields
<1>9. StoreInv'
  BY <1>1, <1>2, <1>4, <1>6, PublishKeepsStore
<1>10. template' = template /\ last' = last /\ ids' = ids
  BY <1>1 DEF planVars
<1>11. /\ run'[id].at = "publishing"
       /\ \A i \in Ids \ {id} : run'[i] = run[i]
  BY <1>1 DEF Types
<1>12. /\ BuiltBy(id)' = t
       /\ \A i \in Ids \ {id} : BuiltBy(i)' = BuiltBy(i)
  BY <1>2, <1>7, CopyParts DEF BuiltBy, Built
<1>13. PICK b \in template :
           /\ b.id = id /\ b.phase = "building" /\ Lives(b) /\ b.number \in Nat /\ b.number <= last /\ id <= ids
           /\ b = CHOOSE x \in template : x.id = id
           /\ \A i \in Ids : run[i].at \in {"making", "capturing", "publishing"} => i = id
           /\ \A x \in template : x.id = id => x = b
  BY <1>1, RunnerIs
<1>14. Fresh'
  BY <1>10 DEF BuildInv, Fresh
<1>15. Paired'
  <2>1. \A d \in Copies : copy'[d] # Gone => copy[d] # Gone /\ copy'[d].build = copy[d].build
    BY <1>3, <1>4, <1>7, <1>8 DEF Exists
  <2> QED
    BY <1>1, <1>10, <2>1 DEF BuildInv, Paired, Pair, Exists
<1>16. \A i \in Ids : RunOf(i)'
  <2> SUFFICES ASSUME NEW i \in Ids PROVE RunOf(i)'
    OBVIOUS
  <2>1. CASE i = id
    BY <1>8, <1>10, <1>11, <1>12, <1>13, <2>1 DEF RunOf
  <2>2. CASE i # id
    BY <1>1, <1>10, <1>11, <1>12, <2>2 DEF BuildInv, RunOf
  <2> QED
    BY <2>1, <2>2
<1>17. \A x \in template : x.id \in Ids /\ (x.id = id => ~IsReady(x))
  BY <1>13, BuildFacts DEF Types, IsReady
<1>18. Kept'
  BY <1>8, <1>10, <1>12, <1>17 DEF BuildInv, Kept, Lives, K!Deleting
<1>19. Going'
  <2> SUFFICES ASSUME NEW i \in Ids, BuiltBy(i)' # Gone, \A x \in template : x.id = i => ~Lives(x)
               PROVE  BuiltBy(i)'.state \in K!Deleting \/ Swept(Built(i))'
    BY <1>10 DEF Going, Lives
  <2>1. i # id
    BY <1>13
  <2>2. BuiltBy(i).state \in K!Deleting \/ Swept(Built(i))
    BY <1>12, <2>1 DEF BuildInv, Going
  <2>3. Swept(Built(i)) => Swept(Built(i))'
    BY <1>1, <1>11 DEF Swept, Built
  <2> QED
    BY <1>12, <2>1, <2>2, <2>3
<1>20. ReadyHasCopy'
  BY <1>1, <1>10, <1>12, <1>17 DEF BuildInv, ReadyHasCopy, IsReady
<1> QED
  BY <1>9, <1>14, <1>15, <1>16, <1>18, <1>19, <1>20 DEF BuildInv

\* The end of a build keeps it, and of the others ready ones only.
LEMMA EndedIs ==
  ASSUME NEW id, NEW phase \in {"ready", "failed"}, template \subseteq BuildRows,
         NEW x \in Ended(template, id, phase)
  PROVE  /\ x \in BuildRows
         /\ \E b \in template : /\ x.id = b.id /\ x.number = b.number
                                /\ \/ b.id = id /\ x.phase = phase
                                   \/ b.id # id /\ x = b /\ IsReady(b)
<1> DEFINE now == {IF b.id = id THEN [b EXCEPT !.phase = phase] ELSE b : b \in template}
           ready == Latest({b \in now : IsReady(b)})
<1>1. x \in now /\ (x.id = id \/ x \in ready)
  BY DEF Ended
<1>2. PICK b \in template : x = IF b.id = id THEN [b EXCEPT !.phase = phase] ELSE b
  BY <1>1
<1>3. b \in BuildRows
  OBVIOUS
<1>4. CASE b.id = id
  <2>1. x = [b EXCEPT !.phase = phase]
    BY <1>2, <1>4
  <2>2. x \in BuildRows /\ x.id = b.id /\ x.number = b.number /\ x.phase = phase
    BY <1>3, <2>1 DEF BuildRows
  <2> QED
    BY <1>4, <2>2
<1>5. CASE b.id # id
  <2>1. x = b /\ x \in ready
    BY <1>1, <1>2, <1>5
  <2>2. IsReady(x)
    BY <2>1 DEF Latest
  <2> QED
    BY <1>3, <1>5, <2>1, <2>2
<1> QED
  BY <1>4, <1>5

\* Rows whose numbers were given before are written anew: the last number stays.
LEMMA WrittenIs ==
  ASSUME NEW builds, Written(builds), \A b \in builds : b.number <= last
  PROVE  template' = builds /\ last' = last
BY DEF Written

\* A template whose builds are some of those it had keeps ids and numbers apart and together.
LEMMA FewerBuilds ==
  ASSUME Types, BuildInv, UNCHANGED <<last, ids>>,
         \A x \in template' : /\ x.phase # "building" \/ x \in template
                              /\ \E b \in template : x.id = b.id /\ x.number = b.number,
         \A x, y \in template' : x.id = y.id => x = y
  PROVE  /\ Fresh'
         /\ \A id, number : Pair(id, number) => Pair(id, number)'
<1>1. Fresh'
  <2>1. \A x \in template' : x.number <= last /\ x.id <= ids
    BY DEF BuildInv, Fresh
  <2>2. \A x, y \in template' : x.number = y.number => x.id = y.id
    BY DEF BuildInv, Fresh
  <2>3. \A x, y \in template' : x.phase = "building" /\ y.phase = "building" => x = y
    BY DEF BuildInv, Fresh
  <2> QED
    BY <2>1, <2>2, <2>3 DEF Fresh
<1>2. \A id, number : Pair(id, number) => Pair(id, number)'
  BY DEF Pair
<1> QED
  BY <1>1, <1>2

\* The end of a build, apart from its copies.
LEMMA EndedKeeps ==
  ASSUME Types, BuildInv, NEW id, NEW phase \in {"ready", "failed"},
         template' = Ended(template, id, phase), UNCHANGED <<last, ids>>,
         \A b \in template : b.phase = "building" => b.id = id
  PROVE  /\ Fresh'
         /\ \A i, number : Pair(i, number) => Pair(i, number)'
         /\ \A x \in template' : x.phase # "building"
         /\ \A x \in template' : (x.id = id /\ x.phase = phase) \/ (x.id # id /\ x \in template /\ IsReady(x))
<1>1. \A x \in template' :
        \E b \in template : /\ x.id = b.id /\ x.number = b.number
                            /\ \/ b.id = id /\ x.phase = phase
                               \/ b.id # id /\ x = b /\ IsReady(b)
  BY EndedIs DEF Types
<1>2. \A x \in template' : (x.id = id /\ x.phase = phase) \/ (x.id # id /\ x \in template /\ IsReady(x))
  BY <1>1
<1>3. \A x \in template' : x.phase # "building"
  BY <1>2 DEF IsReady
<1>4. ASSUME NEW x \in template', NEW y \in template', x.id = y.id PROVE x = y
  <2>1. CASE x.id # id
    BY <1>2, <1>4, <2>1 DEF BuildInv, Fresh
  <2>2. CASE x.id = id
    <3>1. x \in BuildRows /\ y \in BuildRows
      BY EndedIs DEF Types
    <3>2. x.phase = y.phase
      BY <1>2, <1>4, <2>2
    <3>3. PICK b \in template : x.id = b.id /\ x.number = b.number
      BY <1>1
    <3>4. PICK d \in template : y.id = d.id /\ y.number = d.number
      BY <1>1
    <3>5. x.number = y.number
      BY <1>4, <3>3, <3>4 DEF BuildInv, Fresh
    <3> QED
      BY <1>4, <3>1, <3>2, <3>5 DEF BuildRows
  <2> QED
    BY <2>1, <2>2
<1> QED
  BY <1>1, <1>2, <1>3, <1>4, FewerBuilds

\* A run that ended, either way: its sweep has read every copy there is.
LEMMA RunStops ==
  ASSUME Types, BuildInv, NEW id \in Ids, NEW phase \in {"ready", "failed"},
         run[id].at \in {"making", "capturing", "publishing"},
         Tidies(id), Ending(id, phase), UNCHANGED <<ids, copyVars, copier, remover, store>>,
         phase = "ready" => BuiltBy(id) # Gone /\ BuiltBy(id).state = "ready" /\ id \in store.manifests
  PROVE  BuildInv'
<1>1. copy' = copy /\ copier' = copier /\ remover' = remover /\ store' = store
  BY DEF copyVars
<1>2. PICK b \in template :
           /\ b.id = id /\ b.phase = "building" /\ Lives(b) /\ b.number \in Nat /\ b.number <= last /\ id <= ids
           /\ b = CHOOSE x \in template : x.id = id
           /\ \A i \in Ids : run[i].at \in {"making", "capturing", "publishing"} => i = id
           /\ \A x \in template : x.id = id => x = b
  BY RunnerIs
<1>3. template' = Ended(template, id, phase) /\ last' = last
  <2>1. \A x \in Ended(template, id, phase) : x.number <= last
    BY EndedIs DEF Types, BuildInv, Fresh
  <2> QED
    BY <2>1, WrittenIs DEF Ending
<1>4. /\ run'[id].at = "tidying" /\ run'[id].recorded = Recorded
      /\ \A i \in Ids \ {id} : run'[i] = run[i]
  BY DEF Tidies, Types
<1>5. \A x \in template : x.phase = "building" => x.id = id
  BY <1>2 DEF BuildInv, Fresh
<1>6. /\ Fresh'
      /\ \A i, number : Pair(i, number) => Pair(i, number)'
      /\ \A x \in template' : x.phase # "building"
      /\ \A x \in template' : (x.id = id /\ x.phase = phase) \/ (x.id # id /\ x \in template /\ IsReady(x))
  BY <1>3, <1>5, EndedKeeps
<1>7. Paired'
  BY <1>1, <1>6 DEF BuildInv, Paired, Exists
<1>8. \A i \in Ids : RunOf(i)'
  BY <1>2, <1>4 DEF BuildInv, RunOf
<1>9. Kept'
  <2> SUFFICES ASSUME NEW x \in template', Lives(x), BuiltBy(x.id) # Gone
               PROVE  BuiltBy(x.id).state \notin K!Deleting
    BY <1>1 DEF Kept, Lives, BuiltBy
  <2> QED
    BY <1>2, <1>6 DEF BuildInv, Kept, Lives
<1>10. Going'
  <2>1. \A i \in Ids : BuiltBy(i) # Gone => Built(i) \in Recorded
    BY CopyParts DEF Recorded, BuiltBy, Built, Exists
  <2>2. \A i \in Ids : BuiltBy(i) # Gone => Swept(Built(i))'
    BY <1>4, <2>1 DEF Swept, Built
  <2> QED
    BY <1>1, <2>2 DEF Going, BuiltBy
<1>11. ReadyHasCopy'
  <2> SUFFICES ASSUME NEW x \in template', IsReady(x)
               PROVE  BuiltBy(x.id) # Gone /\ BuiltBy(x.id).state = "ready" /\ x.id \in store.manifests
    BY <1>1 DEF ReadyHasCopy, IsReady, BuiltBy
  <2> QED
    BY <1>6 DEF BuildInv, ReadyHasCopy, IsReady
<1> QED
  BY <1>6, <1>7, <1>8, <1>9, <1>10, <1>11 DEF BuildInv

--------------------------------------------------------------------------------
(* The builds, over sweeps. *)

\* A sweep keeps the builds if it drops copies of none that lives, and of each that does not
\* drops the copy, or leaves it to another sweep.
LEMMA SweepKeeps ==
  ASSUME Types, StoreInv, BuildInv, NEW cs, Discard(cs), UNCHANGED <<ids, last, store>>,
         Fresh', \A i, number : Pair(i, number) => Pair(i, number)',
         copier' \in {copier, Idle},
         template' \subseteq BuildRows,
         \A x \in template' : Lives(x) => x \in template,
         \A c \in Copies : c \in cs /\ Exists(c) => \A x \in template' : x.number = copy[c].build => ~Lives(x),
         \A i \in Ids : /\ run'[i].at # "idle" => run'[i] = run[i]
                        /\ run'[i].at \in {"making", "capturing", "publishing"} => template' = template,
         \A i \in Ids : (BuiltBy(i) # Gone /\ \A x \in template' : x.id = i => ~Lives(x)) =>
                           \/ BuiltBy(i).state \in K!Deleting
                           \/ Swept(Built(i))'
                           \/ Built(i) \in cs
  PROVE  BuildInv'
<1>1. \A c \in Copies : copy'[c] = IF c \in cs /\ Exists(c) THEN K!Transition(copy[c], [type |-> "delete"]) ELSE copy[c]
  BY DiscardIs
<1>2. ASSUME NEW c \in Copies, c \in cs, Exists(c)
      PROVE  copy'[c] # Gone => copy'[c].build = copy[c].build /\ copy'[c].state \in K!Deleting
  <2>1. PICK r \in Rows : r = copy[c]
    BY <1>2, TypeFacts
  <2>2. PICK t : t = copy'[c]
    OBVIOUS
  <2>3. t = K!Transition(r, [type |-> "delete"])
    BY <1>1, <1>2, <2>1, <2>2
  <2>4. t # Gone => Same(r, t) /\ t.state \in K!Deleting
    BY <2>3, DeleteMoves
  <2> QED
    BY <2>1, <2>2, <2>4 DEF Same
<1>3. \A c \in Copies : copy'[c] # Gone => Exists(c) /\ copy'[c].build = copy[c].build
  BY <1>1, <1>2 DEF Exists
<1>4. Paired'
  <2>1. \A c \in Copies : copy'[c] # Gone => Pair(c[2], copy'[c].build)
    BY <1>3 DEF BuildInv, Paired
  <2>2. copier'.at = "fetching" => copier' = copier
    BY DEF Idle
  <2>3. copier'.at = "fetching" => \A d \in copier'.due : Pair(d.from, d.number)
    BY <2>2 DEF BuildInv, Paired
  <2>4. \A i, number : Pair(i, number) =>
          i <= ids' /\ number <= last' /\ \A b \in template' : b.id = i <=> b.number = number
    BY DEF Pair
  <2> QED
    BY <2>1, <2>3, <2>4 DEF Paired, Pair, Exists
<1>5. \A i \in Ids : Built(i) \in Copies /\ BuiltBy(i) = copy[Built(i)] /\ BuiltBy(i)' = copy'[Built(i)] /\ Built(i)[2] = i
  BY CopyParts DEF BuiltBy, Built
<1>6. \A i \in Ids : \/ BuiltBy(i)' = BuiltBy(i)
                     \/ /\ BuiltBy(i) # Gone /\ Built(i) \in cs
                        /\ BuiltBy(i)' # Gone => BuiltBy(i)'.state \in K!Deleting
  BY <1>1, <1>2, <1>5 DEF Exists
<1>7. ASSUME NEW x \in template', Lives(x)
      PROVE  x \in template /\ x.id \in Ids /\ BuiltBy(x.id)' = BuiltBy(x.id)
  <2>1. x \in template /\ x.id \in Ids
    BY <1>7, BuildFacts
  <2>2. BuiltBy(x.id) # Gone => x.number = copy[Built(x.id)].build
    <3>1. BuiltBy(x.id) # Gone => Pair(x.id, copy[Built(x.id)].build)
      BY <1>5, <2>1 DEF BuildInv, Paired, Exists
    <3> QED
      BY <2>1, <3>1 DEF Pair
  <2>3. BuiltBy(x.id) # Gone => Built(x.id) \notin cs
    BY <1>5, <1>7, <2>1, <2>2 DEF Exists
  <2> QED
    BY <1>6, <2>1, <2>3
<1>8. \A i \in Ids : RunOf(i)'
  <2> SUFFICES ASSUME NEW i \in Ids PROVE RunOf(i)'
    OBVIOUS
  <2>1. RunOf(i)
    BY DEF BuildInv
  <2>2. CASE run'[i].at \in {"making", "capturing", "publishing"}
    <3>1. run'[i] = run[i] /\ template' = template
      BY <2>2
    <3>2. PICK x \in template : x.id = i /\ x.phase = "building"
      BY <2>1, <2>2, <3>1 DEF RunOf
    <3>3. BuiltBy(i)' = BuiltBy(i)
      BY <1>7, <3>1, <3>2 DEF Lives
    <3> QED
      BY <2>1, <3>1, <3>2, <3>3 DEF RunOf
  <2>3. CASE run'[i].at \notin {"making", "capturing", "publishing"}
    BY <2>1, <2>3 DEF RunOf
  <2> QED
    BY <2>2, <2>3
<1>9. Kept'
  <2> SUFFICES ASSUME NEW x \in template', Lives(x), BuiltBy(x.id)' # Gone
               PROVE  BuiltBy(x.id)'.state \notin K!Deleting
    BY DEF Kept, Lives
  <2> QED
    BY <1>7 DEF BuildInv, Kept
<1>10. Going'
  <2> SUFFICES ASSUME NEW i \in Ids, BuiltBy(i)' # Gone, \A x \in template' : x.id = i => ~Lives(x)
               PROVE  BuiltBy(i)'.state \in K!Deleting \/ Swept(Built(i))'
    BY DEF Going, Lives
  <2>1. BuiltBy(i) # Gone
    BY <1>6
  <2>2. CASE Built(i) \in cs
    BY <1>2, <1>5, <2>1, <2>2 DEF Exists
  <2>3. CASE Built(i) \notin cs
    BY <1>6, <2>1, <2>3
  <2> QED
    BY <2>2, <2>3
<1>11. ReadyHasCopy'
  <2> SUFFICES ASSUME NEW x \in template', IsReady(x)
               PROVE  BuiltBy(x.id)' # Gone /\ BuiltBy(x.id)'.state = "ready" /\ x.id \in store.manifests
    BY DEF ReadyHasCopy, IsReady
  <2>1. Lives(x)
    BY DEF Lives, IsReady
  <2> QED
    BY <1>7, <2>1 DEF BuildInv, ReadyHasCopy
<1> QED
  BY <1>4, <1>8, <1>9, <1>10, <1>11 DEF BuildInv

\* What a sweep takes of the copies it read, where the template's builds are as they were.
LEMMA DeadIs ==
  ASSUME Types, BuildInv, NEW recorded
  PROVE  /\ \A c \in Copies : c \in Dead(recorded) => \A x \in template : x.number = copy[c].build => ~Lives(x)
         /\ \A i \in Ids : (BuiltBy(i) # Gone /\ \A x \in template : x.id = i => ~Lives(x)) =>
                             (Built(i) \in recorded => Built(i) \in Dead(recorded))
<1>1. \A n : n \in Live <=> \E b \in template : Lives(b) /\ b.number = n
  BY BuildFacts DEF Live, Numbers, Types
<1>2. \A c \in Copies : c \in Dead(recorded) => \A x \in template : x.number = copy[c].build => ~Lives(x)
  BY <1>1 DEF Dead
<1>3. ASSUME NEW i \in Ids, BuiltBy(i) # Gone, \A x \in template : x.id = i => ~Lives(x), Built(i) \in recorded
      PROVE  Built(i) \in Dead(recorded)
  <2>1. Built(i) \in Copies /\ BuiltBy(i) = copy[Built(i)] /\ Built(i)[2] = i
    BY CopyParts DEF BuiltBy, Built
  <2>2. Pair(i, copy[Built(i)].build)
    BY <1>3, <2>1 DEF BuildInv, Paired, Exists
  <2>3. copy[Built(i)].build \notin Live
    BY <1>1, <1>3, <2>2 DEF Pair
  <2> QED
    BY <1>3, <2>1, <2>3 DEF Dead, Exists
<1> QED
  BY <1>2, <1>3

\* The sweep of a run, and of a delete of the template.
LEMMA DropsKeep ==
  ASSUME Types, StoreInv, BuildInv
  PROVE  /\ \A id \in Ids : RunDrops(id) => StoreInv' /\ BuildInv'
         /\ RemoverDrops => StoreInv' /\ BuildInv'
<1>1. \A i, number : UNCHANGED planVars => (Pair(i, number) => Pair(i, number)')
  BY DEF planVars, Pair
<1>2. UNCHANGED planVars => Fresh' /\ template' \subseteq BuildRows
  BY DEF planVars, BuildInv, Fresh, Types
<1>3. ASSUME NEW id \in Ids, RunDrops(id) PROVE StoreInv' /\ BuildInv'
  <2>1. PICK cs : cs = Dead(run[id].recorded)
    OBVIOUS
  <2>2. /\ run[id].at = "tidying" /\ Discard(cs) /\ UNCHANGED <<planVars, copier, remover, store>>
        /\ run' = [run EXCEPT ![id] = [at |-> "idle"]]
    BY <1>3, <2>1 DEF RunDrops, At
  <2>3. template' = template /\ last' = last /\ ids' = ids
    BY <2>2 DEF planVars
  <2>4. run'[id].at = "idle" /\ \A i \in Ids \ {id} : run'[i] = run[i]
    BY <2>2 DEF Types
  <2>5. \A c : Swept(c) => Swept(c)' \/ c \in run[id].recorded
    BY <2>2, <2>4 DEF Swept
  <2>6. \A i \in Ids : (BuiltBy(i) # Gone /\ \A x \in template' : x.id = i => ~Lives(x)) =>
                         BuiltBy(i).state \in K!Deleting \/ Swept(Built(i))' \/ Built(i) \in cs
    <3> SUFFICES ASSUME NEW i \in Ids, BuiltBy(i) # Gone, \A x \in template : x.id = i => ~Lives(x)
                 PROVE  BuiltBy(i).state \in K!Deleting \/ Swept(Built(i))' \/ Built(i) \in cs
      BY <2>3
    <3>1. BuiltBy(i).state \in K!Deleting \/ Swept(Built(i))
      BY DEF BuildInv, Going
    <3>2. Swept(Built(i)) => Swept(Built(i))' \/ Built(i) \in run[id].recorded
      <4>1. PICK c : c = Built(i)
        OBVIOUS
      <4>2. Swept(c) => Swept(c)' \/ c \in run[id].recorded
        BY <2>5
      <4> QED
        BY <4>1, <4>2 DEF Swept, Built
    <3> QED
      BY <2>1, <3>1, <3>2, DeadIs
  <2>7. StoreInv'
    BY <2>2, DiscardKeepsStore
  <2>8. BuildInv'
    BY <1>1, <1>2, <2>1, <2>2, <2>3, <2>4, <2>6, DeadIs, SweepKeeps
  <2> QED
    BY <2>7, <2>8
<1>4. ASSUME RemoverDrops PROVE StoreInv' /\ BuildInv'
  <2>1. PICK cs : cs = Dead(remover.recorded)
    OBVIOUS
  <2>2. /\ remover.at = "tidying" /\ Discard(cs) /\ UNCHANGED <<planVars, run, copier, store>>
    BY <1>4, <2>1 DEF RemoverDrops
  <2>3. template' = template /\ last' = last /\ ids' = ids
    BY <2>2 DEF planVars
  <2>4. \A i \in Ids : Swept(Built(i)) => Swept(Built(i))' \/ Built(i) \in remover.recorded
    BY <2>2 DEF Swept, Built
  <2>5. \A i \in Ids : (BuiltBy(i) # Gone /\ \A x \in template' : x.id = i => ~Lives(x)) =>
                         BuiltBy(i).state \in K!Deleting \/ Swept(Built(i))' \/ Built(i) \in cs
    <3> SUFFICES ASSUME NEW i \in Ids, BuiltBy(i) # Gone, \A x \in template : x.id = i => ~Lives(x)
                 PROVE  BuiltBy(i).state \in K!Deleting \/ Swept(Built(i))' \/ Built(i) \in cs
      BY <2>3
    <3>1. BuiltBy(i).state \in K!Deleting \/ Swept(Built(i))
      BY DEF BuildInv, Going
    <3> QED
      BY <2>1, <2>4, <3>1, DeadIs
  <2>6. StoreInv'
    BY <2>2, DiscardKeepsStore
  <2>7. BuildInv'
    BY <1>1, <1>2, <2>1, <2>2, <2>3, <2>5, DeadIs, SweepKeeps
  <2> QED
    BY <2>6, <2>7
<1> QED
  BY <1>3, <1>4

\* A restart fails the build that ran, and its sweep is over before anything else is.
LEMMA RestartKeeps ==
  ASSUME Types, StoreInv, BuildInv, Restart
  PROVE  StoreInv' /\ BuildInv' /\ template' \subseteq BuildRows
<1>1. PICK cs : cs = {c \in Recorded : copy[c].build \notin NumbersIn(Restarted, {"building", "ready"})}
  OBVIOUS
<1>2. /\ Discard(cs) /\ template' = Restarted /\ UNCHANGED <<last, ids, store>>
      /\ run' = [id \in Ids |-> Idle] /\ copier' = Idle
  BY <1>1 DEF Restart, Forgets
<1>3. StoreInv'
  BY <1>2, DiscardKeepsStore
<1>4. /\ Fresh'
      /\ \A i, number : Pair(i, number) => Pair(i, number)'
      /\ template' \subseteq BuildRows
      /\ \A x \in template' : Lives(x) => x \in template
  <2>1. CASE Building = {}
    <3>1. template' = template
      BY <1>2, <2>1 DEF Restarted
    <3> QED
      BY <1>2, <3>1 DEF BuildInv, Fresh, Pair, Types
  <2>2. CASE Building # {}
    <3>1. PICK b \in template : b = CHOOSE x \in template : x.phase = "building"
      BY <2>2 DEF Building, Numbers, NumbersIn
    <3>2. b.phase = "building"
      BY <2>2, <3>1 DEF Building, Numbers, NumbersIn
    <3>3. template' = Ended(template, b.id, "failed")
      BY <1>2, <2>2, <3>1 DEF Restarted
    <3>4. \A x \in template : x.phase = "building" => x.id = b.id
      BY <3>2 DEF BuildInv, Fresh
    <3>5. /\ Fresh'
          /\ \A i, number : Pair(i, number) => Pair(i, number)'
          /\ \A x \in template' : (x.id = b.id /\ x.phase = "failed") \/ (x.id # b.id /\ x \in template /\ IsReady(x))
      BY <1>2, <3>3, <3>4, EndedKeeps
    <3>6. template' \subseteq BuildRows
      BY <3>3, EndedIs DEF Types
    <3> QED
      BY <3>5, <3>6 DEF Lives
  <2> QED
    BY <2>1, <2>2
<1>5. \A n : n \in NumbersIn(template', {"building", "ready"}) <=> \E b \in template' : Lives(b) /\ b.number = n
  BY <1>4, BuildFacts
<1>6. \A c \in Copies : c \in cs /\ Exists(c) => \A x \in template' : x.number = copy[c].build => ~Lives(x)
  BY <1>1, <1>2, <1>5
<1>7. \A i \in Ids : (BuiltBy(i) # Gone /\ \A x \in template' : x.id = i => ~Lives(x)) => Built(i) \in cs
  <2> SUFFICES ASSUME NEW i \in Ids, BuiltBy(i) # Gone, \A x \in template' : x.id = i => ~Lives(x)
               PROVE  Built(i) \in cs
    OBVIOUS
  <2>1. Built(i) \in Copies /\ BuiltBy(i) = copy[Built(i)] /\ Built(i)[2] = i
    BY CopyParts DEF BuiltBy, Built
  <2>2. PICK n : n = copy[Built(i)].build
    OBVIOUS
  <2>3. Pair(i, n)
    BY <2>1, <2>2 DEF BuildInv, Paired, Exists
  <2>4. \A b \in template' : b.id = i <=> b.number = n
    BY <1>4, <2>3 DEF Pair
  <2>5. n \notin NumbersIn(template', {"building", "ready"})
    BY <1>5, <2>4
  <2> QED
    BY <1>1, <1>2, <2>1, <2>2, <2>5 DEF Recorded, Exists
<1>8. \A i \in Ids : run'[i].at = "idle"
  BY <1>2 DEF Idle
<1>9. BuildInv'
  BY <1>2, <1>4, <1>6, <1>7, <1>8, SweepKeeps
<1> QED
  BY <1>3, <1>4, <1>9

\* A delete of the template: its sweep has read every copy there is.
LEMMA RemoveKeeps ==
  ASSUME Types, BuildInv, RemoveTemplate
  PROVE  BuildInv' /\ template' = {} /\ last' = last
<1>1. /\ Building = {} /\ UNCHANGED <<ids, run, copyVars, copier, store>>
      /\ remover' = [at |-> "tidying", recorded |-> Recorded]
      /\ template' = {} /\ last' = last /\ copier = Idle
  BY DEF RemoveTemplate, Written
<1>2. copy' = copy
  BY <1>1 DEF copyVars
<1>3. Fresh' /\ Kept' /\ ReadyHasCopy'
  BY <1>1 DEF Fresh, Kept, ReadyHasCopy
<1>4. Paired'
  BY <1>1, <1>2 DEF BuildInv, Paired, Pair, Exists, Idle
<1>5. \A i \in Ids : RunOf(i)'
  <2>1. \A b \in template : b.phase # "building"
    BY <1>1 DEF Building, Numbers, NumbersIn
  <2> QED
    BY <1>1, <2>1 DEF BuildInv, RunOf
<1>6. Going'
  <2>1. \A i \in Ids : BuiltBy(i) # Gone => Built(i) \in Recorded
    BY CopyParts DEF Recorded, BuiltBy, Built, Exists
  <2>2. remover' # Idle
    BY <1>1 DEF Idle
  <2>3. \A i \in Ids : BuiltBy(i) # Gone => Swept(Built(i))'
    BY <1>1, <2>1, <2>2 DEF Swept, Built
  <2> QED
    BY <1>2, <2>3 DEF Going, BuiltBy
<1> QED
  BY <1>1, <1>3, <1>4, <1>5, <1>6 DEF BuildInv

\* A new build has a number and an id that none had.
LEMMA BuildKeeps ==
  ASSUME Types, BuildInv, Build
  PROVE  BuildInv' /\ template' \subseteq BuildRows /\ last' = last + 1
<1> DEFINE b == [number |-> last + 1, id |-> ids + 1, phase |-> "building"]
<1>1. /\ ids < MaxBuilds /\ Building = {} /\ Written(template \cup {b}) /\ ids' = ids + 1
      /\ run' = [run EXCEPT ![ids + 1] = [at |-> "making"]]
      /\ UNCHANGED <<copyVars, copier, remover, store>>
  BY DEF Build, Begun, NextNumber
<1>2. ids \in Nat /\ MaxBuilds \in Nat /\ last \in Nat
  BY BuildsAssumption DEF Types
<1>3. ids + 1 \in Ids /\ b \in BuildRows /\ b.number = last + 1 /\ b.id = ids + 1 /\ b.phase = "building"
  <2>1. ids + 1 \in Ids
    BY <1>1, <1>2 DEF Ids
  <2> QED
    BY <1>2, <2>1 DEF BuildRows
<1> HIDE DEF b
<1>4. /\ \A x \in template : x.number \in Nat /\ x.number <= last /\ x.id \in Ids /\ x.id <= ids
      /\ Ids \subseteq Nat
  <2>1. \A x \in template : x.number \in Nat /\ x.number <= last /\ x.id \in Ids /\ x.id <= ids
    BY BuildFacts DEF Types, BuildInv, Fresh
  <2>2. Ids \subseteq Nat
    BY <1>2 DEF Ids
  <2> QED
    BY <2>1, <2>2
<1>5. template' = template \cup {b} /\ last' = last + 1
  <2>1. PICK m : m = CHOOSE x \in template \cup {b} : \A y \in template \cup {b} : y.number <= x.number
    OBVIOUS
  <2>2. \A y \in template \cup {b} : y.number <= b.number
    BY <1>2, <1>3, <1>4
  <2>3. m \in template \cup {b} /\ \A y \in template \cup {b} : y.number <= m.number
    BY <2>1, <2>2
  <2>4. m.number = last + 1
    BY <1>2, <1>3, <1>4, <2>3
  <2>5. ~\A x \in template \cup {b} : x.number <= last
    BY <1>2, <1>3
  <2> QED
    BY <1>1, <2>1, <2>4, <2>5 DEF Written
<1>6. template' \subseteq BuildRows
  BY <1>3, <1>5 DEF Types
<1>7. copy' = copy /\ copier' = copier /\ remover' = remover /\ store' = store
  BY <1>1 DEF copyVars
<1>8. \A x \in template : x.phase # "building"
  BY <1>1 DEF Building, Numbers, NumbersIn
<1>9. Fresh'
  <2>1. \A x \in template' : x.number <= last' /\ x.id <= ids'
    <3>1. \A x \in template : x.number <= last + 1 /\ x.id <= ids + 1
      <4> SUFFICES ASSUME NEW x \in template PROVE x.number <= last + 1 /\ x.id <= ids + 1
        OBVIOUS
      <4>1. x.number \in Nat /\ x.id \in Nat /\ x.number <= last /\ x.id <= ids
        BY <1>4
      <4> QED
        BY <1>2, <4>1
    <3>2. b.number <= last + 1 /\ b.id <= ids + 1
      BY <1>2, <1>3
    <3> QED
      BY <1>1, <1>5, <3>1, <3>2
  <2>2. \A x, y \in template' : x.id = y.id \/ x.number = y.number => x = y
    BY <1>2, <1>3, <1>4, <1>5 DEF BuildInv, Fresh
  <2>3. \A x, y \in template' : x.phase = "building" /\ y.phase = "building" => x = y
    BY <1>5, <1>8
  <2> QED
    BY <2>1, <2>2, <2>3 DEF Fresh
<1>10. ASSUME NEW i \in Ids, NEW n \in Nat, Pair(i, n)
       PROVE  i <= ids' /\ n <= last' /\ \A x \in template' : x.id = i <=> x.number = n
  BY <1>1, <1>2, <1>3, <1>4, <1>5, <1>10 DEF Pair
<1>11. Paired'
  <2>1. \A c \in Copies : copy[c] # Gone => c[2] \in Ids /\ copy[c].build \in Nat /\ Pair(c[2], copy[c].build)
    BY CopyParts, TypeFacts, RowFields DEF BuildInv, Paired, Exists
  <2>2. copier.at = "fetching" => \A d \in copier.due : d.from \in Ids /\ d.number \in Nat /\ Pair(d.from, d.number)
    <3>1. copier.at = "fetching" => copier.due \subseteq [from : Ids, number : Nat]
      BY DEF Types, Copiers, Idle
    <3> QED
      BY <3>1 DEF BuildInv, Paired
  <2> QED
    BY <1>7, <1>10, <2>1, <2>2 DEF Paired, Pair, Exists
<1>12. /\ run'[ids + 1] = [at |-> "making"]
       /\ \A i \in Ids \ {ids + 1} : run'[i] = run[i]
  BY <1>1, <1>3 DEF Types
<1>13. BuiltBy(ids + 1) = Gone
  <2>1. PICK c \in Copies : c = Built(ids + 1) /\ c[2] = ids + 1
    BY <1>3, CopyParts
  <2>2. copy[c] = Gone
    BY <1>2, <2>1 DEF BuildInv, Paired, Pair, Exists
  <2> QED
    BY <2>1, <2>2 DEF BuiltBy, Built
<1>14. \A i \in Ids : RunOf(i)'
  <2> SUFFICES ASSUME NEW i \in Ids PROVE RunOf(i)'
    OBVIOUS
  <2>1. CASE i = ids + 1
    BY <1>1, <1>2, <1>3, <1>5, <1>7, <1>12, <1>13, <2>1 DEF RunOf, BuiltBy
  <2>2. CASE i # ids + 1
    <3>1. RunOf(i) /\ run'[i] = run[i] /\ BuiltBy(i)' = BuiltBy(i)
      BY <1>7, <1>12, <2>2 DEF BuildInv, BuiltBy
    <3>2. run[i].at # "idle" => i <= ids'
      BY <1>1, <1>2, <1>4, <3>1 DEF RunOf
    <3> QED
      BY <1>5, <1>7, <3>1, <3>2 DEF RunOf
  <2> QED
    BY <2>1, <2>2
<1>15. Kept'
  BY <1>3, <1>5, <1>7, <1>13 DEF BuildInv, Kept, Lives, BuiltBy
<1>16. Going'
  <2> SUFFICES ASSUME NEW i \in Ids, BuiltBy(i) # Gone, \A x \in template' : x.id = i => ~Lives(x)
               PROVE  BuiltBy(i).state \in K!Deleting \/ Swept(Built(i))'
    BY <1>7 DEF Going, BuiltBy, Lives
  <2>1. BuiltBy(i).state \in K!Deleting \/ Swept(Built(i))
    BY <1>5 DEF BuildInv, Going
  <2>2. run[ids + 1].at = "idle"
    BY <1>2, <1>3 DEF BuildInv, RunOf
  <2>3. Swept(Built(i)) => Swept(Built(i))'
    BY <1>7, <1>12, <2>2 DEF Swept, Built
  <2> QED
    BY <2>1, <2>3
<1>17. ReadyHasCopy'
  BY <1>3, <1>5, <1>7 DEF BuildInv, ReadyHasCopy, BuiltBy, IsReady
<1> QED
  BY <1>5, <1>6, <1>9, <1>11, <1>14, <1>15, <1>16, <1>17 DEF BuildInv

\* The passes of the copier read what is due, and begin fetches on the other host.
LEMMA CopierKeeps ==
  ASSUME Types, StoreInv, BuildInv
  PROVE  /\ CopierReads \/ CopierSees => StoreInv' /\ BuildInv'
         /\ \A d \in [from : Ids, number : Ids] : CopierFetches(d) => StoreInv' /\ BuildInv'
<1>1. ASSUME UNCHANGED <<planVars, run, copyVars, remover, store>>,
             copier'.at = "fetching" => \A d \in copier'.due : Pair(d.from, d.number)
      PROVE  StoreInv' /\ BuildInv'
  <2>1. template' = template /\ last' = last /\ ids' = ids /\ copy' = copy /\ op' = op
    BY <1>1 DEF planVars, copyVars
  <2>2. \A c \in Copies : CopyOk(c)'
    BY <1>1, <2>1, CopyStays DEF StoreInv
  <2>3. Apart' /\ StoreWhole' /\ Owned'
    BY <1>1, <2>1, StoreSame DEF StoreInv, Apart, Conflicting
  <2>4. Fresh' /\ Kept'
    BY <2>1 DEF BuildInv, Fresh, Kept, BuiltBy, Lives
  <2>5. \A id \in Ids : RunOf(id)'
    BY <1>1, <2>1 DEF BuildInv, RunOf, BuiltBy
  <2>6. Going' /\ ReadyHasCopy'
    BY <1>1, <2>1 DEF BuildInv, Going, Swept, BuiltBy, Lives, ReadyHasCopy, IsReady
  <2>7. Paired'
    BY <1>1, <2>1 DEF BuildInv, Paired, Pair, Exists
  <2> QED
    BY <2>2, <2>3, <2>4, <2>5, <2>6, <2>7 DEF StoreInv, BuildInv
<1>2. ASSUME NEW ready, \/ copier' = Fetching(Due(ready))
      PROVE  copier'.at = "fetching" => \A d \in copier'.due : Pair(d.from, d.number)
  <2> SUFFICES ASSUME copier'.at = "fetching", NEW d \in copier'.due
               PROVE  Pair(d.from, d.number)
    OBVIOUS
  <2>1. d \in Due(ready)
    BY <1>2 DEF Fetching, Idle
  <2>2. d.from \in Ids /\ BuiltBy(d.from) # Gone /\ BuiltBy(d.from).build = d.number
    BY <2>1 DEF Due
  <2>3. PICK c \in Copies : c = Built(d.from) /\ c[2] = d.from
    BY <2>2, CopyParts
  <2> QED
    BY <2>2, <2>3 DEF BuildInv, Paired, Exists, BuiltBy, Built
<1>3. ASSUME CopierReads \/ CopierSees PROVE StoreInv' /\ BuildInv'
  <2>1. CASE CopierReads
    BY <1>1, <2>1 DEF CopierReads
  <2>2. CASE CopierSees
    BY <1>1, <1>2, <2>2 DEF CopierSees
  <2> QED
    BY <1>3, <2>1, <2>2
<1>4. ASSUME NEW d \in [from : Ids, number : Ids], CopierFetches(d) PROVE StoreInv' /\ BuildInv'
  <2>1. /\ copier.at = "fetching" /\ d \in copier.due /\ copier' = Fetching(copier.due \ {d})
        /\ copy[<<"fetched", d.from>>] = Gone \/ copy[<<"fetched", d.from>>].state = "failed"
        /\ copy' = [copy EXCEPT ![<<"fetched", d.from>>] = Fetched(d)]
        /\ UNCHANGED <<planVars, run, op, remover, store>>
    BY <1>4 DEF CopierFetches
  <2>2. PICK c \in Copies : c = <<"fetched", d.from>> /\ c[1] = "fetched" /\ c[2] = d.from
    BY CopyParts
  <2>3. PICK t : t = Fetched(d)
    OBVIOUS
  <2>4. /\ t \in Rows /\ t.state = "fetching.due" /\ t.published = NameOf(Built(d.from)) /\ t.build = d.number
        /\ t # Gone
    <3>1. d \in [from : Ids, number : Nat]
      BY BuildsAssumption DEF Ids
    <3> QED
      BY <2>3, <3>1, BegunFields, RowFields
  <2>5. t.published # NameOf(c)
    <3>1. Built(d.from) \in Copies /\ Built(d.from) # c
      BY <2>2, CopyParts
    <3> QED
      BY <2>4, <3>1, NamesDiffer
  <2>6. copy' = [copy EXCEPT ![c] = t] /\ copy'[c] = t /\ \A x \in Copies \ {c} : copy'[x] = copy[x]
    BY <2>1, <2>2, <2>3 DEF Types
  <2>7. StoreInv'
    BY <2>1, <2>2, <2>4, <2>5, <2>6, RowBeginsKeepsStore DEF Exists
  <2>8. template' = template /\ last' = last /\ ids' = ids
    BY <2>1 DEF planVars
  <2>9. \A id \in Ids : BuiltBy(id)' = BuiltBy(id)
    BY <2>2, <2>6, CopyParts DEF BuiltBy, Built
  <2>10. Fresh'
    BY <2>8 DEF BuildInv, Fresh
  <2>11. Paired'
    <3>1. Pair(d.from, d.number)
      BY <2>1 DEF BuildInv, Paired
    <3>2. \A x \in Copies : copy'[x] # Gone => Pair(x[2], copy'[x].build)
      BY <2>2, <2>4, <2>6, <3>1 DEF BuildInv, Paired, Exists
    <3>3. copier'.at = "fetching" => \A x \in copier'.due : Pair(x.from, x.number)
      BY <2>1 DEF Fetching, Idle, BuildInv, Paired
    <3> QED
      BY <2>8, <3>2, <3>3 DEF Paired, Pair, Exists
  <2>12. \A id \in Ids : RunOf(id)'
    BY <2>1, <2>8, <2>9 DEF BuildInv, RunOf
  <2>13. \A b \in template : b.id \in Ids
    BY BuildFacts DEF Types
  <2>14. Kept' /\ ReadyHasCopy'
    BY <2>1, <2>8, <2>9, <2>13 DEF BuildInv, Kept, Lives, ReadyHasCopy, IsReady
  <2>15. Going'
    BY <2>1, <2>8, <2>9 DEF BuildInv, Going, Swept, Lives, Built
  <2> QED
    BY <2>7, <2>10, <2>11, <2>12, <2>14, <2>15 DEF BuildInv
<1> QED
  BY <1>3, <1>4

--------------------------------------------------------------------------------
(* The types, over each step. *)

\* The leases of a step.
LEMMA LeasesTyped ==
  ASSUME NEW r \in Rows, NEW c \in Copies, NEW kind
  PROVE  K!LeasesOf(r, NameOf(c), kind)
           \subseteq [on : {K!BuildStore, "builder"} \cup Names, mode : {"own", "share"}]
<1>1. r.machine = "builder" /\ NameOf(c) \in Names
  BY RowFields DEF Names
<1> QED
  BY <1>1 DEF K!LeasesOf

\* A row and its operation.
LEMMA RowTyped ==
  ASSUME Types, NEW c \in Copies, NEW t \in Rows \cup {Gone}, NEW o \in Ops \cup {NoOp},
         copy' = [copy EXCEPT ![c] = t], op' = [op EXCEPT ![c] = o] \/ op' = op
  PROVE  copy' \in [Copies -> Rows \cup {Gone}] /\ op' \in [Copies -> Ops \cup {NoOp}]
BY DEF Types

\* A sweep.
LEMMA DiscardTyped ==
  ASSUME Types, StoreInv, NEW cs, Discard(cs)
  PROVE  copy' \in [Copies -> Rows \cup {Gone}] /\ op' \in [Copies -> Ops \cup {NoOp}]
<1>1. /\ op' = op /\ DOMAIN copy' = Copies
      /\ \A c \in Copies : copy'[c] = IF c \in cs /\ Exists(c) THEN K!Transition(copy[c], [type |-> "delete"])
                                      ELSE copy[c]
  BY DiscardIs
<1>2. copy' = [c \in Copies |-> copy'[c]]
  BY DEF Discard
<1>3. ASSUME NEW c \in Copies PROVE copy'[c] \in Rows \cup {Gone}
  <2>1. CASE c \in cs /\ Exists(c)
    <3>1. PICK r \in Rows : r = copy[c]
      BY <2>1, TypeFacts
    <3>2. PICK t : t = K!Transition(r, [type |-> "delete"])
      OBVIOUS
    <3>3. t \in Rows \cup {Gone}
      BY <3>2, DeleteMoves DEF Same
    <3> QED
      BY <1>1, <2>1, <3>1, <3>2, <3>3
  <2>2. CASE ~(c \in cs /\ Exists(c))
    BY <1>1, <2>2, TypeFacts
  <2> QED
    BY <2>1, <2>2
<1>4. copy' \in [Copies -> Rows \cup {Gone}]
  BY <1>2, <1>3
<1> QED
  BY <1>1, <1>4 DEF Types

\* What stays typed when it does not change.
LEMMA Unchanging ==
  ASSUME Types
  PROVE  /\ UNCHANGED planVars => template' \subseteq BuildRows /\ last' \in Nat /\ ids' \in 0..MaxBuilds
         /\ UNCHANGED ids => ids' \in 0..MaxBuilds
         /\ UNCHANGED run => run' \in [Ids -> Runs]
         /\ UNCHANGED copyVars => copy' \in [Copies -> Rows \cup {Gone}] /\ op' \in [Copies -> Ops \cup {NoOp}]
         /\ UNCHANGED copier => copier' \in Copiers
         /\ UNCHANGED remover => remover' \in {Idle} \cup [at : {"tidying"}, recorded : SUBSET Copies]
         /\ UNCHANGED store => store' \in [manifests : SUBSET Ids, objects : SUBSET (0..MaxBuilds)]
BY DEF Types, planVars, copyVars

\* The steps of a run.
LEMMA RunsTyped ==
  ASSUME Types, StoreInv, BuildInv, NEW id \in Ids, Run(id)
  PROVE  Types'
<1>1. \A at \in {"idle", "making", "capturing", "publishing"} : At(id, at) => run' \in [Ids -> Runs]
  BY DEF At, Types, Runs
<1>2. Tidies(id) => run' \in [Ids -> Runs]
  <2>1. Recorded \in SUBSET Copies
    BY DEF Recorded
  <2>2. [at |-> "tidying", recorded |-> Recorded] \in Runs
    BY <2>1 DEF Runs
  <2> QED
    BY <2>2 DEF Tidies, Types
<1>3. ASSUME NEW phase \in {"ready", "failed"}, Ending(id, phase)
      PROVE  template' \subseteq BuildRows /\ last' \in Nat
  <2>1. \A x \in Ended(template, id, phase) : x \in BuildRows /\ x.number <= last
    BY EndedIs DEF Types, BuildInv, Fresh
  <2>2. template' = Ended(template, id, phase) /\ last' = last
    BY <1>3, <2>1, WrittenIs DEF Ending
  <2> QED
    BY <2>1, <2>2 DEF Types
<1>4. CASE RunCopies(id)
  <2>1. PICK t \in Rows : t = Captured(id)
    <3>1. run[id].at \in {"making", "capturing", "publishing"}
      BY <1>4 DEF RunCopies
    <3>2. (CHOOSE b \in template : b.id = id).number \in Nat
      BY <3>1, RunnerIs
    <3> QED
      BY <3>2, BegunFields
  <2>2. PICK c \in Copies : c = <<"built", id>>
    BY CopyParts DEF Built
  <2>3. copy' = [copy EXCEPT ![c] = t] /\ op' = op
    BY <1>4, <2>1, <2>2 DEF RunCopies
  <2>4. copy' \in [Copies -> Rows \cup {Gone}] /\ op' \in [Copies -> Ops \cup {NoOp}]
    BY <2>3 DEF Types
  <2> QED
    BY <1>1, <1>4, <2>4, Unchanging DEF RunCopies, Types
<1>5. CASE RunPublishes(id)
  <2>1. copy' \in [Copies -> Rows \cup {Gone}] /\ op' \in [Copies -> Ops \cup {NoOp}]
    <3>1. BuiltBy(id) # Gone
      BY <1>5, RestsReady DEF RunPublishes
    <3>2. PICK c \in Copies : c = <<"built", id>>
      BY CopyParts DEF Built
    <3>3. Exists(c) /\ Advance(c, [type |-> "publish", as |-> NameOf(c)])
      BY <1>5, <3>1, <3>2 DEF RunPublishes, BuiltBy, Exists
    <3>4. PICK r \in Rows : r = copy[c]
      BY <3>3, TypeFacts
    <3>5. PICK t : t = K!Transition(r, [type |-> "publish", as |-> NameOf(c)])
      OBVIOUS
    <3>6. op' = op /\ copy' = [copy EXCEPT ![c] = t]
      BY <3>3, <3>4, <3>5, PublishIs
    <3>7. t \in Rows
      BY <3>5, PublishMoves
    <3> QED
      BY <3>6, <3>7 DEF Types
  <2> QED
    BY <1>1, <1>5, <2>1, Unchanging DEF RunPublishes, Types
<1>6. CASE RunEnds(id)
  BY <1>2, <1>3, <1>6, Unchanging DEF RunEnds, Types
<1>7. CASE RunFails(id)
  BY <1>2, <1>3, <1>7, Unchanging DEF RunFails, Types
<1>8. CASE RunDrops(id)
  <2>1. copy' \in [Copies -> Rows \cup {Gone}] /\ op' \in [Copies -> Ops \cup {NoOp}]
    BY <1>8, DiscardTyped DEF RunDrops
  <2> QED
    BY <1>1, <1>8, <2>1, Unchanging DEF RunDrops, Types
<1> QED
  BY <1>4, <1>5, <1>6, <1>7, <1>8 DEF Run

\* The loops of copies.
LEMMA LoopsTyped ==
  ASSUME Types, StoreInv, NEW c \in Copies, Looks(c) \/ Follows(c)
  PROVE  Types'
<1>1. copy' \in [Copies -> Rows \cup {Gone}] /\ op' \in [Copies -> Ops \cup {NoOp}]
  <2>1. CASE Looks(c)
    <3>1. PICK r : r = copy[c]
      OBVIOUS
    <3>2. PICK t : t = K!Transition(r, [type |-> "read"])
      OBVIOUS
    <3>3. PICK o : o = [kind |-> K!StepOf(t.state), leases |-> K!LeasesOf(r, NameOf(c), K!StepOf(t.state)),
                        at |-> "begun", objects |-> {}]
      OBVIOUS
    <3>4. /\ r \in Rows /\ K!ActivityOf(r.state) \in {"read", "recheck"}
          /\ \/ copy' = copy /\ op' = op
             \/ copy' = [copy EXCEPT ![c] = t] /\ op' = [op EXCEPT ![c] = o]
      BY <2>1, <3>1, <3>2, <3>3, LookIs
    <3>5. t \in Rows /\ K!StepOf(t.state) \in Kinds
      BY <3>2, <3>4, ReadMoves, StepsOf DEF Same, Kinds
    <3>6. PICK kind \in Kinds : kind = K!StepOf(t.state)
      BY <3>5
    <3>7. PICK leases \in SUBSET [on : {K!BuildStore, "builder"} \cup Names, mode : {"own", "share"}] :
            leases = K!LeasesOf(r, NameOf(c), kind)
      BY <3>4, LeasesTyped
    <3>8. o = [kind |-> kind, leases |-> leases, at |-> "begun", objects |-> {}]
      BY <3>3, <3>6, <3>7
    <3>9. o \in Ops
      BY <3>8 DEF Ops
    <3> QED
      BY <3>4, <3>5, <3>9 DEF Types
  <2>2. CASE Follows(c)
    <3>1. PICK r \in Rows : r = copy[c]
      BY <2>2, FollowIs
    <3>2. /\ op' = [op EXCEPT ![c] = NoOp]
          /\ r.state \in K!Sent \cup {"discarding.sent", "deleting.draining", "deleting.sent"}
      BY <2>2, <3>1, FollowIs
    <3>3. PICK e \in Heard : copy' = [copy EXCEPT ![c] = K!Transition(r, e)]
      BY <2>2, <3>1, FollowIs
    <3>4. PICK t : t = K!Transition(r, e)
      OBVIOUS
    <3>5. t \in Rows \cup {Gone}
      BY <3>2, <3>4, HeardMoves DEF Same
    <3>6. copy' = [copy EXCEPT ![c] = t]
      BY <3>3, <3>4
    <3> QED
      BY <3>2, <3>5, <3>6 DEF Types
  <2> QED
    BY <2>1, <2>2
<1>2. UNCHANGED <<planVars, run, copier, remover, store>>
  BY DEF Looks, Follows
<1> QED
  BY <1>1, <1>2, Unchanging DEF Types

\* What hosts do.
LEMMA HostsTyped ==
  ASSUME Types, StoreInv, NEW c \in Copies, Host(c)
  PROVE  Types'
<1>1. UNCHANGED <<planVars, run, copy, copier, remover>>
  BY DEF Host, Captures, PublishLists, PublishEnds, Fetches, Unpublishes, Deletes, Fails, Puts, HostStep
<1>2. op[c] # NoOp /\ op[c] \in Ops /\ c[2] \in Ids
  <2>1. op[c] # NoOp
    BY DEF Host, Captures, PublishLists, PublishEnds, Fetches, Unpublishes, Deletes, Fails, Puts, Doing
  <2> QED
    BY <2>1, TypeFacts, CopyParts
<1>3. store' \in [manifests : SUBSET Ids, objects : SUBSET (0..MaxBuilds)]
  BY <1>2 DEF Host, Captures, PublishLists, PublishEnds, Fetches, Unpublishes, Deletes, Fails, Puts, Types
<1>4. PICK o \in Ops : o = op[c]
  BY <1>2
<1>5. PICK p : p = op'[c]
  OBVIOUS
<1>6. \/ \E at \in {"running", "done", "failed", "cleared"} : op' = [op EXCEPT ![c].at = at]
      \/ op' = [op EXCEPT ![c].at = "running", ![c].objects = store.objects]
      \/ \E b \in 0..MaxBuilds : op' = [op EXCEPT ![c].objects = @ \cup {b}]
  BY DEF Host, Captures, PublishLists, PublishEnds, Fetches, Unpublishes, Deletes, Fails, Puts, Goes
<1>7. /\ \/ \E at \in {"running", "done", "failed", "cleared"} : p = [o EXCEPT !.at = at]
         \/ p = [o EXCEPT !.at = "running", !.objects = store.objects]
         \/ \E b \in 0..MaxBuilds : p = [o EXCEPT !.objects = o.objects \cup {b}]
      /\ op' = [op EXCEPT ![c] = p]
  <2>1. CASE \E at \in {"running", "done", "failed", "cleared"} : op' = [op EXCEPT ![c].at = at]
    BY <1>4, <1>5, <2>1 DEF Types
  <2>2. CASE op' = [op EXCEPT ![c].at = "running", ![c].objects = store.objects]
    BY <1>4, <1>5, <2>2 DEF Types
  <2>3. CASE \E b \in 0..MaxBuilds : op' = [op EXCEPT ![c].objects = @ \cup {b}]
    BY <1>4, <1>5, <2>3 DEF Types
  <2> QED
    BY <1>6, <2>1, <2>2, <2>3
<1>8. p \in Ops
  <2>1. CASE \E at \in {"running", "done", "failed", "cleared"} : p = [o EXCEPT !.at = at]
    BY <2>1 DEF Ops
  <2>2. CASE p = [o EXCEPT !.at = "running", !.objects = store.objects]
    BY <2>2, TypeFacts DEF Ops
  <2>3. CASE \E b \in 0..MaxBuilds : p = [o EXCEPT !.objects = o.objects \cup {b}]
    BY <2>3 DEF Ops
  <2> QED
    BY <1>7, <2>1, <2>2, <2>3
<1>9. op' \in [Copies -> Ops \cup {NoOp}]
  BY <1>7, <1>8 DEF Types
<1> QED
  BY <1>1, <1>3, <1>9, Unchanging DEF Types

\* The other steps.
LEMMA OthersTyped ==
  ASSUME Types, StoreInv, BuildInv
  PROVE  /\ Build => Types' /\ BuildInv'
         /\ Copier => Types'
         /\ RemoveTemplate => Types' /\ BuildInv'
         /\ RemoverDrops => Types'
         /\ Restart => Types' /\ StoreInv' /\ BuildInv'
         /\ Reboot => Types'
<1>1. ASSUME Build PROVE Types' /\ BuildInv'
  <2>1. BuildInv' /\ template' \subseteq BuildRows /\ last' = last + 1
    BY <1>1, BuildKeeps
  <2>2. last' \in Nat
    BY <2>1 DEF Types
  <2>3. ids' \in 0..MaxBuilds
    BY <1>1, BuildsAssumption DEF Build, Types
  <2>4. run' \in [Ids -> Runs]
    BY <1>1 DEF Build, Types, Runs
  <2> QED
    BY <1>1, <2>1, <2>2, <2>3, <2>4, Unchanging DEF Build, Types
<1>2. ASSUME Copier PROVE Types'
  <2>1. CASE CopierReads
    <3>1. Numbers({"ready"}) \subseteq Nat
      BY BuildFacts DEF Numbers, NumbersIn, Types
    <3>2. copier' \in Copiers
      BY <2>1, <3>1 DEF CopierReads, Copiers
    <3> QED
      BY <2>1, <3>2, Unchanging DEF CopierReads, Types
  <2>2. CASE CopierSees
    <3>1. copier.ready \subseteq Nat
      BY <2>2 DEF CopierSees, Types, Copiers, Idle
    <3>2. Due(copier.ready) \subseteq [from : Ids, number : Nat]
      BY <3>1 DEF Due
    <3>3. copier' \in Copiers
      BY <2>2, <3>2 DEF CopierSees, Fetching, Copiers
    <3> QED
      BY <2>2, <3>3, Unchanging DEF CopierSees, Types
  <2>3. CASE \E d \in [from : Ids, number : Ids] : CopierFetches(d)
    <3>1. PICK d \in [from : Ids, number : Ids] : CopierFetches(d)
      BY <2>3
    <3>2. d \in [from : Ids, number : Nat]
      BY BuildsAssumption DEF Ids
    <3>3. PICK t \in Rows : t = Fetched(d)
      BY <3>2, BegunFields
    <3>4. PICK c \in Copies : c = <<"fetched", d.from>>
      BY CopyParts
    <3>5. copy' = [copy EXCEPT ![c] = t] /\ op' = op
      BY <3>1, <3>3, <3>4 DEF CopierFetches
    <3>6. copy' \in [Copies -> Rows \cup {Gone}] /\ op' \in [Copies -> Ops \cup {NoOp}]
      BY <3>5 DEF Types
    <3>7. copier.due \subseteq [from : Ids, number : Nat]
      BY <3>1 DEF CopierFetches, Types, Copiers, Idle
    <3>8. copier' \in Copiers
      BY <3>1, <3>7 DEF CopierFetches, Fetching, Copiers
    <3> QED
      BY <3>1, <3>6, <3>8, Unchanging DEF CopierFetches, Types
  <2> QED
    BY <1>2, <2>1, <2>2, <2>3 DEF Copier
<1>3. ASSUME RemoveTemplate PROVE Types' /\ BuildInv'
  <2>1. BuildInv' /\ template' = {} /\ last' = last
    BY <1>3, RemoveKeeps
  <2>2. Recorded \in SUBSET Copies
    BY DEF Recorded
  <2> QED
    BY <1>3, <2>1, <2>2, Unchanging DEF RemoveTemplate, Types
<1>4. ASSUME RemoverDrops PROVE Types'
  <2>1. copy' \in [Copies -> Rows \cup {Gone}] /\ op' \in [Copies -> Ops \cup {NoOp}]
    BY <1>4, DiscardTyped DEF RemoverDrops
  <2> QED
    BY <1>4, <2>1, Unchanging DEF RemoverDrops, Types
<1>5. ASSUME Restart PROVE Types' /\ StoreInv' /\ BuildInv'
  <2>1. copy' \in [Copies -> Rows \cup {Gone}] /\ op' \in [Copies -> Ops \cup {NoOp}]
    BY <1>5, DiscardTyped DEF Restart
  <2>2. StoreInv' /\ BuildInv' /\ template' \subseteq BuildRows
    BY <1>5, RestartKeeps
  <2>3. Idle \in Runs
    BY DEF Runs, Idle
  <2>4. run' \in [Ids -> Runs] /\ copier' \in Copiers
        /\ remover' \in {Idle} \cup [at : {"tidying"}, recorded : SUBSET Copies]
    BY <1>5, <2>3 DEF Restart, Forgets, Copiers
  <2> QED
    BY <1>5, <2>1, <2>2, <2>4, Unchanging DEF Restart, Types
<1>6. ASSUME Reboot PROVE Types'
  <2>1. op' = [c \in Copies |-> IF op[c] = NoOp THEN NoOp ELSE [op[c] EXCEPT !.at = "lost"]]
    BY <1>6 DEF Reboot
  <2>2. \A o \in Ops : [o EXCEPT !.at = "lost"] \in Ops
    BY DEF Ops
  <2>3. op' \in [Copies -> Ops \cup {NoOp}]
    BY <2>1, <2>2, TypeFacts
  <2> QED
    BY <1>6, <2>3, Unchanging DEF Reboot, HostStep, Types
<1> QED
  BY <1>1, <1>2, <1>3, <1>4, <1>5, <1>6

--------------------------------------------------------------------------------
(* The invariant, and the theorems. *)

\* It holds before the first build.
LEMMA InitHolds == Init => Inv
<1> SUFFICES ASSUME Init PROVE Inv
  OBVIOUS
<1>1. Types
  <2>1. Idle \in Runs
    BY DEF Runs, Idle
  <2>2. MaxBuilds \in Nat
    BY BuildsAssumption
  <2> QED
    BY <2>1, <2>2 DEF Init, Types, Copiers
<1>2. \A c \in Copies : copy[c] = Gone /\ op[c] = NoOp
  BY DEF Init
<1>3. \A id \in Ids : BuiltBy(id) = Gone /\ run[id].at = "idle"
  BY CopyParts DEF Init, BuiltBy, Built, Idle
<1>4. StoreInv
  <2>1. \A c \in Copies : CopyOk(c)
    BY <1>2 DEF CopyOk, OpIsStep, Origin, Progress, Says, Exists
  <2>2. Apart
    BY <1>2 DEF Apart
  <2>3. StoreWhole /\ Owned
    BY DEF Init, StoreWhole, Owned
  <2> QED
    BY <2>1, <2>2, <2>3 DEF StoreInv
<1>5. BuildInv
  <2>1. Fresh /\ Kept /\ ReadyHasCopy
    BY DEF Init, Fresh, Kept, ReadyHasCopy
  <2>2. Paired
    BY <1>2 DEF Init, Paired, Exists, Idle
  <2>3. (\A id \in Ids : RunOf(id)) /\ Going
    BY <1>3 DEF RunOf, Going
  <2> QED
    BY <2>1, <2>2, <2>3 DEF BuildInv
<1> QED
  BY <1>1, <1>4, <1>5 DEF Inv

\* No step of any actor breaks it.
LEMMA NextHolds == Inv /\ [Next]_vars => Inv'
<1> SUFFICES ASSUME Types, StoreInv, BuildInv, [Next]_vars PROVE Types' /\ StoreInv' /\ BuildInv'
  BY DEF Inv
<1>1. ASSUME UNCHANGED <<copyVars, store>> PROVE StoreInv'
  <2>1. copy' = copy /\ op' = op /\ store' = store
    BY <1>1 DEF copyVars
  <2>2. \A c \in Copies : CopyOk(c)'
    BY <2>1, CopyStays DEF StoreInv
  <2>3. Apart' /\ StoreWhole' /\ Owned'
    BY <2>1, StoreSame DEF StoreInv, Apart, Conflicting
  <2> QED
    BY <2>2, <2>3 DEF StoreInv
<1>2. CASE Build
  BY <1>1, <1>2, OthersTyped DEF Build
<1>3. CASE Copier
  BY <1>3, OthersTyped, CopierKeeps DEF Copier
<1>4. CASE RemoveTemplate
  BY <1>1, <1>4, OthersTyped DEF RemoveTemplate
<1>5. CASE RemoverDrops
  BY <1>5, OthersTyped, DropsKeep
<1>6. CASE Restart
  BY <1>6, OthersTyped
<1>7. CASE Reboot
  <2>1. UNCHANGED <<planVars, run, copy, copier, remover, store>>
    BY <1>7 DEF Reboot, HostStep
  <2>2. BuildInv'
    BY <2>1, SameKeepsBuild
  <2> QED
    BY <1>7, <2>2, OthersTyped, RebootKeepsStore
<1>8. CASE \E id \in Ids : Run(id)
  <2>1. PICK id \in Ids : Run(id)
    BY <1>8
  <2>2. Types'
    BY <2>1, RunsTyped
  <2>3. CASE RunCopies(id)
    BY <2>2, <2>3, RunCopiesKeeps
  <2>4. CASE RunPublishes(id)
    BY <2>2, <2>4, RunPublishesKeeps
  <2>5. CASE RunEnds(id)
    <3>1. /\ run[id].at = "publishing" /\ Rests(BuiltBy(id)) /\ Tidies(id) /\ Ending(id, "ready")
          /\ UNCHANGED <<ids, copyVars, copier, remover, store>>
      BY <2>5 DEF RunEnds
    <3>2. BuiltBy(id) # Gone /\ BuiltBy(id).state = "ready"
      BY <3>1, RestsReady
    <3>3. id \in store.manifests
      BY <3>1, <3>2 DEF BuildInv, RunOf
    <3>4. BuildInv'
      BY <3>1, <3>2, <3>3, RunStops
    <3> QED
      BY <1>1, <2>2, <3>1, <3>4
  <2>6. CASE RunFails(id)
    <3>1. /\ run[id].at \in {"making", "capturing", "publishing"} /\ Tidies(id) /\ Ending(id, "failed")
          /\ UNCHANGED <<ids, copyVars, copier, remover, store>>
      BY <2>6 DEF RunFails
    <3>2. BuildInv'
      BY <3>1, RunStops
    <3> QED
      BY <1>1, <2>2, <3>1, <3>2
  <2>7. CASE RunDrops(id)
    BY <2>2, <2>7, DropsKeep
  <2> QED
    BY <2>1, <2>3, <2>4, <2>5, <2>6, <2>7 DEF Run
<1>9. CASE \E c \in Copies : Looks(c) \/ Follows(c) \/ Host(c)
  <2>1. PICK c \in Copies : Looks(c) \/ Follows(c) \/ Host(c)
    BY <1>9
  <2>2. CASE Looks(c)
    BY <2>2, LoopsTyped, LooksKeepsStore, LooksKeepBuild
  <2>3. CASE Follows(c)
    BY <2>3, LoopsTyped, FollowsKeepsStore, FollowsKeepBuild
  <2>4. CASE Host(c)
    BY <2>4, HostsTyped, HostsKeepStore, HostsKeepBuild
  <2> QED
    BY <2>1, <2>2, <2>3, <2>4
<1>10. CASE UNCHANGED vars
  <2>1. UNCHANGED <<copyVars, store>> /\ UNCHANGED <<planVars, run, copy, copier, remover, store>>
    BY <1>10 DEF vars, copyVars, planVars
  <2>2. StoreInv' /\ BuildInv'
    BY <1>1, <2>1, SameKeepsBuild
  <2>3. Types'
    BY <2>1, Unchanging DEF Types, planVars
  <2> QED
    BY <2>2, <2>3
<1> QED
  BY <1>2, <1>3, <1>4, <1>5, <1>6, <1>7, <1>8, <1>9, <1>10 DEF Next

\* The inductive invariant holds of every behaviour.
LEMMA InvHolds == Spec => []Inv
BY InitHolds, NextHolds, PTL DEF Spec

\* What a manifest in the build store names is there, for however many builds are published and
\* dropped side by side: a delete owns the store that publishes share.
THEOREM StoreStaysWhole == Spec => []StoreWhole
<1>1. Inv => StoreWhole
  BY DEF Inv, StoreInv
<1> QED
  BY <1>1, InvHolds, PTL

\* Nothing of a build whose copy went or failed for good is left in the store.
THEOREM StoreIsCleared == Spec => []StoreClean
<1>1. Inv => StoreClean
  <2> SUFFICES ASSUME Inv PROVE StoreClean
    OBVIOUS
  <2>1. store.objects \subseteq UNION {Needs(i) : i \in {j \in Ids : Alive(j)}}
    BY DEF Inv, StoreInv, Owned
  <2>2. \A j \in Ids : Alive(j) => BuiltBy(j) # Gone /\ BuiltBy(j).state # "failed"
    BY DEF Alive
  <2> QED
    BY <2>1, <2>2 DEF StoreClean
<1> QED
  BY <1>1, InvHolds, PTL

\* A ready build has its copy, whole and published, for as long as it is one of the template's.
THEOREM ReadyBuildsHaveCopies == Spec => []ReadyHasCopy
<1>1. Inv => ReadyHasCopy
  BY DEF Inv, BuildInv
<1> QED
  BY <1>1, InvHolds, PTL

\* A create from a build never takes the copy of another, though numbers are all it goes by.
THEOREM ClonesAreOwn == Spec => []CloneIsOwn
<1>1. Inv => CloneIsOwn
  <2> SUFFICES ASSUME Inv, NEW b \in template, NEW c \in Takes(b) PROVE c[2] = b.id
    BY DEF CloneIsOwn
  <2>1. c \in Copies /\ Exists(c) /\ copy[c].build = b.number
    BY DEF Takes
  <2>2. Pair(c[2], b.number)
    BY <2>1 DEF Inv, BuildInv, Paired
  <2> QED
    BY <2>2 DEF Pair
<1> QED
  BY <1>1, InvHolds, PTL

\* The copy of a build that was dropped is on its way out, or a sweep that read it is under way.
THEOREM DroppedCopiesGo == Spec => []BuiltGo
<1>1. Inv => BuiltGo
  <2> SUFFICES ASSUME Inv, NEW id \in Ids, BuiltBy(id) # Gone,
                      id \notin {b.id : b \in {x \in template : x.phase # "failed"}}
               PROVE  BuiltBy(id).state \in K!Deleting \/ (\E i \in Ids : run[i].at = "tidying") \/ remover # Idle
    BY DEF BuiltGo
  <2>1. \A b \in template : b.id = id => ~Lives(b)
    BY DEF Lives
  <2>2. BuiltBy(id).state \in K!Deleting \/ Swept(Built(id))
    BY <2>1 DEF Inv, BuildInv, Going
  <2> QED
    BY <2>2 DEF Swept
<1> QED
  BY <1>1, InvHolds, PTL
================================================================================
