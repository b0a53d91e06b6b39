--------------------------------- MODULE Builds ---------------------------------
(***************************************************************************)
(* The builds of one template: their runs, the copies their hosts keep,    *)
(* the build store they are published to, and the sweeps that drop copies  *)
(* and fetch them to another host (apps/server/src/templates.ts,           *)
(* checkpoints.ts; apps/host/src/builds.ts, platform/s3.ts).               *)
(*                                                                         *)
(* Every build runs on one host, and one other host of its kind fetches    *)
(* it.  A build is told from every other by `id`, which the code has as    *)
(* the fresh names of its copies; its number is what clients name.         *)
(***************************************************************************)
EXTENDS Naturals, Sequences, FiniteSets, TLC

CONSTANTS
  KeptBuilds,   \* how many ready builds a template keeps
  MaxBuilds,    \* bound: builds
  MaxFaults     \* bound: failing steps and restarts of either process, together

ASSUME BuildsAssumption ==
  {KeptBuilds, MaxBuilds, MaxFaults} \subseteq Nat /\ KeptBuilds > 0

K == INSTANCE CheckpointChart

Ids == 1..MaxBuilds

\* The copy a build's own host captured, and the one the other host fetched.
Copies == {"built", "fetched"} \X Ids

NameOf(c) == c[1] \o ToString(c[2])

\* A copy's name is a fresh one: no other copy's, and nothing else a lease is taken on.
ASSUME NamesAssumption ==
  \A c \in Copies : /\ NameOf(c) \notin {K!None, K!BuildStore, "builder"}
                    /\ \A d \in Copies : NameOf(c) = NameOf(d) => c = d

VARIABLES
  template,  \* the template's builds, which are in the order of their numbers;
             \* none without a template
  last,      \* the number of the last build, which outlives the template
  ids,       \* the builds begun so far
  run,       \* what is left to do for each build, in memory
  copy,      \* the stored row of each copy, or Gone
  op,        \* the stored operation of each copy, with how far its host is with it
  copier,    \* whoever copies builds to every host: one at a time
  remover,   \* the delete of the template: idle, or tidying
  store,     \* the build store: manifests by build, objects by content
  left       \* what is left of the faults

vars == <<template, last, ids, run, copy, op, copier, remover, store, left>>

copyVars == <<copy, op>>
planVars == <<template, last, ids>>

Gone == K!Gone

NoOp == [kind |-> "none"]

Idle == [at |-> "idle"]

Fault == left > 0 /\ left' = left - 1

--------------------------------------------------------------------------------
(* The template. *)

Exists(c) == copy[c] # Gone

NumbersIn(builds, phases) == {b.number : b \in {x \in builds : x.phase \in phases}}

Numbers(phases) == NumbersIn(template, phases)

Building == Numbers({"building"})

\* The last KeptBuilds of some builds.
Latest(builds) ==
  {b \in builds : Cardinality({x \in builds : x.number > b.number}) < KeptBuilds}

IsReady(b) == b.phase = "ready"

\* The build that ended is kept, whatever its end, and of the ready ones the latest.
Ended(builds, id, phase) ==
  LET now == {IF b.id = id THEN [b EXCEPT !.phase = phase] ELSE b : b \in builds}
      ready == Latest({b \in now : IsReady(b)})
  IN {b \in now : b.id = id \/ b \in ready}

\* Mutant of NextNumber: a template that was deleted counts from one again.
NextOfRows ==
  IF template = {} THEN 1
  ELSE (CHOOSE b \in template : \A x \in template : x.number <= b.number).number + 1

NextNumber == last + 1

\* `advanceTemplate`: the template's rows are written anew, and the number of the last build, kept
\* apart from them, only rises.
Written(builds) ==
  /\ template' = builds
  /\ last' = IF \A b \in builds : b.number <= last THEN last
             ELSE (CHOOSE b \in builds : \A x \in builds : x.number <= b.number).number

\* A build of the template, if it is still there, has ended.
Ending(id, phase) == Written(Ended(template, id, phase))

\* `begun`: refused while a build of the template runs; earlier builds stay as they are.
Begun ==
  /\ Building = {}
  /\ Written(template \cup {[number |-> NextNumber, id |-> ids + 1, phase |-> "building"]})

\* The row is written, with the number counted on the template's name, and the run is forked.
Build ==
  /\ ids < MaxBuilds
  /\ Begun
  /\ ids' = ids + 1
  /\ run' = [run EXCEPT ![ids + 1] = [at |-> "making"]]
  /\ UNCHANGED <<copyVars, copier, remover, store, left>>

--------------------------------------------------------------------------------
(* The rows of copies: one event on one row, with its operation and leases. *)

Conflicting(wanted, held) == wanted.on = held.on /\ "own" \in {wanted.mode, held.mode}

Busy(leases) ==
  \E s \in Copies : op[s] # NoOp /\ \E w \in leases, h \in op[s].leases : Conflicting(w, h)

\* The row and the operation of `c` after the event.
Next1(c, e) ==
  LET next == K!Transition(copy[c], e)
      kind == K!StepOf(next.state)
      begins == K!Begins(copy[c], e)
      leases == K!LeasesOf(copy[c], NameOf(c), kind)
  IN IF begins /\ Busy(leases) THEN [row |-> copy[c], op |-> op[c]]
     ELSE [row |-> next,
           op |-> IF begins THEN [kind |-> kind, leases |-> leases, at |-> "begun", objects |-> {}]
                  ELSE IF K!Finishes(copy[c], e) THEN NoOp ELSE op[c]]

Advance(c, e) ==
  LET next == Next1(c, e)
  IN copy' = [copy EXCEPT ![c] = next.row] /\ op' = [op EXCEPT ![c] = next.op]

\* Discards several; each is a row of its own, so none stands in another's way.
Discard(cs) ==
  LET next == [c \in Copies |-> IF c \in cs /\ Exists(c) THEN Next1(c, [type |-> "delete"])
                                ELSE [row |-> copy[c], op |-> op[c]]]
  IN copy' = [c \in Copies |-> next[c].row] /\ op' = [c \in Copies |-> next[c].op]

Captured(id) ==
  [state |-> "capturing.due", error |-> K!None, published |-> K!None, machine |-> "builder",
   build |-> (CHOOSE b \in template : b.id = id).number]

--------------------------------------------------------------------------------
(* A build's run. *)

At(id, at) == run' = [run EXCEPT ![id] = [at |-> at]]

BuiltBy(id) == copy[<<"built", id>>]

\* Mutant of Rests: a wait on the copy ends unless it fails.
RestsUnlessFailed(row) == row = Gone \/ row.error = K!None

\* `rests`: a wait on the copy ends when it is at rest or gone, and fails on its error.
Rests(row) == row = Gone \/ (row.error = K!None /\ K!ActivityOf(row.state) = "none")

\* The setup went well: the builder is captured, and the copy waited for.
RunCopies(id) ==
  /\ run[id].at = "making"
  /\ At(id, "capturing")
  /\ copy' = [copy EXCEPT ![<<"built", id>>] = Captured(id)]
  /\ UNCHANGED <<planVars, op, copier, remover, store, left>>

RunPublishes(id) ==
  /\ run[id].at = "capturing" /\ Rests(BuiltBy(id))
  /\ At(id, "publishing")
  /\ IF BuiltBy(id) = Gone THEN UNCHANGED copyVars
     ELSE Advance(<<"built", id>>, [type |-> "publish", as |-> NameOf(<<"built", id>>)])
  /\ UNCHANGED <<planVars, copier, remover, store, left>>

Recorded == {c \in Copies : Exists(c)}

\* A run that ended reads the copies for its sweep.
Tidies(id) == run' = [run EXCEPT ![id] = [at |-> "tidying", recorded |-> Recorded]]

\* It ends ready, and the sweeps are next.
RunEnds(id) ==
  /\ run[id].at = "publishing" /\ Rests(BuiltBy(id))
  /\ Tidies(id)
  /\ Ending(id, "ready")
  /\ UNCHANGED <<ids, copyVars, copier, remover, store, left>>

\* Its setup fails, or what it waits for does, or its host does not answer in time.
RunFails(id) ==
  /\ run[id].at \in {"making", "capturing", "publishing"}
  /\ \/ /\ run[id].at # "making" /\ BuiltBy(id) # Gone /\ BuiltBy(id).error # K!None
        /\ UNCHANGED left
     \/ Fault
  /\ Tidies(id)
  /\ Ending(id, "failed")
  /\ UNCHANGED <<ids, copyVars, copier, remover, store>>

--------------------------------------------------------------------------------
(* Sweeps: `tidied` reads the copies, then the templates, and discards every *)
(* copy of no build that lives.                                              *)

Live == Numbers({"building", "ready"})

Dead(recorded) == {c \in recorded : Exists(c) /\ copy[c].build \notin Live}

RunDrops(id) ==
  /\ run[id].at = "tidying"
  /\ At(id, "idle")
  /\ Discard(Dead(run[id].recorded))
  /\ UNCHANGED <<planVars, copier, remover, store, left>>

\* The ready builds that were read, with what was published of them, to the host that
\* holds no copy of them; first what failed there is cleared.
Due(ready) ==
  {d \in [from : Ids, number : ready] :
     LET source == BuiltBy(d.from) IN
     /\ source # Gone /\ source.build = d.number
     /\ source.published = NameOf(<<"built", d.from>>) /\ source.state = "ready"
     /\ \A id \in Ids :
          LET here == copy[<<"fetched", id>>] IN
          here # Gone /\ here.build = d.number => here.state \in {"failed"} \cup K!Deleting}

Fetching(due) == IF due = {} THEN Idle ELSE [at |-> "fetching", due |-> due]

\* A pass begins at each recheck, and after each run's sweep; never beside another,
\* or a delete of the template.  One with no build to copy does nothing.
CopierReads ==
  /\ copier = Idle /\ remover = Idle
  /\ Numbers({"ready"}) # {}
  /\ copier' = [at |-> "reading", ready |-> Numbers({"ready"})]
  /\ UNCHANGED <<planVars, run, copyVars, remover, store, left>>

\* The copies are read after the templates, once the hosts answered.
CopierSees ==
  /\ copier.at = "reading"
  /\ copier' = Fetching(Due(copier.ready))
  /\ UNCHANGED <<planVars, run, copyVars, remover, store, left>>

Fetched(d) ==
  [state |-> "fetching.due", error |-> K!None, published |-> NameOf(<<"built", d.from>>),
   machine |-> "builder", build |-> d.number]

\* The fetched row is made of what the pass read of its source, so it is also
\* inserted when the source has gone since.  Its name, fresh in the code, is here one
\* that is free again.
CopierFetches(d) ==
  /\ copier.at = "fetching" /\ d \in copier.due
  /\ copier' = Fetching(copier.due \ {d})
  /\ copy[<<"fetched", d.from>>] = Gone \/ copy[<<"fetched", d.from>>].state = "failed"
  /\ copy' = [copy EXCEPT ![<<"fetched", d.from>>] = Fetched(d)]
  /\ UNCHANGED <<planVars, run, op, remover, store, left>>

\* The copies a create from the build may clone, the first whose host has room.
Takes(b) == {c \in Copies : Exists(c) /\ copy[c].state = "ready" /\ copy[c].build = b.number}

--------------------------------------------------------------------------------
(* The delete of the template, and a restart of the control plane.          *)

RemoveTemplate ==
  /\ copier = Idle /\ remover = Idle
  /\ template # {} /\ Building = {}
  /\ Written({})
  /\ remover' = [at |-> "tidying", recorded |-> Recorded]
  /\ UNCHANGED <<ids, run, copyVars, copier, store, left>>

RemoverDrops ==
  /\ remover.at = "tidying"
  /\ remover' = Idle
  /\ Discard(Dead(remover.recorded))
  /\ UNCHANGED <<planVars, run, copier, store, left>>

Forgets ==
  /\ run' = [id \in Ids |-> Idle]
  /\ copier' = Idle
  /\ remover' = Idle

\* What the startup does with a build that was recorded as building.
Restarted ==
  IF Building = {} THEN template
  ELSE Ended(template, (CHOOSE b \in template : b.phase = "building").id, "failed")

\* Mutant of Restart: the startup sweeps nothing.
RestartUntidied ==
  /\ Fault
  /\ Forgets
  /\ template' = Restarted
  /\ UNCHANGED <<last, ids, copyVars, store>>

\* It ends the build that ran, and sweeps, before it takes a request.
Restart ==
  /\ Fault
  /\ Forgets
  /\ template' = Restarted
  /\ Discard({c \in Recorded : copy[c].build \notin NumbersIn(Restarted, {"building", "ready"})})
  /\ UNCHANGED <<last, ids, store>>

--------------------------------------------------------------------------------
(* The loops of copies, and what their hosts do.                            *)

Looks(c) ==
  /\ Exists(c) /\ K!ActivityOf(copy[c].state) \in {"read", "recheck"}
  /\ Advance(c, [type |-> "read"])
  /\ UNCHANGED <<planVars, run, copier, remover, store, left>>

EventOf(c) ==
  IF op[c].at = "lost" THEN [type |-> "lost", error |-> "Internal"]
  ELSE [type |-> "reported", status |-> IF op[c].at = "cleared" THEN "failed" ELSE op[c].at,
        error |-> "Internal", cleared |-> op[c].at = "cleared"]

Follows(c) ==
  /\ op[c] # NoOp /\ op[c].at \in {"done", "failed", "cleared", "lost"}
  /\ Advance(c, EventOf(c))
  /\ UNCHANGED <<planVars, run, copier, remover, store, left>>

\* What a build's copy is published as: the content every build shares, and its own.
Needs(id) == {0, id}

Doing(c, kind, at) == op[c] # NoOp /\ op[c].kind = kind /\ op[c].at = at

Goes(c, at) == op' = [op EXCEPT ![c].at = at]

HostStep == UNCHANGED <<planVars, run, copy, copier, remover>>

Captures(c) ==
  /\ Doing(c, "capture", "begun") /\ Goes(c, "done")
  /\ HostStep /\ UNCHANGED <<store, left>>

PublishLists(c) ==
  /\ Doing(c, "publish", "begun")
  /\ op' = [op EXCEPT ![c].at = "running", ![c].objects = store.objects]
  /\ HostStep /\ UNCHANGED <<store, left>>

\* What was there when the publish listed it is not put again.
Puts(c, o) ==
  /\ Doing(c, "publish", "running")
  /\ o \in Needs(c[2]) \ op[c].objects
  /\ op' = [op EXCEPT ![c].objects = @ \cup {o}]
  /\ store' = [store EXCEPT !.objects = @ \cup {o}]
  /\ HostStep /\ UNCHANGED left

\* The manifest is put last.
PublishEnds(c) ==
  /\ Doing(c, "publish", "running")
  /\ Needs(c[2]) \subseteq op[c].objects
  /\ store' = [store EXCEPT !.manifests = @ \cup {c[2]}]
  /\ Goes(c, "done")
  /\ HostStep /\ UNCHANGED left

\* `readManifest`: only what was published, and not removed since, can be read.
Manifest(id) == IF id \in store.manifests THEN Needs(id) ELSE {}

\* All its manifest names is in the store, or nothing of it is left here.
Fetches(c) ==
  /\ Doing(c, "fetch", "begun")
  /\ Goes(c, IF Manifest(c[2]) # {} /\ Manifest(c[2]) \subseteq store.objects
             THEN "done" ELSE "cleared")
  /\ HostStep /\ UNCHANGED <<store, left>>

Published(c) == copy[c].published = NameOf(c)

\* A delete of what was published removes its manifest first.
Unpublishes(c) ==
  /\ Doing(c, "deleteCheckpoint", "begun") /\ Published(c)
  /\ store' = [store EXCEPT !.manifests = @ \ {c[2]}]
  /\ Goes(c, "running")
  /\ HostStep /\ UNCHANGED left

\* It then reads every other manifest, and removes the objects none of them names: also
\* those of a publish that never ended.
Deletes(c) ==
  /\ \/ /\ Doing(c, "deleteCheckpoint", "begun")
        /\ ~Published(c)
        /\ UNCHANGED store
     \/ /\ Doing(c, "deleteCheckpoint", "running")
        /\ store' = [store EXCEPT !.objects = @ \cap UNION {Manifest(id) : id \in Ids}]
  /\ Goes(c, "done")
  /\ HostStep /\ UNCHANGED left

\* A step that fails leaves what it did so far; a capture or fetch clears it, as a rule.
Fails(c) ==
  /\ op[c] # NoOp /\ op[c].at \in {"begun", "running"}
  /\ Fault
  /\ \/ Goes(c, "failed")
     \/ op[c].kind \in {"capture", "fetch"} /\ Goes(c, "cleared")
  /\ HostStep /\ UNCHANGED store

\* A host's process starts again: what it was doing is lost.
Reboot ==
  /\ \E c \in Copies : op[c] # NoOp
  /\ Fault
  /\ op' = [c \in Copies |-> IF op[c] = NoOp THEN NoOp ELSE [op[c] EXCEPT !.at = "lost"]]
  /\ HostStep /\ UNCHANGED store

--------------------------------------------------------------------------------
Init ==
  /\ template = {}
  /\ last = 0
  /\ ids = 0
  /\ run = [id \in Ids |-> Idle]
  /\ copy = [c \in Copies |-> Gone]
  /\ op = [c \in Copies |-> NoOp]
  /\ copier = Idle
  /\ remover = Idle
  /\ store = [manifests |-> {}, objects |-> {}]
  /\ left = MaxFaults

Run(id) ==
  \/ RunCopies(id) \/ RunPublishes(id) \/ RunEnds(id) \/ RunFails(id)
  \/ RunDrops(id)

Copier ==
  \/ CopierReads \/ CopierSees
  \/ \E d \in [from : Ids, number : Ids] : CopierFetches(d)

Host(c) ==
  \/ Captures(c) \/ PublishLists(c) \/ PublishEnds(c) \/ Fetches(c)
  \/ Unpublishes(c) \/ Deletes(c) \/ Fails(c)
  \/ \E o \in 0..MaxBuilds : Puts(c, o)

Next ==
  \/ Build \/ Copier \/ RemoveTemplate \/ RemoverDrops \/ Restart \/ Reboot
  \/ \E id \in Ids : Run(id)
  \/ \E c \in Copies : Looks(c) \/ Follows(c) \/ Host(c)

Spec == Init /\ [][Next]_vars

--------------------------------------------------------------------------------
(* Properties. *)

\* The type of every variable.
TypeOK ==
  /\ \A b \in template :
        b \in [number : 1..MaxBuilds, id : Ids, phase : {"building", "ready", "failed"}]
  /\ last \in 0..MaxBuilds /\ ids \in 0..MaxBuilds
  /\ \A id \in Ids : run[id].at \in {"idle", "making", "capturing", "publishing", "tidying"}
  /\ \A c \in Copies :
       /\ Exists(c) => copy[c].state \in K!Leaf /\ copy[c].build \in 1..MaxBuilds
       /\ op[c] # NoOp => /\ op[c].kind \in {"capture", "publish", "fetch", "deleteCheckpoint"}
                          /\ K!StepOf(copy[c].state) \in {"any", op[c].kind}
  /\ copier.at \in {"idle", "reading", "fetching"}
  /\ remover.at \in {"idle", "tidying"}
  /\ store \in [manifests : SUBSET Ids, objects : SUBSET (0..MaxBuilds)]

\* Whatever reads a manifest in the build store finds every object it names, though
\* builds are published and dropped side by side and share objects.
StoreWhole == \A id \in store.manifests : Needs(id) \subseteq store.objects

\* Nothing is left in the build store of a build whose copy went or failed for good,
\* also when its publish was cut part way.
StoreClean ==
  store.objects \subseteq UNION {Needs(id) : id \in {i \in Ids : /\ BuiltBy(i) # Gone
                                                              /\ BuiltBy(i).state # "failed"}}

\* A ready build has its copy, whole and published, for a create to clone, whatever
\* sweeps of other builds ran while it was made.
ReadyHasCopy ==
  \A b \in template : IsReady(b) =>
     /\ BuiltBy(b.id) # Gone /\ BuiltBy(b.id).state = "ready"
     /\ b.id \in store.manifests

\* A copy that a create from a build takes is that build's own, and never one that an
\* earlier build of its number left.
CloneIsOwn == \A b \in template : IsReady(b) => \A c \in Takes(b) : c[2] = b.id

\* The copy that a dropped build's host made is on its way out, or a sweep that will
\* see to it is due, over failures and restarts.
BuiltGo ==
  \A id \in Ids :
     BuiltBy(id) # Gone /\ id \notin {b.id : b \in {x \in template : x.phase # "failed"}} =>
       \/ BuiltBy(id).state \in K!Deleting
       \/ \E i \in Ids : run[i].at = "tidying"
       \/ remover # Idle
================================================================================
