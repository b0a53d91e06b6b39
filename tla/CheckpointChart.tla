---------------------------- MODULE CheckpointChart ----------------------------
(***************************************************************************)
(* The state chart of one checkpoint row, and the operations it begins     *)
(* (apps/server/src/checkpoint-chart.ts, and `applied` of chart.ts).  The  *)
(* copy of a template build is such a row too, which is published to the   *)
(* build store or fetched from it.  There is no state here.  A row is a    *)
(* record [state, error, published, ...]: fields no event touches are the  *)
(* including module's own.                                                 *)
(***************************************************************************)

None == "none"

Gone == [state |-> "gone"]

Due == {"capturing.due", "fetching.due", "publishing.due"}
Sent == {"capturing.sent", "fetching.sent", "publishing.sent"}
Discarding == {"discarding.due", "discarding.sent", "discarding.held"}
Deleting == {"deleting.draining", "deleting.due", "deleting.sent", "deleting.held"}

\* Every leaf a row can hold.
Leaf == Due \cup Sent \cup {"ready", "failed"} \cup Discarding \cup Deleting

StepOf(leaf) ==
  CASE leaf = "capturing.sent" -> "capture"
    [] leaf = "fetching.sent" -> "fetch"
    [] leaf = "publishing.sent" -> "publish"
    [] leaf \in {"discarding.sent", "deleting.sent"} -> "deleteCheckpoint"
    [] leaf = "deleting.draining" -> "any"
    [] OTHER -> None

ActivityOf(leaf) ==
  CASE leaf \in Due \cup {"discarding.due", "deleting.due"} -> "read"
    [] leaf \in {"discarding.held", "deleting.held"} -> "recheck"
    [] leaf \in {"ready", "failed"} -> "none"
    [] OTHER -> "follow"

--------------------------------------------------------------------------------
(* Events. *)

Goto(row, leaf) == [row EXCEPT !.state = leaf]

GoWith(row, leaf, error) == [row EXCEPT !.state = leaf, !.error = error]

SentOf(leaf) ==
  CASE leaf = "capturing.due" -> "capturing.sent"
    [] leaf = "fetching.due" -> "fetching.sent"
    [] leaf = "publishing.due" -> "publishing.sent"
    [] leaf \in {"discarding.due", "discarding.held"} -> "discarding.sent"
    [] leaf \in {"deleting.due", "deleting.held"} -> "deleting.sent"

OnRead(row) ==
  IF ActivityOf(row.state) \in {"read", "recheck"} THEN Goto(row, SentOf(row.state)) ELSE row

\* A delete drains the step in flight; a failed row holds nothing on its host.
OnDelete(row) ==
  CASE row.state \in Sent -> GoWith(row, "deleting.draining", None)
    [] row.state \in Due \cup {"ready", "discarding.due", "discarding.held", "deleting.held"}
         -> GoWith(row, "deleting.due", None)
    [] row.state = "discarding.sent" -> GoWith(row, "deleting.sent", None)
    [] row.state = "failed" -> Gone
    [] OTHER -> [row EXCEPT !.error = None]

OnPublish(row, e) ==
  IF row.state = "ready" THEN [row EXCEPT !.state = "publishing.due", !.published = e.as] ELSE row

\* Mutant of MakeEnded: a make that failed is never discarded on its host.
MakeEndedCleared(row, e) ==
  CASE e.status = "done" -> Goto(row, "ready")
    [] OTHER -> GoWith(row, "failed", e.error)

\* A capture or fetch ended: one that left nothing behind has failed at once.
MakeEnded(row, e) ==
  CASE e.status = "done" -> Goto(row, "ready")
    [] e.status # "done" /\ e.cleared -> GoWith(row, "failed", e.error)
    [] OTHER -> GoWith(row, "discarding.due", e.error)

\* Mutant of PublishEnded: what a publish put before it failed is left there.
PublishEndedFailed(row, e) ==
  IF e.status = "done" THEN Goto(row, "ready") ELSE GoWith(row, "failed", e.error)

PublishEnded(row, e) ==
  IF e.status = "done" THEN Goto(row, "ready") ELSE GoWith(row, "discarding.due", e.error)

Discarded(row, e) ==
  CASE e.status = "done" -> Goto(row, "failed")
    [] e.status = "failed" -> Goto(row, "discarding.held")
    [] OTHER -> Goto(row, "discarding.due")

\* Mutant of Deleted: a checkpoint whose delete failed is shown again.
DeletedBack(row, e) ==
  CASE e.status = "done" -> Gone
    [] e.status = "failed" -> GoWith(row, "ready", e.error)
    [] OTHER -> Goto(row, "deleting.due")

Deleted(row, e) ==
  CASE e.status = "done" -> Gone
    [] e.status = "failed" -> GoWith(row, "deleting.held", e.error)
    [] OTHER -> Goto(row, "deleting.due")

OnReported(row, e) ==
  CASE row.state \in {"capturing.sent", "fetching.sent"} -> MakeEnded(row, e)
    [] row.state = "publishing.sent" -> PublishEnded(row, e)
    [] row.state = "discarding.sent" -> Discarded(row, e)
    [] row.state = "deleting.draining" -> Goto(row, "deleting.due")
    [] row.state = "deleting.sent" -> Deleted(row, e)
    [] OTHER -> row

OnLost(row, e) ==
  CASE row.state \in Sent -> GoWith(row, "discarding.due", e.error)
    [] row.state = "discarding.sent" -> Goto(row, "discarding.due")
    [] row.state \in {"deleting.draining", "deleting.sent"} -> Goto(row, "deleting.due")
    [] OTHER -> row

Transition(row, e) ==
  CASE e.type = "read" -> OnRead(row)
    [] e.type = "delete" -> OnDelete(row)
    [] e.type = "publish" -> OnPublish(row, e)
    [] e.type = "reported" -> OnReported(row, e)
    [] e.type = "lost" -> OnLost(row, e)

\* `applied`: a read begins the step of the leaf it reaches, and an event that
\* leaves the leaves with a step finishes the operation in flight.
Begins(row, e) ==
  /\ e.type = "read"
  /\ Transition(row, e) # row

Finishes(row, e) ==
  /\ Transition(row, e) # row
  /\ StepOf(Transition(row, e).state) = None

--------------------------------------------------------------------------------
(* Leases: [on, mode], `on` the name of a machine, a checkpoint or a store. *)

BuildStore == "builds/"

\* Mutant of LeasesOf: a capture does not keep its machine.
LeasesOfSelf(row, name, kind) ==
  {[on |-> name, mode |-> "own"]}
  \cup (IF kind = "publish" THEN {[on |-> BuildStore, mode |-> "share"]} ELSE {})
  \cup (IF kind = "deleteCheckpoint" /\ row.published = name
        THEN {[on |-> BuildStore, mode |-> "own"]} ELSE {})

\* Mutant of LeasesOf: a delete does not keep publishes out of the build store.
LeasesOfUnshared(row, name, kind) ==
  {[on |-> name, mode |-> "own"]}
  \cup (IF kind = "capture" THEN {[on |-> row.machine, mode |-> "share"]} ELSE {})

\* What every publish shares, a delete of what was published owns.
LeasesOf(row, name, kind) ==
  {[on |-> name, mode |-> "own"]}
  \cup (IF kind = "capture" THEN {[on |-> row.machine, mode |-> "share"]} ELSE {})
  \cup (IF kind = "publish" THEN {[on |-> BuildStore, mode |-> "share"]} ELSE {})
  \cup (IF kind = "deleteCheckpoint" /\ row.published = name
        THEN {[on |-> BuildStore, mode |-> "own"]} ELSE {})
================================================================================
