------------------------------ MODULE MachineChart ------------------------------
(***************************************************************************)
(* The state chart of one machine row and the rule by which an event moves *)
(* the row and its operation (apps/server/src/machine-chart.ts, chart.ts). *)
(* There is no state here: the module is the pure part of the control      *)
(* plane, as `transition` and `applied` are in the code.  A row is a       *)
(* record [state, desired, prepared, error, resize, size, host]; its       *)
(* `state` is the leaf of the chart it rests in.                           *)
(***************************************************************************)
EXTENDS Integers

\* The value of a field the code holds as `undefined`.
None == "none"

\* No sizing owed; a sizing is a positive number.
NoSize == 0

\* What remains of a row whose chart reached its final state.
Gone == [state |-> "gone"]

\* An operation that is not there.
NoOp == [seq |-> 0, kind |-> None]

--------------------------------------------------------------------------------
(* The leaves of the chart and what each one's `meta` says. *)

Starting == "made.stepping.starting"
Stopping == "made.stepping.stopping"
Pausing == "made.stepping.pausing"
Resizing == "made.stepping.resizing"
JoinSent == "made.stepping.joining.sent"
JoinAsked == "made.stepping.joining.asked"

Making == {"making.due", "making.sent"}
Stepping == {Starting, Stopping, Pausing, Resizing, JoinSent, JoinAsked}
Standing == {"made.observing", "made.settled", "made.lost", "made.failed"}
Made == Standing \cup Stepping
Undoing == {"undoing.due", "undoing.sent", "undoing.held"}
Deleting == {"deleting.draining", "deleting.due", "deleting.sent", "deleting.held"}

\* Every leaf a row can hold.
Leaf == Making \cup Made \cup Undoing \cup {"undone"} \cup Deleting

\* The step a leaf sends to its host; "any" is whichever is in flight already.
StepOf(leaf) ==
  CASE leaf = "making.sent" -> "make"
    [] leaf = Starting -> "start"
    [] leaf = Stopping -> "stop"
    [] leaf = Pausing -> "pause"
    [] leaf = Resizing -> "resize"
    [] leaf \in {JoinSent, JoinAsked} -> "join"
    [] leaf \in {"undoing.sent", "deleting.sent"} -> "remove"
    [] leaf = "deleting.draining" -> "any"
    [] OTHER -> None

\* Mutant of ActivityOf: a settled machine is never looked at again.
ActivityOnceSettled(leaf) ==
  CASE leaf \in {"making.due", "made.observing", "undoing.due", "deleting.due"} -> "read"
    [] leaf \in {"made.lost", "undoing.held", "deleting.held"} -> "recheck"
    [] leaf \in {"made.settled", "made.failed", "undone"} -> "none"
    [] OTHER -> "follow"

\* What the driver does with a row at this leaf.
ActivityOf(leaf) ==
  CASE leaf \in {"making.due", "made.observing", "undoing.due", "deleting.due"} -> "read"
    [] leaf \in {"made.settled", "made.lost", "undoing.held", "deleting.held"} -> "recheck"
    [] leaf \in {"made.failed", "undone"} -> "none"
    [] OTHER -> "follow"

\* The phase a client reads.
PhaseOf(leaf) ==
  CASE leaf \in {"making.due", "made.observing", JoinAsked,
                 "undoing.due", "deleting.due"} -> "observing"
    [] leaf = "making.sent" -> "creating"
    [] leaf = Starting -> "starting"
    [] leaf = Stopping -> "stopping"
    [] leaf = Pausing -> "pausing"
    [] leaf = Resizing -> "resizing"
    [] leaf \in {"made.settled", JoinSent} -> "settled"
    [] leaf = "made.lost" -> "lost"
    [] leaf \in {"undoing.sent", "deleting.draining", "deleting.sent"} -> "deleting"
    [] OTHER -> "failed"

\* What the row is asked to be: a delete overrides the wish.
DesiredOf(row) == IF row.state \in Deleting THEN "deleted" ELSE row.desired

\* Whether what is asked still wants a step of this kind; if not it is cut short.
Wants(kind, desired) ==
  CASE kind = "make" -> desired # "deleted"
    [] kind \in {"start", "join"} -> desired = "running"
    [] kind = "stop" -> desired = "stopped"
    [] kind = "pause" -> desired = "paused"
    [] OTHER -> TRUE

--------------------------------------------------------------------------------
(* Events.  A request or an end that a leaf does not take leaves the row.  *)

Goto(row, leaf) == [row EXCEPT !.state = leaf]

\* Entering the deleting region clears the error.
EnterDeleting(row, leaf) == [row EXCEPT !.state = leaf, !.error = None]

\* A wish: `prepared` is dropped so that a running wish always starts once more.
Asked(row, e) ==
  [row EXCEPT !.desired = e.desired,
              !.error = None,
              !.prepared = IF e.desired = "running" THEN FALSE ELSE @]

Owed(row, e) == [row EXCEPT !.resize = e.sizing, !.error = None]

\* Mutant of OnAsk: a wish that lands in a join leaves it the join that goes to rest.
OnAskInJoin(row, e) ==
  CASE row.state \in Making -> Asked(row, e)
    [] row.state \in Standing -> Goto(Asked(row, e), "made.observing")
    [] row.state \in Stepping -> Asked(row, e)
    [] OTHER -> row

OnAsk(row, e) ==
  CASE row.state \in Making -> Asked(row, e)
    [] row.state \in Standing -> Goto(Asked(row, e), "made.observing")
    [] row.state = JoinSent -> Goto(Asked(row, e), JoinAsked)
    [] row.state \in Stepping \ {JoinSent} -> Asked(row, e)
    [] OTHER -> row

OnResize(row, e) ==
  CASE row.state \in Standing -> Goto(Owed(row, e), "made.observing")
    [] row.state = JoinSent -> Goto(Owed(row, e), JoinAsked)
    [] row.state \in Stepping \ {JoinSent} -> Owed(row, e)
    [] OTHER -> row

\* A delete drains the step in flight; a row with none is due its remove at once.
OnDelete(row) ==
  CASE row.state \in {"making.sent"} \cup Stepping -> EnterDeleting(row, "deleting.draining")
    [] row.state \in {"making.due", "undoing.due", "undoing.held"} \cup Standing
         -> EnterDeleting(row, "deleting.due")
    [] row.state = "undoing.sent" -> EnterDeleting(row, "deleting.sent")
    [] row.state = "undone" -> Gone
    [] row.state = "deleting.held" -> EnterDeleting(row, "deleting.due")
    [] OTHER -> [row EXCEPT !.error = None]

\* The next step of a made machine, from what its host saw of the VM.
Decided(row, e) ==
  CASE e.seen = "unknown" -> row
    [] e.seen = "missing" -> Goto(row, "made.lost")
    [] e.seen \notin {"unknown", "missing"} /\ row.resize # NoSize ->
         [row EXCEPT !.state = Resizing, !.resize = NoSize]
    [] OTHER ->
         CASE row.desired = "paused" ->
                CASE e.seen # "running" -> Goto(row, "made.settled")
                  [] e.seen = "running" /\ e.awaiting -> row
                  [] OTHER -> Goto(row, Pausing)
           [] row.desired = "stopped" ->
                Goto(row, IF e.seen = "stopped" THEN "made.settled" ELSE Stopping)
           [] OTHER ->
                CASE e.seen # "running" \/ ~row.prepared -> Goto(row, Starting)
                  [] e.seen = "running" /\ row.prepared /\ e.joins -> Goto(row, JoinSent)
                  [] OTHER -> Goto(row, "made.settled")

\* Mutant of OnRead: a remove that failed is never sent again.
OnReadOnce(row, e) ==
  CASE row.state = "making.due" -> Goto(row, "making.sent")
    [] row.state \in {"made.observing", "made.settled", "made.lost"} -> Decided(row, e)
    [] row.state = "undoing.due" -> Goto(row, "undoing.sent")
    [] row.state = "deleting.due" -> Goto(row, "deleting.sent")
    [] OTHER -> row

OnRead(row, e) ==
  CASE row.state = "making.due" -> Goto(row, "making.sent")
    [] row.state \in {"made.observing", "made.settled", "made.lost"} -> Decided(row, e)
    [] row.state \in {"undoing.due", "undoing.held"} -> Goto(row, "undoing.sent")
    [] row.state \in {"deleting.due", "deleting.held"} -> Goto(row, "deleting.sent")
    [] OTHER -> row

\* A create whose source went is refused before it is sent.
OnRefused(row) ==
  IF row.state = "making.due"
  THEN [row EXCEPT !.state = "undoing.due", !.error = "Internal"] ELSE row

\* The sizes only the host can tell, which every end of a step may carry.
Told(row, e) == [row EXCEPT !.size = IF e.size = NoSize THEN @ ELSE e.size]

\* A start, stop or pause ended: it fails the row only if it is still wanted.
Ended(row, e, prepared) ==
  IF e.status = "failed" /\ Wants(StepOf(row.state), row.desired) /\ row.resize = NoSize
  THEN [Told(row, e) EXCEPT !.state = "made.failed", !.error = e.error]
  ELSE [Told(row, e) EXCEPT !.state = "made.observing",
                            !.prepared = IF e.status = "done" THEN prepared ELSE @]

\* Mutant of Undone: the row moves on whatever became of its remove.
UndoneMovesAnyway(row, e) ==
  CASE e.move # None -> [row EXCEPT !.state = "making.due", !.host = e.move, !.error = None]
    [] e.move = None /\ e.status = "done" -> Goto(row, "undone")
    [] OTHER -> Goto(row, "undoing.held")

\* A remove ended while undoing: with somewhere to move, the create goes on there.
Undone(row, e) ==
  CASE e.status = "failed" -> Goto(row, "undoing.held")
    [] e.status = "cancelled" -> Goto(row, "undoing.due")
    [] e.status = "done" /\ e.move = None -> Goto(row, "undone")
    [] OTHER -> [row EXCEPT !.state = "making.due", !.host = e.move, !.error = None]

Deleted(row, e) ==
  CASE e.status = "done" -> Gone
    [] e.status = "failed" -> [row EXCEPT !.state = "deleting.held", !.error = e.error]
    [] OTHER -> Goto(row, "deleting.due")

OnReported(row, e) ==
  CASE row.state = "making.sent" ->
         IF e.status = "done"
         THEN [Told(row, e) EXCEPT !.state = "made.observing", !.prepared = e.prepared]
         ELSE [Told(row, e) EXCEPT !.state = "undoing.due", !.error = e.error]
    [] row.state = Starting -> Ended(row, e, TRUE)
    [] row.state \in {Stopping, Pausing} -> Ended(row, e, FALSE)
    [] row.state = Resizing ->
         IF e.status = "failed"
         THEN [Told(row, e) EXCEPT !.state = "made.failed", !.error = e.error]
         ELSE Goto(Told(row, e), "made.observing")
    [] row.state = JoinSent -> Goto(row, "made.settled")
    [] row.state = JoinAsked -> Goto(row, "made.observing")
    [] row.state = "undoing.sent" -> Undone(row, e)
    [] row.state = "deleting.draining" -> Goto(Told(row, e), "deleting.due")
    [] row.state = "deleting.sent" -> Deleted(row, e)
    [] OTHER -> row

\* Mutant of OnLost: a step lost while draining goes on as any made machine's.
OnLostForgetsDelete(row) ==
  CASE row.state \in Stepping \cup {"deleting.draining"} -> Goto(row, "made.observing")
    [] row.state = "making.sent" -> [row EXCEPT !.state = "undoing.due", !.error = "Internal"]
    [] row.state = "undoing.sent" -> Goto(row, "undoing.due")
    [] row.state = "deleting.sent" -> Goto(row, "deleting.due")
    [] OTHER -> row

\* Mutant of OnLost: a lost make is written off without its remove.
OnLostUnremoved(row) ==
  CASE row.state = "making.sent" -> [row EXCEPT !.state = "undone", !.error = "Internal"]
    [] row.state \in Stepping -> Goto(row, "made.observing")
    [] row.state = "undoing.sent" -> Goto(row, "undoing.due")
    [] row.state \in {"deleting.draining", "deleting.sent"} -> Goto(row, "deleting.due")
    [] OTHER -> row

\* The step ended without its host's report of it.
OnLost(row) ==
  CASE row.state = "making.sent" -> [row EXCEPT !.state = "undoing.due", !.error = "Internal"]
    [] row.state = JoinSent -> Goto(row, "made.settled")
    [] row.state \in Stepping \ {JoinSent} -> Goto(row, "made.observing")
    [] row.state = "undoing.sent" -> Goto(row, "undoing.due")
    [] row.state \in {"deleting.draining", "deleting.sent"} -> Goto(row, "deleting.due")
    [] OTHER -> row

Transition(row, e) ==
  CASE e.type = "ask" -> OnAsk(row, e)
    [] e.type = "resize" -> OnResize(row, e)
    [] e.type = "delete" -> OnDelete(row)
    [] e.type = "read" -> OnRead(row, e)
    [] e.type = "refused" -> OnRefused(row)
    [] e.type = "reported" -> OnReported(row, e)
    [] e.type = "lost" -> OnLost(row)
    [] e.type = "sized" -> [row EXCEPT !.size = e.sizing]
    [] OTHER -> row

--------------------------------------------------------------------------------
(* `applied`: one event on one row, with the operation in flight if any.   *)
(* A leaf with a step begins an operation when none is in flight, and a    *)
(* leaf without one finishes the operation that is.                        *)

\* The two errors `applied` throws; its caller's transaction then writes nothing.
Throws(row, e, op) ==
  LET step == StepOf(Transition(row, e).state) IN
  /\ Transition(row, e) # row
  /\ Transition(row, e) # Gone
  /\ op = NoOp
  /\ step \notin {None, "any"}
  /\ e.type # "read"

Begins(row, e, op) ==
  /\ Transition(row, e) # row
  /\ op = NoOp
  /\ StepOf(Transition(row, e).state) \notin {None, "any"}
  /\ e.type = "read"

\* Mutant of Finishes: a lost operation stays recorded.
FinishesUnlessLost(row, e, op) ==
  /\ Transition(row, e) # row
  /\ op # NoOp
  /\ StepOf(Transition(row, e).state) = None
  /\ e.type # "lost"

Finishes(row, e, op) ==
  /\ Transition(row, e) # row
  /\ op # NoOp
  /\ StepOf(Transition(row, e).state) = None
================================================================================
