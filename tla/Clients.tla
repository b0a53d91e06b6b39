--------------------------------- MODULE Clients --------------------------------
(***************************************************************************)
(* What a client's wait answers (packages/sdk/src/client.ts).  A request   *)
(* is recorded and answered at once; the client then reads the machine,    *)
(* through lost replies and hosts out of reach, until its row rests, and   *)
(* makes its answer of that read alone.  The server reads the row, and     *)
(* only then the host (apps/server/src/machines.ts, machine-view.ts).      *)
(* Other clients ask for other things meanwhile, delete the machine, and   *)
(* make another under its name.                                            *)
(*                                                                         *)
(* One name, and the loop of its row reduced to where it rests             *)
(* (MachineChart has it whole).                                            *)
(***************************************************************************)
EXTENDS Naturals

CONSTANTS
  Callers,    \* clients
  MaxCalls,   \* bound: calls, of all clients together
  MaxSlips    \* bound: failing steps, lost replies, and VMs that go by themselves

VARIABLES
  record,     \* the row: when it was created, its stage, what is desired, its phase
  box,        \* the VM
  callers,    \* each client's call, how far it is, what it has read, and its answer
  truth,      \* of each call: whether it came true, and whether another request overtook it
  spared,     \* whether `ensure` deleted nothing but what a failed create left
  births,     \* the next `createdAt`
  calls, slips

clientVars == <<record, box, callers, truth, spared, births, calls, slips>>

NoRecord == [born |-> 0, stage |-> "none", desired |-> "none", phase |-> "none"]
NoCall == [asked |-> "none", at |-> "none", born |-> 0, got |-> NoRecord, again |-> FALSE, answer |-> "none"]

\* A pause is asked, settled and answered as a stop is.
Wishes == {"running", "stopped"}

Resting == {"settled", "failed", "lost"}

Slips == slips > 0 /\ slips' = slips - 1

Untouched == [true |-> FALSE, overtaken |-> FALSE]

--------------------------------------------------------------------------------
(* The row. *)

\* Calls that wait on the row as it is.
WaitOn(c) == record.born # 0 /\ callers[c].born = record.born

Overtakes(c) ==
  [d \in Callers |-> IF d # c /\ WaitOn(d) THEN [truth[d] EXCEPT !.overtaken = TRUE] ELSE truth[d]]

ComesTrue(asked(_)) ==
  truth' = [c \in Callers |->
              IF WaitOn(c) /\ asked(callers[c].asked) THEN [truth[c] EXCEPT !.true = TRUE]
              ELSE truth[c]]

Created == [born |-> births, stage |-> "making", desired |-> "running", phase |-> "creating"]

\* `desiredOf`, and a row whose leaf takes no wish.
Deleting == record.stage = "deleting"

WithWish(asked) ==
  IF record.stage = "made"
  THEN [record EXCEPT !.phase = "observing", !.desired = IF asked = "resize" THEN @ ELSE asked]
  ELSE [record EXCEPT !.desired = IF asked = "resize" THEN @ ELSE asked]

Delete ==
  record' = IF record.stage = "undone" THEN NoRecord
            ELSE [record EXCEPT !.stage = "deleting", !.desired = "deleted", !.phase = "deleting"]

--------------------------------------------------------------------------------
(* The row's loop. *)

Loop == UNCHANGED <<callers, spared, births, calls>>

MakeEnds(made) ==
  /\ record.stage = "making"
  /\ record' = [record EXCEPT !.stage = IF made THEN "made" ELSE "undoing", !.phase = "observing"]
  /\ box' = IF made THEN "running" ELSE box
  /\ IF made THEN UNCHANGED slips ELSE Slips
  /\ UNCHANGED truth /\ Loop

\* A machine rests at what is desired of it.
Settles ==
  /\ record.stage = "made" /\ record.phase = "observing" /\ box # "missing"
  /\ record' = [record EXCEPT !.phase = "settled"]
  /\ box' = record.desired
  /\ ComesTrue(LAMBDA asked : asked \in {record.desired, "resize"})
  /\ UNCHANGED slips /\ Loop

\* The read that decides on a step finds no VM.
Loses ==
  /\ record.stage = "made" /\ record.phase = "observing" /\ box = "missing"
  /\ record' = [record EXCEPT !.phase = "lost"]
  /\ UNCHANGED <<box, truth, slips>> /\ Loop

StepFails ==
  /\ Slips
  /\ record.stage = "made" /\ record.phase = "observing" /\ box # "missing"
  /\ record' = [record EXCEPT !.phase = "failed"]
  /\ UNCHANGED <<box, truth>> /\ Loop

\* A VM stops, and the next recheck sees it; or it goes, and the row is lost.  A failed row is not
\* rechecked.
Drifts(gone) ==
  /\ Slips
  /\ record.stage = "made" /\ record.phase \in {"settled", "failed"} /\ box # "missing"
  /\ record' = [record EXCEPT !.phase = IF @ = "failed" THEN @ ELSE IF gone THEN "lost" ELSE "observing"]
  /\ box' = IF gone THEN "missing" ELSE "stopped"
  /\ UNCHANGED truth /\ Loop

UndoEnds(done) ==
  /\ record.stage = "undoing"
  /\ record' = IF done THEN [record EXCEPT !.stage = "undone", !.phase = "failed"]
               ELSE [record EXCEPT !.phase = "failed"]
  /\ box' = IF done THEN "missing" ELSE box
  /\ IF done THEN UNCHANGED slips ELSE Slips
  /\ UNCHANGED truth /\ Loop

DeleteEnds(done) ==
  /\ Deleting
  /\ record' = IF done THEN NoRecord ELSE [record EXCEPT !.phase = "failed"]
  /\ box' = IF done THEN "missing" ELSE box
  /\ IF done THEN ComesTrue(LAMBDA asked : asked = "deleted") /\ UNCHANGED slips
     ELSE Slips /\ UNCHANGED truth
  /\ Loop

--------------------------------------------------------------------------------
(* Requests. *)

Answer(answer) == [NoCall EXCEPT !.at = "answered", !.answer = answer]

Becomes(c, call) == callers' = [callers EXCEPT ![c] = call]

Server == UNCHANGED <<box, births, calls>>

Calls(c, asked) ==
  /\ calls > 0 /\ callers[c].at \in {"none", "answered"}
  /\ calls' = calls - 1
  /\ Becomes(c, [NoCall EXCEPT !.asked = asked, !.again = (asked = "ensure"),
                               !.at = IF asked = "ensure" THEN "look" ELSE "ask"])
  /\ truth' = [truth EXCEPT ![c] = Untouched]
  /\ UNCHANGED <<record, box, spared, births, slips>>

\* The request is taken in; its reply, the row as recorded, may be lost on the way back.
Asks(c, lost) ==
  /\ callers[c].at = "ask" /\ callers[c].asked \in Wishes \cup {"resize"}
  /\ IF record.stage \in {"none", "undoing", "undone"}
     THEN /\ Becomes(c, Answer("refused"))
          /\ UNCHANGED <<record, truth>>
     ELSE /\ record' = IF Deleting THEN record ELSE WithWish(callers[c].asked)
          /\ truth' = [Overtakes(c) EXCEPT ![c] = [Untouched EXCEPT !.overtaken = Deleting]]
          /\ Becomes(c, IF lost THEN Answer("unavailable")
                        ELSE IF Deleting THEN Answer("superseded")
                        ELSE [callers[c] EXCEPT !.at = "read", !.born = record.born])
  /\ IF lost THEN Slips ELSE UNCHANGED slips
  /\ UNCHANGED spared /\ Server

\* `ensure` makes as a create does, or restores; either takes a name that is free, or an undone row's.
Makes(c) == callers[c].at = "make" \/ (callers[c].at = "ask" /\ callers[c].asked = "create")

\* What follows a reply that was lost: `ensure` looks once more, a create is told nothing.
MakeUnheard(call) ==
  IF call.again THEN [call EXCEPT !.at = "look", !.again = FALSE] ELSE Answer("unavailable")

\* What follows a name that is taken: `ensure` deletes what it found undone, once.
MakeRefused(call) == IF call.again THEN [call EXCEPT !.at = "remove"] ELSE Answer("conflict")

Creates(c, lost) ==
  LET call == callers[c]
      free == record.stage \in {"none", "undone"}
  IN /\ Makes(c)
     /\ IF free
        THEN /\ record' = Created
             /\ births' = births + 1
             /\ truth' = [Overtakes(c) EXCEPT ![c] = Untouched]
             /\ Becomes(c, IF lost THEN MakeUnheard(call)
                           ELSE [call EXCEPT !.asked = "running", !.at = "read", !.born = births])
        ELSE /\ UNCHANGED <<record, births, truth>>
             /\ Becomes(c, IF lost THEN MakeUnheard(call) ELSE MakeRefused(call))
     /\ IF lost THEN Slips ELSE UNCHANGED slips
     /\ UNCHANGED <<box, spared, calls>>

\* A delete is recorded of the row the name has, whichever it is.
Deletes(c) ==
  LET call == callers[c]
  IN /\ call.at = "remove" \/ (call.at = "ask" /\ call.asked = "deleted")
     /\ IF record = NoRecord
        THEN /\ Becomes(c, IF call.at = "remove" THEN [call EXCEPT !.at = "look", !.again = FALSE]
                           ELSE Answer("absent"))
             /\ UNCHANGED <<record, truth, spared>>
        ELSE /\ Delete
             /\ truth' = [Overtakes(c) EXCEPT ![c] = [Untouched EXCEPT !.true = (record.stage = "undone")]]
             /\ Becomes(c, [call EXCEPT !.at = "read", !.born = record.born])
             /\ spared' = (spared /\ (call.at = "remove" =>
                                        record.stage \in {"undoing", "undone", "deleting"}))
     /\ UNCHANGED slips /\ Server

\* The asked of a call that waits: an ensure that removes waits as a delete does.
Awaited(call) == IF call.asked = "ensure" THEN "deleted" ELSE call.asked

\* `ensure` reads what there is, the row before its host, makes what is missing or undone, and starts
\* what is not.
EnsureLooks(c) ==
  /\ callers[c].at = "look"
  /\ Becomes(c, IF record = NoRecord THEN [callers[c] EXCEPT !.at = "make"]
                ELSE [callers[c] EXCEPT !.at = "found", !.got = record])
  /\ UNCHANGED <<record, truth, spared, slips>> /\ Server

\* `undoneCreate`: whatever the row's stage, it failed, is not to be deleted, and its VM is seen to be
\* missing, as an undone row's is without a look.
UndoneCreate(got, reached) ==
  /\ got.phase = "failed" /\ got.desired # "deleted"
  /\ got.stage = "undone" \/ (reached /\ box = "missing")

EnsureFinds(c, reached) ==
  /\ callers[c].at = "found"
  /\ Becomes(c, IF UndoneCreate(callers[c].got, reached)
                THEN [callers[c] EXCEPT !.at = "make", !.got = NoRecord]
                ELSE [callers[c] EXCEPT !.at = "ask", !.asked = "running", !.again = FALSE, !.got = NoRecord])
  /\ UNCHANGED <<record, truth, spared, slips>> /\ Server

--------------------------------------------------------------------------------
(* The wait. *)

Reads(c) ==
  /\ callers[c].at = "read"
  /\ Becomes(c, [callers[c] EXCEPT !.at = "state", !.got = record])
  /\ UNCHANGED <<record, truth, spared, slips>> /\ Server

\* The host is read after the row; one that does not answer shows the row as waiting.
ReadsState(c, reached) ==
  /\ callers[c].at = "state"
  /\ Becomes(c, [callers[c] EXCEPT !.at = "verdict",
                                   !.got.phase = IF reached \/ @ \in {"none", "failed"} THEN @ ELSE "waiting"])
  /\ UNCHANGED <<record, truth, spared, slips>> /\ Server

Again(call) == [call EXCEPT !.at = "read", !.got = NoRecord]

\* Mutant of OwnRead: the machine of the name is taken for the one that was asked.
AnyRead(call) == call.got # NoRecord

\* A machine of another `createdAt` is not the one that was asked.
OwnRead(call) == call.got.born = call.born

\* `answerOf`, of a row at rest.
AnswerOf(call) ==
  IF call.asked \notin {"resize", call.got.desired} \/ (call.asked = "resize" /\ call.got.desired = "deleted")
    THEN "superseded"
    ELSE CASE call.got.phase = "failed" -> "failed"
           [] call.got.phase = "lost" -> "missing"
           [] OTHER -> "ok"

RestVerdict(call) ==
  CASE ~OwnRead(call) -> Answer("superseded")
    [] OwnRead(call) /\ call.got.phase \in Resting -> Answer(AnswerOf(call))
    [] OTHER -> Again(call)

\* `machineGone`: no row, or one that is not being deleted, which is another's.
GoneVerdict(call) ==
  LET gone == call.got.desired # "deleted"
  IN CASE gone /\ call.asked = "ensure" -> [call EXCEPT !.at = "look", !.again = FALSE, !.born = 0, !.got = NoRecord]
       [] gone /\ call.asked # "ensure" -> Answer("ok")
       [] ~gone /\ call.got.phase = "failed" -> Answer("failed")
       [] OTHER -> Again(call)

Verdicts(c) ==
  /\ callers[c].at = "verdict"
  /\ Becomes(c, IF Awaited(callers[c]) = "deleted" THEN GoneVerdict(callers[c])
                ELSE RestVerdict(callers[c]))
  /\ UNCHANGED <<record, truth, spared, slips>> /\ Server

\* A wait ends at its timeout, or after an outage that lasts; a make of `ensure` is decided again, once.
GivesUp(c) ==
  /\ Slips
  /\ callers[c].at \in {"read", "state"}
  /\ Becomes(c, IF callers[c].again /\ callers[c].asked = "running"
                THEN [NoCall EXCEPT !.asked = "ensure", !.at = "look"]
                ELSE Answer("unavailable"))
  /\ UNCHANGED <<record, truth, spared>> /\ Server

--------------------------------------------------------------------------------
ClientInit ==
  /\ record = NoRecord
  /\ box = "missing"
  /\ callers = [c \in Callers |-> NoCall]
  /\ truth = [c \in Callers |-> Untouched]
  /\ spared = TRUE
  /\ births = 1
  /\ calls = MaxCalls
  /\ slips = MaxSlips

ClientNext ==
  \/ \E end \in BOOLEAN : MakeEnds(end) \/ Drifts(end) \/ UndoEnds(end) \/ DeleteEnds(end)
  \/ Settles \/ Loses \/ StepFails
  \/ \E c \in Callers :
       \/ \E asked \in Wishes \cup {"create", "resize", "deleted", "ensure"} : Calls(c, asked)
       \/ \E lost \in BOOLEAN : Asks(c, lost) \/ Creates(c, lost)
       \/ Deletes(c) \/ EnsureLooks(c)
       \/ Reads(c) \/ \E reached \in BOOLEAN : ReadsState(c, reached) \/ EnsureFinds(c, reached)
       \/ Verdicts(c) \/ GivesUp(c)

--------------------------------------------------------------------------------
\* An answer is of the machine that was asked, and of what came after the request: success is told
\* only once that machine came to what was asked of it, and to be superseded only where another
\* request did overtake it, whatever became of the name between two reads.
AnswersOwn ==
  \A c \in Callers :
    /\ callers[c].answer = "ok" => truth[c].true
    /\ callers[c].answer = "superseded" => truth[c].overtaken

\* `ensure` deletes a failed create's row, and nothing else.
EnsureSpares == spared
================================================================================
