--------------------------------- MODULE Watches --------------------------------
(***************************************************************************)
(* A read of a machine that the control plane holds until the machine      *)
(* rests, is deleted or is made again (apps/server/src/machines.ts,        *)
(* platform/sqlite.ts): it listens for writes, reads the row, and reads it *)
(* again at each write it hears of.  Writes are told after they are made,  *)
(* only when they moved the row, and an expiry never is.                   *)
(***************************************************************************)
EXTENDS Naturals, Sequences

CONSTANTS
  Readers,     \* held reads of the machine's name
  MaxWrites    \* bound: writes

VARIABLES
  bearer,      \* the row of the name: its instance, 0 for none, and its stage
  untold,      \* writes made and not told yet, of this name and of others
  reads,       \* each read: where it is, and the instance it began with
  heard,       \* each read's queue of writes told since it listens
  writes

watchVars == <<bearer, untold, reads, heard, writes>>

NoBearer == [instance |-> 0, stage |-> "moving"]
Unread == [at |-> "idle", first |-> 0]
Own == "own"
Other == "other"

--------------------------------------------------------------------------------
(* The store. *)

Written(row) ==
  /\ writes > 0
  /\ writes' = writes - 1
  /\ bearer' = row
  /\ untold' = IF row = bearer THEN untold ELSE Append(untold, Own)
  /\ UNCHANGED <<reads, heard>>

Stages == {"moving", "rests", "undone"}

\* `advance`: the row moves, comes to rest, or is removed; an undone one only goes.
Advances(stage) ==
  /\ bearer # NoBearer /\ bearer.stage # "undone"
  /\ Written([bearer EXCEPT !.stage = stage])

Removes == bearer # NoBearer /\ Written(NoBearer)

\* `insertMachine`, also over an undone row.
Inserts ==
  /\ bearer = NoBearer \/ bearer.stage = "undone"
  /\ Written([instance |-> writes + 1, stage |-> "moving"])

\* `expire`: an undone row goes, and nothing is told of it.
Expires ==
  /\ bearer.stage = "undone" /\ writes > 0
  /\ writes' = writes - 1
  /\ bearer' = NoBearer
  /\ UNCHANGED <<untold, reads, heard>>

\* Another row's write is told as well.
OtherWritten ==
  /\ writes > 0
  /\ writes' = writes - 1
  /\ untold' = Append(untold, Other)
  /\ UNCHANGED <<bearer, reads, heard>>

Listening == {r \in Readers: reads[r].at \in {"listening", "held"}}

\* `told`.
Tells ==
  /\ untold # <<>>
  /\ heard' = [r \in Readers |-> IF r \in Listening THEN Append(heard[r], Head(untold)) ELSE heard[r]]
  /\ untold' = Tail(untold)
  /\ UNCHANGED <<bearer, reads, writes>>

--------------------------------------------------------------------------------
(* `held`, over `watchMachine`. *)

Moves(r, at, first) == reads' = [reads EXCEPT ![r] = [at |-> at, first |-> first]]

\* What a held read waits for: the machine gone, made again, or at rest.
Answers(first) == bearer.instance # first \/ bearer.stage # "moving"

Listens(r) ==
  /\ reads[r].at = "idle"
  /\ Moves(r, "listening", 0)
  /\ heard' = [heard EXCEPT ![r] = <<>>]
  /\ UNCHANGED <<bearer, untold, writes>>

\* The row as the read begins: of no machine, the read fails.
Looks(r) ==
  /\ reads[r].at = "listening"
  /\ IF bearer = NoBearer \/ bearer.stage # "moving"
       THEN Moves(r, "answered", bearer.instance)
       ELSE Moves(r, "held", bearer.instance)
  /\ UNCHANGED <<bearer, untold, heard, writes>>

\* Mutant of Hears: a read takes one write for all that were told.
HearsOnce(r) ==
  /\ reads[r].at = "held" /\ heard[r] # <<>>
  /\ heard' = [heard EXCEPT ![r] = <<>>]
  /\ IF Head(heard[r]) = Own /\ Answers(reads[r].first)
       THEN Moves(r, "answered", reads[r].first) ELSE UNCHANGED reads
  /\ UNCHANGED <<bearer, untold, writes>>

\* Each write of this name has the row read again.
Hears(r) ==
  /\ reads[r].at = "held" /\ heard[r] # <<>>
  /\ heard' = [heard EXCEPT ![r] = Tail(@)]
  /\ IF Head(heard[r]) = Own /\ Answers(reads[r].first)
       THEN Moves(r, "answered", reads[r].first) ELSE UNCHANGED reads
  /\ UNCHANGED <<bearer, untold, writes>>

\* The bound of the hold passes.
GivesUp(r) ==
  /\ reads[r].at = "held"
  /\ Moves(r, "answered", reads[r].first)
  /\ UNCHANGED <<bearer, untold, heard, writes>>

WatchInit ==
  /\ bearer = [instance |-> MaxWrites + 1, stage |-> "moving"]
  /\ untold = <<>> /\ writes = MaxWrites
  /\ reads = [r \in Readers |-> Unread]
  /\ heard = [r \in Readers |-> <<>>]

WatchNext ==
  \/ \E stage \in Stages: Advances(stage)
  \/ Removes \/ Inserts \/ Expires \/ OtherWritten \/ Tells
  \/ \E r \in Readers: Listens(r) \/ Looks(r) \/ Hears(r) \/ GivesUp(r)

WatchSpec == WatchInit /\ [][WatchNext]_watchVars

\* A held read never sleeps over what it waits for: while its machine rests, is gone or is another,
\* a write that will wake it is still to be told, or told and not yet heard.
HeldWakes ==
  \A r \in Readers:
    reads[r].at = "held" /\ Answers(reads[r].first) =>
      \/ \E k \in DOMAIN untold: untold[k] = Own
      \/ \E k \in DOMAIN heard[r]: heard[r][k] = Own
================================================================================
