------------------------------- MODULE PartsProofs -------------------------------
(***************************************************************************)
(* The components that are checked side by side (MCParts), for any values  *)
(* of their constants.  A step of one component leaves the others as they  *)
(* were, so each is proved as a specification of its own, and what it      *)
(* promises is then so of every behaviour of MCParts.                      *)
(***************************************************************************)
EXTENDS MCParts, WellFoundedInduction, TLAPS

GP == INSTANCE GateProofs WITH reads <- readings

allVars == <<part, vars, smolvmVars, pinVars, forwarderVars, guestVars, clientVars,
             roomVars, boxVars, watchVars, tailVars, gateVars, tartVars, placeVars>>

--------------------------------------------------------------------------------
(* Gates: proved in a module of its own, of which this is an instance. *)

LEMMA SameGate ==
  /\ D!GateInit <=> GP!GateInit
  /\ gateVars = GP!gateVars
  /\ D!GateNext <=> GP!GateNext
  /\ GateHolds <=> GP!GateHolds
<1>1. D!GateInit <=> GP!GateInit
  BY DEF D!GateInit, GP!GateInit, D!Out, GP!Out
<1>2. gateVars = GP!gateVars
  BY DEF gateVars, GP!gateVars
<1>3. D!GateNext <=> GP!GateNext
  BY DEF D!GateNext, GP!GateNext, D!ReadBegins, GP!ReadBegins, D!OpeningBegins, GP!OpeningBegins,
         D!EntersRead, GP!EntersRead, D!EntersOpening, GP!EntersOpening, D!Awaits, GP!Awaits,
         D!Leaves, GP!Leaves, D!Interrupted, GP!Interrupted, D!LeavesRead, GP!LeavesRead,
         D!LeavesOpening, GP!LeavesOpening, D!Woken, GP!Woken, D!Out, GP!Out, D!Turn, GP!Turn
<1>4. GateHolds <=> GP!GateHolds
  BY DEF GateHolds, D!GateHolds, GP!GateHolds, D!Are, GP!Are
<1> QED
  BY <1>1, <1>2, <1>3, <1>4

\* No read is in while an opener is, and a fiber sleeps at a latch only for one
\* that will open it (disk-gate.ts), for any finite set of fibers.
THEOREM GatesHold == ASSUME IsFiniteSet(Tasks) PROVE PartsSpec => []GateHolds
<1>1. GP!IsFiniteSet(Tasks)
  BY DEF IsFiniteSet, GP!IsFiniteSet
<1>2. PartsInit => GP!GateInit
  BY SameGate DEF PartsInit
<1>3. [PartsNext]_allVars => [GP!GateNext]_GP!gateVars
  BY SameGate DEF PartsNext, allVars, gateVars, GP!gateVars
<1>4. GP!GateSpec => []GP!GateHolds
  BY <1>1, GP!TheGateHolds
<1>5. GP!GateHolds <=> GateHolds
  BY SameGate
<1> QED
  BY <1>2, <1>3, <1>4, <1>5, PTL DEF PartsSpec, GP!GateSpec, allVars

--------------------------------------------------------------------------------
(* Watches. *)

Tidings == {W!Own, W!Other}
Watching == [at : {"idle", "listening", "held", "answered"}, first : Nat]

\* The queues hold tidings, and an instance is a number.
WatchTypes ==
  /\ bearer \in [instance : Nat, stage : W!Stages]
  /\ untold \in Seq(Tidings)
  /\ heard \in [Readers -> Seq(Tidings)]
  /\ reads \in [Readers -> Watching]
  /\ writes \in Nat

\* A tiding among those of a queue.
Among(v, s) == \E k \in DOMAIN s : s[k] = v

LEMMA AmongAppended ==
  ASSUME NEW Values, NEW s \in Seq(Values), NEW x \in Values, NEW v
  PROVE  Among(v, Append(s, x)) <=> Among(v, s) \/ x = v
<1>1. \A k \in 1..Len(s) : Append(s, x)[k] = s[k]
  OBVIOUS
<1>2. Append(s, x)[Len(s) + 1] = x /\ DOMAIN Append(s, x) = 1..(Len(s) + 1) /\ DOMAIN s = 1..Len(s)
  OBVIOUS
<1> QED
  BY <1>1, <1>2 DEF Among

\* The rest of a queue keeps what is not its head.
LEMMA AmongTail ==
  ASSUME NEW Values, NEW s \in Seq(Values), s # <<>>, NEW v, Among(v, s)
  PROVE  Head(s) = v \/ Among(v, Tail(s))
<1>1. PICK k \in 1..Len(s) : s[k] = v
  BY DEF Among
<1>2. CASE k = 1
  BY <1>1, <1>2
<1>3. CASE k > 1
  <2>1. /\ DOMAIN Tail(s) = 1..(Len(s) - 1)
        /\ Len(Tail(s)) = Len(s) - 1
        /\ \A j \in 1..(Len(s) - 1) : Tail(s)[j] = s[j + 1]
    OBVIOUS
  <2>2. k - 1 \in 1..Len(Tail(s)) /\ Tail(s)[k - 1] = s[k]
    BY <1>3, <2>1
  <2> QED
    BY <1>1, <1>3, <2>1, <2>2 DEF Among
<1> QED
  BY <1>1, <1>2, <1>3

HeldWake(r) ==
  reads[r].at = "held" /\ W!Answers(reads[r].first) => Among(W!Own, untold) \/ Among(W!Own, heard[r])

WatchInv == WatchTypes /\ \A r \in Readers : HeldWake(r)

LEMMA WatchBegins ==
  ASSUME MaxWrites \in Nat, W!WatchInit
  PROVE  WatchInv
<1>1. WatchTypes
  BY DEF W!WatchInit, WatchTypes, W!Stages, W!Unread, Watching
<1> QED
  BY <1>1 DEF WatchInv, HeldWake, W!WatchInit, W!Unread

\* A write that moved the row is told later, whatever it made of the row.
LEMMA WrittenWakes ==
  ASSUME WatchInv, NEW new \in [instance : Nat, stage : W!Stages], W!Written(new)
  PROVE  WatchInv'
<1>1. WatchTypes'
  BY DEF WatchInv, WatchTypes, W!Written, Tidings
<1>2. ASSUME NEW r \in Readers PROVE HeldWake(r)'
  <2>1. CASE new = bearer
    BY <2>1 DEF WatchInv, HeldWake, W!Written, W!Answers
  <2>2. CASE new # bearer
    <3>1. untold' = Append(untold, W!Own) /\ untold \in Seq(Tidings) /\ W!Own \in Tidings
      BY <2>2 DEF WatchInv, WatchTypes, W!Written, Tidings
    <3>2. Among(W!Own, untold')
      BY <3>1, AmongAppended
    <3> QED
      BY <3>2 DEF HeldWake
  <2> QED
    BY <2>1, <2>2
<1> QED
  BY <1>1, <1>2 DEF WatchInv

\* A tiding passes from the store to every read that listens.
LEMMA TellsWakes ==
  ASSUME WatchInv, W!Tells
  PROVE  WatchInv'
<1>1. WatchTypes'
  BY DEF WatchInv, WatchTypes, W!Tells, Tidings
<1>2. ASSUME NEW r \in Readers PROVE HeldWake(r)'
  <2>1. reads[r].at = "held" => heard'[r] = Append(heard[r], Head(untold))
    BY DEF W!Tells, W!Listening
  <2>2. Among(W!Own, untold) => Head(untold) = W!Own \/ Among(W!Own, untold')
    BY AmongTail DEF WatchInv, WatchTypes, W!Tells
  <2>3. reads[r].at = "held" => (Among(W!Own, heard'[r]) <=> Among(W!Own, heard[r]) \/ Head(untold) = W!Own)
    BY <2>1, AmongAppended DEF WatchInv, WatchTypes, W!Tells
  <2> QED
    BY <2>2, <2>3 DEF WatchInv, HeldWake, W!Tells, W!Answers
<1> QED
  BY <1>1, <1>2 DEF WatchInv

\* A read that takes a tiding of its name reads the row, and others it passes over.
LEMMA HearsWakes ==
  ASSUME WatchInv, NEW q \in Readers, W!Hears(q)
  PROVE  WatchInv'
<1>1. WatchTypes'
  <2>1. reads[q] \in Watching /\ heard[q] \in Seq(Tidings) /\ heard[q] # <<>>
    BY DEF WatchInv, WatchTypes, W!Hears
  <2>2. Tail(heard[q]) \in Seq(Tidings)
    BY <2>1
  <2>3. [at |-> "answered", first |-> reads[q].first] \in Watching
    BY <2>1 DEF Watching
  <2> QED
    BY <2>2, <2>3 DEF WatchInv, WatchTypes, W!Hears, W!Moves
<1>2. ASSUME NEW r \in Readers PROVE HeldWake(r)'
  <2>1. CASE r # q
    BY <2>1 DEF WatchInv, WatchTypes, HeldWake, W!Hears, W!Moves, W!Answers
  <2>2. CASE r = q /\ Head(heard[q]) = W!Own
    BY <2>2 DEF WatchInv, WatchTypes, HeldWake, W!Hears, W!Moves, W!Answers
  <2>3. CASE r = q /\ Head(heard[q]) # W!Own
    <3>1. Among(W!Own, heard[q]) => Among(W!Own, heard'[q])
      BY <2>3, AmongTail DEF WatchInv, WatchTypes, W!Hears
    <3> QED
      BY <2>3, <3>1 DEF WatchInv, WatchTypes, HeldWake, W!Hears, W!Answers
  <2> QED
    BY <2>1, <2>2, <2>3
<1> QED
  BY <1>1, <1>2 DEF WatchInv

LEMMA WatchStep ==
  ASSUME WatchInv, [W!WatchNext]_watchVars
  PROVE  WatchInv'
<1>1. CASE UNCHANGED watchVars
  BY <1>1 DEF watchVars, WatchInv, WatchTypes, HeldWake, Among, W!Answers
<1>2. ASSUME NEW stage \in W!Stages, W!Advances(stage) PROVE WatchInv'
  <2>1. [bearer EXCEPT !.stage = stage] \in [instance : Nat, stage : W!Stages]
    BY DEF WatchInv, WatchTypes
  <2> QED
    BY <1>2, <2>1, WrittenWakes DEF W!Advances
<1>3. CASE W!Removes
  BY <1>3, WrittenWakes DEF W!Removes, W!NoBearer, W!Stages
<1>4. CASE W!Inserts
  <2>1. [instance |-> writes + 1, stage |-> "moving"] \in [instance : Nat, stage : W!Stages]
    BY DEF WatchInv, WatchTypes, W!Stages
  <2> QED
    BY <1>4, <2>1, WrittenWakes DEF W!Inserts
<1>5. CASE W!Expires
  BY <1>5 DEF W!Expires, W!NoBearer, W!Stages, WatchInv, WatchTypes, HeldWake, W!Answers
<1>6. CASE W!OtherWritten
  <2>1. WatchTypes'
    BY <1>6 DEF WatchInv, WatchTypes, W!OtherWritten, Tidings
  <2>2. Among(W!Own, untold) => Among(W!Own, untold')
    BY <1>6, AmongAppended, W!Other \in Tidings DEF W!OtherWritten, WatchInv, WatchTypes, Tidings
  <2>3. ASSUME NEW r \in Readers PROVE HeldWake(r)'
    BY <1>6, <2>2 DEF W!OtherWritten, WatchInv, HeldWake, W!Answers
  <2> QED
    BY <2>1, <2>3 DEF WatchInv
<1>7. CASE W!Tells
  BY <1>7, TellsWakes
<1>8. ASSUME NEW q \in Readers, W!Listens(q) \/ W!Looks(q) \/ W!GivesUp(q) PROVE WatchInv'
  <2>1. bearer.instance \in Nat /\ reads[q].first \in Nat
    BY DEF WatchInv, WatchTypes, Watching
  <2>2. PICK at \in {"listening", "held", "answered"}, first \in Nat : W!Moves(q, at, first)
    BY <1>8, <2>1 DEF W!Listens, W!Looks, W!GivesUp
  <2>3. reads' \in [Readers -> Watching]
    BY <2>2 DEF W!Moves, Watching, WatchInv, WatchTypes
  <2>4. WatchTypes'
    <3>1. heard' \in [Readers -> Seq(Tidings)]
      <4>1. heard \in [Readers -> Seq(Tidings)] /\ <<>> \in Seq(Tidings)
        BY DEF WatchInv, WatchTypes
      <4>2. heard' = heard \/ heard' = [heard EXCEPT ![q] = <<>>]
        BY <1>8 DEF W!Listens, W!Looks, W!GivesUp
      <4> QED
        BY <4>1, <4>2
    <3>2. UNCHANGED <<bearer, untold, writes>>
      BY <1>8 DEF W!Listens, W!Looks, W!GivesUp
    <3> QED
      BY <2>3, <3>1, <3>2 DEF WatchInv, WatchTypes
  <2>5. reads'[q].at = "held" => ~ W!Answers(reads[q].first)' /\ UNCHANGED heard
    BY <1>8 DEF W!Listens, W!Looks, W!GivesUp, W!Moves, W!Answers, WatchInv, WatchTypes
  <2>6. ASSUME NEW r \in Readers PROVE HeldWake(r)'
    <3>1. CASE r = q
      BY <2>5, <3>1 DEF HeldWake, W!Answers
    <3>2. CASE r # q
      BY <1>8, <3>2 DEF W!Listens, W!Looks, W!GivesUp, W!Moves, WatchInv, WatchTypes, HeldWake, W!Answers
    <3> QED
      BY <3>1, <3>2
  <2> QED
    BY <2>4, <2>6 DEF WatchInv
<1> QED
  BY <1>1, <1>2, <1>3, <1>4, <1>5, <1>6, <1>7, <1>8, HearsWakes DEF W!WatchNext

\* A held read never sleeps over what it waits for (machines.ts `held`): for any reads and writes, a
\* tiding that will wake it is still to be told, or told and not yet heard.
THEOREM ReadsAreWoken == ASSUME MaxWrites \in Nat PROVE PartsSpec => []HeldWakes
<1>1. PartsInit => WatchInv
  BY WatchBegins DEF PartsInit
<1>2. WatchInv /\ [PartsNext]_allVars => WatchInv'
  BY WatchStep DEF PartsNext, allVars
<1>3. WatchInv => HeldWakes
  BY DEF WatchInv, HeldWake, Among, HeldWakes, W!HeldWakes
<1> QED
  BY <1>1, <1>2, <1>3, PTL DEF PartsSpec, allVars

--------------------------------------------------------------------------------
(* Tarts. *)

Boot == {"loading", "kicking", "opening", "readying"}
Places == M!EndsOf \cup Boot \cup {"sent", "launching", "halting", "suspending", "saving", "unloading", "clearing"}

\* Values, and which step may be where.
TartTypes ==
  /\ disk \in {"missing", "stopped", "paused"}
  /\ runner \in {"none", "starting", "running", "suspending"}
  /\ job \in {"none", "new", "old"}
  /\ log \in SUBSET {"saved", "limit"}
  /\ order \in [kind : {"none", "make", "start", "stop", "pause", "remove"}, at : Places]
  /\ late \in BOOLEAN /\ refused \in BOOLEAN

Stations ==
  /\ order.kind = "none" => order = M!NoOrder
  /\ order.at \in {"launching"} \cup Boot => order.kind \in {"make", "start"}
  /\ order.at = "halting" => order.kind \in {"stop", "pause"}
  /\ order.at \in {"suspending", "saving"} => order.kind = "pause"
  /\ order.at \in {"unloading", "clearing"} => order.kind = "remove"

\* A name that is to be made runs nothing yet.
Unborn == (order = M!NoOrder /\ disk = "missing") \/ M!Is({"make"}, "sent") => runner = "none"

\* Only the step that kicked a runner, or one that ended before it opened the VM, has it starting.
StartedLate == runner = "starting" => late \/ M!Is({"make", "start"}, "opening") \/ M!Is({"make", "start"}, "readying")

\* The log is of the present boot: a runner that is there saved nothing yet, and Apple's limit is in
\* it only as this step was refused.
LogIsOwn ==
  /\ runner # "none" => "saved" \notin log
  /\ order.at \in {"launching"} \cup Boot => runner # "suspending"
  /\ order.at \in {"loading", "kicking"} => "saved" \notin log
  /\ order.at \in Boot /\ "limit" \in log => refused
  /\ order.at = "capacity" => refused

PauseIsTrue ==
  /\ M!Is({"pause"}, "halting") => job = "old"
  /\ M!Is({"pause"}, "saving") /\ "saved" \in log => disk = "paused"
  /\ M!Is({"pause"}, "done") /\ ~late => runner = "none" /\ (disk = "paused" \/ job = "old")

StopIsTrue == M!Is({"stop"}, "done") /\ ~late => runner = "none"

RemoveIsTrue ==
  /\ M!Is({"remove"}, "unloading") => disk = "missing" /\ runner \in {"none", "starting"}
  /\ M!Is({"remove"}, "clearing") \/ M!Is({"remove"}, "done") => disk = "missing" /\ runner = "none" /\ job = "none"

TartInv == TartTypes /\ Stations /\ Unborn /\ StartedLate /\ LogIsOwn /\ PauseIsTrue /\ StopIsTrue /\ RemoveIsTrue

LEMMA TartBegins == ASSUME M!TartInit PROVE TartInv
<1> USE DEF M!TartInit, M!NoOrder, M!Is, M!EndsOf, Boot, Places
<1>1. order.kind = "none" /\ order.at = "lost" /\ log = {} /\ late = FALSE
  OBVIOUS
<1>2. TartTypes
  BY DEF TartTypes
<1>3. Stations /\ Unborn /\ StartedLate
  BY DEF Stations, Unborn, StartedLate
<1> QED
  BY <1>1, <1>2, <1>3 DEF TartInv, LogIsOwn, PauseIsTrue, StopIsTrue, RemoveIsTrue

LEMMA TartStep ==
  ASSUME TartInv, [M!TartNext]_tartVars
  PROVE  TartInv'
<1> USE DEF M!NoOrder, M!Is, M!EndsOf, M!Goes, M!EndsLate, M!Listed, M!Trips, Boot, Places, TartInv, TartTypes,
            Stations, Unborn, StartedLate, LogIsOwn, PauseIsTrue, StopIsTrue, RemoveIsTrue
<1>1. CASE UNCHANGED tartVars
  BY <1>1 DEF tartVars
<1>2. ASSUME NEW kind \in {"make", "start", "stop", "pause", "remove"}, M!Sends(kind) PROVE TartInv'
  BY <1>2 DEF M!Sends, M!Sent
<1>3. CASE M!Host
  <2>1. CASE M!MakeClones
    BY <1>3, <2>1 DEF M!Host, M!MakeClones
  <2>2. CASE M!StartSees
    BY <1>3, <2>2 DEF M!Host, M!StartSees
  <2>3. CASE M!LaunchEmpties
    BY <1>3, <2>3 DEF M!Host, M!LaunchEmpties
  <2>4. CASE M!LaunchLoads
    BY <1>3, <2>4 DEF M!Host, M!LaunchLoads
  <2>5. CASE M!LaunchKicks
    BY <1>3, <2>5 DEF M!Host, M!LaunchKicks
  <2>6. CASE M!LaunchWaits
    BY <1>3, <2>6 DEF M!Host, M!LaunchWaits
  <2>7. CASE M!Readies
    <3>1. /\ UNCHANGED <<disk, runner, job, log, refused>>
          /\ order.at = "readying" /\ order.kind \in {"make", "start"}
          /\ \/ order' = [order EXCEPT !.at = "done"] /\ runner # "starting"
             \/ order' = [order EXCEPT !.at = "failed"]
             \/ order' = [order EXCEPT !.at = "capacity"] /\ runner = "none" /\ "limit" \in log
      BY <1>3, <2>7 DEF M!Host, M!Readies
    <3>2. (runner # "starting" /\ UNCHANGED late) \/ late' = (late \/ runner = "starting")
      BY <1>3, <2>7 DEF M!Host, M!Readies
    <3>3. late' \in BOOLEAN /\ (late => late') /\ (runner = "starting" => late')
      BY <3>2
    <3> QED
      BY <3>1, <3>3
  <2>8. CASE M!StopSees
    BY <1>3, <2>8 DEF M!Host, M!StopSees
  <2>9. CASE M!Halted
    BY <1>3, <2>9 DEF M!Host, M!Halted
  <2>10. CASE M!PauseSees
    BY <1>3, <2>10 DEF M!Host, M!PauseSees
  <2>11. CASE M!PauseSuspends
    BY <1>3, <2>11 DEF M!Host, M!PauseSuspends
  <2>12. CASE M!PauseEnds
    BY <1>3, <2>12 DEF M!Host, M!PauseEnds
  <2>13. CASE M!RemoveDeletes
    BY <1>3, <2>13 DEF M!Host, M!RemoveDeletes
  <2>14. CASE M!RemoveUnloads
    BY <1>3, <2>14 DEF M!Host, M!RemoveUnloads
  <2>15. CASE M!RemoveClears
    BY <1>3, <2>15 DEF M!Host, M!RemoveClears
  <2> QED
    BY <1>3, <2>1, <2>2, <2>3, <2>4, <2>5, <2>6, <2>7, <2>8, <2>9, <2>10, <2>11, <2>12, <2>13, <2>14, <2>15
       DEF M!Host
<1>4. CASE M!StepEnds
  <2>1. late' \in BOOLEAN /\ (late' <=> late \/ runner = "starting")
    BY <1>4 DEF M!StepEnds
  <2>2. order' = [order EXCEPT !.at = "failed"] /\ order.at \notin M!EndsOf
    BY <1>4 DEF M!StepEnds
  <2>3. UNCHANGED <<disk, runner, job, log, refused>>
    BY <1>4 DEF M!StepEnds
  <2> QED
    BY <2>1, <2>2, <2>3
<1>5. CASE M!HostRestarts
  <2>1. late' \in BOOLEAN /\ (late' <=> late \/ runner = "starting")
    BY <1>5 DEF M!HostRestarts
  <2>2. order' = [order EXCEPT !.at = "lost"] /\ order.at \notin M!EndsOf
    BY <1>5 DEF M!HostRestarts
  <2>3. UNCHANGED <<disk, runner, job, log, refused>>
    BY <1>5 DEF M!HostRestarts
  <2> QED
    BY <2>1, <2>2, <2>3
<1>6. CASE M!Runner
  <2>1. CASE M!Opens
    BY <2>1 DEF M!Opens
  <2>2. CASE M!FindsNothing
    BY <2>2 DEF M!FindsNothing
  <2>3. ASSUME NEW says \in {{}, {"limit"}}, M!Exits(says) PROVE TartInv'
    <3>1. refused' \in BOOLEAN /\ (refused' <=> refused \/ "limit" \in says)
      BY <2>3 DEF M!Exits
    <3>2. /\ runner = "starting" /\ runner' = "none" /\ log' = log \cup says
          /\ UNCHANGED <<disk, job, order, late>>
      BY <2>3 DEF M!Exits
    <3>3. /\ log' \in SUBSET {"saved", "limit"}
          /\ "saved" \in log' => "saved" \in log
          /\ "limit" \in log' => "limit" \in log \/ refused'
      BY <3>1, <3>2
    <3>4. UNCHANGED <<disk, job, order, late>> /\ runner' = "none" /\ (refused => refused') /\ refused' \in BOOLEAN
      BY <3>1, <3>2
    <3> HIDE DEF M!NoOrder, M!EndsOf
    <3> QED
      BY <3>3, <3>4
  <2>4. CASE M!GuestHalts
    BY <2>4 DEF M!GuestHalts
  <2>5. CASE M!Saves
    BY <2>5 DEF M!Saves
  <2>6. CASE M!SaveFails
    BY <2>6 DEF M!SaveFails
  <2> QED
    BY <1>6, <2>1, <2>2, <2>3, <2>4, <2>5, <2>6 DEF M!Runner
<1> QED
  BY <1>1, <1>2, <1>3, <1>4, <1>5, <1>6 DEF M!TartNext

\* What a step of a mac host answered of its VM is so (tart.ts), whatever failed, was cut or was lost
\* before it: a pause that is done kept the VM's state, a stop or a remove left nothing running, and
\* Capacity is told only of a boot of this step.
THEOREM TartIsTrue == PartsSpec => []TartTrue
<1>1. PartsInit => TartInv
  BY TartBegins DEF PartsInit
<1>2. TartInv /\ [PartsNext]_allVars => TartInv'
  BY TartStep DEF PartsNext, allVars
<1>3. TartInv => TartTrue
  BY DEF TartInv, LogIsOwn, PauseIsTrue, StopIsTrue, RemoveIsTrue, TartTrue, M!TartTrue
<1> QED
  BY <1>1, <1>2, <1>3, PTL DEF PartsSpec, allVars

--------------------------------------------------------------------------------
(* Tailnets. *)

TailNumbers == JoinedWait \in Nat /\ LongestBackoff \in Nat \ {0}

\* A wait never exceeds Never, and a backoff its bound.
TailTypes ==
  /\ member \in [at : {"none", "observing", "joining", "settled", "failed"},
                 desired : {"running", "stopped", "deleted"}, prepared : BOOLEAN, resize : BOOLEAN]
  /\ stepping \in [kind : {"none", "start", "stop", "join", "resize", "remove"}, cut : BOOLEAN]
  /\ check \in [status : {"none", "joined", "failed", "missing"}, wait : 0..T!Never, backoff : 0..LongestBackoff]
  /\ found \in {"none", "joined", "failed", "missing"}

\* A name without a machine has no check, and no step that could leave one.
NameIsFree == member.at = "none" => member = T!NoMember /\ check = T!Absent /\ stepping = T!Still

\* A row rests, or joins, only prepared; a row that joins has its join.
RestsPrepared ==
  /\ member.at \in {"settled", "joining"} /\ member.desired = "running" => member.prepared
  /\ member.at = "joining" => stepping.kind = "join"

\* A join that was cut was, by a request after which the machine must be started again.
CutNotReady == stepping.kind = "join" /\ stepping.cut => ~ (member.desired = "running" /\ member.prepared)

\* Only a guest without tailscaled is never looked at again while its machine is to run.
WaitEnds == check.wait = T!Never /\ member.desired = "running" /\ member.prepared => found = "missing"

StatusIsOwn == check.status \in {found, "none"}

TailInv == TailTypes /\ NameIsFree /\ RestsPrepared /\ CutNotReady /\ WaitEnds /\ StatusIsOwn

\* What a join said is waited on for a while, unless it said that there is no tailscaled, or was cut.
LEMMA CheckedWaits ==
  ASSUME TailNumbers, TailTypes,
         NEW status \in {"none", "joined", "failed", "missing"}
  PROVE  LET c == T!Checked(T!Current, status)
         IN /\ c \in [status : {"none", "joined", "failed", "missing"}, wait : 0..T!Never, backoff : 0..LongestBackoff]
            /\ c.status = status
            /\ c.wait = T!Never => status \in {"none", "missing"}
<1>1. T!Current.backoff \in 0..LongestBackoff
  BY DEF T!Current, TailTypes, TailNumbers, T!FirstCheck, T!Unchecked, T!Absent
<1>2. CASE status = "joined"
  BY <1>2 DEF T!Checked, TailNumbers, T!Never
<1>3. CASE status = "failed"
  BY <1>1, <1>3 DEF T!Checked, TailNumbers, T!Never, T!Lower
<1>4. CASE status \in {"none", "missing"}
  BY <1>4 DEF T!Checked, TailNumbers, T!Never, T!Unchecked
<1> QED
  BY <1>2, <1>3, <1>4

\* A look at a settled row counts its check down, and leaves what it said.
LEMMA TickedWaits ==
  ASSUME TailNumbers, TailTypes
  PROVE  LET c == T!Ticked(T!Current)
         IN /\ c \in [status : {"none", "joined", "failed", "missing"}, wait : 0..T!Never, backoff : 0..LongestBackoff]
            /\ c.status \in {check.status, "none"}
            /\ c.wait = T!Never => check.wait = T!Never
<1>1. /\ T!Current \in [status : {"none", "joined", "failed", "missing"}, wait : 0..T!Never, backoff : 0..LongestBackoff]
      /\ T!Current.status \in {check.status, "none"}
      /\ T!Current.wait \in {check.wait, 0}
  BY DEF T!Current, TailTypes, TailNumbers, T!FirstCheck, T!Unchecked, T!Never
<1>2. T!Never \in Nat \ {0}
  BY DEF T!Never, TailNumbers
<1> QED
  BY <1>1, <1>2 DEF T!Ticked

LEMMA TailBegins == ASSUME TailNumbers, T!TailInit PROVE TailInv
<1> USE DEF T!NoMember, T!Still, T!Absent, TailNumbers, T!Never, T!TailInit
<1>1. TailTypes
  BY DEF TailTypes
<1> QED
  BY <1>1 DEF TailInv, NameIsFree, RestsPrepared, CutNotReady, WaitEnds, StatusIsOwn

LEMMA TailStep ==
  ASSUME TailNumbers, TailInv, [T!TailNext]_tailVars
  PROVE  TailInv'
<1> USE DEF TailInv, TailTypes, NameIsFree, RestsPrepared, CutNotReady, WaitEnds, StatusIsOwn, T!Demand, T!At, T!Flaw,
            T!Still, T!NoMember
<1>0. T!Never \in Nat \ {0} /\ LongestBackoff \in Nat
  BY DEF T!Never, TailNumbers
<1>1. CASE UNCHANGED tailVars
  BY <1>1 DEF tailVars
<1>2. ASSUME NEW prepared \in BOOLEAN, NEW tailscaled \in BOOLEAN, T!Makes(prepared, tailscaled) PROVE TailInv'
  BY <1>0, <1>2 DEF T!Makes, T!Absent
<1>3. ASSUME NEW desired \in {"running", "stopped", "deleted"}, T!Asks(desired) PROVE TailInv'
  <2>1. /\ member' = [member EXCEPT !.desired = desired, !.prepared = @ /\ desired # "running", !.at = "observing"]
        /\ member.desired # "deleted" /\ UNCHANGED <<stepping, check, found>>
    BY <1>3 DEF T!Asks
  <2>2. member'.at = "observing" /\ member.at # "none"
    BY <2>1
  <2>3. TailTypes'
    BY <2>1
  <2> QED
    BY <2>1, <2>2, <2>3
<1>4. CASE T!Resizes
  BY <1>4 DEF T!Resizes
<1>5. CASE T!Looks
  <2>1. /\ stepping = T!Still /\ member.at \notin {"none", "joining"}
        /\ UNCHANGED found
    BY <1>5 DEF T!Looks
  <2>2. CASE /\ \E kind \in {"remove", "start", "stop"} : stepping' = [kind |-> kind, cut |-> FALSE]
             /\ member' = [member EXCEPT !.at = "observing"] /\ check' = check
    BY <2>1, <2>2
  <2>3. CASE /\ stepping' = [kind |-> "resize", cut |-> FALSE]
             /\ member' = [member EXCEPT !.resize = FALSE, !.at = "observing"] /\ check' = check
    BY <2>1, <2>3
  <2>4. CASE /\ stepping' = [kind |-> "join", cut |-> FALSE] /\ (member.desired = "running" => member.prepared)
             /\ member' = [member EXCEPT !.at = "joining"] /\ check' = check
    BY <2>1, <2>4
  <2>5. CASE /\ stepping' = stepping /\ (member.desired = "running" => member.prepared)
             /\ member' = [member EXCEPT !.at = "settled"] /\ check' = T!Ticked(T!Current)
    BY <2>1, <2>5, TickedWaits
  <2> HIDE DEF TailInv
  <2>6. CASE member.desired = "deleted"
    <3>1. T!Begin("remove")
      BY <1>5, <2>6 DEF T!Looks
    <3> QED
      BY <2>2, <3>1 DEF T!Begin
  <2>7. CASE member.desired # "deleted" /\ member.resize
    <3>1. /\ stepping' = [kind |-> "resize", cut |-> FALSE]
          /\ member' = [member EXCEPT !.resize = FALSE, !.at = "observing"] /\ check' = check
      BY <1>5, <2>7 DEF T!Looks
    <3> QED
      BY <2>3, <3>1
  <2>8. CASE member.desired = "running" /\ ~ member.resize
    <3>1. \/ T!Begin("start")
          \/ member.prepared /\ (T!Joins \/ T!Settle)
      BY <1>5, <2>8 DEF T!Looks
    <3> QED
      BY <2>2, <2>4, <2>5, <3>1 DEF T!Begin, T!Joins, T!Settle
  <2>9. CASE member.desired = "stopped" /\ ~ member.resize
    <3>1. T!Begin("stop") \/ T!Settle
      BY <1>5, <2>9 DEF T!Looks
    <3> QED
      BY <2>2, <2>5, <2>9, <3>1 DEF T!Begin, T!Settle
  <2>10. member.desired \in {"running", "stopped", "deleted"}
    BY DEF TailInv
  <2> QED
    BY <2>6, <2>7, <2>8, <2>9, <2>10
<1>6. CASE T!Cuts
  BY <1>6 DEF T!Cuts, T!Wanted
<1>7. CASE T!StartEnds
  <2>1. stepping.kind = "start" /\ check' = T!Absent /\ found' = "none" /\ stepping' = T!Still
    BY <1>7 DEF T!StartEnds, T!Ended, T!Fails
  <2>2. \/ member' = [member EXCEPT !.prepared = TRUE, !.at = "observing"]
        \/ \E at \in {"observing", "failed"} : member' = [member EXCEPT !.at = at]
    BY <1>7 DEF T!StartEnds, T!Ended, T!Fails
  <2>3. member' \in [at : {"observing", "failed"}, desired : {"running", "stopped", "deleted"},
                     prepared : BOOLEAN, resize : BOOLEAN]
    BY <2>2
  <2> QED
    BY <1>0, <2>1, <2>3 DEF T!Absent
<1>8. CASE T!JoinEnds
  BY <1>0, <1>8, CheckedWaits DEF T!JoinEnds, T!Ended, T!Statuses
<1>9. CASE T!StopEnds
  <2>1. stepping.kind = "stop" /\ stepping' = T!Still /\ UNCHANGED <<check, found>>
    BY <1>9 DEF T!StopEnds, T!Ended, T!Fails
  <2>2. \/ member' = [member EXCEPT !.prepared = FALSE, !.at = "observing"]
        \/ \E at \in {"observing", "failed"} : member' = [member EXCEPT !.at = at]
    BY <1>9 DEF T!StopEnds, T!Ended, T!Fails
  <2> QED
    BY <2>1, <2>2
<1>10. CASE T!ResizeEnds
  <2>1. stepping.kind = "resize" /\ stepping' = T!Still /\ UNCHANGED <<check, found>>
    BY <1>10 DEF T!ResizeEnds, T!Ended
  <2>2. \E at \in {"observing", "failed"} : member' = [member EXCEPT !.at = at]
    BY <1>10 DEF T!ResizeEnds, T!Ended
  <2> QED
    BY <2>1, <2>2
<1>11. CASE T!RemoveEnds
  BY <1>0, <1>11 DEF T!RemoveEnds, T!Absent
<1>12. CASE T!StepLost
  BY <1>12 DEF T!StepLost, T!Ended
<1>13. CASE T!VmStops
  BY <1>13 DEF T!VmStops
<1>14. CASE T!ServerRestarts
  BY <1>0, <1>14 DEF T!ServerRestarts, T!Absent
<1> QED
  BY <1>1, <1>2, <1>3, <1>4, <1>5, <1>6, <1>7, <1>8, <1>9, <1>10, <1>11, <1>12, <1>13, <1>14 DEF T!TailNext

\* A running machine at rest is checked again (tailnet.ts, machines.ts), for any waits: only a guest
\* that this machine's own join found without a tailscaled is not; and no status is shown that was
\* said of an earlier machine of the name, or before a start.
THEOREM TailnetsAreChecked == ASSUME TailNumbers PROVE PartsSpec => []StandsChecked
<1>1. PartsInit => TailInv
  BY TailBegins DEF PartsInit
<1>2. TailInv /\ [PartsNext]_allVars => TailInv'
  BY TailStep DEF PartsNext, allVars
<1>3. TailInv => StandsChecked
  BY DEF TailInv, RestsPrepared, WaitEnds, StatusIsOwn, StandsChecked, T!StandsChecked
<1> QED
  BY <1>1, <1>2, <1>3, PTL DEF PartsSpec, allVars

--------------------------------------------------------------------------------
(* Placements. *)

\* Every set of naturals that is not empty has a least number: what stands for induction here.
LEMMA Least == ASSUME NEW U \in SUBSET Nat, U # {} PROVE \E n \in U : \A m \in U : n <= m
<1>1. PICK n \in U : \A m \in U : ~ (<<m, n>> \in OpToRel(<, Nat))
  BY NatLessThanWellFounded, WFMin
<1>2. \A m \in U : ~ (m < n)
  BY <1>1 DEF OpToRel
<1> QED
  BY <1>2

\* Whatever holds of 0, and of a number after the one before it, holds up to N.
LEMMA UpTo ==
  ASSUME NEW N \in Nat, NEW U, 0 \in U, \A n \in 1..N : n - 1 \in U => n \in U
  PROVE  \A n \in 0..N : n \in U
<1> DEFINE Bad == {n \in 0..N : n \notin U}
<1>1. SUFFICES ASSUME Bad # {} PROVE FALSE
  OBVIOUS
<1>2. Bad \in SUBSET Nat
  OBVIOUS
<1>3. PICK n \in Bad : \A m \in Bad : n <= m
  BY <1>1, <1>2, Least
<1>4. n \in 1..N /\ n - 1 \in 0..N
  BY <1>3
<1>5. n - 1 \notin Bad
  BY <1>3, <1>4
<1> QED
  BY <1>3, <1>4, <1>5

\* There is a sifting, by any test, of the numbers up to N.
LEMMA SiftingExists ==
  ASSUME NEW N \in Nat, NEW takes
  PROVE  \E f : f = [n \in 0..N |-> IF n = 0 THEN <<>> ELSE IF takes[n] THEN Append(f[n - 1], n) ELSE f[n - 1]]
<1> DEFINE Step(g, i) == IF takes[i] THEN Append(g[i - 1], i) ELSE g[i - 1]
           Partial(n, g) == /\ g = [i \in 0..n |-> g[i]]
                            /\ g[0] = <<>> /\ \A i \in 1..n : g[i] = Step(g, i)
           U == {n \in 0..N : \E g : Partial(n, g)}
<1>1. 0 \in U
  <2>1. Partial(0, [i \in 0..0 |-> <<>>])
    OBVIOUS
  <2> HIDE DEF Partial
  <2> QED
    BY <2>1
<1>2. ASSUME NEW n \in 1..N, n - 1 \in U PROVE n \in U
  <2>1. PICK g : Partial(n - 1, g)
    BY <1>2
  <2> DEFINE h == [i \in 0..n |-> IF i = n THEN Step(g, n) ELSE g[i]]
  <2>2. h = [i \in 0..n |-> h[i]] /\ h[0] = <<>>
    BY <2>1
  <2>3. ASSUME NEW i \in 1..n PROVE h[i] = Step(h, i)
    <3>1. h[i - 1] = g[i - 1]
      OBVIOUS
    <3>2. CASE i = n
      BY <3>1, <3>2
    <3>3. CASE i # n
      <4>1. i \in 1..(n - 1) /\ h[i] = g[i]
        BY <3>3
      <4>2. g[i] = Step(g, i)
        BY <2>1, <4>1
      <4> QED
        BY <3>1, <4>1, <4>2
    <3> QED
      BY <3>2, <3>3
  <2>4. Partial(n, h)
    BY <2>2, <2>3
  <2> HIDE DEF Partial
  <2> QED
    BY <2>4
<1>3. N \in U
  <2> HIDE DEF U
  <2> QED
    BY <1>1, <1>2, UpTo
<1>4. PICK f : Partial(N, f)
  BY <1>3
<1>5. f = [n \in 0..N |-> IF n = 0 THEN <<>> ELSE Step(f, n)]
  <2>1. f = [n \in 0..N |-> f[n]]
    BY <1>4
  <2>2. f[0] = <<>>
    BY <1>4
  <2>3. \A n \in 1..N : f[n] = Step(f, n)
    BY <1>4
  <2> HIDE DEF Step
  <2>4. \A n \in 0..N : f[n] = IF n = 0 THEN <<>> ELSE Step(f, n)
    <3> TAKE n \in 0..N
    <3>1. CASE n = 0
      BY <2>2, <3>1
    <3>2. CASE n # 0
      <4>1. n \in 1..N
        BY <3>2
      <4> QED
        BY <2>3, <3>2, <4>1
    <3> QED
      BY <3>1, <3>2
  <2> QED
    BY <2>1, <2>4
<1> QED
  BY <1>5

\* A create is placed on hosts that can take it.
LEMMA PlacingTakes ==
  ASSUME SiteCount \in Nat
  PROVE  L!Placing \in Seq({h \in L!Sites : L!Takes(h)})
<1> DEFINE sifted == L!Sifted
           Taken == {h \in L!Sites : L!Takes(h)}
           takes == [h \in L!Sites |-> L!Takes(h)]
           Sound == {n \in 0..SiteCount : sifted[n] \in Seq(Taken)}
<1>1. \E f : f = [n \in 0..SiteCount |-> IF n = 0 THEN <<>> ELSE IF takes[n] THEN Append(f[n - 1], n) ELSE f[n - 1]]
  BY SiftingExists
<1>2. \E f : f = [n \in 0..SiteCount |-> IF n = 0 THEN <<>>
                                         ELSE IF L!Takes(n) THEN Append(f[n - 1], n) ELSE f[n - 1]]
  <2>1. PICK f : f = [n \in 0..SiteCount |-> IF n = 0 THEN <<>> ELSE IF takes[n] THEN Append(f[n - 1], n) ELSE f[n - 1]]
    BY <1>1
  <2>2. \A n \in 0..SiteCount : n # 0 => takes[n] = L!Takes(n)
    BY DEF L!Sites
  <2>3. f = [n \in 0..SiteCount |-> IF n = 0 THEN <<>> ELSE IF L!Takes(n) THEN Append(f[n - 1], n) ELSE f[n - 1]]
    BY <2>1, <2>2
  <2> QED
    BY <2>3
<1>3. sifted = [n \in 0..SiteCount |-> IF n = 0 THEN <<>> ELSE IF L!Takes(n) THEN Append(sifted[n - 1], n) ELSE sifted[n - 1]]
  BY <1>2 DEF L!Sifted
<1> HIDE DEF sifted
<1>4. 0 \in Sound
  BY <1>3
<1>5. ASSUME NEW n \in 1..SiteCount, n - 1 \in Sound PROVE n \in Sound
  <2>1. sifted[n] = IF L!Takes(n) THEN Append(sifted[n - 1], n) ELSE sifted[n - 1]
    <3>1. n \in 0..SiteCount /\ n # 0
      OBVIOUS
    <3> HIDE DEF Sound, Taken, takes
    <3> QED
      BY <1>3, <3>1, Zenon
  <2>2. L!Takes(n) => n \in Taken
    BY DEF L!Sites
  <2>3. sifted[n - 1] \in Seq(Taken) /\ n \in 0..SiteCount
    BY <1>5
  <2>4. sifted[n] \in Seq(Taken)
    <3> HIDE DEF Sound, Taken, takes
    <3> QED
      BY <2>1, <2>2, <2>3
  <2> QED
    BY <2>3, <2>4
<1>6. SiteCount \in Sound
  <2> HIDE DEF Sound
  <2> QED
    BY <1>4, <1>5, UpTo
<1> QED
  BY <1>6 DEF L!Placing, sifted

Pinned == {0} \cup L!Pins
SiteState == [up : BOOLEAN, boot : Nat, pin : Pinned, offers : BOOLEAN]
Placed == {"due", "sent", "undoing", "undone", "deleting", "made"}

PlaceTypes ==
  /\ sites \in [L!Sites -> [up : BOOLEAN, boot : Nat, pin : L!Pins, offers : BOOLEAN]]
  /\ infos \in [L!Sites -> Pinned]
  /\ creation = L!NoCreation \/ creation \in [of : {"base", "build"}, held : SUBSET L!Sites, answers : [L!Sites -> SiteState]]
  /\ placement = L!NoPlacement \/ placement \in [state : Placed, host : L!Sites, of : {"base", "build"}, pin : Pinned,
                                                boot : Nat, error : {"none", "NotBuilt", "Lost", "Internal", "PinMismatch", "Capacity"}]
  /\ untried \in Seq(L!Sites) /\ placed \in Seq(L!Sites) /\ tried \in Seq(L!Sites)
  /\ bodies \in [L!Sites -> Pinned]
  /\ stocked \in SUBSET L!Sites

\* A create is placed over no row, or one whose make is over, and a host that answered it was read.
CreateIsAlone ==
  creation # L!NoCreation =>
    /\ placement.state \in {"none", "undone"}
    /\ \A h \in L!Sites : creation.answers[h].up => infos[h] # 0

\* What was tried is the beginning of where the create was placed, a due row's host is what comes
\* next there, and memory holds the rest, of hosts that were read, while it is there.
TriedInOrder ==
  /\ Len(tried) <= Len(placed) /\ \A i \in 1..Len(tried) : tried[i] = placed[i]
  /\ placement.state = "due" =>
       /\ Len(tried) < Len(placed) /\ placement.host = placed[Len(tried) + 1]
       /\ steady => Len(untried) = Len(placed) - Len(tried) - 1 /\ \A i \in 1..Len(untried) : untried[i] = placed[Len(tried) + 1 + i]
  /\ placement.state = "sent" \/ (placement.state = "undoing" /\ placement.error = "Capacity") =>
       (steady => Len(untried) = Len(placed) - Len(tried) /\ \A i \in 1..Len(untried) : untried[i] = placed[Len(tried) + i])
  /\ placement.state = "undone" /\ placement.error = "Capacity" /\ steady => Len(tried) = Len(placed)
  /\ untried # <<>> => steady
  /\ steady => \A i \in 1..Len(untried) : infos[untried[i]] # 0

\* Only the row's host has a VM, from its make on until it is removed, and under the build's pin.
BodyIsThere ==
  \A h \in L!Sites : bodies[h] # 0 =>
    /\ h = placement.host /\ placement.state \in {"sent", "undoing", "deleting", "made"}
    /\ placement.of = "build" => bodies[h] = L!BuildPin

\* The boot a make runs under has the pin of the row, until the host restarts.
PinIsRead ==
  /\ placement.state = "sent" =>
       /\ sites[placement.host].boot >= placement.boot
       /\ sites[placement.host].boot = placement.boot => sites[placement.host].pin = placement.pin
  /\ placement.state = "made" => bodies[placement.host] = placement.pin

PlaceInv == PlaceTypes /\ CreateIsAlone /\ TriedInOrder /\ BodyIsThere /\ PinIsRead

LEMMA PlaceBegins ==
  ASSUME SiteCount \in Nat, L!PlaceInit
  PROVE  PlaceInv
<1> USE DEF L!PlaceInit, L!Sites, L!Pins, L!BuildPin, L!NoCreation, L!NoPlacement, Pinned
<1>1. PlaceTypes
  <2>1. sites \in [L!Sites -> [up : BOOLEAN, boot : Nat, pin : L!Pins, offers : BOOLEAN]]
    <3>1. [up : {TRUE}, boot : {1}, pin : {L!BuildPin}, offers : BOOLEAN]
            \subseteq [up : BOOLEAN, boot : Nat, pin : L!Pins, offers : BOOLEAN]
      <4>1. L!BuildPin \in L!Pins /\ 1 \in Nat
        OBVIOUS
      <4> HIDE DEF L!BuildPin, L!Pins
      <4> QED
        BY <4>1
    <3> QED
      BY <3>1
  <2>2. stocked \in SUBSET L!Sites
    OBVIOUS
  <2>3. infos \in [L!Sites -> Pinned] /\ bodies \in [L!Sites -> Pinned]
    OBVIOUS
  <2>4. untried \in Seq(L!Sites) /\ placed \in Seq(L!Sites) /\ tried \in Seq(L!Sites)
    OBVIOUS
  <2>5. creation = L!NoCreation /\ placement = L!NoPlacement
    OBVIOUS
  <2> QED
    BY <2>1, <2>2, <2>3, <2>4, <2>5 DEF PlaceTypes
<1>2. CreateIsAlone /\ BodyIsThere /\ PinIsRead
  BY DEF CreateIsAlone, BodyIsThere, PinIsRead
<1>3. TriedInOrder
  BY DEF TriedInOrder
<1> QED
  BY <1>1, <1>2, <1>3 DEF PlaceInv

\* What a create's beginnings, and its reads, change.
LEMMA CreateSteps ==
  ASSUME SiteCount \in Nat, PlaceInv,
         \/ \E of \in {"base", "build"} : L!Creates(of)
         \/ \E h \in L!Sites : L!Reads(h)
         \/ L!Refuses
  PROVE  PlaceInv'
<1> USE DEF Pinned, SiteState
<1>1. UNCHANGED <<sites, draining, stocked, placement, untried, bodies, placed, tried, steady>>
  BY DEF L!Creates, L!Reads, L!Refuses
<1>2. /\ infos' \in [L!Sites -> Pinned]
      /\ \A h \in L!Sites : infos[h] # 0 => infos'[h] # 0
  <2>1. infos' = infos \/ \E h \in L!Sites : infos' = [infos EXCEPT ![h] = sites[h].pin]
    BY DEF L!Creates, L!Reads, L!Refuses
  <2>2. infos \in [L!Sites -> Pinned] /\ \A h \in L!Sites : sites[h].pin \in Pinned /\ sites[h].pin # 0
    BY DEF PlaceInv, PlaceTypes, L!Pins
  <2> QED
    BY <2>1, <2>2
<1>3. /\ creation' = L!NoCreation \/ creation' \in [of : {"base", "build"}, held : SUBSET L!Sites, answers : [L!Sites -> SiteState]]
      /\ creation' # L!NoCreation => placement.state \in {"none", "undone"}
      /\ creation' # L!NoCreation => \A h \in L!Sites : creation'.answers[h].up => infos'[h] # 0
  <2>1. ASSUME NEW of \in {"base", "build"}, L!Creates(of)
        PROVE  /\ creation' \in [of : {"base", "build"}, held : SUBSET L!Sites, answers : [L!Sites -> SiteState]]
               /\ placement.state \in {"none", "undone"}
               /\ \A h \in L!Sites : ~ creation'.answers[h].up
    BY <2>1 DEF L!Creates, L!Unread, PlaceInv, PlaceTypes
  <2>2. ASSUME NEW g \in L!Sites, L!Reads(g)
        PROVE  /\ creation' \in [of : {"base", "build"}, held : SUBSET L!Sites, answers : [L!Sites -> SiteState]]
               /\ placement.state \in {"none", "undone"}
               /\ \A h \in L!Sites : creation'.answers[h].up => infos'[h] # 0
    <3>1. creation \in [of : {"base", "build"}, held : SUBSET L!Sites, answers : [L!Sites -> SiteState]]
      BY <2>2 DEF L!Reads, PlaceInv, PlaceTypes
    <3>2. sites[g] \in SiteState /\ sites[g].pin # 0
      BY DEF PlaceInv, PlaceTypes, L!Pins
    <3>3. /\ creation' = [creation EXCEPT !.answers[g] = sites[g]]
          /\ sites[g].up => infos' = [infos EXCEPT ![g] = sites[g].pin]
      BY <2>2 DEF L!Reads
    <3>4. creation' \in [of : {"base", "build"}, held : SUBSET L!Sites, answers : [L!Sites -> SiteState]]
      BY <3>1, <3>2, <3>3
    <3>5. ASSUME NEW h \in L!Sites, creation'.answers[h].up PROVE infos'[h] # 0
      <4>1. CASE h = g
        BY <3>1, <3>2, <3>3, <3>5, <4>1 DEF PlaceInv, PlaceTypes
      <4>2. CASE h # g
        BY <1>2, <2>2, <3>1, <3>3, <3>5, <4>2 DEF PlaceInv, CreateIsAlone, L!Reads
      <4> QED
        BY <4>1, <4>2
    <3>6. placement.state \in {"none", "undone"}
      BY <2>2 DEF L!Reads, PlaceInv, CreateIsAlone
    <3> QED
      BY <3>4, <3>5, <3>6
  <2>3. L!Refuses => creation' = L!NoCreation
    BY DEF L!Refuses
  <2> QED
    BY <2>1, <2>2, <2>3
<1>4. PlaceTypes'
  BY <1>1, <1>2, <1>3 DEF PlaceInv, PlaceTypes
<1>5. CreateIsAlone'
  BY <1>1, <1>3 DEF CreateIsAlone
<1>6. TriedInOrder'
  <2>1. \A i \in 1..Len(untried) : untried[i] \in L!Sites
    BY DEF PlaceInv, PlaceTypes
  <2> QED
    BY <1>1, <1>2, <2>1 DEF PlaceInv, TriedInOrder
<1>7. BodyIsThere' /\ PinIsRead'
  BY <1>1 DEF PlaceInv, BodyIsThere, PinIsRead
<1> QED
  BY <1>4, <1>5, <1>6, <1>7 DEF PlaceInv

\* The head and the rest of a sequence.
LEMMA SeqParts ==
  ASSUME NEW Wide, NEW Narrow, Narrow \subseteq Wide, NEW p \in Seq(Narrow), p # <<>>
  PROVE  /\ p \in Seq(Wide) /\ Head(p) = p[1] /\ Head(p) \in Wide /\ Tail(p) \in Seq(Wide)
         /\ Len(Tail(p)) = Len(p) - 1 /\ \A i \in 1..Len(Tail(p)) : Tail(p)[i] = p[i + 1]
         /\ Len(p) \in Nat \ {0}
OBVIOUS

\* A row is written for the first of the hosts that can take the create.
LEMMA BornPlaces ==
  ASSUME SiteCount \in Nat, PlaceInv, L!Born
  PROVE  PlaceInv'
<1> DEFINE Rows == [state : Placed, host : L!Sites, of : {"base", "build"}, pin : Pinned, boot : Nat,
                 error : {"none", "NotBuilt", "Lost", "Internal", "PinMismatch", "Capacity"}]
<1>1. /\ L!Placing \in Seq({h \in L!Sites : L!Takes(h)}) /\ L!Placing # <<>>
      /\ creation \in [of : {"base", "build"}, held : SUBSET L!Sites, answers : [L!Sites -> SiteState]]
      /\ placement.state \in {"none", "undone"} /\ creation # L!NoCreation
  BY PlacingTakes DEF L!Born, PlaceInv, PlaceTypes, CreateIsAlone
<1> DEFINE p == L!Placing
<1>2. /\ p \in Seq(L!Sites) /\ Head(p) = p[1] /\ Head(p) \in L!Sites /\ Tail(p) \in Seq(L!Sites)
      /\ Len(Tail(p)) = Len(p) - 1 /\ \A i \in 1..Len(Tail(p)) : Tail(p)[i] = p[i + 1]
      /\ Len(p) \in Nat \ {0}
  <2>1. {h \in L!Sites : L!Takes(h)} \subseteq L!Sites
    OBVIOUS
  <2> QED
    BY <1>1, <2>1, SeqParts
<1>3. \A i \in 1..Len(p) : p[i] \in L!Sites /\ infos[p[i]] # 0
  <2>1. \A i \in 1..Len(p) : p[i] \in {h \in L!Sites : L!Takes(h)}
    BY <1>1
  <2> QED
    BY <1>1, <2>1 DEF L!Takes, PlaceInv, CreateIsAlone
<1>4. /\ placement' = [state |-> "due", host |-> Head(p), of |-> creation.of,
                      pin |-> creation.answers[Head(p)].pin, boot |-> 0, error |-> "none"]
      /\ untried' = Tail(p) /\ creation' = L!NoCreation
      /\ placed' = p /\ tried' = <<>> /\ steady' = TRUE
      /\ UNCHANGED <<sites, draining, stocked, infos, bodies>>
  BY DEF L!Born
<1> HIDE DEF p
<1>5. placement' \in Rows
  <2>1. creation.answers[Head(p)].pin \in Pinned /\ creation.of \in {"base", "build"}
    BY <1>1, <1>2 DEF SiteState
  <2> QED
    BY <1>2, <1>4, <2>1 DEF Placed
<1>6. PlaceTypes'
  BY <1>2, <1>4, <1>5 DEF PlaceInv, PlaceTypes
<1>7. TriedInOrder'
  BY <1>2, <1>3, <1>4 DEF TriedInOrder
<1>8. \A h \in L!Sites : bodies'[h] = 0
  BY <1>1, <1>4 DEF PlaceInv, BodyIsThere
<1>9. BodyIsThere' /\ PinIsRead' /\ CreateIsAlone'
  BY <1>4, <1>8 DEF BodyIsThere, PinIsRead, CreateIsAlone
<1> QED
  BY <1>6, <1>7, <1>9 DEF PlaceInv

\* Memory after a write of the row: the next host is taken, what is made or undone needs none.
LEMMA StoredUntried ==
  ASSUME NEW r, L!Stored(r), untried \in Seq(L!Sites), r.state = "due" => untried # <<>>
  PROVE  /\ placement' = r /\ untried' \in Seq(L!Sites)
         /\ r.state = "due" => untried' = Tail(untried)
         /\ r.state \in {"made", "undone", "none"} => untried' = <<>>
         /\ r.state \notin {"due", "made", "undone", "none"} => untried' = untried
<1>1. placement' = r
  BY DEF L!Stored
<1>2. CASE r.state = "due"
  <2>1. untried' = Tail(untried)
    BY <1>2 DEF L!Stored
  <2> QED
    BY <1>1, <1>2, <2>1
<1>3. CASE r.state \in {"made", "undone", "none"}
  BY <1>1, <1>3 DEF L!Stored
<1>4. CASE r.state \notin {"due", "made", "undone", "none"}
  BY <1>1, <1>4 DEF L!Stored
<1> QED
  BY <1>2, <1>3, <1>4

\* A row that goes on, in place, with nothing else of the create changed but perhaps its error.
PlaceRow == [state : Placed, host : L!Sites, of : {"base", "build"}, pin : Pinned, boot : Nat,
             error : {"none", "NotBuilt", "Lost", "Internal", "PinMismatch", "Capacity"}]

PlaceRest == UNCHANGED <<draining, stocked, creation, placed, steady>>

LEMMA RowThere ==
  ASSUME PlaceInv, placement.state # "none"
  PROVE  placement \in PlaceRow
BY DEF PlaceInv, PlaceTypes, PlaceRow, L!NoPlacement

\* The make is undone, as it was refused, lost, failed or never sent.
LEMMA UndoesPlaces ==
  ASSUME SiteCount \in Nat, PlaceInv, PlaceRest, NEW error \in {"NotBuilt", "Lost", "Internal", "PinMismatch", "Capacity"},
         L!Undoes(error), placement.state \in {"due", "sent"},
         placement.state = "due" => error # "Capacity",
         UNCHANGED <<sites, infos, tried>>,
         \/ bodies' = bodies
         \/ /\ placement.state = "sent"
            /\ placement.of = "build" => sites[placement.host].pin = L!BuildPin
            /\ bodies' = [bodies EXCEPT ![placement.host] = sites[placement.host].pin]
  PROVE  PlaceInv'
<1>1. placement \in PlaceRow
  BY RowThere
<1> DEFINE r == [placement EXCEPT !.state = "undoing", !.error = error]
<1>2. r \in PlaceRow /\ r.state = "undoing" /\ r.error = error /\ r.host = placement.host /\ r.of = placement.of
  BY <1>1 DEF PlaceRow, Placed
<1>3. placement' = r /\ untried' = untried
  <2>1. untried \in Seq(L!Sites) /\ L!Stored(r)
    BY DEF PlaceInv, PlaceTypes, L!Undoes
  <2> HIDE DEF r
  <2> QED
    BY <1>2, <2>1, StoredUntried
<1> HIDE DEF r
<1>4. creation = L!NoCreation
  BY <1>1 DEF PlaceInv, CreateIsAlone
<1>5. PlaceTypes'
  <2>1. bodies' \in [L!Sites -> Pinned]
    BY <1>1 DEF PlaceInv, PlaceTypes, PlaceRow, Pinned
  <2> QED
    BY <1>2, <1>3, <2>1 DEF PlaceInv, PlaceTypes, PlaceRest, PlaceRow
<1>6. TriedInOrder'
  BY <1>2, <1>3 DEF PlaceInv, TriedInOrder, PlaceRest
<1>7. BodyIsThere'
  <2>1. placement.state = "due" => \A h \in L!Sites : bodies[h] = 0
    BY DEF PlaceInv, BodyIsThere
  <2>2. ASSUME NEW h \in L!Sites, bodies'[h] # 0
        PROVE  h = placement.host /\ (placement.of = "build" => bodies'[h] = L!BuildPin)
    BY <2>1, <2>2 DEF PlaceInv, PlaceTypes, BodyIsThere
  <2> QED
    BY <1>2, <1>3, <2>2 DEF BodyIsThere
<1>8. PinIsRead' /\ CreateIsAlone'
  BY <1>2, <1>3, <1>4 DEF PinIsRead, CreateIsAlone, PlaceRest
<1> QED
  BY <1>5, <1>6, <1>7, <1>8 DEF PlaceInv

\* The host is read, and the make sent under the boot that answered.
LEMMA DueReadsPlaces ==
  ASSUME SiteCount \in Nat, PlaceInv, PlaceRest, L!DueReads
  PROVE  PlaceInv'
<1>1. placement \in PlaceRow /\ placement.state = "due"
  BY RowThere DEF L!DueReads, L!In
<1> DEFINE s == sites[placement.host]
           r == [placement EXCEPT !.state = "sent", !.pin = s.pin, !.boot = s.boot]
<1>2. s \in [up : BOOLEAN, boot : Nat, pin : L!Pins, offers : BOOLEAN] /\ s.pin \in Pinned /\ s.pin # 0
  BY <1>1 DEF PlaceInv, PlaceTypes, PlaceRow, L!Pins, Pinned
<1> HIDE DEF s
<1>3. r \in PlaceRow /\ r.state = "sent" /\ r.host = placement.host /\ r.of = placement.of /\ r.pin = s.pin /\ r.boot = s.boot
  BY <1>1, <1>2 DEF PlaceRow, Placed
<1>4. placement' = r /\ untried' = untried
  <2>1. untried \in Seq(L!Sites) /\ L!Stored(r)
    BY DEF PlaceInv, PlaceTypes, L!DueReads, L!Here, s
  <2> HIDE DEF r
  <2> QED
    BY <1>3, <2>1, StoredUntried
<1> HIDE DEF r
<1>5. /\ infos' = [infos EXCEPT ![placement.host] = s.pin] /\ tried' = Append(tried, placement.host)
      /\ UNCHANGED <<sites, bodies>>
  BY DEF L!DueReads, L!Here, s
<1>6. creation = L!NoCreation
  BY <1>1 DEF PlaceInv, CreateIsAlone
<1>7. /\ infos' \in [L!Sites -> Pinned] /\ \A h \in L!Sites : infos[h] # 0 => infos'[h] # 0
      /\ tried' \in Seq(L!Sites) /\ Len(tried') = Len(tried) + 1 /\ tried'[Len(tried) + 1] = placement.host
      /\ \A i \in 1..Len(tried) : tried'[i] = tried[i]
      /\ Len(tried) \in Nat
  <2>1. infos \in [L!Sites -> Pinned] /\ tried \in Seq(L!Sites) /\ placement.host \in L!Sites
    BY <1>1 DEF PlaceInv, PlaceTypes, PlaceRow
  <2> QED
    BY <1>2, <1>5, <2>1
<1>8. PlaceTypes'
  BY <1>3, <1>4, <1>5, <1>7 DEF PlaceInv, PlaceTypes, PlaceRest, PlaceRow
<1>9. TriedInOrder'
  <2>1. \A i \in 1..Len(untried) : untried[i] \in L!Sites
    BY DEF PlaceInv, PlaceTypes
  <2>2. Len(tried') <= Len(placed) /\ \A i \in 1..Len(tried') : tried'[i] = placed[i]
    BY <1>1, <1>7 DEF PlaceInv, TriedInOrder
  <2>3. steady => /\ Len(untried) = Len(placed) - Len(tried')
                  /\ \A i \in 1..Len(untried) : untried[i] = placed[Len(tried') + i]
    BY <1>1, <1>7 DEF PlaceInv, TriedInOrder
  <2>4. /\ untried # <<>> => steady
        /\ steady => \A i \in 1..Len(untried) : infos'[untried[i]] # 0
    BY <1>7, <2>1 DEF PlaceInv, TriedInOrder
  <2> QED
    BY <1>3, <1>4, <2>2, <2>3, <2>4 DEF TriedInOrder, PlaceRest
<1>10. BodyIsThere'
  BY <1>1, <1>3, <1>4, <1>5 DEF PlaceInv, BodyIsThere
<1>11. PinIsRead' /\ CreateIsAlone'
  BY <1>2, <1>3, <1>4, <1>5, <1>6 DEF PinIsRead, CreateIsAlone, PlaceRest, s
<1> QED
  BY <1>8, <1>9, <1>10, <1>11 DEF PlaceInv

\* The make is done: its VM runs under the pin of the boot it was sent under, which is the row's.
LEMMA MadePlaces ==
  ASSUME SiteCount \in Nat, PlaceInv, PlaceRest, L!MakeEnds("done")
  PROVE  PlaceInv'
<1>1. placement \in PlaceRow /\ placement.state = "sent"
  BY RowThere DEF L!MakeEnds, L!In
<1> DEFINE r == [placement EXCEPT !.state = "made"]
           s == sites[placement.host]
<1>2. r \in PlaceRow /\ r.state = "made" /\ r.host = placement.host /\ r.of = placement.of /\ r.pin = placement.pin
  BY <1>1 DEF PlaceRow, Placed
<1>3. placement' = r /\ untried' = <<>>
  <2>1. untried \in Seq(L!Sites) /\ L!Stored(r)
    BY DEF PlaceInv, PlaceTypes, L!MakeEnds
  <2> HIDE DEF r
  <2> QED
    BY <1>2, <2>1, StoredUntried
<1> HIDE DEF r
<1>4. /\ bodies' = [bodies EXCEPT ![placement.host] = s.pin]
      /\ placement.of = "build" => s.pin = L!BuildPin
      /\ s.boot = placement.boot
      /\ UNCHANGED <<sites, infos, tried>>
  BY DEF L!MakeEnds, L!Restorable, L!Here
<1>5. s.pin \in Pinned /\ s.pin = placement.pin
  BY <1>1, <1>4 DEF PlaceInv, PlaceTypes, PlaceRow, PinIsRead, Pinned
<1>6. creation = L!NoCreation
  BY <1>1 DEF PlaceInv, CreateIsAlone
<1> HIDE DEF s
<1>7. PlaceTypes'
  <2>1. bodies' \in [L!Sites -> Pinned]
    BY <1>4, <1>5 DEF PlaceInv, PlaceTypes
  <2> QED
    BY <1>2, <1>3, <1>4, <2>1 DEF PlaceInv, PlaceTypes, PlaceRest, PlaceRow
<1>8. TriedInOrder'
  BY <1>2, <1>3, <1>4 DEF PlaceInv, TriedInOrder, PlaceRest
<1>9. BodyIsThere'
  BY <1>1, <1>2, <1>3, <1>4 DEF PlaceInv, PlaceTypes, BodyIsThere
<1>10. PinIsRead' /\ CreateIsAlone'
  BY <1>1, <1>2, <1>3, <1>4, <1>5, <1>6 DEF PlaceInv, PlaceTypes, PlaceRow, PinIsRead, CreateIsAlone, PlaceRest
<1> QED
  BY <1>7, <1>8, <1>9, <1>10 DEF PlaceInv

\* What a row that is given up leaves is removed, and a make without room goes to the next host.
LEMMA RemovePlaces ==
  ASSUME SiteCount \in Nat, PlaceInv, PlaceRest, L!RemoveEnds
  PROVE  PlaceInv'
<1>1. placement \in PlaceRow /\ placement.state \in {"undoing", "deleting"}
  BY RowThere DEF L!RemoveEnds
<1>2. bodies' = [bodies EXCEPT ![placement.host] = 0] /\ UNCHANGED <<sites, infos, tried>>
  BY DEF L!RemoveEnds
<1>3. bodies' \in [L!Sites -> Pinned] /\ \A h \in L!Sites : bodies'[h] = 0
  BY <1>1, <1>2 DEF PlaceInv, PlaceTypes, BodyIsThere, Pinned
<1>4. creation = L!NoCreation
  BY <1>1 DEF PlaceInv, CreateIsAlone
<1>5. untried \in Seq(L!Sites) /\ infos \in [L!Sites -> Pinned]
  BY DEF PlaceInv, PlaceTypes
<1>6. CASE placement.state = "deleting"
  <2>1. L!Stored(L!NoPlacement)
    BY <1>6 DEF L!RemoveEnds, L!In
  <2>2. placement' = L!NoPlacement /\ untried' = <<>>
    BY <1>5, <2>1, StoredUntried DEF L!NoPlacement
  <2> QED
    BY <1>2, <1>3, <1>4, <2>2 DEF PlaceInv, PlaceTypes, CreateIsAlone, TriedInOrder, BodyIsThere, PinIsRead,
                                  PlaceRest, L!NoPlacement
<1>7. CASE placement.state = "undoing" /\ L!Moves
  <2> DEFINE next == Head(untried)
             r == [placement EXCEPT !.state = "due", !.error = "none", !.host = next, !.pin = infos[next]]
  <2>1. L!Stored(r) /\ untried # <<>> /\ placement.error = "Capacity"
    BY <1>7 DEF L!RemoveEnds, L!In, L!Moves
  <2>2. /\ next = untried[1] /\ next \in L!Sites /\ Tail(untried) \in Seq(L!Sites)
        /\ Len(Tail(untried)) = Len(untried) - 1 /\ \A i \in 1..Len(Tail(untried)) : Tail(untried)[i] = untried[i + 1]
        /\ Len(untried) \in Nat \ {0}
    BY <1>5, <2>1, SeqParts
  <2> HIDE DEF next
  <2>3. r \in PlaceRow /\ r.state = "due" /\ r.host = next
    BY <1>1, <1>5, <2>2 DEF PlaceRow, Placed
  <2>4. placement' = r /\ untried' = Tail(untried)
    <3> HIDE DEF r
    <3> QED
      BY <1>5, <2>1, <2>3, StoredUntried
  <2> HIDE DEF r
  <2>5. PlaceTypes'
    BY <1>2, <1>3, <2>2, <2>3, <2>4 DEF PlaceInv, PlaceTypes, PlaceRest, PlaceRow
  <2>6. TriedInOrder'
    <3>1. /\ steady /\ Len(untried) = Len(placed) - Len(tried)
          /\ \A i \in 1..Len(untried) : untried[i] = placed[Len(tried) + i]
          /\ \A i \in 1..Len(untried) : infos[untried[i]] # 0
          /\ Len(tried) \in Nat /\ Len(placed) \in Nat
      BY <1>7, <2>1 DEF PlaceInv, PlaceTypes, TriedInOrder
    <3>2. /\ Len(tried) < Len(placed) /\ next = placed[Len(tried) + 1]
          /\ Len(Tail(untried)) = Len(placed) - Len(tried) - 1
          /\ \A i \in 1..Len(Tail(untried)) : Tail(untried)[i] = placed[Len(tried) + 1 + i]
      BY <2>2, <3>1
    <3>3. \A i \in 1..Len(Tail(untried)) : infos[Tail(untried)[i]] # 0
      BY <2>2, <3>1
    <3> QED
      BY <1>2, <2>3, <2>4, <3>1, <3>2, <3>3 DEF PlaceInv, TriedInOrder, PlaceRest
  <2>7. BodyIsThere' /\ PinIsRead' /\ CreateIsAlone'
    BY <1>3, <1>4, <2>3, <2>4 DEF BodyIsThere, PinIsRead, CreateIsAlone, PlaceRest
  <2> QED
    BY <2>5, <2>6, <2>7 DEF PlaceInv
<1>8. CASE placement.state = "undoing" /\ ~ L!Moves
  <2> DEFINE r == [placement EXCEPT !.state = "undone"]
  <2>1. L!Stored(r)
    BY <1>8 DEF L!RemoveEnds, L!In
  <2>2. r \in PlaceRow /\ r.state = "undone" /\ r.error = placement.error
    BY <1>1 DEF PlaceRow, Placed
  <2>3. placement' = r /\ untried' = <<>>
    <3> HIDE DEF r
    <3> QED
      BY <1>5, <2>1, <2>2, StoredUntried
  <2> HIDE DEF r
  <2>4. placement.error = "Capacity" /\ steady => Len(tried) = Len(placed)
    <3>1. ASSUME placement.error = "Capacity", steady PROVE untried = <<>>
      <4>1. untried # <<>> => Head(untried) = untried[1] /\ 1 \in 1..Len(untried)
        BY <1>5
      <4> QED
        BY <1>8, <3>1, <4>1 DEF L!Moves, PlaceInv, TriedInOrder
    <3> QED
      BY <1>8, <3>1 DEF PlaceInv, PlaceTypes, TriedInOrder
  <2>5. PlaceTypes'
    BY <1>2, <1>3, <2>2, <2>3 DEF PlaceInv, PlaceTypes, PlaceRest, PlaceRow
  <2>6. TriedInOrder'
    BY <1>2, <2>2, <2>3, <2>4 DEF PlaceInv, TriedInOrder, PlaceRest
  <2>7. BodyIsThere' /\ PinIsRead' /\ CreateIsAlone'
    BY <1>3, <1>4, <2>2, <2>3 DEF BodyIsThere, PinIsRead, CreateIsAlone, PlaceRest
  <2> QED
    BY <2>5, <2>6, <2>7 DEF PlaceInv
<1> QED
  BY <1>1, <1>6, <1>7, <1>8

\* A delete is asked of the row.
LEMMA DeletesPlaces ==
  ASSUME SiteCount \in Nat, PlaceInv, PlaceRest, L!Deletes
  PROVE  PlaceInv'
<1>1. /\ placement \in PlaceRow /\ placement.state \in {"due", "undoing", "undone", "made"}
      /\ UNCHANGED <<sites, infos, bodies, tried>>
      /\ untried \in Seq(L!Sites)
  BY RowThere DEF L!Deletes, PlaceInv, PlaceTypes
<1>2. CASE placement.state = "undone"
  <2>1. L!Stored(L!NoPlacement)
    BY <1>2 DEF L!Deletes, L!In
  <2>2. placement' = L!NoPlacement /\ untried' = <<>>
    BY <1>1, <2>1, StoredUntried DEF L!NoPlacement
  <2>3. \A h \in L!Sites : bodies[h] = 0
    BY <1>2 DEF PlaceInv, BodyIsThere
  <2> QED
    BY <1>1, <2>2, <2>3 DEF PlaceInv, PlaceTypes, CreateIsAlone, TriedInOrder, BodyIsThere, PinIsRead,
                            PlaceRest, L!NoPlacement
<1>3. CASE placement.state # "undone"
  <2> DEFINE r == [placement EXCEPT !.state = "deleting"]
  <2>1. L!Stored(r)
    BY <1>3 DEF L!Deletes, L!In
  <2>2. r \in PlaceRow /\ r.state = "deleting" /\ r.host = placement.host /\ r.of = placement.of
    BY <1>1 DEF PlaceRow, Placed
  <2>3. placement' = r /\ untried' = untried
    <3> HIDE DEF r
    <3> QED
      BY <1>1, <2>1, <2>2, StoredUntried
  <2> HIDE DEF r
  <2>4. creation = L!NoCreation
    BY <1>1, <1>3 DEF PlaceInv, CreateIsAlone
  <2>5. PlaceTypes'
    BY <1>1, <2>2, <2>3 DEF PlaceInv, PlaceTypes, PlaceRest, PlaceRow
  <2>6. TriedInOrder'
    BY <1>1, <2>2, <2>3 DEF PlaceInv, TriedInOrder, PlaceRest
  <2>7. BodyIsThere' /\ PinIsRead' /\ CreateIsAlone'
    BY <1>1, <2>2, <2>3, <2>4 DEF PlaceInv, BodyIsThere, PinIsRead, CreateIsAlone, PlaceRest
  <2> QED
    BY <2>5, <2>6, <2>7 DEF PlaceInv
<1> QED
  BY <1>2, <1>3

LEMMA RowPlaces ==
  ASSUME SiteCount \in Nat, PlaceInv, L!Row
  PROVE  PlaceInv'
<1>1. PlaceRest
  BY DEF L!Row, PlaceRest
<1>2. CASE L!DueRefused \/ L!Unsendable \/ L!MakeLost
  BY <1>1, <1>2, UndoesPlaces DEF L!DueRefused, L!Unsendable, L!MakeLost, L!In
<1>3. CASE L!DueReads
  BY <1>1, <1>3, DueReadsPlaces
<1>4. CASE L!RemoveEnds
  BY <1>1, <1>4, RemovePlaces
<1>5. CASE L!Deletes
  BY <1>1, <1>5, DeletesPlaces
<1>6. CASE L!MakeEnds("done")
  BY <1>1, <1>6, MadePlaces
<1>7. ASSUME NEW as \in {"Internal", "PinMismatch", "Capacity"}, L!MakeEnds(as) PROVE PlaceInv'
  <2>1. /\ placement.state = "sent" /\ L!Undoes(as) /\ UNCHANGED <<sites, infos, tried>>
    BY <1>7 DEF L!MakeEnds, L!In
  <2>2. \/ bodies' = [bodies EXCEPT ![placement.host] = bodies[placement.host]]
        \/ /\ bodies' = [bodies EXCEPT ![placement.host] = sites[placement.host].pin]
           /\ placement.of = "build" => sites[placement.host].pin = L!BuildPin
    BY <1>7 DEF L!MakeEnds, L!Restorable, L!Here
  <2>3. [bodies EXCEPT ![placement.host] = bodies[placement.host]] = bodies
    BY DEF PlaceInv, PlaceTypes
  <2> QED
    BY <1>1, <2>1, <2>2, <2>3, UndoesPlaces
<1> QED
  BY <1>2, <1>3, <1>4, <1>5, <1>6, <1>7 DEF L!Row

\* A host that restarts has another boot, and one that is silent keeps its own.
LEMMA SitesChange ==
  ASSUME SiteCount \in Nat, PlaceInv, NEW h \in L!Sites,
         NEW s \in [up : BOOLEAN, boot : Nat, pin : L!Pins, offers : BOOLEAN],
         sites' = [sites EXCEPT ![h] = s],
         s.boot > sites[h].boot \/ (s.boot = sites[h].boot /\ s.pin = sites[h].pin),
         UNCHANGED <<draining, stocked, infos, creation, placement, untried, bodies, placed, tried, steady>>
  PROVE  PlaceInv'
<1>1. PlaceTypes'
  BY DEF PlaceInv, PlaceTypes
<1>2. CreateIsAlone' /\ TriedInOrder' /\ BodyIsThere'
  BY DEF PlaceInv, CreateIsAlone, TriedInOrder, BodyIsThere
<1>3. PinIsRead'
  <2>1. sites[h].boot \in Nat /\ sites \in [L!Sites -> [up : BOOLEAN, boot : Nat, pin : L!Pins, offers : BOOLEAN]]
    BY DEF PlaceInv, PlaceTypes
  <2>2. placement.state = "sent" => placement.host \in L!Sites /\ placement.boot \in Nat
    BY RowThere DEF PlaceRow
  <2> QED
    BY <2>1, <2>2 DEF PlaceInv, PinIsRead
<1> QED
  BY <1>1, <1>2, <1>3 DEF PlaceInv

LEMMA UnheardPlaces ==
  ASSUME SiteCount \in Nat, PlaceInv, L!MakeUnheard
  PROVE  PlaceInv'
<1>1. placement \in PlaceRow /\ placement.state = "sent"
  BY RowThere DEF L!MakeUnheard, L!In
<1> DEFINE s == sites[placement.host]
<1>2. /\ bodies' = [bodies EXCEPT ![placement.host] = s.pin]
      /\ placement.of = "build" => s.pin = L!BuildPin
      /\ s.boot = placement.boot
      /\ sites' = [sites EXCEPT ![placement.host].boot = s.boot + 1]
      /\ UNCHANGED <<draining, stocked, infos, creation, placement, untried, placed, tried, steady>>
  BY DEF L!MakeUnheard, L!Restorable, L!Here
<1>3. /\ sites \in [L!Sites -> [up : BOOLEAN, boot : Nat, pin : L!Pins, offers : BOOLEAN]]
      /\ placement.host \in L!Sites /\ s.pin \in Pinned
  BY <1>1 DEF PlaceInv, PlaceTypes, PlaceRow, Pinned
<1>4. /\ sites' \in [L!Sites -> [up : BOOLEAN, boot : Nat, pin : L!Pins, offers : BOOLEAN]]
      /\ sites'[placement.host].boot = placement.boot + 1
  BY <1>1, <1>2, <1>3
<1>5. PlaceTypes'
  <2>1. bodies' \in [L!Sites -> Pinned]
    BY <1>2, <1>3 DEF PlaceInv, PlaceTypes
  <2> QED
    BY <1>2, <1>4, <2>1 DEF PlaceInv, PlaceTypes
<1>6. CreateIsAlone' /\ TriedInOrder'
  BY <1>2 DEF PlaceInv, CreateIsAlone, TriedInOrder
<1>7. BodyIsThere'
  BY <1>1, <1>2, <1>3 DEF PlaceInv, PlaceTypes, BodyIsThere
<1>8. PinIsRead'
  <2>1. placement.boot \in Nat
    BY <1>1 DEF PlaceRow
  <2> QED
    BY <1>1, <1>2, <1>4, <2>1 DEF PinIsRead
<1> QED
  BY <1>5, <1>6, <1>7, <1>8 DEF PlaceInv

LEMMA PlaceStep ==
  ASSUME SiteCount \in Nat, PlaceInv, [L!PlaceNext]_placeVars
  PROVE  PlaceInv'
<1>1. CASE UNCHANGED placeVars
  BY <1>1 DEF placeVars, PlaceInv, PlaceTypes, CreateIsAlone, TriedInOrder, BodyIsThere, PinIsRead
<1>2. CASE (\E of \in {"base", "build"} : L!Creates(of)) \/ (\E h \in L!Sites : L!Reads(h)) \/ L!Refuses
  BY <1>2, CreateSteps
<1>3. ASSUME NEW h \in L!Sites, L!HostSilent(h) PROVE PlaceInv'
  <2> DEFINE s == [sites[h] EXCEPT !.up = ~ @]
  <2>1. sites[h] \in [up : BOOLEAN, boot : Nat, pin : L!Pins, offers : BOOLEAN]
    BY DEF PlaceInv, PlaceTypes
  <2>2. s \in [up : BOOLEAN, boot : Nat, pin : L!Pins, offers : BOOLEAN] /\ s.boot = sites[h].boot /\ s.pin = sites[h].pin
    BY <2>1
  <2>3. /\ sites' = [sites EXCEPT ![h] = s]
        /\ UNCHANGED <<draining, stocked, infos, creation, placement, untried, bodies, placed, tried, steady>>
    BY <1>3 DEF L!HostSilent
  <2> HIDE DEF s
  <2> QED
    BY <2>2, <2>3, SitesChange
<1>4. ASSUME NEW h \in L!Sites, NEW pin \in L!Pins, NEW offers \in BOOLEAN, L!HostRestarts(h, pin, offers)
      PROVE  PlaceInv'
  <2> DEFINE s == [up |-> TRUE, boot |-> sites[h].boot + 1, pin |-> pin, offers |-> offers]
  <2>1. sites[h].boot \in Nat
    BY DEF PlaceInv, PlaceTypes
  <2>2. s \in [up : BOOLEAN, boot : Nat, pin : L!Pins, offers : BOOLEAN] /\ s.boot > sites[h].boot
    BY <2>1
  <2>3. /\ sites' = [sites EXCEPT ![h] = s]
        /\ UNCHANGED <<draining, stocked, infos, creation, placement, untried, bodies, placed, tried, steady>>
    BY <1>4 DEF L!HostRestarts
  <2> HIDE DEF s
  <2> QED
    BY <2>2, <2>3, SitesChange
<1>5. ASSUME NEW h \in L!Sites, L!CopyGoes(h) PROVE PlaceInv'
  <2>1. stocked' \in SUBSET L!Sites
        /\ UNCHANGED <<sites, draining, infos, creation, placement, untried, bodies, placed, tried, steady>>
    BY <1>5 DEF L!CopyGoes, PlaceInv, PlaceTypes
  <2> QED
    BY <2>1 DEF PlaceInv, PlaceTypes, CreateIsAlone, TriedInOrder, BodyIsThere, PinIsRead
<1>6. CASE L!ServerRestarts
  <2>1. /\ creation' = L!NoCreation /\ untried' = <<>> /\ infos' = [g \in L!Sites |-> 0] /\ steady' = FALSE
        /\ UNCHANGED <<sites, draining, stocked, placement, bodies, placed, tried>>
    BY <1>6 DEF L!ServerRestarts
  <2>2. PlaceTypes'
    BY <2>1 DEF PlaceInv, PlaceTypes, Pinned
  <2> QED
    BY <2>1, <2>2 DEF PlaceInv, CreateIsAlone, TriedInOrder, BodyIsThere, PinIsRead
<1> QED
  BY <1>1, <1>2, <1>3, <1>4, <1>5, <1>6, BornPlaces, RowPlaces, UnheardPlaces DEF L!PlaceNext

LEMMA PlaceIsRight == ASSUME PlaceInv PROVE PlacedRight
<1>1. /\ Len(tried) \in 0..Len(placed) /\ tried = SubSeq(placed, 1, Len(tried))
      /\ Len(tried) = Len(placed) => tried = placed
  <2>1. /\ tried \in Seq(L!Sites) /\ placed \in Seq(L!Sites)
        /\ Len(tried) <= Len(placed) /\ \A i \in 1..Len(tried) : tried[i] = placed[i]
    BY DEF PlaceInv, PlaceTypes, TriedInOrder
  <2> QED
    BY <2>1
<1> QED
  BY <1>1 DEF PlaceInv, TriedInOrder, BodyIsThere, PinIsRead, PlacedRight, L!PlacedRight, L!In

\* A create goes where it was placed (placement.ts, hosts.ts), for any number of hosts, restarts and
\* lost answers: on the hosts it was placed on, in order, each once; with its VM on the row's host
\* only, under the pin the row shows; and it ends for want of room only after all were tried.
THEOREM CreatesArePlaced == ASSUME SiteCount \in Nat PROVE PartsSpec => []PlacedRight
<1>1. PartsInit => PlaceInv
  BY PlaceBegins DEF PartsInit
<1>2. PlaceInv /\ [PartsNext]_allVars => PlaceInv'
  BY PlaceStep DEF PartsNext, allVars
<1>3. PlaceInv => PlacedRight
  BY PlaceIsRight
<1> QED
  BY <1>1, <1>2, <1>3, PTL DEF PartsSpec, allVars

--------------------------------------------------------------------------------
(* Sandboxes. *)

\* Port 0 is no port, and a lock that is "free" is nobody's.
BoxNames == 0 \notin UrlPorts /\ "free" \notin Users

OpenSteps == {"open", "reading", "picking", "spawning", "listening", "opened"}

BoxCalls == [at : OpenSteps \cup {"starting", "closing", "asking"}, id : Boxes, kind : B!Kinds,
             again : BOOLEAN, boot : Nat]
BoxUrls == [port : UrlPorts \cup {0}, tunnel : [boot : Nat, port : UrlPorts \cup {0}]]
BoxMachines == [state : {"running", "stopped", "gone"}, boot : Nat]
BoxSshs == [id : Boxes, boot : Nat, port : UrlPorts, listens : BOOLEAN]

BoxTypes ==
  /\ machine \in [Boxes -> BoxMachines]
  /\ urls \in [Boxes -> BoxUrls]
  /\ sshs \subseteq BoxSshs
  /\ locks \in [Boxes -> Users \cup {"free"}]
  /\ doing \in [Users -> {B!Free} \cup BoxCalls]
  /\ ensured \subseteq Boxes /\ calm \subseteq Boxes

\* A call in progress holds its sandbox's lock, and only that.
LockIsHeld ==
  /\ \A u \in Users : doing[u] # B!Free => locks[doing[u].id] = u
  /\ \A i \in Boxes : locks[i] # "free" => doing[locks[i]] # B!Free /\ doing[locks[i]].id = i

\* No two sandboxes' URLs name one port.
PortsApart == \A i, j \in Boxes : i # j /\ urls[i].port # 0 => urls[i].port # urls[j].port

\* No other program has a port an ssh was started for.
ForeignApart == \A s \in sshs : s.port \notin foreign

\* A sandbox's call and its ssh processes.
CallOf(i) == IF locks[i] = "free" THEN B!Free ELSE doing[locks[i]]
Own(i) == {s \in sshs : s.id = i}

\* A URL that leads to its own machine's present boot.
Led(url, m, own) ==
  \E s \in own :
    /\ s.boot = url.tunnel.boot /\ s.port = url.tunnel.port
    /\ s.listens /\ s.port = url.port
    /\ m = [state |-> "running", boot |-> s.boot]

\* A tunnel is on its URL's port.  A call that opens one, or asks of the machine, has let the one
\* before go.
TunnelIsGone(call, url) ==
  /\ url.tunnel = B!NoTunnel \/ url.tunnel.port = url.port
  /\ call.at \in {"reading", "picking", "spawning", "listening", "asking"} => url.tunnel = B!NoTunnel
  /\ call.at = "open" /\ call.again => url.tunnel = B!NoTunnel
  /\ call.at \in {"spawning", "listening"} => url.port # 0

\* A sandbox has one ssh at most: its tunnel's, or that of the call that opens it.
SshIsOwn(call, url, own) ==
  /\ \A s, t \in own : s = t
  /\ \A s \in own :
       /\ s.port = url.port
       /\ \/ url.tunnel = [boot |-> s.boot, port |-> s.port]
          \/ call.at = "listening" /\ call.boot = s.boot

\* Only an ensureServer that started the machine opens again.
AgainIsEnsure(call) == call # B!Free /\ call.again => call.at \in OpenSteps /\ call.kind = "ensure"

\* What such a call goes through while nothing happens to its sandbox.
AgainStands(call, url, m, own) ==
  call # B!Free =>
    /\ call.again => m.state = "running"
    /\ call.at = "closing" /\ call.kind = "ensure" => m.state = "running"
    /\ call.again /\ call.at \in {"picking", "spawning", "listening"} => m.boot = call.boot
    /\ call.again /\ call.at = "listening" => \E s \in own : s.boot = call.boot
    /\ call.again /\ call.at = "opened" => Led(url, m, own)

BoxesStand ==
  \A i \in Boxes :
    /\ TunnelIsGone(CallOf(i), urls[i]) /\ SshIsOwn(CallOf(i), urls[i], Own(i)) /\ AgainIsEnsure(CallOf(i))
    /\ i \in calm => AgainStands(CallOf(i), urls[i], machine[i], Own(i))

\* A sandbox that was ensured has no call, and is led to while nothing happens to it.
EnsuredLead ==
  \A i \in ensured : locks[i] = "free" /\ (i \in calm => Led(urls[i], machine[i], Own(i)))

BoxInv == BoxTypes /\ LockIsHeld /\ PortsApart /\ ForeignApart /\ BoxesStand /\ EnsuredLead

\* A step of u's call on i leaves the other sandboxes as they were, and i as it should be.
CallLeaves(u, i) ==
  /\ \/ doing[u] # B!Free /\ doing[u].id = i
     \/ doing[u] = B!Free /\ locks[i] = "free"
  /\ doing'[u] \in {B!Free} \cup BoxCalls
  /\ doing'[u] # B!Free => doing'[u].id = i
  /\ doing' = [doing EXCEPT ![u] = doing'[u]]
  /\ locks' = [locks EXCEPT ![i] = IF doing'[u] = B!Free THEN "free" ELSE u]
  /\ urls'[i] \in BoxUrls /\ urls' = [urls EXCEPT ![i] = urls'[i]]
  /\ \A j \in Boxes \ {i} : urls'[i].port # 0 => urls'[i].port # urls[j].port
  /\ machine'[i] \in BoxMachines /\ machine' = [machine EXCEPT ![i] = machine'[i]]
  /\ sshs' \subseteq BoxSshs /\ \A s \in BoxSshs : s.id # i => (s \in sshs') = (s \in sshs)
  /\ foreign' = foreign /\ \A s \in Own(i)' : s.port \notin foreign
  /\ ensured' \subseteq Boxes /\ ensured' \subseteq ensured \cup {i}
  /\ calm' \subseteq Boxes /\ calm' \subseteq calm \cup {i}
  /\ TunnelIsGone(doing'[u], urls'[i]) /\ SshIsOwn(doing'[u], urls'[i], Own(i)') /\ AgainIsEnsure(doing'[u])
  /\ i \in calm' => AgainStands(doing'[u], urls'[i], machine'[i], Own(i)')
  /\ i \in ensured' => doing'[u] = B!Free /\ (i \in calm' => Led(urls'[i], machine'[i], Own(i)'))

LEMMA CallStep ==
  ASSUME BoxNames, BoxInv, NEW u \in Users, NEW i \in Boxes, CallLeaves(u, i)
  PROVE  BoxInv'
<1> USE DEF BoxInv, CallLeaves
<1>1. BoxTypes'
  BY DEF BoxTypes
<1>2. LockIsHeld'
  <2> USE DEF LockIsHeld, BoxTypes, BoxNames
  <2>1. \A v \in Users : doing[v] # B!Free => doing[v].id \in Boxes
    BY DEF BoxCalls, B!Free
  <2>2. ASSUME NEW v \in Users, doing'[v] # B!Free PROVE locks'[doing'[v].id] = v
    BY <2>1, <2>2
  <2>3. ASSUME NEW j \in Boxes, locks'[j] # "free"
        PROVE  doing'[locks'[j]] # B!Free /\ doing'[locks'[j]].id = j
    BY <2>1, <2>3
  <2> QED
    BY <2>2, <2>3
<1>3. PortsApart'
  BY DEF PortsApart, BoxTypes
<1>4. ForeignApart'
  BY DEF ForeignApart, Own
<1>5. BoxesStand' /\ EnsuredLead'
  <2>1. ASSUME NEW j \in Boxes, j # i
        PROVE  /\ CallOf(j)' = CallOf(j) /\ urls'[j] = urls[j] /\ machine'[j] = machine[j] /\ Own(j)' = Own(j)
               /\ (j \in calm' => j \in calm) /\ (j \in ensured' => j \in ensured) /\ locks'[j] = locks[j]
    <3>1. CallOf(j)' = CallOf(j)
      BY <2>1 DEF CallOf, LockIsHeld, BoxTypes, BoxNames
    <3>2. Own(j)' = Own(j)
      BY <2>1 DEF Own, BoxTypes
    <3> QED
      BY <2>1, <3>1, <3>2 DEF BoxTypes
  <2>2. CallOf(i)' = doing'[u]
    BY DEF CallOf, LockIsHeld, BoxTypes, BoxNames
  <2>3. ASSUME NEW j \in Boxes
        PROVE  /\ TunnelIsGone(CallOf(j)', urls'[j]) /\ SshIsOwn(CallOf(j)', urls'[j], Own(j)')
               /\ AgainIsEnsure(CallOf(j)')
               /\ j \in calm' => AgainStands(CallOf(j)', urls'[j], machine'[j], Own(j)')
               /\ j \in ensured' => locks'[j] = "free" /\ (j \in calm' => Led(urls'[j], machine'[j], Own(j)'))
    <3>1. CASE j # i
      BY <2>1, <3>1 DEF BoxesStand, EnsuredLead, BoxTypes
    <3>2. CASE j = i
      BY <2>2, <3>2 DEF BoxTypes
    <3> QED
      BY <3>1, <3>2
  <2> QED
    BY <2>3 DEF BoxesStand, EnsuredLead
<1> QED
  BY <1>1, <1>2, <1>3, <1>4, <1>5

\* What a call in progress may rely on.
LEMMA CallStands ==
  ASSUME BoxNames, BoxInv, NEW u \in Users, doing[u] # B!Free
  PROVE  LET i == doing[u].id
         IN /\ doing[u] \in BoxCalls /\ i \in Boxes /\ locks[i] = u /\ i \notin ensured
            /\ urls[i] \in BoxUrls /\ machine[i] \in BoxMachines /\ Own(i) \in SUBSET BoxSshs
            /\ \A s \in Own(i) : s.id = i /\ s.port \notin foreign
            /\ sshs = {s \in sshs : s.id # i} \cup Own(i)
            /\ TunnelIsGone(doing[u], urls[i]) /\ SshIsOwn(doing[u], urls[i], Own(i)) /\ AgainIsEnsure(doing[u])
            /\ i \in calm => AgainStands(doing[u], urls[i], machine[i], Own(i))
            /\ \A j \in Boxes \ {i} : urls[i].port # 0 => urls[i].port # urls[j].port
<1> DEFINE i == doing[u].id
<1>1. doing[u] \in BoxCalls /\ i \in Boxes /\ locks[i] = u
  BY DEF BoxInv, BoxTypes, LockIsHeld, BoxCalls
<1>2. /\ TunnelIsGone(doing[u], urls[i]) /\ SshIsOwn(doing[u], urls[i], Own(i)) /\ AgainIsEnsure(doing[u])
      /\ i \in calm => AgainStands(doing[u], urls[i], machine[i], Own(i))
  BY <1>1 DEF BoxInv, BoxesStand, CallOf, BoxNames
<1>3. i \notin ensured
  BY <1>1 DEF BoxInv, EnsuredLead, BoxNames
<1>5. sshs = {s \in sshs : s.id # i} \cup Own(i) /\ \A s \in Own(i) : s.id = i /\ s.port \notin foreign
  BY DEF Own, BoxInv, ForeignApart
<1>6. urls[i] \in BoxUrls /\ machine[i] \in BoxMachines /\ Own(i) \in SUBSET BoxSshs
  BY <1>1 DEF Own, BoxInv, BoxTypes
<1>7. \A j \in Boxes \ {i} : urls[i].port # 0 => urls[i].port # urls[j].port
  BY <1>1 DEF BoxInv, PortsApart
<1> QED
  BY <1>1, <1>2, <1>3, <1>5, <1>6, <1>7

\* A step of a call that changes nothing but what the call is at.
LEMMA CallMoves ==
  ASSUME BoxNames, BoxInv, NEW u \in Users, doing[u] # B!Free,
         doing'[u] \in {B!Free} \cup BoxCalls, doing'[u] # B!Free => doing'[u].id = doing[u].id,
         doing' = [doing EXCEPT ![u] = doing'[u]],
         locks' = IF doing'[u] = B!Free THEN [locks EXCEPT ![doing[u].id] = "free"] ELSE locks,
         UNCHANGED <<machine, urls, sshs, foreign, ensured, calm>>,
         LET i == doing[u].id IN
           /\ TunnelIsGone(doing'[u], urls[i]) /\ SshIsOwn(doing'[u], urls[i], Own(i)) /\ AgainIsEnsure(doing'[u])
           /\ i \in calm => AgainStands(doing'[u], urls[i], machine[i], Own(i))
  PROVE  BoxInv'
<1>1. PICK i \in Boxes :
        /\ i = doing[u].id /\ locks[i] = u /\ i \notin ensured
        /\ urls[i] \in BoxUrls /\ machine[i] \in BoxMachines
        /\ \A s \in Own(i) : s.port \notin foreign
        /\ \A j \in Boxes \ {i} : urls[i].port # 0 => urls[i].port # urls[j].port
        /\ TunnelIsGone(doing'[u], urls[i]) /\ SshIsOwn(doing'[u], urls[i], Own(i)) /\ AgainIsEnsure(doing'[u])
        /\ i \in calm => AgainStands(doing'[u], urls[i], machine[i], Own(i))
  BY CallStands
<1>2. locks' = [locks EXCEPT ![i] = IF doing'[u] = B!Free THEN "free" ELSE u]
  BY <1>1 DEF BoxInv, BoxTypes
<1>3. /\ urls' = [urls EXCEPT ![i] = urls'[i]] /\ machine' = [machine EXCEPT ![i] = machine'[i]]
      /\ sshs' \subseteq BoxSshs /\ ensured' \subseteq Boxes /\ calm' \subseteq Boxes
  BY DEF BoxInv, BoxTypes
<1>4. /\ urls'[i] = urls[i] /\ machine'[i] = machine[i] /\ Own(i)' = Own(i) /\ i \notin ensured'
  BY <1>1 DEF Own
<1>5. CallLeaves(u, i)
  BY <1>1, <1>2, <1>3, <1>4 DEF CallLeaves
<1> QED
  BY <1>5, CallStep

\* A call that returns, or goes on to start the machine after it failed to open a tunnel.
LEMMA CallFails ==
  ASSUME BoxNames, BoxInv, NEW u \in Users, doing[u] # B!Free,
         B!Returns(u) \/ B!Fails(u, TRUE) \/ B!Fails(u, FALSE),
         doing[u].at = "listening" => ~ \E s \in Own(doing[u].id) : s.boot = doing[u].boot,
         UNCHANGED <<machine, urls, sshs, foreign, ensured, calm>>
  PROVE  BoxInv'
<1> DEFINE i == doing[u].id
<1>1. /\ doing[u] \in BoxCalls /\ TunnelIsGone(doing[u], urls[i]) /\ SshIsOwn(doing[u], urls[i], Own(i))
      /\ doing \in [Users -> {B!Free} \cup BoxCalls]
  BY CallStands DEF BoxInv, BoxTypes
<1>2. /\ \A s, t \in Own(i) : s = t
      /\ \A s \in Own(i) : s.port = urls[i].port /\ urls[i].tunnel = [boot |-> s.boot, port |-> s.port]
  BY <1>1 DEF SshIsOwn
<1>3. CASE B!Returns(u)
  <2>1. /\ doing' = [doing EXCEPT ![u] = B!Free] /\ locks' = [locks EXCEPT ![i] = "free"] /\ doing'[u] = B!Free
    BY <1>1, <1>3 DEF B!Returns
  <2>2. TunnelIsGone(B!Free, urls[i]) /\ SshIsOwn(B!Free, urls[i], Own(i))
        /\ AgainIsEnsure(B!Free) /\ AgainStands(B!Free, urls[i], machine[i], Own(i))
    BY <1>1, <1>2 DEF TunnelIsGone, SshIsOwn, AgainIsEnsure, AgainStands, B!Free
  <2> QED
    BY <2>1, <2>2, CallMoves
<1>4. CASE doing[u].kind = "ensure" /\ ~ doing[u].again /\ B!Steps(u, "starting") /\ UNCHANGED locks
  <2>1. /\ doing' = [doing EXCEPT ![u] = doing'[u]] /\ doing'[u] \in BoxCalls /\ doing'[u].id = i
        /\ doing'[u].at = "starting" /\ doing'[u].again = FALSE /\ doing'[u] # B!Free
    BY <1>1, <1>4 DEF B!Steps, BoxCalls, B!Free
  <2>2. TunnelIsGone(doing'[u], urls[i]) /\ SshIsOwn(doing'[u], urls[i], Own(i))
        /\ AgainIsEnsure(doing'[u]) /\ AgainStands(doing'[u], urls[i], machine[i], Own(i))
    BY <1>1, <1>2, <2>1 DEF TunnelIsGone, AgainIsEnsure, AgainStands, SshIsOwn
  <2> QED
    BY <1>4, <2>1, <2>2, CallMoves
<1> QED
  BY <1>3, <1>4 DEF B!Fails

LEMMA CallBegins ==
  ASSUME BoxNames, BoxInv, NEW u \in Users, NEW i \in Boxes, NEW kind \in B!Kinds, B!Calls(u, i, kind)
  PROVE  BoxInv'
<1>2. /\ doing[u] = B!Free /\ locks[i] = "free" /\ doing' = [doing EXCEPT ![u] = doing'[u]]
      /\ locks' = [locks EXCEPT ![i] = u] /\ ensured' = ensured \ {i} /\ calm' = calm \ {i}
      /\ UNCHANGED <<machine, urls, sshs, foreign>>
      /\ doing'[u] = [at |-> B!FirstOf(kind), id |-> i, kind |-> kind, again |-> FALSE, boot |-> 0]
  BY DEF B!Calls, BoxInv, BoxTypes
<1>1. /\ doing'[u] \in BoxCalls /\ doing'[u].id = i /\ doing'[u] # B!Free /\ doing'[u].again = FALSE
      /\ doing'[u].at \in {"open", "starting", "closing"}
  BY <1>2 DEF BoxCalls, B!FirstOf, B!Kinds, OpenSteps, B!Free
<1>3. /\ urls[i] \in BoxUrls /\ machine[i] \in BoxMachines /\ Own(i)' = Own(i)
      /\ \A s \in Own(i) : s.port \notin foreign
      /\ \A j \in Boxes \ {i} : urls[i].port # 0 => urls[i].port # urls[j].port
  BY <1>2 DEF BoxInv, BoxTypes, Own, PortsApart, ForeignApart
<1>4. TunnelIsGone(B!Free, urls[i]) /\ SshIsOwn(B!Free, urls[i], Own(i))
  BY <1>2 DEF BoxInv, BoxesStand, CallOf
<1>5. /\ TunnelIsGone(doing'[u], urls[i]) /\ SshIsOwn(doing'[u], urls[i], Own(i)) /\ AgainIsEnsure(doing'[u])
      /\ i \notin calm' /\ i \notin ensured'
  BY <1>1, <1>2, <1>4 DEF TunnelIsGone, SshIsOwn, AgainIsEnsure, B!Free
<1>6. /\ urls' = [urls EXCEPT ![i] = urls'[i]] /\ machine' = [machine EXCEPT ![i] = machine'[i]]
      /\ sshs' \subseteq BoxSshs /\ ensured' \subseteq Boxes /\ calm' \subseteq Boxes
  BY <1>2, <1>3 DEF BoxInv, BoxTypes
<1>7. CallLeaves(u, i)
  BY <1>1, <1>2, <1>3, <1>5, <1>6 DEF CallLeaves
<1> QED
  BY <1>7, CallStep

\* What a step of a call that does not return says of its next place.
LEMMA CallGoesOn ==
  ASSUME BoxNames, BoxInv, NEW u \in Users, doing[u] # B!Free,
         NEW at \in OpenSteps \cup {"starting", "closing", "asking"}, B!Steps(u, at)
  PROVE  /\ doing' = [doing EXCEPT ![u] = doing'[u]]
         /\ doing'[u] \in BoxCalls /\ doing'[u] # B!Free
         /\ doing'[u].at = at /\ doing'[u].id = doing[u].id /\ doing'[u].kind = doing[u].kind
         /\ doing'[u].again = doing[u].again /\ doing'[u].boot = doing[u].boot
<1>1. doing \in [Users -> {B!Free} \cup BoxCalls] /\ doing[u] \in BoxCalls
  BY CallStands DEF BoxInv, BoxTypes
<1> QED
  BY <1>1 DEF B!Steps, BoxCalls, B!Free

\* A call that opens no tunnel now, closes the one that its sandbox has, ssh and all.
LEMMA Closing ==
  ASSUME BoxNames, BoxInv, NEW u \in Users, doing[u] # B!Free, doing[u].at # "listening", NEW i \in Boxes,
         i = doing[u].id
  PROVE  /\ B!Processes(i) = Own(i)
         /\ B!Closes(i) => /\ urls' = [urls EXCEPT ![i] = urls'[i]] /\ urls'[i] \in BoxUrls
                           /\ urls'[i].port = urls[i].port /\ urls'[i].tunnel = B!NoTunnel
                           /\ sshs' \subseteq sshs /\ Own(i)' = {}
                           /\ \A s \in BoxSshs : s.id # i => (s \in sshs') = (s \in sshs)
<1>1. SshIsOwn(doing[u], urls[i], Own(i)) /\ urls[i] \in BoxUrls /\ sshs \subseteq BoxSshs
      /\ urls \in [Boxes -> BoxUrls]
  BY CallStands DEF BoxInv, BoxTypes
<1>2. B!Processes(i) = Own(i)
  <2>1. ASSUME NEW s \in Own(i) PROVE s.boot = urls[i].tunnel.boot /\ s.port = urls[i].tunnel.port
    <3>1. urls[i].tunnel = [boot |-> s.boot, port |-> s.port]
      BY <1>1, <2>1 DEF SshIsOwn
    <3> QED
      BY <3>1
  <2> QED
    BY <2>1 DEF B!Processes, Own
<1>3. ASSUME B!Closes(i)
      PROVE  /\ urls' = [urls EXCEPT ![i] = urls'[i]] /\ urls'[i] \in BoxUrls
             /\ urls'[i].port = urls[i].port /\ urls'[i].tunnel = B!NoTunnel
  BY <1>1, <1>3 DEF B!Closes, BoxUrls, B!NoTunnel
<1>4. ASSUME B!Closes(i)
      PROVE  /\ sshs' \subseteq sshs /\ Own(i)' = {}
             /\ \A s \in BoxSshs : s.id # i => (s \in sshs') = (s \in sshs)
  BY <1>2, <1>4 DEF B!Closes, Own
<1> QED
  BY <1>2, <1>3, <1>4

LEMMA OpenLooking ==
  ASSUME BoxNames, BoxInv, NEW u \in Users, B!OpenLooks(u)
  PROVE  BoxInv'
<1>1. doing[u] # B!Free /\ doing[u].at = "open"
  BY DEF B!OpenLooks, B!On, B!Free
<1>2. PICK i \in Boxes :
        /\ i = doing[u].id /\ doing[u] \in BoxCalls /\ locks[i] = u /\ i \notin ensured
        /\ TunnelIsGone(doing[u], urls[i]) /\ SshIsOwn(doing[u], urls[i], Own(i)) /\ AgainIsEnsure(doing[u])
        /\ i \in calm => AgainStands(doing[u], urls[i], machine[i], Own(i))
        /\ urls[i] \in BoxUrls /\ machine[i] \in BoxMachines /\ Own(i) \in SUBSET BoxSshs
        /\ \A j \in Boxes \ {i} : urls[i].port # 0 => urls[i].port # urls[j].port
  BY <1>1, CallStands
<1>3. B!Processes(i) = Own(i)
  BY <1>1, <1>2, Closing
<1>4. CASE B!Processes(i) # {}
  <2>1. B!Steps(u, "opened") /\ UNCHANGED <<urls, sshs>>
    BY <1>2, <1>4 DEF B!OpenLooks
  <2>2. /\ doing' = [doing EXCEPT ![u] = doing'[u]] /\ doing'[u] \in BoxCalls /\ doing'[u] # B!Free
        /\ doing'[u].at = "opened" /\ doing'[u].id = i /\ doing'[u].kind = doing[u].kind
        /\ doing'[u].again = doing[u].again
    BY <1>1, <1>2, <2>1, CallGoesOn DEF OpenSteps
  <2>3. ~ doing[u].again
    <3>1. PICK s \in Own(i) : s \in BoxSshs /\ s.port = urls[i].tunnel.port
      BY <1>2, <1>3, <1>4 DEF B!Processes
    <3>2. urls[i].tunnel.port # 0
      BY <3>1 DEF BoxNames, BoxSshs
    <3> QED
      BY <1>1, <1>2, <3>2 DEF TunnelIsGone, B!NoTunnel
  <2>4. /\ TunnelIsGone(doing'[u], urls[i]) /\ SshIsOwn(doing'[u], urls[i], Own(i)) /\ AgainIsEnsure(doing'[u])
        /\ i \in calm => AgainStands(doing'[u], urls[i], machine[i], Own(i))
    BY <1>1, <1>2, <2>2, <2>3 DEF TunnelIsGone, SshIsOwn, AgainIsEnsure, AgainStands, BoxCalls
  <2> QED
    BY <1>1, <1>2, <2>1, <2>2, <2>4, CallMoves DEF B!OpenLooks
<1>5. CASE B!Processes(i) = {}
  <2>1. B!Steps(u, "reading") /\ B!Closes(i)
    BY <1>2, <1>5 DEF B!OpenLooks
  <2>2. /\ doing' = [doing EXCEPT ![u] = doing'[u]] /\ doing'[u] \in BoxCalls /\ doing'[u] # B!Free
        /\ doing'[u].at = "reading" /\ doing'[u].id = i /\ doing'[u].kind = doing[u].kind
        /\ doing'[u].again = doing[u].again
    BY <1>1, <1>2, <2>1, CallGoesOn DEF OpenSteps
  <2>3. /\ urls' = [urls EXCEPT ![i] = urls'[i]] /\ urls'[i] \in BoxUrls
        /\ urls'[i].port = urls[i].port /\ urls'[i].tunnel = B!NoTunnel
        /\ sshs' \subseteq sshs /\ Own(i)' = {}
        /\ \A s \in BoxSshs : s.id # i => (s \in sshs') = (s \in sshs)
    BY <1>1, <1>2, <2>1, Closing
  <2>4. /\ TunnelIsGone(doing'[u], urls'[i]) /\ SshIsOwn(doing'[u], urls'[i], Own(i)') /\ AgainIsEnsure(doing'[u])
        /\ i \in calm => AgainStands(doing'[u], urls'[i], machine[i], Own(i)')
    BY <1>1, <1>2, <2>2, <2>3 DEF TunnelIsGone, SshIsOwn, AgainIsEnsure, AgainStands, BoxCalls, OpenSteps
  <2>5. /\ UNCHANGED <<machine, foreign, locks, ensured, calm>> /\ machine \in [Boxes -> BoxMachines]
        /\ locks \in [Boxes -> Users \cup {"free"}] /\ sshs \subseteq BoxSshs
        /\ ensured \subseteq Boxes /\ calm \subseteq Boxes
    BY DEF B!OpenLooks, BoxInv, BoxTypes
  <2>6. CallLeaves(u, i)
    BY <1>1, <1>2, <2>2, <2>3, <2>4, <2>5 DEF CallLeaves
  <2> QED
    BY <2>6, CallStep
<1> QED
  BY <1>4, <1>5

LEMMA OpenReading ==
  ASSUME BoxNames, BoxInv, NEW u \in Users, B!OpenReads(u)
  PROVE  BoxInv'
<1>1. doing[u] # B!Free /\ doing[u].at = "reading" /\ UNCHANGED <<machine, urls, sshs, foreign, ensured, calm>>
  BY DEF B!OpenReads, B!On, B!Free
<1>2. PICK i \in Boxes :
        /\ i = doing[u].id /\ doing[u] \in BoxCalls
        /\ TunnelIsGone(doing[u], urls[i]) /\ SshIsOwn(doing[u], urls[i], Own(i)) /\ AgainIsEnsure(doing[u])
        /\ i \in calm => AgainStands(doing[u], urls[i], machine[i], Own(i))
        /\ urls[i] \in BoxUrls /\ machine[i] \in BoxMachines
  BY <1>1, CallStands
<1>3. CASE machine[i].state = "running"
  <2>1. /\ doing' = [doing EXCEPT ![u].at = "picking", ![u].boot = machine[i].boot] /\ UNCHANGED locks
    BY <1>2, <1>3 DEF B!OpenReads
  <2>2. /\ doing' = [doing EXCEPT ![u] = doing'[u]] /\ doing'[u] \in BoxCalls /\ doing'[u] # B!Free
        /\ doing'[u].at = "picking" /\ doing'[u].id = i /\ doing'[u].kind = doing[u].kind
        /\ doing'[u].again = doing[u].again /\ doing'[u].boot = machine[i].boot
    BY <1>2, <2>1 DEF BoxCalls, B!Free, OpenSteps, BoxInv, BoxTypes, BoxMachines
  <2>3. /\ TunnelIsGone(doing'[u], urls[i]) /\ SshIsOwn(doing'[u], urls[i], Own(i)) /\ AgainIsEnsure(doing'[u])
        /\ i \in calm => AgainStands(doing'[u], urls[i], machine[i], Own(i))
    BY <1>1, <1>2, <1>3, <2>2 DEF TunnelIsGone, SshIsOwn, AgainIsEnsure, AgainStands, BoxCalls, OpenSteps
  <2> QED
    BY <1>1, <1>2, <2>1, <2>2, <2>3, CallMoves
<1>4. CASE B!Fails(u, FALSE)
  BY <1>1, <1>4, CallFails
<1> QED
  BY <1>2, <1>3, <1>4 DEF B!OpenReads

\* A call that let the tunnel go has no ssh until it starts one.
LEMMA NoSsh ==
  ASSUME BoxNames, BoxInv, NEW u \in Users, doing[u] # B!Free,
         doing[u].at \in {"reading", "picking", "spawning", "asking"}
  PROVE  Own(doing[u].id) = {} /\ urls[doing[u].id].tunnel = B!NoTunnel
<1>1. PICK i \in Boxes :
        /\ i = doing[u].id /\ doing[u] \in BoxCalls /\ Own(i) \in SUBSET BoxSshs
        /\ TunnelIsGone(doing[u], urls[i]) /\ SshIsOwn(doing[u], urls[i], Own(i))
  BY CallStands
<1>2. urls[i].tunnel = B!NoTunnel
  BY <1>1 DEF TunnelIsGone
<1>3. ASSUME NEW s \in Own(i) PROVE FALSE
  <2>1. urls[i].tunnel = [boot |-> s.boot, port |-> s.port]
    BY <1>1, <1>3 DEF SshIsOwn
  <2>2. s.port = 0
    BY <1>2, <2>1 DEF B!NoTunnel
  <2> QED
    BY <1>1, <1>3, <2>2 DEF BoxSshs, BoxNames
<1> QED
  BY <1>1, <1>2, <1>3

LEMMA OpenPicking ==
  ASSUME BoxNames, BoxInv, NEW u \in Users, B!OpenPicks(u)
  PROVE  BoxInv'
<1>1. /\ doing[u] # B!Free /\ doing[u].at = "picking" /\ B!Steps(u, "spawning")
      /\ UNCHANGED <<machine, sshs, foreign, locks, ensured, calm>>
  BY DEF B!OpenPicks, B!On, B!Free
<1>2. PICK i \in Boxes :
        /\ i = doing[u].id /\ doing[u] \in BoxCalls /\ locks[i] = u /\ i \notin ensured
        /\ AgainIsEnsure(doing[u])
        /\ i \in calm => AgainStands(doing[u], urls[i], machine[i], Own(i))
        /\ urls[i] \in BoxUrls /\ machine[i] \in BoxMachines
        /\ \A j \in Boxes \ {i} : urls[i].port # 0 => urls[i].port # urls[j].port
  BY <1>1, CallStands
<1>3. Own(i) = {} /\ urls[i].tunnel = B!NoTunnel
  BY <1>1, <1>2, NoSsh
<1>4. /\ doing' = [doing EXCEPT ![u] = doing'[u]] /\ doing'[u] \in BoxCalls /\ doing'[u] # B!Free
      /\ doing'[u].at = "spawning" /\ doing'[u].id = i /\ doing'[u].kind = doing[u].kind
      /\ doing'[u].again = doing[u].again /\ doing'[u].boot = doing[u].boot
  BY <1>1, <1>2, CallGoesOn DEF OpenSteps
<1>5. PICK p \in IF urls[i].port # 0 THEN {urls[i].port} ELSE B!Takable(i) :
        urls' = [urls EXCEPT ![i].port = p]
  BY <1>2 DEF B!OpenPicks
<1>6. /\ p \in UrlPorts /\ p # 0
      /\ \A j \in Boxes \ {i} : p # urls[j].port
  BY <1>2, <1>5 DEF B!Takable, BoxUrls, BoxNames
<1>7. /\ urls' = [urls EXCEPT ![i] = urls'[i]] /\ urls'[i] \in BoxUrls
      /\ urls'[i].port = p /\ urls'[i].tunnel = B!NoTunnel
  BY <1>2, <1>3, <1>5, <1>6 DEF BoxInv, BoxTypes, BoxUrls
<1>8. Own(i)' = {}
  BY <1>1, <1>3 DEF Own
<1>9. /\ TunnelIsGone(doing'[u], urls'[i]) /\ SshIsOwn(doing'[u], urls'[i], Own(i)') /\ AgainIsEnsure(doing'[u])
      /\ i \in calm => AgainStands(doing'[u], urls'[i], machine[i], Own(i)')
  BY <1>1, <1>2, <1>4, <1>6, <1>7, <1>8 DEF TunnelIsGone, SshIsOwn, AgainIsEnsure, AgainStands, BoxCalls, OpenSteps
<1>10. /\ machine \in [Boxes -> BoxMachines] /\ locks \in [Boxes -> Users \cup {"free"}] /\ sshs \subseteq BoxSshs
       /\ ensured \subseteq Boxes /\ calm \subseteq Boxes
  BY DEF BoxInv, BoxTypes
<1>11. CallLeaves(u, i)
  BY <1>1, <1>2, <1>4, <1>6, <1>7, <1>8, <1>9, <1>10 DEF CallLeaves
<1> QED
  BY <1>11, CallStep

LEMMA OpenSpawning ==
  ASSUME BoxNames, BoxInv, NEW u \in Users, B!OpenSpawns(u)
  PROVE  BoxInv'
<1>1. /\ doing[u] # B!Free /\ doing[u].at = "spawning"
      /\ UNCHANGED <<machine, urls, foreign, ensured, calm>>
  BY DEF B!OpenSpawns, B!On, B!Free
<1>2. PICK i \in Boxes :
        /\ i = doing[u].id /\ doing[u] \in BoxCalls /\ locks[i] = u /\ i \notin ensured
        /\ TunnelIsGone(doing[u], urls[i]) /\ AgainIsEnsure(doing[u])
        /\ i \in calm => AgainStands(doing[u], urls[i], machine[i], Own(i))
        /\ urls[i] \in BoxUrls /\ machine[i] \in BoxMachines
        /\ \A j \in Boxes \ {i} : urls[i].port # 0 => urls[i].port # urls[j].port
  BY <1>1, CallStands
<1>3. CASE urls[i].port \in B!Listened
  BY <1>1, <1>2, <1>3, CallFails DEF B!OpenSpawns
<1>4. CASE urls[i].port \notin B!Listened
  <2>1. /\ B!Steps(u, "listening") /\ UNCHANGED locks
        /\ sshs' = sshs \cup {B!ProcessOf(i, doing[u].boot, urls[i].port, FALSE)}
    BY <1>2, <1>4 DEF B!OpenSpawns
  <2>2. /\ doing' = [doing EXCEPT ![u] = doing'[u]] /\ doing'[u] \in BoxCalls /\ doing'[u] # B!Free
        /\ doing'[u].at = "listening" /\ doing'[u].id = i /\ doing'[u].kind = doing[u].kind
        /\ doing'[u].again = doing[u].again /\ doing'[u].boot = doing[u].boot
    BY <1>1, <1>2, <2>1, CallGoesOn DEF OpenSteps
  <2> DEFINE new == B!ProcessOf(i, doing[u].boot, urls[i].port, FALSE)
  <2>3. Own(i) = {} /\ urls[i].port # 0
    BY <1>1, <1>2, NoSsh DEF TunnelIsGone
  <2>4. /\ new \in BoxSshs /\ new.id = i /\ new.boot = doing[u].boot /\ new.port = urls[i].port
        /\ new.port \notin foreign
    BY <1>2, <1>4, <2>3 DEF B!ProcessOf, BoxSshs, BoxCalls, BoxUrls, B!Listened
  <2>5. {s \in sshs' : s.id = i} = {new} /\ sshs \subseteq BoxSshs
    BY <2>1, <2>3, <2>4 DEF Own, BoxInv, BoxTypes
  <2>12. sshs' = sshs \cup {new}
    BY <2>1
  <2> HIDE DEF new
  <2>6. Own(i)' = {new}
    BY <2>5 DEF Own
  <2>7. /\ TunnelIsGone(doing'[u], urls[i]) /\ SshIsOwn(doing'[u], urls[i], {new}) /\ AgainIsEnsure(doing'[u])
        /\ i \in calm => AgainStands(doing'[u], urls[i], machine[i], {new})
    BY <1>1, <1>2, <2>2, <2>3, <2>4 DEF TunnelIsGone, SshIsOwn, AgainIsEnsure, AgainStands, BoxCalls, OpenSteps
  <2>8. /\ sshs' \subseteq BoxSshs /\ \A s \in BoxSshs : s.id # i => (s \in sshs') = (s \in sshs)
    BY <2>4, <2>5, <2>12
  <2>9. /\ machine \in [Boxes -> BoxMachines] /\ locks \in [Boxes -> Users \cup {"free"}] /\ urls \in [Boxes -> BoxUrls]
        /\ ensured \subseteq Boxes /\ calm \subseteq Boxes
    BY DEF BoxInv, BoxTypes
  <2>10. CallLeaves(u, i)
    BY <1>1, <1>2, <2>1, <2>2, <2>4, <2>6, <2>7, <2>8, <2>9 DEF CallLeaves
  <2> QED
    BY <2>10, CallStep
<1> QED
  BY <1>3, <1>4

\* Whoever listens on a sandbox's port is its own ssh.
LEMMA ListenerIsOwn ==
  ASSUME BoxNames, BoxInv, NEW i \in Boxes, NEW s \in Own(i), NEW t \in sshs, t.port = s.port
  PROVE  t = s
<1>1. s \in sshs /\ s \in BoxSshs /\ t \in BoxSshs /\ s.id = i
  BY DEF Own, BoxInv, BoxTypes
<1>2. t \in Own(t.id) /\ t.id \in Boxes
  BY <1>1 DEF Own, BoxSshs
<1>3. SshIsOwn(CallOf(i), urls[i], Own(i)) /\ SshIsOwn(CallOf(t.id), urls[t.id], Own(t.id))
  BY <1>2 DEF BoxInv, BoxesStand
<1>4. s.port = urls[i].port /\ t.port = urls[t.id].port
  BY <1>2, <1>3 DEF SshIsOwn
<1>5. s.port # 0
  BY <1>1 DEF BoxSshs, BoxNames
<1>6. t.id = i
  BY <1>2, <1>4, <1>5 DEF BoxInv, PortsApart
<1> QED
  BY <1>2, <1>3, <1>6 DEF SshIsOwn

LEMMA OpenListening ==
  ASSUME BoxNames, BoxInv, NEW u \in Users, B!OpenListens(u)
  PROVE  BoxInv'
<1>1. /\ doing[u] # B!Free /\ doing[u].at = "listening"
      /\ UNCHANGED <<machine, sshs, foreign, ensured, calm>>
  BY DEF B!OpenListens, B!On, B!Free
<1>2. PICK i \in Boxes :
        /\ i = doing[u].id /\ doing[u] \in BoxCalls /\ locks[i] = u /\ i \notin ensured
        /\ TunnelIsGone(doing[u], urls[i]) /\ SshIsOwn(doing[u], urls[i], Own(i)) /\ AgainIsEnsure(doing[u])
        /\ i \in calm => AgainStands(doing[u], urls[i], machine[i], Own(i))
        /\ urls[i] \in BoxUrls /\ machine[i] \in BoxMachines /\ Own(i) \in SUBSET BoxSshs
        /\ \A s \in Own(i) : s.id = i /\ s.port \notin foreign
        /\ \A j \in Boxes \ {i} : urls[i].port # 0 => urls[i].port # urls[j].port
  BY <1>1, CallStands
<1>3. CASE B!Fails(u, FALSE) /\ UNCHANGED urls /\ ~ \E s \in sshs : s.id = i /\ s.boot = doing[u].boot
  <2>1. ~ \E s \in Own(i) : s.boot = doing[u].boot
    BY <1>3 DEF Own
  <2> QED
    BY <1>1, <1>2, <1>3, <2>1, CallFails
<1>4. CASE /\ urls[i].port \in B!Listened
           /\ urls' = [urls EXCEPT ![i].tunnel = [boot |-> doing[u].boot, port |-> urls[i].port]]
           /\ B!Steps(u, "opened") /\ UNCHANGED locks
  <2>1. /\ doing' = [doing EXCEPT ![u] = doing'[u]] /\ doing'[u] \in BoxCalls /\ doing'[u] # B!Free
        /\ doing'[u].at = "opened" /\ doing'[u].id = i /\ doing'[u].kind = doing[u].kind
        /\ doing'[u].again = doing[u].again /\ doing'[u].boot = doing[u].boot
    BY <1>1, <1>2, <1>4, CallGoesOn DEF OpenSteps
  <2>2. /\ urls' = [urls EXCEPT ![i] = urls'[i]] /\ urls'[i] \in BoxUrls
        /\ urls'[i].port = urls[i].port /\ urls'[i].tunnel = [boot |-> doing[u].boot, port |-> urls[i].port]
    BY <1>2, <1>4 DEF BoxInv, BoxTypes, BoxUrls, BoxCalls
  <2>3. urls[i].tunnel = B!NoTunnel /\ urls[i].port # 0
    BY <1>1, <1>2 DEF TunnelIsGone
  <2>4. ASSUME NEW s \in Own(i) PROVE s.boot = doing[u].boot /\ s.port = urls[i].port
    <3>1. urls[i].tunnel = [boot |-> s.boot, port |-> s.port] => s.port = 0
      BY <2>3 DEF B!NoTunnel
    <3>2. s.port # 0
      BY <1>2 DEF BoxSshs, BoxNames
    <3> QED
      BY <1>2, <3>1, <3>2 DEF SshIsOwn
  <2>5. ASSUME NEW s \in Own(i) PROVE s.listens
    <3>1. PICK t \in sshs : t.listens /\ t.port = urls[i].port
      BY <1>2, <1>4, <2>4 DEF B!Listened
    <3> QED
      BY <2>4, <3>1, ListenerIsOwn
  <2>6. ASSUME i \in calm, doing[u].again PROVE Led(urls'[i], machine[i], Own(i))
    <3>1. /\ machine[i].state = "running" /\ machine[i].boot = doing[u].boot
          /\ \E s \in Own(i) : s.boot = doing[u].boot
      BY <1>1, <1>2, <2>6 DEF AgainStands
    <3>2. machine[i] = [state |-> "running", boot |-> doing[u].boot]
      BY <1>2, <3>1 DEF BoxMachines
    <3> QED
      BY <2>2, <2>4, <2>5, <3>1, <3>2 DEF Led
  <2>7. /\ TunnelIsGone(doing'[u], urls'[i]) /\ SshIsOwn(doing'[u], urls'[i], Own(i)) /\ AgainIsEnsure(doing'[u])
    BY <1>1, <1>2, <2>1, <2>2, <2>4 DEF TunnelIsGone, SshIsOwn, AgainIsEnsure, BoxCalls, OpenSteps
  <2>8. i \in calm => AgainStands(doing'[u], urls'[i], machine[i], Own(i))
    BY <1>1, <1>2, <2>1, <2>6 DEF AgainStands, BoxCalls
  <2>9. Own(i)' = Own(i)
    BY <1>1 DEF Own
  <2>10. /\ machine \in [Boxes -> BoxMachines] /\ locks \in [Boxes -> Users \cup {"free"}] /\ sshs \subseteq BoxSshs
         /\ ensured \subseteq Boxes /\ calm \subseteq Boxes
    BY DEF BoxInv, BoxTypes
  <2>11. CallLeaves(u, i)
    BY <1>1, <1>2, <1>4, <2>1, <2>2, <2>7, <2>8, <2>9, <2>10 DEF CallLeaves
  <2> QED
    BY <2>11, CallStep
<1> QED
  BY <1>2, <1>3, <1>4 DEF B!OpenListens

LEMMA UrlAnswering ==
  ASSUME BoxNames, BoxInv, NEW u \in Users, B!UrlAnswers(u)
  PROVE  BoxInv'
<1>1. doing[u] # B!Free /\ doing[u].at = "opened"
  BY DEF B!UrlAnswers, B!On, B!Free
<1> QED
  BY <1>1, CallFails DEF B!UrlAnswers

LEMMA EnsureAnswering ==
  ASSUME BoxNames, BoxInv, NEW u \in Users, B!EnsureAnswers(u)
  PROVE  BoxInv'
<1>1. /\ doing[u] # B!Free /\ doing[u].at = "opened" /\ B!Returns(u)
      /\ UNCHANGED <<machine, urls, sshs, foreign>>
  BY DEF B!EnsureAnswers, B!On, B!Free
<1>2. PICK i \in Boxes :
        /\ i = doing[u].id /\ doing[u] \in BoxCalls /\ locks[i] = u
        /\ TunnelIsGone(doing[u], urls[i]) /\ SshIsOwn(doing[u], urls[i], Own(i)) /\ AgainIsEnsure(doing[u])
        /\ i \in calm => AgainStands(doing[u], urls[i], machine[i], Own(i))
        /\ urls[i] \in BoxUrls /\ machine[i] \in BoxMachines /\ Own(i) \in SUBSET BoxSshs
        /\ \A s \in Own(i) : s.id = i /\ s.port \notin foreign
        /\ \A j \in Boxes \ {i} : urls[i].port # 0 => urls[i].port # urls[j].port
  BY <1>1, CallStands
<1>3. /\ doing' = [doing EXCEPT ![u] = doing'[u]] /\ doing'[u] = B!Free /\ locks' = [locks EXCEPT ![i] = "free"]
  BY <1>1, <1>2 DEF B!Returns, BoxInv, BoxTypes
<1>4. /\ ensured' = ensured \cup {i} /\ calm' = IF doing[u].again THEN calm ELSE calm \cup {i}
      /\ doing[u].again \/ B!Healthy(i)
  BY <1>2 DEF B!EnsureAnswers
<1>5. ASSUME i \in calm' PROVE Led(urls[i], machine[i], Own(i))
  <2>1. CASE doing[u].again
    BY <1>1, <1>2, <1>4, <1>5, <2>1 DEF AgainStands
  <2>2. CASE B!Healthy(i)
    <3>1. PICK s \in B!Processes(i) : s.listens /\ machine[i] = [state |-> "running", boot |-> s.boot]
      BY <2>2 DEF B!Healthy
    <3>2. s \in Own(i) /\ s.boot = urls[i].tunnel.boot /\ s.port = urls[i].tunnel.port
      BY <3>1 DEF B!Processes, Own
    <3>3. s.port = urls[i].port
      BY <1>2, <3>2 DEF SshIsOwn
    <3> QED
      BY <3>1, <3>2, <3>3 DEF Led
  <2> QED
    BY <1>4, <2>1, <2>2
<1>6. /\ TunnelIsGone(doing'[u], urls[i]) /\ SshIsOwn(doing'[u], urls[i], Own(i)) /\ AgainIsEnsure(doing'[u])
      /\ AgainStands(doing'[u], urls[i], machine[i], Own(i))
  BY <1>1, <1>2, <1>3 DEF TunnelIsGone, SshIsOwn, AgainIsEnsure, AgainStands, B!Free
<1>7. Own(i)' = Own(i)
  BY <1>1 DEF Own
<1>8. /\ machine \in [Boxes -> BoxMachines] /\ urls \in [Boxes -> BoxUrls] /\ sshs \subseteq BoxSshs
      /\ ensured \subseteq Boxes /\ calm \subseteq Boxes
  BY DEF BoxInv, BoxTypes
<1>9. CallLeaves(u, i)
  BY <1>1, <1>2, <1>3, <1>4, <1>5, <1>6, <1>7, <1>8 DEF CallLeaves
<1> QED
  BY <1>9, CallStep

LEMMA EnsureGoingOn ==
  ASSUME BoxNames, BoxInv, NEW u \in Users, B!EnsureUnhealthy(u)
  PROVE  BoxInv'
<1>1. /\ doing[u] # B!Free /\ doing[u].at = "opened" /\ doing[u].kind = "ensure" /\ ~ doing[u].again
      /\ B!Fails(u, FALSE) /\ UNCHANGED <<machine, urls, sshs, foreign, ensured, calm>>
  BY DEF B!EnsureUnhealthy, B!On, B!Free, B!Fails
<1> QED
  BY <1>1, CallFails

LEMMA Starting ==
  ASSUME BoxNames, BoxInv, NEW u \in Users, B!Starts(u)
  PROVE  BoxInv'
<1>1. /\ doing[u] # B!Free /\ doing[u].at = "starting"
      /\ UNCHANGED <<urls, sshs, foreign, ensured>>
  BY DEF B!Starts, B!On, B!Free
<1>2. PICK i \in Boxes :
        /\ i = doing[u].id /\ doing[u] \in BoxCalls /\ locks[i] = u /\ i \notin ensured
        /\ TunnelIsGone(doing[u], urls[i]) /\ SshIsOwn(doing[u], urls[i], Own(i)) /\ AgainIsEnsure(doing[u])
        /\ urls[i] \in BoxUrls /\ machine[i] \in BoxMachines /\ Own(i) \in SUBSET BoxSshs
        /\ \A s \in Own(i) : s.id = i /\ s.port \notin foreign
        /\ \A j \in Boxes \ {i} : urls[i].port # 0 => urls[i].port # urls[j].port
  BY <1>1, CallStands
<1>3. calm' = calm \cup {i}
  BY <1>2 DEF B!Starts
<1>4. /\ doing' = [doing EXCEPT ![u] = doing'[u]]
      /\ locks' = [locks EXCEPT ![i] = IF doing'[u] = B!Free THEN "free" ELSE u]
      /\ machine' = [machine EXCEPT ![i] = machine'[i]] /\ machine'[i] \in BoxMachines
      /\ \/ doing'[u] = B!Free
         \/ /\ doing'[u] # B!Free /\ doing'[u] \in BoxCalls /\ doing'[u].id = i
            /\ doing'[u].at = "closing" /\ doing'[u].again = FALSE
            /\ machine'[i].state = "running"
  <2>1. CASE machine[i].state = "gone"
    <3>1. B!Returns(u) /\ machine' = machine
      BY <1>2, <2>1 DEF B!Starts
    <3> QED
      BY <1>2, <3>1 DEF B!Returns, BoxInv, BoxTypes
  <2>2. CASE machine[i].state # "gone"
    <3>1. /\ machine' = [machine EXCEPT ![i].state = "running",
                          ![i].boot = @ + (IF machine[i].state = "running" THEN 0 ELSE 1)]
          /\ B!Steps(u, "closing") /\ locks' = locks
      BY <1>2, <2>2 DEF B!Starts
    <3>2. /\ machine' = [machine EXCEPT ![i] = machine'[i]] /\ machine'[i] \in BoxMachines
          /\ machine'[i].state = "running"
      <4>1. machine[i].boot + (IF machine[i].state = "running" THEN 0 ELSE 1) \in Nat
        BY <1>2 DEF BoxMachines
      <4>2. machine \in [Boxes -> BoxMachines]
        BY DEF BoxInv, BoxTypes
      <4> QED
        BY <3>1, <4>1, <4>2 DEF BoxMachines
    <3>3. /\ doing' = [doing EXCEPT ![u] = doing'[u]] /\ doing'[u] \in BoxCalls /\ doing'[u] # B!Free
          /\ doing'[u].at = "closing" /\ doing'[u].id = i /\ doing'[u].again = doing[u].again
      BY <1>1, <1>2, <3>1, CallGoesOn
    <3>4. doing[u].again = FALSE
      BY <1>1, <1>2 DEF AgainIsEnsure, BoxCalls, OpenSteps
    <3> QED
      BY <1>2, <3>1, <3>2, <3>3, <3>4 DEF BoxInv, BoxTypes
  <2> QED
    BY <2>1, <2>2
<1>5. /\ TunnelIsGone(doing'[u], urls[i]) /\ SshIsOwn(doing'[u], urls[i], Own(i)) /\ AgainIsEnsure(doing'[u])
      /\ AgainStands(doing'[u], urls[i], machine'[i], Own(i))
  BY <1>1, <1>2, <1>4 DEF TunnelIsGone, SshIsOwn, AgainIsEnsure, AgainStands, B!Free
<1>6. Own(i)' = Own(i)
  BY <1>1 DEF Own
<1>7. /\ urls \in [Boxes -> BoxUrls] /\ sshs \subseteq BoxSshs /\ ensured \subseteq Boxes /\ calm \subseteq Boxes
  BY DEF BoxInv, BoxTypes
<1>8. CallLeaves(u, i)
  BY <1>1, <1>2, <1>3, <1>4, <1>5, <1>6, <1>7 DEF CallLeaves
<1> QED
  BY <1>8, CallStep

LEMMA Shutting ==
  ASSUME BoxNames, BoxInv, NEW u \in Users, B!Shuts(u)
  PROVE  BoxInv'
<1>1. /\ doing[u] # B!Free /\ doing[u].at = "closing"
      /\ UNCHANGED <<machine, foreign, ensured, calm>> /\ B!AfterClose(u)
  BY DEF B!Shuts, B!On, B!Free
<1>2. PICK i \in Boxes :
        /\ i = doing[u].id /\ doing[u] \in BoxCalls /\ locks[i] = u /\ i \notin ensured
        /\ AgainIsEnsure(doing[u])
        /\ i \in calm => AgainStands(doing[u], urls[i], machine[i], Own(i))
        /\ machine[i] \in BoxMachines
        /\ \A j \in Boxes \ {i} : urls[i].port # 0 => urls[i].port # urls[j].port
  BY <1>1, CallStands
<1>3. /\ urls' = [urls EXCEPT ![i] = urls'[i]] /\ urls'[i] \in BoxUrls
      /\ urls'[i].port = urls[i].port /\ urls'[i].tunnel = B!NoTunnel
      /\ sshs' \subseteq sshs /\ Own(i)' = {}
      /\ \A s \in BoxSshs : s.id # i => (s \in sshs') = (s \in sshs)
  BY <1>1, <1>2, Closing DEF B!Shuts
<1>4. doing[u].again = FALSE
  BY <1>1, <1>2 DEF AgainIsEnsure, BoxCalls, OpenSteps
<1>5. /\ doing' = [doing EXCEPT ![u] = doing'[u]]
      /\ locks' = [locks EXCEPT ![i] = IF doing'[u] = B!Free THEN "free" ELSE u]
      /\ \/ doing'[u] = B!Free
         \/ /\ doing'[u] # B!Free /\ doing'[u] \in BoxCalls /\ doing'[u].id = i /\ doing'[u].kind = doing[u].kind
            /\ \/ doing'[u].at = "asking" /\ doing'[u].again = FALSE
               \/ doing'[u].at = "open" /\ doing'[u].kind = "ensure"
  <2>1. doing[u].kind \in B!Kinds /\ doing \in [Users -> {B!Free} \cup BoxCalls]
        /\ locks \in [Boxes -> Users \cup {"free"}]
    BY <1>2 DEF BoxCalls, BoxInv, BoxTypes
  <2>2. CASE doing[u].kind = "ensure"
    <3>1. doing' = [doing EXCEPT ![u].at = "open", ![u].again = TRUE] /\ locks' = locks
      BY <1>1, <2>2 DEF B!AfterClose
    <3> QED
      BY <1>2, <2>1, <2>2, <3>1 DEF BoxCalls, OpenSteps, B!Free
  <2>3. CASE doing[u].kind \in {"reconnect", "close"}
    <3>1. B!Returns(u)
      BY <1>1, <2>3 DEF B!AfterClose
    <3> QED
      BY <1>2, <2>1, <3>1 DEF B!Returns
  <2>4. CASE doing[u].kind \notin {"ensure", "reconnect", "close"}
    <3>1. B!Steps(u, "asking") /\ locks' = locks
      BY <1>1, <2>4 DEF B!AfterClose
    <3>2. /\ doing' = [doing EXCEPT ![u] = doing'[u]] /\ doing'[u] \in BoxCalls /\ doing'[u] # B!Free
          /\ doing'[u].at = "asking" /\ doing'[u].id = i /\ doing'[u].kind = doing[u].kind
          /\ doing'[u].again = doing[u].again
      BY <1>1, <1>2, <3>1, CallGoesOn
    <3> QED
      BY <1>2, <1>4, <2>1, <3>1, <3>2
  <2> QED
    BY <2>2, <2>3, <2>4
<1>6. /\ TunnelIsGone(doing'[u], urls'[i]) /\ SshIsOwn(doing'[u], urls'[i], Own(i)') /\ AgainIsEnsure(doing'[u])
      /\ i \in calm => AgainStands(doing'[u], urls'[i], machine[i], Own(i)')
  BY <1>1, <1>2, <1>3, <1>5 DEF TunnelIsGone, SshIsOwn, AgainIsEnsure, AgainStands, B!Free, OpenSteps
<1>7. /\ machine \in [Boxes -> BoxMachines] /\ sshs \subseteq BoxSshs /\ ensured \subseteq Boxes /\ calm \subseteq Boxes
  BY DEF BoxInv, BoxTypes
<1>8. CallLeaves(u, i)
  BY <1>1, <1>2, <1>3, <1>5, <1>6, <1>7 DEF CallLeaves
<1> QED
  BY <1>8, CallStep

LEMMA Asking ==
  ASSUME BoxNames, BoxInv, NEW u \in Users, B!Asks(u)
  PROVE  BoxInv'
<1>1. /\ doing[u] # B!Free /\ doing[u].at = "asking" /\ B!Returns(u)
      /\ UNCHANGED <<sshs, foreign, ensured, calm>>
  BY DEF B!Asks, B!On, B!Free
<1>2. PICK i \in Boxes :
        /\ i = doing[u].id /\ doing[u] \in BoxCalls /\ locks[i] = u /\ i \notin ensured
        /\ urls[i] \in BoxUrls /\ machine[i] \in BoxMachines
        /\ \A j \in Boxes \ {i} : urls[i].port # 0 => urls[i].port # urls[j].port
  BY <1>1, CallStands
<1>3. Own(i) = {} /\ urls[i].tunnel = B!NoTunnel
  BY <1>1, <1>2, NoSsh
<1>4. /\ doing' = [doing EXCEPT ![u] = doing'[u]] /\ doing'[u] = B!Free /\ locks' = [locks EXCEPT ![i] = "free"]
  BY <1>1, <1>2 DEF B!Returns, BoxInv, BoxTypes
<1>5. /\ machine' = [machine EXCEPT ![i] = machine'[i]] /\ machine'[i] \in BoxMachines
      /\ urls' = [urls EXCEPT ![i] = urls'[i]] /\ urls'[i] \in BoxUrls
      /\ urls'[i].port \in {0, urls[i].port} /\ urls'[i].tunnel = urls[i].tunnel
  <2>1. machine \in [Boxes -> BoxMachines] /\ urls \in [Boxes -> BoxUrls]
    BY DEF BoxInv, BoxTypes
  <2>2. CASE doing[u].kind = "destroy"
    <3>1. machine' = [machine EXCEPT ![i].state = "gone"] /\ urls' = [urls EXCEPT ![i].port = 0]
      BY <1>2, <2>2 DEF B!Asks
    <3> QED
      BY <1>2, <2>1, <3>1 DEF BoxMachines, BoxUrls
  <2>3. CASE doing[u].kind # "destroy"
    <3>1. machine' = [machine EXCEPT ![i].state = IF @ = "running" THEN "stopped" ELSE @] /\ urls' = urls
      BY <1>2, <2>3 DEF B!Asks
    <3> QED
      BY <1>2, <2>1, <3>1 DEF BoxMachines, BoxUrls
  <2> QED
    BY <2>2, <2>3
<1>6. Own(i)' = {}
  BY <1>1, <1>3 DEF Own
<1>7. /\ TunnelIsGone(doing'[u], urls'[i]) /\ SshIsOwn(doing'[u], urls'[i], Own(i)') /\ AgainIsEnsure(doing'[u])
      /\ AgainStands(doing'[u], urls'[i], machine'[i], Own(i)')
  BY <1>3, <1>4, <1>5, <1>6 DEF TunnelIsGone, SshIsOwn, AgainIsEnsure, AgainStands, B!Free
<1>8. sshs \subseteq BoxSshs /\ ensured \subseteq Boxes /\ calm \subseteq Boxes
  BY DEF BoxInv, BoxTypes
<1>9. CallLeaves(u, i)
  BY <1>1, <1>2, <1>4, <1>5, <1>6, <1>7, <1>8 DEF CallLeaves
<1> QED
  BY <1>9, CallStep

LEMMA AskFailing ==
  ASSUME BoxNames, BoxInv, NEW u \in Users, B!AskFails(u)
  PROVE  BoxInv'
<1>1. /\ doing[u] # B!Free /\ doing[u].at # "listening"
      /\ UNCHANGED <<machine, urls, sshs, foreign, ensured, calm>>
  BY DEF B!AskFails, B!Free
<1>2. B!Fails(u, FALSE) \/ B!Returns(u)
  BY DEF B!AskFails
<1> QED
  BY <1>1, <1>2, CallFails

\* What happens to one sandbox's machine or ssh, leaves the others and every call as they were.
WorldLeaves(i) ==
  /\ UNCHANGED <<doing, locks, urls, ensured, foreign>>
  /\ machine'[i] \in BoxMachines /\ machine' = [machine EXCEPT ![i] = machine'[i]]
  /\ sshs' \subseteq BoxSshs /\ \A s \in BoxSshs : s.id # i => (s \in sshs') = (s \in sshs)
  /\ \A s \in Own(i)' : s.port \notin foreign
  /\ calm' \subseteq calm
  /\ SshIsOwn(CallOf(i), urls[i], Own(i)')
  /\ i \in calm' =>
       /\ AgainStands(CallOf(i), urls[i], machine'[i], Own(i)')
       /\ i \in ensured => Led(urls[i], machine'[i], Own(i)')

LEMMA WorldStep ==
  ASSUME BoxNames, BoxInv, NEW i \in Boxes, WorldLeaves(i)
  PROVE  BoxInv'
<1> USE DEF BoxInv, WorldLeaves
<1>1. BoxTypes'
  BY DEF BoxTypes
<1>2. LockIsHeld'
  BY DEF LockIsHeld
<1>3. PortsApart'
  BY DEF PortsApart
<1>4. ForeignApart'
  BY DEF ForeignApart, Own, BoxTypes
<1>5. \A j \in Boxes : CallOf(j)' = CallOf(j)
  BY DEF CallOf
<1>6. ASSUME NEW j \in Boxes, j # i PROVE machine'[j] = machine[j] /\ Own(j)' = Own(j)
  BY <1>6 DEF Own, BoxTypes
<1>7. BoxesStand' /\ EnsuredLead'
  <2>1. ASSUME NEW j \in Boxes
        PROVE  /\ TunnelIsGone(CallOf(j)', urls'[j]) /\ SshIsOwn(CallOf(j)', urls'[j], Own(j)')
               /\ AgainIsEnsure(CallOf(j)')
               /\ j \in calm' => AgainStands(CallOf(j)', urls'[j], machine'[j], Own(j)')
               /\ j \in ensured' => locks'[j] = "free" /\ (j \in calm' => Led(urls'[j], machine'[j], Own(j)'))
    <3>1. CASE j # i
      BY <1>5, <1>6, <3>1 DEF BoxesStand, EnsuredLead
    <3>2. CASE j = i
      BY <1>5, <3>2 DEF BoxesStand, EnsuredLead
    <3> QED
      BY <3>1, <3>2
  <2>2. BoxesStand'
    BY <2>1 DEF BoxesStand
  <2>3. EnsuredLead'
    BY <1>1, <2>1 DEF EnsuredLead, BoxTypes
  <2> QED
    BY <2>2, <2>3
<1> QED
  BY <1>1, <1>2, <1>3, <1>4, <1>7

LEMMA SshListening ==
  ASSUME BoxNames, BoxInv, NEW r \in sshs, B!SshListens(r)
  PROVE  BoxInv'
<1>1. /\ sshs \subseteq BoxSshs /\ machine \in [Boxes -> BoxMachines] /\ urls \in [Boxes -> BoxUrls]
      /\ UNCHANGED <<machine, urls, foreign, locks, doing, ensured, calm>> /\ ~ r.listens
  BY DEF B!SshListens, BoxInv, BoxTypes
<1>2. PICK i \in Boxes : i = r.id /\ r \in BoxSshs
  BY <1>1 DEF BoxSshs
<1>3. /\ TunnelIsGone(CallOf(i), urls[i]) /\ SshIsOwn(CallOf(i), urls[i], Own(i))
      /\ i \in calm => AgainStands(CallOf(i), urls[i], machine[i], Own(i))
      /\ i \in ensured /\ i \in calm => Led(urls[i], machine[i], Own(i))
  BY DEF BoxInv, BoxesStand, EnsuredLead
<1>4. r \in Own(i) /\ \A s \in Own(i) : s = r
  BY <1>2, <1>3 DEF Own, SshIsOwn
<1>5. r.port \notin foreign /\ r.port \notin B!Listened
  <2>1. r.port \notin foreign
    BY DEF BoxInv, ForeignApart
  <2> QED
    BY <1>1, <1>4, <2>1, ListenerIsOwn DEF B!Listened
<1>6. ~ Led(urls[i], machine[i], Own(i))
  BY <1>1, <1>4 DEF Led
<1>7. CASE machine[i] = [state |-> "running", boot |-> r.boot]
  <2> DEFINE new == [r EXCEPT !.listens = TRUE]
  <2>1. new \in BoxSshs /\ new.id = i /\ new.boot = r.boot /\ new.port = r.port
    BY <1>2 DEF BoxSshs
  <2>2. sshs' = (sshs \ {r}) \cup {new}
    BY <1>2, <1>5, <1>7 DEF B!SshListens
  <2> HIDE DEF new
  <2>3. {s \in sshs' : s.id = i} = {new}
    BY <1>4, <2>1, <2>2 DEF Own
  <2>4. Own(i)' = {new}
    BY <2>3 DEF Own
  <2>5. /\ SshIsOwn(CallOf(i), urls[i], {new})
        /\ i \in calm => AgainStands(CallOf(i), urls[i], machine[i], {new})
    <3>1. SshIsOwn(CallOf(i), urls[i], {new})
      BY <1>3, <1>4, <2>1 DEF SshIsOwn
    <3>2. i \in calm => AgainStands(CallOf(i), urls[i], machine[i], {new})
      BY <1>3, <1>4, <1>6, <2>1 DEF AgainStands
    <3> QED
      BY <3>1, <3>2
  <2>6. i \in calm => i \notin ensured
    BY <1>3, <1>6
  <2>7. sshs' \subseteq BoxSshs /\ \A s \in BoxSshs : s.id # i => (s \in sshs') = (s \in sshs)
    BY <1>1, <1>2, <2>1, <2>2
  <2>8. WorldLeaves(i)
    BY <1>1, <1>5, <2>1, <2>4, <2>5, <2>6, <2>7 DEF WorldLeaves
  <2> QED
    BY <2>8, WorldStep
<1>8. CASE machine[i] # [state |-> "running", boot |-> r.boot]
  <2>1. sshs' = sshs \ {r}
    BY <1>2, <1>8 DEF B!SshListens
  <2>2. Own(i)' = {}
    BY <1>4, <2>1 DEF Own
  <2>3. SshIsOwn(CallOf(i), urls[i], {})
    BY DEF SshIsOwn
  <2>4. i \in calm => AgainStands(CallOf(i), urls[i], machine[i], {})
    <3>1. ASSUME i \in calm, CallOf(i) # B!Free, CallOf(i).again, CallOf(i).at = "listening" PROVE FALSE
      <4>1. machine[i].state = "running" /\ machine[i].boot = CallOf(i).boot
        BY <1>3, <3>1 DEF AgainStands
      <4>2. urls[i].tunnel = B!NoTunnel
        BY <1>3, <3>1 DEF TunnelIsGone
      <4>3. r.port # 0
        BY <1>2 DEF BoxSshs, BoxNames
      <4>4. urls[i].tunnel # [boot |-> r.boot, port |-> r.port]
        BY <4>2, <4>3 DEF B!NoTunnel
      <4>5. r.boot = CallOf(i).boot
        BY <1>3, <1>4, <4>4 DEF SshIsOwn
      <4>6. machine[i] \in BoxMachines
        BY <1>1
      <4> QED
        BY <1>8, <4>1, <4>5, <4>6 DEF BoxMachines
    <3> QED
      BY <1>3, <1>6, <3>1 DEF AgainStands
  <2>5. i \in calm => i \notin ensured
    BY <1>3, <1>6
  <2>6. sshs' \subseteq BoxSshs /\ \A s \in BoxSshs : s.id # i => (s \in sshs') = (s \in sshs)
    BY <1>1, <1>2, <2>1
  <2>7. WorldLeaves(i)
    BY <1>1, <2>2, <2>3, <2>4, <2>5, <2>6 DEF WorldLeaves
  <2> QED
    BY <2>7, WorldStep
<1> QED
  BY <1>7, <1>8

LEMMA SshDying ==
  ASSUME BoxNames, BoxInv, NEW r \in sshs, B!SshDies(r)
  PROVE  BoxInv'
<1>1. /\ sshs \subseteq BoxSshs /\ machine \in [Boxes -> BoxMachines] /\ urls \in [Boxes -> BoxUrls]
      /\ UNCHANGED <<machine, urls, foreign, locks, doing, ensured>>
      /\ sshs' = sshs \ {r} /\ calm' = calm \ {r.id}
  BY DEF B!SshDies, BoxInv, BoxTypes
<1>2. PICK i \in Boxes : i = r.id
  BY <1>1 DEF BoxSshs
<1>3. SshIsOwn(CallOf(i), urls[i], Own(i)) /\ \A s \in sshs : s.port \notin foreign
  BY DEF BoxInv, BoxesStand, ForeignApart
<1>4. Own(i)' \subseteq Own(i) /\ Own(i)' \subseteq sshs
  BY <1>1 DEF Own
<1>5. SshIsOwn(CallOf(i), urls[i], Own(i)')
  BY <1>3, <1>4 DEF SshIsOwn
<1>6. WorldLeaves(i)
  BY <1>1, <1>2, <1>3, <1>4, <1>5 DEF WorldLeaves
<1> QED
  BY <1>6, WorldStep

LEMMA Changing ==
  ASSUME BoxNames, BoxInv, NEW i \in Boxes, NEW state \in {"running", "stopped", "gone"}, B!Changes(i, state)
  PROVE  BoxInv'
<1>1. /\ sshs \subseteq BoxSshs /\ machine \in [Boxes -> BoxMachines] /\ machine[i] \in BoxMachines
      /\ UNCHANGED <<sshs, urls, foreign, locks, doing, ensured>>
      /\ calm' = calm \ {i}
  BY DEF B!Changes, BoxInv, BoxTypes
<1>2. machine' = [machine EXCEPT ![i] = machine'[i]] /\ machine'[i] \in BoxMachines
  <2>1. machine[i].boot + (IF state = "running" THEN 1 ELSE 0) \in Nat
    BY <1>1 DEF BoxMachines
  <2> QED
    BY <1>1, <2>1 DEF B!Changes, BoxMachines
<1>3. SshIsOwn(CallOf(i), urls[i], Own(i)) /\ \A s \in Own(i) : s.port \notin foreign
  BY DEF BoxInv, BoxesStand, ForeignApart, Own
<1>4. Own(i)' = Own(i)
  BY <1>1 DEF Own
<1>5. WorldLeaves(i)
  BY <1>1, <1>2, <1>3, <1>4 DEF WorldLeaves
<1> QED
  BY <1>5, WorldStep

LEMMA PortTaking ==
  ASSUME BoxNames, BoxInv, NEW p \in UrlPorts, B!PortTaken(p)
  PROVE  BoxInv'
<1>1. /\ UNCHANGED <<machine, urls, sshs, locks, doing, ensured, calm>> /\ foreign' = foreign \cup {p}
      /\ \A s \in sshs : s.port # p
  BY DEF B!PortTaken
<1> QED
  BY <1>1 DEF BoxInv, BoxTypes, LockIsHeld, PortsApart, ForeignApart, BoxesStand, EnsuredLead, CallOf, Own

LEMMA BoxBegins == ASSUME BoxNames, B!BoxInit PROVE BoxInv
<1> USE DEF B!BoxInit
<1>1. BoxTypes
  BY DEF BoxTypes, BoxMachines, BoxUrls, B!NoTunnel
<1>2. LockIsHeld /\ PortsApart /\ ForeignApart /\ EnsuredLead
  BY DEF LockIsHeld, PortsApart, ForeignApart, EnsuredLead
<1>3. ASSUME NEW i \in Boxes
      PROVE  /\ TunnelIsGone(CallOf(i), urls[i]) /\ SshIsOwn(CallOf(i), urls[i], Own(i))
             /\ AgainIsEnsure(CallOf(i)) /\ i \notin calm
  BY DEF TunnelIsGone, SshIsOwn, AgainIsEnsure, CallOf, Own, B!Free
<1> QED
  BY <1>1, <1>2, <1>3 DEF BoxInv, BoxesStand

LEMMA BoxStep ==
  ASSUME BoxNames, BoxInv, [B!BoxNext]_boxVars
  PROVE  BoxInv'
<1>1. CASE UNCHANGED boxVars
  BY <1>1 DEF boxVars, BoxInv, BoxTypes, LockIsHeld, PortsApart, ForeignApart, BoxesStand, EnsuredLead, CallOf, Own
<1>2. CASE B!BoxNext
  BY <1>2, CallBegins, OpenLooking, OpenReading, OpenPicking, OpenSpawning, OpenListening, UrlAnswering,
     EnsureAnswering, EnsureGoingOn, Starting, Shutting, Asking, AskFailing, SshListening, SshDying, Changing,
     PortTaking DEF B!BoxNext, B!Opens
<1> QED
  BY <1>1, <1>2

LEMMA LedIsUrl == ASSUME BoxInv PROVE UrlsLead
<1>1. ASSUME NEW i \in ensured \cap calm
      PROVE  \E s \in B!Processes(i) :
               /\ s.listens /\ s.port = urls[i].port
               /\ machine[i] = [state |-> "running", boot |-> s.boot]
  <2>1. Led(urls[i], machine[i], Own(i))
    BY <1>1 DEF BoxInv, EnsuredLead
  <2> QED
    BY <2>1 DEF Led, B!Processes, Own
<1> QED
  BY <1>1 DEF UrlsLead, B!UrlsLead

\* A URL that ensureServer gave leads to its own machine's present boot, in every behaviour, for any
\* sandboxes, ports and callers, as long as 0 is no port.
THEOREM UrlsLeadHome == ASSUME BoxNames PROVE PartsSpec => []UrlsLead
<1>1. PartsInit => BoxInv
  BY BoxBegins DEF PartsInit
<1>2. BoxInv /\ [PartsNext]_allVars => BoxInv'
  BY BoxStep DEF PartsNext, allVars
<1>3. BoxInv => UrlsLead
  BY LedIsUrl
<1> QED
  BY <1>1, <1>2, <1>3, PTL DEF PartsSpec, allVars

--------------------------------------------------------------------------------
(* Pins. *)

PinSteps == [kind : {"start", "stop", "pause", "copy"}, boot : Nat,
             at : {"sent", "act", "ready", "stop", "off", "hold", "held", "done", "failed", "cancelled"}]

PinTypes ==
  /\ row \in [desired : {"running", "stopped", "paused"}, at : {"observing", "settled", "failed"},
              pin : P!Pinned, prepared : BOOLEAN]
  /\ look \in {"none", "running", "paused", "stopped"}
  /\ process \in [boot : Nat, version : P!Pinned]
  /\ step \in {P!NoStep} \cup PinSteps
  /\ vm \in [state : {"running", "pausing", "paused", "unreachable", "stopped"}, ram : P!Pinned, blind : BOOLEAN]
  /\ crossed \in BOOLEAN

\* A step was made for the process that is there, or one before it.
StepIsMade == step # P!NoStep => step.boot <= process.boot

\* What a look saw stays so until it decides: no step but a copy's is under way, and the VM dies at
\* most.
LookIsTrue ==
  /\ step # P!NoStep /\ step.kind # "copy" => look = "none"
  /\ look = "stopped" => vm.state = "stopped"
  /\ look = "running" => vm.state # "paused"

\* The row's pin is that of the RAM there is, but for a boot it did not see.
PinIsRam == vm.state # "stopped" /\ ~ vm.blind => vm.ram = row.pin

\* What a step found of the pin is so while its process runs: a smolvm changes with its process,
\* and the pin only between steps.
MatchIsTrue ==
  step # P!NoStep /\ step.at = "act" /\ step.boot = process.boot =>
    /\ step.kind \in {"start", "stop"} /\ vm.state = "paused" => row.pin = process.version
    /\ step.kind = "copy" => row.pin = process.version

\* A VM that is to be paused is not, until its step is done.
NotYetPaused ==
  step # P!NoStep /\ step.kind = "pause" /\ step.at \in {"sent", "act", "stop", "hold", "held", "off"} =>
    vm.state # "paused"

PinInv == PinTypes /\ StepIsMade /\ LookIsTrue /\ PinIsRam /\ MatchIsTrue /\ NotYetPaused /\ ~ crossed

\* A step of the host's, of the process it was made for.
LEMMA HostSteps ==
  ASSUME PinInv, P!HostActs
  PROVE  PinInv'
<1> USE DEF PinInv, P!Keeps, P!In, P!Goes
<1>0. /\ step \in PinSteps /\ step # P!NoStep /\ step.boot = process.boot /\ step' \in PinSteps /\ step' # P!NoStep
      /\ step'.kind = step.kind /\ step'.boot = step.boot /\ UNCHANGED <<row, look, process>>
  <2>1. step # P!NoStep /\ step.boot = process.boot /\ UNCHANGED <<row, look, process>>
    BY DEF P!HostActs, P!NoStep, P!StartSees, P!StartActs, P!Readies, P!StopSees, P!StopActs, P!StopEnds, P!PauseSees,
       P!PauseActs, P!PauseHolds, P!PauseEnds, P!CopySees, P!CopyActs
  <2>2. \E at \in {"act", "ready", "stop", "off", "hold", "held", "done", "failed"} : P!Goes(at)
    BY DEF P!HostActs, P!SeesPaused, P!StartSees, P!StartActs, P!Readies, P!StopSees, P!StopActs, P!StopEnds,
       P!PauseSees, P!PauseActs, P!PauseHolds, P!PauseEnds, P!CopySees, P!CopyActs
  <2>3. step \in PinSteps
    BY <2>1 DEF PinTypes
  <2> QED
    BY <2>1, <2>2, <2>3 DEF PinSteps, P!NoStep
<1> USE DEF PinTypes, StepIsMade, LookIsTrue, PinIsRam, MatchIsTrue, NotYetPaused, PinSteps, P!Pinned, P!Crosses, P!Seen,
            P!PinMatches, P!AliveVm, P!Resumable
<1>1. CASE P!StartSees \/ P!StopSees
  BY <1>0, <1>1 DEF P!StartSees, P!StopSees, P!SeesPaused
<1>2. CASE P!StartActs
  <2>1. CASE vm.state = "running"
    BY <1>0, <1>2, <2>1 DEF P!StartActs
  <2>2. CASE vm.state \in {"pausing", "paused"}
    BY <1>0, <1>2, <2>2 DEF P!StartActs, P!Resumes
  <2>3. CASE vm.state \in {"unreachable", "stopped"}
    <3>1. /\ P!Goes("ready") /\ UNCHANGED crossed
          /\ vm' = [state |-> "running", ram |-> process.version, blind |-> row.pin # process.version]
      BY <1>2, <2>3 DEF P!StartActs, P!Boots
    <3>2. /\ vm' \in [state : {"running", "pausing", "paused", "unreachable", "stopped"}, ram : P!Pinned, blind : BOOLEAN]
          /\ vm'.state = "running" /\ vm'.ram = process.version
          /\ ~ vm'.blind => row.pin = process.version
      BY <3>1
    <3>3. step'.at = "ready"
      BY <1>0, <3>1
    <3> QED
      BY <1>0, <1>2, <3>1, <3>2, <3>3 DEF P!StartActs
  <2> QED
    BY <2>1, <2>2, <2>3
<1>3. CASE P!Readies
  BY <1>0, <1>3 DEF P!Readies
<1>4. CASE P!StopActs
  BY <1>0, <1>4 DEF P!StopActs, P!Resumes
<1>5. CASE P!StopEnds
  BY <1>0, <1>5 DEF P!StopEnds
<1>6. CASE P!PauseSees
  BY <1>0, <1>6 DEF P!PauseSees
<1>7. CASE P!PauseActs
  BY <1>0, <1>7 DEF P!PauseActs, P!Resumes
<1>8. CASE P!PauseHolds
  BY <1>0, <1>8 DEF P!PauseHolds
<1>9. CASE P!PauseEnds
  BY <1>0, <1>9 DEF P!PauseEnds
<1>10. CASE P!CopySees
  BY <1>0, <1>10 DEF P!CopySees
<1>11. CASE P!CopyActs
  BY <1>0, <1>11 DEF P!CopyActs
<1> QED
  BY <1>1, <1>2, <1>3, <1>4, <1>5, <1>6, <1>7, <1>8, <1>9, <1>10, <1>11 DEF P!HostActs

LEMMA PinStep ==
  ASSUME PinInv, [P!PinNext]_pinVars
  PROVE  PinInv'
<1> USE DEF PinInv, PinTypes, StepIsMade, LookIsTrue, PinIsRam, MatchIsTrue, NotYetPaused, P!Pinned
<1>1. CASE UNCHANGED pinVars
  BY <1>1 DEF pinVars
<1>2. ASSUME NEW desired \in {"running", "stopped", "paused"}, P!Ask(desired) PROVE PinInv'
  BY <1>2 DEF P!Ask
<1>3. CASE P!Looks
  BY <1>3 DEF P!Looks, P!Seen, P!AliveVm
<1>4. CASE P!LookDecides
  <2>1. /\ look # "none" /\ step = P!NoStep /\ look' = "none" /\ UNCHANGED <<process, vm, crossed>>
    BY <1>4 DEF P!LookDecides
  <2>2. \/ UNCHANGED step /\ row' = [row EXCEPT !.at = "settled"]
        \/ \E kind \in {"start", "stop", "pause"} : \E pin \in P!Pinned :
             /\ step' = [kind |-> kind, boot |-> process.boot, at |-> "sent"]
             /\ row' = [row EXCEPT !.pin = pin, !.at = "observing"]
             /\ pin = row.pin \/ look = "stopped"
             /\ kind = "pause" => look = "running"
    BY <1>4 DEF P!LookDecides, P!Decides, P!Begin, P!Rest
  <2>3. CASE UNCHANGED step /\ row' = [row EXCEPT !.at = "settled"]
    BY <2>1, <2>3
  <2>4. ASSUME NEW kind \in {"start", "stop", "pause"}, NEW pin \in P!Pinned,
               /\ step' = [kind |-> kind, boot |-> process.boot, at |-> "sent"]
               /\ row' = [row EXCEPT !.pin = pin, !.at = "observing"]
               /\ pin = row.pin \/ look = "stopped"
               /\ kind = "pause" => look = "running"
        PROVE  PinInv'
    <3>1. step' \in PinSteps /\ step'.boot = process.boot /\ step'.at = "sent" /\ step'.kind = kind
      BY <2>4 DEF PinSteps
    <3>2. /\ row' \in [desired : {"running", "stopped", "paused"}, at : {"observing", "settled", "failed"},
                       pin : P!Pinned, prepared : BOOLEAN]
          /\ row'.pin = pin
      BY <2>4
    <3> QED
      BY <2>1, <2>4, <3>1, <3>2
  <2> QED
    BY <2>2, <2>3, <2>4
<1>5. CASE P!Copied
  BY <1>5 DEF P!Copied, PinSteps
<1>6. CASE P!Hears \/ P!Loses
  <2>1. /\ step' = P!NoStep /\ UNCHANGED <<look, process, vm, crossed>>
        /\ row' \in [desired : {"running", "stopped", "paused"}, at : {"observing", "settled", "failed"},
                     pin : P!Pinned, prepared : BOOLEAN]
        /\ row'.pin = row.pin
    BY <1>6 DEF P!Hears, P!Loses, P!Reported
  <2> QED
    BY <2>1
<1>7. CASE P!Cuts \/ P!StepFails
  <2>1. PICK at \in {"cancelled", "failed"} : step' = [step EXCEPT !.at = at] /\ step.kind # "none"
    BY <1>7 DEF P!Cuts, P!StepFails, P!Goes, P!Running
  <2>2. step \in PinSteps /\ step' \in PinSteps /\ step'.boot = step.boot /\ step'.at = at
        /\ step'.kind = step.kind /\ step' # P!NoStep
    BY <2>1 DEF PinSteps, P!NoStep
  <2>3. UNCHANGED <<row, look, process, vm, crossed>>
    BY <1>7 DEF P!Cuts, P!StepFails
  <2>4. step # P!NoStep
    BY <2>1 DEF P!NoStep
  <2> QED
    BY <2>2, <2>3, <2>4
<1>8. CASE P!VmDies
  BY <1>8 DEF P!VmDies
<1>9. CASE P!AgentHangs
  BY <1>9 DEF P!AgentHangs
<1>10. ASSUME NEW version \in P!Pinned, P!HostRestarts(version) PROVE PinInv'
  <2>1. /\ process' \in [boot : Nat, version : P!Pinned] /\ process'.boot = process.boot + 1
        /\ UNCHANGED <<row, look, step, vm, crossed>>
    BY <1>10 DEF P!HostRestarts
  <2>2. step # P!NoStep => step.boot <= process'.boot /\ step.boot # process'.boot
    BY <2>1 DEF PinSteps
  <2> QED
    BY <2>1, <2>2
<1> QED
  BY <1>1, <1>2, <1>3, <1>4, <1>5, <1>6, <1>7, <1>8, <1>9, <1>10, HostSteps DEF P!PinNext

\* RAM is resumed, or copied, only under its own smolvm (smolvm.ts, operations.ts), however often the
\* host's smolvm changes and whatever is asked: but for a VM booted unseen.
THEOREM RamIsTrue == PartsSpec => []RamTrue
<1>1. PartsInit => PinInv
  <2>1. PartsInit => PinTypes
    <3>1. ASSUME P!PinInit
          PROVE  /\ row \in [desired : {"running", "stopped", "paused"}, at : {"observing", "settled", "failed"},
                              pin : P!Pinned, prepared : BOOLEAN]
                 /\ process \in [boot : Nat, version : P!Pinned]
                 /\ vm \in [state : {"running", "pausing", "paused", "unreachable", "stopped"}, ram : P!Pinned,
                            blind : BOOLEAN]
      BY <3>1 DEF P!PinInit, P!Pinned
    <3>2. ASSUME P!PinInit PROVE step \in {P!NoStep} /\ look = "none" /\ crossed = FALSE
      BY <3>2 DEF P!PinInit
    <3> QED
      BY <3>1, <3>2 DEF PartsInit, PinTypes
  <2>2. PartsInit => step = P!NoStep /\ look = "none" /\ vm.ram = row.pin /\ ~ crossed
    BY DEF PartsInit, P!PinInit
  <2> QED
    BY <2>1, <2>2 DEF PinInv, StepIsMade, LookIsTrue, PinIsRam, MatchIsTrue, NotYetPaused
<1>2. PinInv /\ [PartsNext]_allVars => PinInv'
  BY PinStep DEF PartsNext, allVars
<1>3. PinInv => RamTrue
  BY DEF PinInv, RamTrue, P!RamTrue
<1> QED
  BY <1>1, <1>2, <1>3, PTL DEF PartsSpec, allVars

--------------------------------------------------------------------------------
(* Clients. *)

ClientRows == [born : Nat, stage : {"none", "making", "made", "undoing", "undone", "deleting"},
         desired : {"none", "running", "stopped", "deleted"},
         phase : {"none", "creating", "observing", "waiting", "settled", "failed", "lost", "deleting"}]

ClientCalls ==
  [asked : {"none", "running", "stopped", "create", "resize", "deleted", "ensure"},
   at : {"none", "look", "found", "ask", "make", "remove", "read", "state", "verdict", "answered"},
   born : Nat, got : ClientRows, again : BOOLEAN,
   answer : {"none", "ok", "failed", "missing", "superseded", "unavailable", "refused", "conflict", "absent"}]

Truths == [true : BOOLEAN, overtaken : BOOLEAN]

ClientTypes ==
  /\ record \in ClientRows /\ births \in Nat \ {0}
  /\ callers \in [Callers -> ClientCalls] /\ truth \in [Callers -> Truths]

\* A row is of a birth before the next, is to be deleted exactly while it is being deleted, and
\* settles only once it is made.
RowIsSound ==
  /\ record.born < births /\ (record.born = 0 => record = C!NoRecord)
  /\ record.stage = "deleting" <=> record.desired = "deleted"
  /\ record.stage = "none" <=> record.born = 0
  /\ record.phase = "settled" => record.stage = "made"

\* How far a call is, and of what it is.
CallIsSound(call) ==
  /\ call.born < births
  /\ call.at \in {"read", "state", "verdict"} =>
       call.born # 0 /\ call.asked \in {"running", "stopped", "resize", "deleted", "ensure"}
  /\ call.at \in {"look", "found", "make", "remove"} => call.asked = "ensure"
  /\ call.at = "ask" => ~ call.again /\ call.asked \in {"running", "stopped", "create", "resize", "deleted"}
  /\ call.answer # "none" => call.at = "answered"

\* What a row that a call waits on shows is so: where it is another's, or another's wish, the call was
\* overtaken; where it settled as asked, that came true; and a delete's row is there until it is done.
Says(shown, call, t) ==
  /\ call.asked \in {"running", "stopped", "resize"} =>
       /\ shown.born # call.born \/ shown.desired = "deleted" => t.overtaken
       /\ call.asked # "resize" /\ shown.desired # call.asked => t.overtaken
       /\ shown.born = call.born /\ shown.phase = "settled" /\ call.asked \in {shown.desired, "resize"} => t.true
  /\ call.asked = "deleted" /\ (shown.born # call.born \/ shown.desired # "deleted") => t.true

CallerStands(call, t) ==
  /\ CallIsSound(call)
  /\ call.at \in {"read", "state", "verdict"} => Says(record, call, t)
  /\ call.at \in {"state", "verdict"} => Says(call.got, call, t)
  /\ call.answer = "ok" => t.true
  /\ call.answer = "superseded" => t.overtaken

ClientInv == ClientTypes /\ RowIsSound /\ \A c \in Callers : CallerStands(callers[c], truth[c])


\* What a call knows stays so as more comes true.
LEMMA SaysStill ==
  ASSUME NEW shown, NEW call, NEW t, NEW u, Says(shown, call, t),
         t.true => u.true, t.overtaken => u.overtaken
  PROVE  Says(shown, call, u)
BY DEF Says

\* A step of another leaves a call as it was, if what the row shows now is so.
LEMMA OtherStands ==
  ASSUME ClientInv, NEW d \in Callers, callers'[d] = callers[d], births' \in Nat, births <= births',
         truth[d].true => truth'[d].true, truth[d].overtaken => truth'[d].overtaken,
         callers[d].at \in {"read", "state", "verdict"} => Says(record', callers[d], truth'[d])
  PROVE  CallerStands(callers[d], truth[d])'
<1>1. CallerStands(callers[d], truth[d]) /\ callers[d] \in ClientCalls /\ births \in Nat
  BY DEF ClientInv, ClientTypes
<1>2. callers[d].at \in {"state", "verdict"} => Says(callers[d].got, callers[d], truth'[d])
  BY <1>1, SaysStill DEF CallerStands
<1>3. callers[d].born < births'
  BY <1>1 DEF CallerStands, CallIsSound, ClientCalls
<1> QED
  BY <1>1, <1>2, <1>3 DEF CallerStands, CallIsSound

\* The row's loop.
LEMMA LoopStands ==
  ASSUME ClientInv,
         \/ \E end \in BOOLEAN : C!MakeEnds(end) \/ C!Drifts(end) \/ C!UndoEnds(end) \/ C!DeleteEnds(end)
         \/ C!Settles \/ C!Loses \/ C!StepFails
  PROVE  ClientInv'
<1> USE DEF C!Loop, C!Slips
<1>1. /\ record \in ClientRows /\ births \in Nat \ {0} /\ RowIsSound
      /\ callers \in [Callers -> ClientCalls] /\ truth \in [Callers -> Truths]
      /\ \A d \in Callers : callers[d].at \in {"read", "state", "verdict"} => Says(record, callers[d], truth[d])
  BY DEF ClientInv, ClientTypes, CallerStands
<1>2. callers' = callers /\ births' = births
  BY DEF C!MakeEnds, C!Drifts, C!UndoEnds, C!DeleteEnds, C!Settles, C!Loses, C!StepFails
<1>3. ASSUME record' \in ClientRows, record'.born = record.born, record'.desired = record.desired,
             record'.phase # "settled", record.stage \notin {"none", "deleting"}, record'.stage \notin {"none", "deleting"},
             UNCHANGED truth
      PROVE  ClientInv'
  <2>1. ASSUME NEW d \in Callers PROVE CallerStands(callers[d], truth[d])'
    BY <1>1, <1>2, <1>3, OtherStands DEF Says
  <2> QED
    BY <1>1, <1>2, <1>3, <2>1 DEF ClientInv, ClientTypes, RowIsSound
<1>4. ASSUME NEW well \in BOOLEAN, C!MakeEnds(well) PROVE ClientInv'
  BY <1>1, <1>3, <1>4 DEF C!MakeEnds, ClientRows
<1>5. ASSUME NEW gone \in BOOLEAN, C!Drifts(gone) PROVE ClientInv'
  BY <1>1, <1>3, <1>5 DEF C!Drifts, ClientRows
<1>6. ASSUME NEW done \in BOOLEAN, C!UndoEnds(done) PROVE ClientInv'
  BY <1>1, <1>3, <1>6 DEF C!UndoEnds, ClientRows
<1>7. CASE C!StepFails \/ C!Loses
  BY <1>1, <1>3, <1>7 DEF C!StepFails, C!Loses, ClientRows
<1>8. CASE C!Settles
  <2>1. /\ record.stage = "made" /\ record' = [record EXCEPT !.phase = "settled"]
        /\ truth' = [c \in Callers |-> IF C!WaitOn(c) /\ callers[c].asked \in {record.desired, "resize"}
                                         THEN [truth[c] EXCEPT !.true = TRUE] ELSE truth[c]]
    BY <1>8 DEF C!Settles, C!ComesTrue
  <2>2. record' \in ClientRows /\ RowIsSound'
    BY <1>1, <1>2, <2>1 DEF ClientRows, RowIsSound
  <2>3. truth' \in [Callers -> Truths]
    BY <1>1, <2>1 DEF Truths
  <2>4. ASSUME NEW d \in Callers PROVE CallerStands(callers[d], truth[d])'
    <3>1. (truth[d].true => truth'[d].true) /\ truth'[d].overtaken = truth[d].overtaken
      BY <1>1, <2>1 DEF Truths
    <3>2. C!WaitOn(d) /\ callers[d].asked \in {record.desired, "resize"} => truth'[d].true
      BY <1>1, <2>1 DEF Truths
    <3>3. CASE callers[d].at \in {"read", "state", "verdict"}
      <4>1. Says(record, callers[d], truth'[d])
        BY <1>1, <3>1, <3>3, SaysStill
      <4>2. callers[d].born # 0
        BY <3>3 DEF ClientInv, CallerStands, CallIsSound
      <4>3. Says(record', callers[d], truth'[d])
        BY <1>1, <2>1, <3>2, <4>1, <4>2 DEF Says, C!WaitOn, ClientRows
      <4> QED
        BY <1>1, <1>2, <3>1, <4>3, OtherStands
    <3> QED
      BY <1>1, <1>2, <3>1, <3>3, OtherStands
  <2> QED
    BY <1>1, <1>2, <2>2, <2>3, <2>4 DEF ClientInv, ClientTypes
<1>9. ASSUME NEW done \in BOOLEAN, C!DeleteEnds(done) PROVE ClientInv'
  <2>1. record.stage = "deleting" /\ record.desired = "deleted" /\ record.born # 0
    BY <1>1, <1>9 DEF C!DeleteEnds, C!Deleting, RowIsSound
  <2>2. CASE ~ done
    <3>1. record' = [record EXCEPT !.phase = "failed"] /\ UNCHANGED truth
      BY <1>9, <2>2 DEF C!DeleteEnds
    <3>2. record' \in ClientRows /\ RowIsSound'
      BY <1>1, <1>2, <2>1, <3>1 DEF ClientRows, RowIsSound
    <3>3. ASSUME NEW d \in Callers PROVE CallerStands(callers[d], truth[d])'
      <4>1. Says(record, callers[d], truth[d]) => Says(record', callers[d], truth'[d])
        BY <1>1, <3>1 DEF Says, ClientRows
      <4> QED
        BY <1>1, <1>2, <3>1, <4>1, OtherStands
    <3> QED
      BY <1>1, <1>2, <3>1, <3>2, <3>3 DEF ClientInv, ClientTypes
  <2>3. CASE done
    <3>1. /\ record' = C!NoRecord
          /\ truth' = [c \in Callers |-> IF C!WaitOn(c) /\ callers[c].asked = "deleted"
                                           THEN [truth[c] EXCEPT !.true = TRUE] ELSE truth[c]]
      BY <1>9, <2>3 DEF C!DeleteEnds, C!ComesTrue
    <3>2. record' \in ClientRows /\ RowIsSound'
      BY <1>1, <1>2, <3>1 DEF ClientRows, RowIsSound, C!NoRecord
    <3>3. truth' \in [Callers -> Truths]
      BY <1>1, <3>1 DEF Truths
    <3>4. ASSUME NEW d \in Callers PROVE CallerStands(callers[d], truth[d])'
      <4>1. (truth[d].true => truth'[d].true) /\ truth'[d].overtaken = truth[d].overtaken
        BY <1>1, <3>1 DEF Truths
      <4>2. C!WaitOn(d) /\ callers[d].asked = "deleted" => truth'[d].true
        BY <1>1, <3>1 DEF Truths
      <4>3. CASE callers[d].at \in {"read", "state", "verdict"}
        <5>1. Says(record, callers[d], truth'[d])
          BY <1>1, <4>1, <4>3, SaysStill
        <5>2. callers[d].born # 0
          BY <4>3 DEF ClientInv, CallerStands, CallIsSound
        <5>3. Says(record', callers[d], truth'[d])
          BY <2>1, <3>1, <4>2, <5>1, <5>2 DEF Says, C!WaitOn, C!NoRecord
        <5> QED
          BY <1>1, <1>2, <4>1, <5>3, OtherStands
      <4> QED
        BY <1>1, <1>2, <4>1, <4>3, OtherStands
    <3> QED
      BY <1>1, <1>2, <3>2, <3>3, <3>4 DEF ClientInv, ClientTypes
  <2> QED
    BY <2>2, <2>3
<1> QED
  BY <1>4, <1>5, <1>6, <1>7, <1>8, <1>9

\* A step of a call that changes nothing but the call.
LEMMA CallerMoves ==
  ASSUME ClientInv, NEW c \in Callers, callers' = [callers EXCEPT ![c] = callers'[c]],
         callers'[c] \in ClientCalls, UNCHANGED <<record, truth, births>>, CallerStands(callers'[c], truth[c])
  PROVE  ClientInv'
<1>1. ClientTypes'
  BY DEF ClientInv, ClientTypes
<1>2. ASSUME NEW d \in Callers PROVE CallerStands(callers[d], truth[d])'
  <2>1. CallerStands(callers'[d], truth[d])
    BY DEF ClientInv, ClientTypes
  <2> QED
    BY <2>1 DEF CallerStands, CallIsSound
<1> QED
  BY <1>1, <1>2 DEF ClientInv, RowIsSound

\* A step of a call that overtakes those that wait on the row as it was.
Overtaking(c) ==
  /\ callers' = [callers EXCEPT ![c] = callers'[c]] /\ callers'[c] \in ClientCalls
  /\ truth'[c] \in Truths /\ truth' = [C!Overtakes(c) EXCEPT ![c] = truth'[c]]
  /\ record' \in ClientRows /\ births' \in Nat \ {0} /\ births <= births'
  /\ RowIsSound' /\ record'.phase # "settled"
  /\ (record.desired = "deleted" => record'.born = record.born /\ record'.desired = "deleted")
  /\ CallerStands(callers[c], truth[c])'

LEMMA CallerOvertakes ==
  ASSUME ClientInv, NEW c \in Callers, Overtaking(c)
  PROVE  ClientInv'
<1>1. /\ callers \in [Callers -> ClientCalls] /\ truth \in [Callers -> Truths] /\ births \in Nat
      /\ \A d \in Callers : callers[d].at \in {"read", "state", "verdict"} => Says(record, callers[d], truth[d])
  BY DEF ClientInv, ClientTypes, CallerStands
<1>2. C!Overtakes(c) \in [Callers -> Truths]
  BY <1>1 DEF C!Overtakes, Truths
<1>3. truth' \in [Callers -> Truths] /\ \A d \in Callers \ {c} : truth'[d] = C!Overtakes(c)[d]
  BY <1>2 DEF Overtaking
<1>4. ASSUME NEW d \in Callers, d # c PROVE CallerStands(callers[d], truth[d])'
  <2>1. /\ truth'[d].true = truth[d].true
        /\ (truth[d].overtaken => truth'[d].overtaken)
        /\ (C!WaitOn(d) => truth'[d].overtaken)
    BY <1>1, <1>3, <1>4 DEF C!Overtakes, Truths
  <2>2. callers'[d] = callers[d] /\ births' \in Nat /\ births <= births'
    BY <1>1, <1>4 DEF Overtaking
  <2>3. CASE callers[d].at \in {"read", "state", "verdict"}
    <3>1. Says(record, callers[d], truth'[d])
      BY <1>1, <2>1, <2>3, SaysStill
    <3>2. callers[d].born # 0
      BY <2>3 DEF ClientInv, CallerStands, CallIsSound
    <3>3. ASSUME callers[d].asked \in {"running", "stopped", "resize"}, ~ truth'[d].overtaken
          PROVE  FALSE
      BY <2>1, <3>1, <3>2, <3>3 DEF Says, C!WaitOn
    <3>4. ASSUME callers[d].asked = "deleted", record'.born # callers[d].born \/ record'.desired # "deleted"
          PROVE  truth'[d].true
      BY <3>1, <3>4 DEF Says, Overtaking
    <3>5. Says(record', callers[d], truth'[d])
      BY <3>3, <3>4 DEF Says, Overtaking
    <3> QED
      BY <1>1, <1>4, <2>1, <2>2, <3>5, OtherStands
  <2> QED
    BY <1>1, <1>4, <2>1, <2>2, <2>3, OtherStands
<1>5. ClientTypes'
  BY <1>1, <1>3 DEF ClientTypes, Overtaking
<1> QED
  BY <1>4, <1>5 DEF ClientInv, Overtaking

LEMMA CallerBegins ==
  ASSUME ClientInv, NEW c \in Callers,
         NEW asked \in {"running", "stopped", "create", "resize", "deleted", "ensure"}, C!Calls(c, asked)
  PROVE  ClientInv'
<1>1. /\ callers \in [Callers -> ClientCalls] /\ truth \in [Callers -> Truths] /\ births \in Nat \ {0}
      /\ UNCHANGED <<record, births>> /\ truth' = [truth EXCEPT ![c] = C!Untouched]
  BY DEF ClientInv, ClientTypes, C!Calls
<1>2. /\ callers' = [callers EXCEPT ![c] = callers'[c]] /\ callers'[c] \in ClientCalls
      /\ callers'[c].asked = asked /\ callers'[c].again = (asked = "ensure") /\ callers'[c].answer = "none"
      /\ callers'[c].at = (IF asked = "ensure" THEN "look" ELSE "ask") /\ callers'[c].born = 0
  BY <1>1 DEF C!Calls, C!Becomes, C!NoCall, C!NoRecord, ClientCalls, ClientRows
<1>3. CallerStands(callers[c], truth[c])'
  <2>1. births' \in Nat /\ 0 < births'
    BY <1>1
  <2>2. CallIsSound(callers[c])'
    BY <1>2, <2>1 DEF CallIsSound
  <2> QED
    BY <1>2, <2>2 DEF CallerStands
<1>4. truth' \in [Callers -> Truths] /\ \A d \in Callers \ {c} : truth'[d] = truth[d]
  BY <1>1 DEF C!Untouched, Truths
<1>5. ASSUME NEW d \in Callers, d # c PROVE CallerStands(callers[d], truth[d])'
  <2>1. callers'[d] = callers[d]
    BY <1>1, <1>2, <1>5
  <2> QED
    BY <1>1, <1>4, <1>5, <2>1, OtherStands DEF ClientInv, CallerStands
<1>6. ClientTypes' /\ RowIsSound'
  BY <1>1, <1>2, <1>4 DEF ClientInv, ClientTypes, RowIsSound
<1>7. ASSUME NEW d \in Callers PROVE CallerStands(callers[d], truth[d])'
  <2>1. CASE d = c
    BY <1>3, <2>1
  <2> QED
    BY <1>5, <2>1
<1> QED
  BY <1>6, <1>7 DEF ClientInv

\* An answer that is neither, says nothing.
LEMMA AnswerSound ==
  ASSUME ClientInv, NEW answer \in {"ok", "failed", "missing", "superseded", "unavailable", "refused", "conflict", "absent"}
  PROVE  /\ C!Answer(answer) \in ClientCalls /\ C!Answer(answer).answer = answer
         /\ C!Answer(answer).at = "answered" /\ C!Answer(answer).born = 0
         /\ \A t : (answer = "ok" => t.true) /\ (answer = "superseded" => t.overtaken) => CallerStands(C!Answer(answer), t)
<1>1. /\ C!Answer(answer) \in ClientCalls /\ C!Answer(answer).answer = answer
      /\ C!Answer(answer).at = "answered" /\ C!Answer(answer).born = 0
  BY DEF C!Answer, C!NoCall, C!NoRecord, ClientCalls, ClientRows
<1> QED
  BY <1>1 DEF CallerStands, CallIsSound, ClientInv, ClientTypes

LEMMA CallerAsks ==
  ASSUME ClientInv, NEW c \in Callers, NEW lost \in BOOLEAN, C!Asks(c, lost)
  PROVE  ClientInv'
<1> DEFINE call == callers[c]
<1>1. /\ callers \in [Callers -> ClientCalls] /\ truth \in [Callers -> Truths] /\ births \in Nat \ {0}
      /\ record \in ClientRows /\ RowIsSound /\ UNCHANGED births
      /\ callers[c] \in ClientCalls /\ callers[c].at = "ask" /\ callers[c].asked \in {"running", "stopped", "resize"}
      /\ CallIsSound(callers[c]) /\ callers[c].answer = "none"
  BY DEF ClientInv, ClientTypes, CallerStands, CallIsSound, C!Asks, C!Server, C!Wishes, ClientCalls
<1>2. CASE record.stage \in {"none", "undoing", "undone"}
  <2>1. /\ callers' = [callers EXCEPT ![c] = C!Answer("refused")] /\ UNCHANGED <<record, truth>>
    BY <1>2 DEF C!Asks, C!Becomes
  <2>2. callers' = [callers EXCEPT ![c] = callers'[c]] /\ callers'[c] \in ClientCalls /\ CallerStands(callers'[c], truth[c])
    BY <1>1, <2>1, AnswerSound
  <2> QED
    BY <1>1, <2>1, <2>2, CallerMoves
<1>3. CASE record.stage \notin {"none", "undoing", "undone"}
  <2>1. /\ record' = IF C!Deleting THEN record ELSE C!WithWish(callers[c].asked)
        /\ truth' = [C!Overtakes(c) EXCEPT ![c] = [C!Untouched EXCEPT !.overtaken = C!Deleting]]
        /\ callers' = [callers EXCEPT ![c] = IF lost THEN C!Answer("unavailable")
                                             ELSE IF C!Deleting THEN C!Answer("superseded")
                                             ELSE [callers[c] EXCEPT !.at = "read", !.born = record.born]]
    BY <1>3 DEF C!Asks, C!Becomes
  <2> DEFINE t == [C!Untouched EXCEPT !.overtaken = C!Deleting]
  <2>2. t \in Truths /\ t.overtaken = C!Deleting
    BY DEF C!Untouched, Truths, C!Deleting
  <2>3. C!Overtakes(c) \in [Callers -> Truths]
    BY <1>1 DEF C!Overtakes, Truths
  <2>4. truth' = [C!Overtakes(c) EXCEPT ![c] = t] /\ truth'[c] = t
    BY <2>1, <2>3
  <2> HIDE DEF t
  <2>5. CASE C!Deleting
    <3>1. record' = record /\ record.stage = "deleting" /\ record.phase # "settled" /\ RowIsSound'
      BY <1>1, <2>1, <2>5 DEF C!Deleting, RowIsSound
    <3>2. PICK answer \in {"unavailable", "superseded"} : callers' = [callers EXCEPT ![c] = C!Answer(answer)]
      BY <2>1, <2>5
    <3>3. callers' = [callers EXCEPT ![c] = callers'[c]] /\ callers'[c] = C!Answer(answer)
      BY <1>1, <3>2
    <3>4. /\ callers'[c] \in ClientCalls /\ callers'[c].answer = answer
          /\ callers'[c].at = "answered" /\ callers'[c].born = 0
      BY <3>3, AnswerSound
    <3>5. CallerStands(callers[c], truth[c])'
      <4>1. 0 < births'
        BY <1>1
      <4>2. CallIsSound(callers[c])'
        BY <3>4, <4>1 DEF CallIsSound
      <4> QED
        BY <2>2, <2>4, <2>5, <3>4, <4>2 DEF CallerStands
    <3> QED
      <4>1. Overtaking(c)
        <5>1. births' \in Nat \ {0} /\ births <= births'
          BY <1>1
        <5>2. truth'[c] \in Truths /\ truth' = [C!Overtakes(c) EXCEPT ![c] = truth'[c]]
          BY <2>2, <2>4
        <5>3. /\ record' \in ClientRows /\ RowIsSound' /\ record'.phase # "settled"
              /\ (record.desired = "deleted" => record'.born = record.born /\ record'.desired = "deleted")
          BY <1>1, <3>1
        <5> QED
          BY <5>1, <5>2, <5>3, <3>3, <3>4, <3>5 DEF Overtaking
      <4> QED
        BY <4>1, CallerOvertakes
  <2>6. CASE ~ C!Deleting
    <3>1. /\ record' = C!WithWish(callers[c].asked) /\ record.stage \in {"making", "made"} /\ record.desired # "deleted"
      BY <1>1, <1>3, <2>1, <2>6 DEF C!Deleting, RowIsSound, ClientRows
    <3>2. /\ record' \in ClientRows /\ record'.born = record.born /\ record'.phase # "settled"
          /\ record'.stage = record.stage /\ record'.desired # "deleted"
          /\ callers[c].asked # "resize" => record'.desired = callers[c].asked
      BY <1>1, <3>1 DEF C!WithWish, ClientRows, RowIsSound
    <3>3. record.born # 0 /\ RowIsSound'
      BY <1>1, <3>1, <3>2 DEF RowIsSound
    <3>4. /\ callers' = [callers EXCEPT ![c] = callers'[c]]
          /\ \/ callers'[c] = C!Answer("unavailable")
             \/ callers'[c] = [callers[c] EXCEPT !.at = "read", !.born = record.born]
      BY <1>1, <2>1, <2>6
    <3>5. callers'[c] \in ClientCalls /\ CallerStands(callers[c], truth[c])'
      <4>1. CASE callers'[c] = C!Answer("unavailable")
        BY <1>1, <4>1, AnswerSound DEF CallerStands, CallIsSound
      <4>2. CASE callers'[c] = [callers[c] EXCEPT !.at = "read", !.born = record.born]
        <5>1. /\ callers'[c] \in ClientCalls /\ callers'[c].at = "read" /\ callers'[c].born = record.born
              /\ callers'[c].asked = callers[c].asked /\ callers'[c].answer = "none"
          BY <1>1, <4>2 DEF ClientCalls, ClientRows
        <5>2. record.born < births' /\ record.born # 0
          BY <1>1, <3>3 DEF RowIsSound
        <5>3. CallIsSound(callers[c])'
          BY <1>1, <5>1, <5>2 DEF CallIsSound
        <5>4. Says(record, callers[c], truth[c])'
          BY <1>1, <3>2, <5>1 DEF Says
        <5> QED
          BY <5>1, <5>3, <5>4 DEF CallerStands
      <4> QED
        BY <3>4, <4>1, <4>2
    <3> QED
      <4>1. Overtaking(c)
        <5>1. births' \in Nat \ {0} /\ births <= births'
          BY <1>1
        <5>2. truth'[c] \in Truths /\ truth' = [C!Overtakes(c) EXCEPT ![c] = truth'[c]]
          BY <2>2, <2>4
        <5>3. /\ record' \in ClientRows /\ RowIsSound' /\ record'.phase # "settled"
              /\ (record.desired = "deleted" => record'.born = record.born /\ record'.desired = "deleted")
          BY <1>1, <3>1, <3>2, <3>3
        <5> QED
          BY <5>1, <5>2, <5>3, <3>4, <3>5 DEF Overtaking
      <4> QED
        BY <4>1, CallerOvertakes
  <2> QED
    BY <2>5, <2>6
<1> QED
  BY <1>2, <1>3


LEMMA NoCallSound ==
  C!NoRecord \in ClientRows /\ C!NoCall \in ClientCalls
BY DEF C!NoRecord, C!NoCall, ClientRows, ClientCalls

LEMMA CallerCreates ==
  ASSUME ClientInv, NEW c \in Callers, NEW lost \in BOOLEAN, C!Creates(c, lost)
  PROVE  ClientInv'
<1>1. /\ callers \in [Callers -> ClientCalls] /\ truth \in [Callers -> Truths] /\ births \in Nat \ {0}
      /\ record \in ClientRows /\ RowIsSound
      /\ callers[c] \in ClientCalls /\ CallIsSound(callers[c])
      /\ (callers[c].at = "make" \/ (callers[c].at = "ask" /\ callers[c].asked = "create"))
      /\ callers[c].answer = "none"
  BY DEF ClientInv, ClientTypes, CallerStands, CallIsSound, C!Creates, C!Makes, ClientCalls
<1>2. ASSUME callers'[c] \in {C!MakeUnheard(callers[c]), C!MakeRefused(callers[c])}
      PROVE  /\ callers'[c] \in ClientCalls /\ callers'[c].at \notin {"read", "state", "verdict"}
             /\ callers'[c].answer \notin {"ok", "superseded"}
             /\ (births' \in {births, births + 1} => CallIsSound(callers[c])')
  <2>1. CASE callers[c].again
    <3>1. /\ callers'[c] \in ClientCalls /\ callers'[c].at \in {"look", "remove"} /\ callers'[c].asked = "ensure"
          /\ callers'[c].answer = "none" /\ callers'[c].born = callers[c].born
      BY <1>1, <1>2, <2>1 DEF C!MakeUnheard, C!MakeRefused, ClientCalls, CallIsSound
    <3>2. ASSUME births' \in {births, births + 1} PROVE callers[c].born < births'
      BY <1>1, <3>2 DEF CallIsSound, ClientCalls
    <3> QED
      BY <3>1, <3>2 DEF CallIsSound
  <2>2. CASE ~ callers[c].again
    <3>1. PICK answer \in {"unavailable", "conflict"} : callers'[c] = C!Answer(answer)
      BY <1>2, <2>2 DEF C!MakeUnheard, C!MakeRefused
    <3>2. /\ callers'[c] \in ClientCalls /\ callers'[c].answer = answer
          /\ callers'[c].at = "answered" /\ callers'[c].born = 0
      BY <3>1, AnswerSound
    <3>3. ASSUME births' \in {births, births + 1} PROVE 0 < births'
      BY <1>1, <3>3
    <3> QED
      BY <3>2, <3>3 DEF CallIsSound
  <2> QED
    BY <2>1, <2>2
<1>3. CASE record.stage \notin {"none", "undone"}
  <2>1. /\ UNCHANGED <<record, births, truth>>
        /\ callers' = [callers EXCEPT ![c] = IF lost THEN C!MakeUnheard(callers[c]) ELSE C!MakeRefused(callers[c])]
    BY <1>3 DEF C!Creates, C!Becomes
  <2>2. callers' = [callers EXCEPT ![c] = callers'[c]] /\ callers'[c] \in {C!MakeUnheard(callers[c]), C!MakeRefused(callers[c])}
    BY <1>1, <2>1
  <2>3. callers'[c] \in ClientCalls /\ CallerStands(callers'[c], truth[c])
    BY <1>2, <2>1, <2>2 DEF CallerStands, CallIsSound
  <2> QED
    BY <2>1, <2>2, <2>3, CallerMoves
<1>4. CASE record.stage \in {"none", "undone"}
  <2>1. /\ record' = C!Created /\ births' = births + 1
        /\ truth' = [C!Overtakes(c) EXCEPT ![c] = C!Untouched]
        /\ callers' = [callers EXCEPT ![c] = IF lost THEN C!MakeUnheard(callers[c])
                           ELSE [callers[c] EXCEPT !.asked = "running", !.at = "read", !.born = births]]
    BY <1>4 DEF C!Creates, C!Becomes
  <2>2. C!Overtakes(c) \in [Callers -> Truths] /\ C!Untouched \in Truths
    BY <1>1 DEF C!Overtakes, Truths, C!Untouched
  <2>3. truth'[c] \in Truths /\ truth' = [C!Overtakes(c) EXCEPT ![c] = truth'[c]]
    BY <2>1, <2>2
  <2>4. births' \in Nat \ {0} /\ births <= births' /\ births < births'
    BY <1>1, <2>1
  <2>5. /\ record' \in ClientRows /\ record'.born = births /\ record'.stage = "making"
        /\ record'.desired = "running" /\ record'.phase = "creating"
    BY <1>1, <2>1 DEF C!Created, ClientRows
  <2>6. RowIsSound' /\ record.desired # "deleted"
    BY <1>1, <1>4, <2>4, <2>5 DEF RowIsSound
  <2>7. /\ callers' = [callers EXCEPT ![c] = callers'[c]]
        /\ \/ callers'[c] = C!MakeUnheard(callers[c])
           \/ callers'[c] = [callers[c] EXCEPT !.asked = "running", !.at = "read", !.born = births]
    BY <1>1, <2>1
  <2>8. callers'[c] \in ClientCalls /\ CallerStands(callers[c], truth[c])'
    <3>1. CASE callers'[c] = C!MakeUnheard(callers[c])
      BY <1>2, <2>1, <3>1 DEF CallerStands
    <3>2. CASE callers'[c] = [callers[c] EXCEPT !.asked = "running", !.at = "read", !.born = births]
      <4>1. /\ callers'[c] \in ClientCalls /\ callers'[c].at = "read" /\ callers'[c].born = births
            /\ callers'[c].asked = "running" /\ callers'[c].answer = "none"
        BY <1>1, <3>2 DEF ClientCalls
      <4>2. CallIsSound(callers[c])'
        BY <1>1, <2>4, <4>1 DEF CallIsSound
      <4>3. Says(record, callers[c], truth[c])'
        BY <2>5, <4>1 DEF Says
      <4> QED
        BY <4>1, <4>2, <4>3 DEF CallerStands
    <3> QED
      BY <2>7, <3>1, <3>2
  <2>9. Overtaking(c)
    BY <2>3, <2>4, <2>5, <2>6, <2>7, <2>8 DEF Overtaking
  <2> QED
    BY <2>9, CallerOvertakes
<1> QED
  BY <1>3, <1>4

LEMMA CallerDeletes ==
  ASSUME ClientInv, NEW c \in Callers, C!Deletes(c)
  PROVE  ClientInv'
<1>1. /\ callers \in [Callers -> ClientCalls] /\ truth \in [Callers -> Truths] /\ births \in Nat \ {0}
      /\ record \in ClientRows /\ RowIsSound /\ UNCHANGED births
      /\ callers[c] \in ClientCalls /\ CallIsSound(callers[c]) /\ callers[c].at \in {"ask", "remove"}
      /\ callers[c].asked = (IF callers[c].at = "remove" THEN "ensure" ELSE "deleted")
      /\ callers[c].answer = "none"
  BY DEF ClientInv, ClientTypes, CallerStands, CallIsSound, C!Deletes, C!Server, ClientCalls
<1>2. CASE record = C!NoRecord
  <2>1. /\ UNCHANGED <<record, births, truth>>
        /\ callers' = [callers EXCEPT ![c] = IF callers[c].at = "remove" THEN [callers[c] EXCEPT !.at = "look", !.again = FALSE]
                                             ELSE C!Answer("absent")]
    BY <1>2 DEF C!Deletes, C!Becomes, C!Server
  <2>2. callers' = [callers EXCEPT ![c] = callers'[c]]
    BY <1>1, <2>1
  <2>3. callers'[c] \in ClientCalls /\ CallerStands(callers'[c], truth[c])
    <3>1. CASE callers[c].at = "remove"
      <4>1. callers'[c] = [callers[c] EXCEPT !.at = "look", !.again = FALSE]
        BY <1>1, <2>1, <3>1
      <4> QED
        BY <1>1, <3>1, <4>1 DEF CallerStands, CallIsSound, ClientCalls
    <3>2. CASE callers[c].at # "remove"
      <4>1. callers'[c] = C!Answer("absent")
        BY <1>1, <2>1, <3>2
      <4> QED
        BY <4>1, AnswerSound
    <3> QED
      BY <3>1, <3>2
  <2> QED
    BY <2>1, <2>2, <2>3, CallerMoves
<1>3. CASE record # C!NoRecord
  <2>1. /\ C!Delete
        /\ truth' = [C!Overtakes(c) EXCEPT ![c] = [C!Untouched EXCEPT !.true = (record.stage = "undone")]]
        /\ callers' = [callers EXCEPT ![c] = [callers[c] EXCEPT !.at = "read", !.born = record.born]]
    BY <1>3 DEF C!Deletes, C!Becomes
  <2>2. /\ C!Overtakes(c) \in [Callers -> Truths]
        /\ [C!Untouched EXCEPT !.true = (record.stage = "undone")] \in Truths
    BY <1>1 DEF C!Overtakes, Truths, C!Untouched
  <2>3. /\ truth'[c] \in Truths /\ truth' = [C!Overtakes(c) EXCEPT ![c] = truth'[c]]
        /\ (record.stage = "undone" => truth'[c].true)
    BY <2>1, <2>2 DEF C!Untouched
  <2>4. births' \in Nat \ {0} /\ births <= births'
    BY <1>1
  <2>5. record.born # 0 /\ record.born < births
    BY <1>1, <1>3 DEF RowIsSound
  <2>6. /\ record' \in ClientRows /\ RowIsSound' /\ record'.phase # "settled"
        /\ (record.stage # "undone" => record'.born = record.born /\ record'.desired = "deleted")
    <3>1. CASE record.stage = "undone"
      BY <1>1, <2>1, <2>4, <3>1 DEF C!Delete, C!NoRecord, ClientRows, RowIsSound
    <3>2. CASE record.stage # "undone"
      BY <1>1, <2>1, <2>5, <3>2 DEF C!Delete, ClientRows, RowIsSound
    <3> QED
      BY <3>1, <3>2
  <2>7. /\ callers' = [callers EXCEPT ![c] = callers'[c]]
        /\ callers'[c] \in ClientCalls /\ callers'[c].at = "read" /\ callers'[c].born = record.born
        /\ callers'[c].asked = callers[c].asked /\ callers'[c].answer = "none"
    BY <1>1, <2>1 DEF ClientCalls, ClientRows
  <2>8. CallerStands(callers[c], truth[c])'
    <3>1. CallIsSound(callers[c])'
      BY <1>1, <2>5, <2>7 DEF CallIsSound
    <3>2. Says(record, callers[c], truth[c])'
      BY <1>1, <2>3, <2>6, <2>7 DEF Says
    <3> QED
      BY <2>7, <3>1, <3>2 DEF CallerStands
  <2>9. record.desired = "deleted" => record'.born = record.born /\ record'.desired = "deleted"
    BY <1>1, <2>6 DEF RowIsSound
  <2>10. Overtaking(c)
    BY <2>3, <2>4, <2>6, <2>7, <2>8, <2>9 DEF Overtaking
  <2> QED
    BY <2>10, CallerOvertakes
<1> QED
  BY <1>2, <1>3

LEMMA CallerLooks ==
  ASSUME ClientInv, NEW c \in Callers,
         \/ C!EnsureLooks(c) \/ C!Reads(c) \/ C!GivesUp(c)
         \/ \E reached \in BOOLEAN : C!ReadsState(c, reached) \/ C!EnsureFinds(c, reached)
  PROVE  ClientInv'
<1>1. /\ callers \in [Callers -> ClientCalls] /\ births \in Nat \ {0} /\ record \in ClientRows
      /\ callers[c] \in ClientCalls /\ CallIsSound(callers[c])
      /\ UNCHANGED <<record, truth, births>>
      /\ (callers[c].at \in {"read", "state", "verdict"} => Says(record, callers[c], truth[c]))
      /\ (callers[c].at \in {"state", "verdict"} => Says(callers[c].got, callers[c], truth[c]))
  BY DEF ClientInv, ClientTypes, CallerStands, C!EnsureLooks, C!EnsureFinds, C!Reads, C!GivesUp, C!ReadsState, C!Server
<1>2. SUFFICES /\ callers' = [callers EXCEPT ![c] = callers'[c]]
               /\ callers'[c] \in ClientCalls /\ CallerStands(callers'[c], truth[c])
  BY <1>1, CallerMoves
<1>3. ASSUME C!EnsureLooks(c) \/ \E reached \in BOOLEAN : C!EnsureFinds(c, reached)
      PROVE  /\ callers' = [callers EXCEPT ![c] = callers'[c]]
             /\ callers'[c] \in ClientCalls /\ CallerStands(callers'[c], truth[c])
  <2>1. PICK call : /\ callers' = [callers EXCEPT ![c] = call]
                    /\ \/ call = [callers[c] EXCEPT !.at = "make"]
                       \/ call = [callers[c] EXCEPT !.at = "found", !.got = record]
                       \/ call = [callers[c] EXCEPT !.at = "make", !.got = C!NoRecord]
                       \/ call = [callers[c] EXCEPT !.at = "ask", !.asked = "running", !.again = FALSE, !.got = C!NoRecord]
    BY <1>3 DEF C!EnsureLooks, C!EnsureFinds, C!Becomes
  <2>2. callers[c].at \in {"look", "found"} /\ callers'[c] = call /\ callers' = [callers EXCEPT ![c] = callers'[c]]
    BY <1>1, <1>3, <2>1 DEF C!EnsureLooks, C!EnsureFinds
  <2>3. /\ call \in ClientCalls /\ call.born = callers[c].born /\ call.answer = callers[c].answer
        /\ \/ call.at \in {"make", "found"} /\ call.asked = callers[c].asked
           \/ call.at = "ask" /\ call.asked = "running" /\ ~ call.again
    BY <1>1, <2>1, NoCallSound DEF ClientCalls
  <2>4. callers[c].asked = "ensure" /\ callers[c].answer = "none"
    BY <1>1, <2>2 DEF CallIsSound, ClientCalls
  <2> QED
    BY <1>1, <2>2, <2>3, <2>4 DEF CallerStands, CallIsSound
<1>4. CASE C!Reads(c)
  <2>1. callers[c].at = "read" /\ callers' = [callers EXCEPT ![c] = [callers[c] EXCEPT !.at = "state", !.got = record]]
    BY <1>4 DEF C!Reads, C!Becomes
  <2>2. /\ callers' = [callers EXCEPT ![c] = callers'[c]]
        /\ callers'[c] = [callers[c] EXCEPT !.at = "state", !.got = record]
    BY <1>1, <2>1
  <2>3. /\ callers'[c] \in ClientCalls /\ callers'[c].at = "state" /\ callers'[c].got = record
        /\ callers'[c].asked = callers[c].asked /\ callers'[c].born = callers[c].born
        /\ callers'[c].answer = callers[c].answer
    BY <1>1, <2>2 DEF ClientCalls
  <2>4. Says(record, callers'[c], truth[c])
    BY <1>1, <2>1, <2>3 DEF Says
  <2> QED
    BY <1>1, <2>1, <2>2, <2>3, <2>4 DEF CallerStands, CallIsSound
<1>5. ASSUME NEW reached \in BOOLEAN, C!ReadsState(c, reached)
      PROVE  /\ callers' = [callers EXCEPT ![c] = callers'[c]]
             /\ callers'[c] \in ClientCalls /\ CallerStands(callers'[c], truth[c])
  <2>1. /\ callers[c].at = "state"
        /\ callers' = [callers EXCEPT ![c] = [callers[c] EXCEPT !.at = "verdict",
              !.got.phase = IF reached \/ @ \in {"none", "failed"} THEN @ ELSE "waiting"]]
    BY <1>5 DEF C!ReadsState, C!Becomes
  <2>2. /\ callers' = [callers EXCEPT ![c] = callers'[c]]
        /\ callers'[c] = [callers[c] EXCEPT !.at = "verdict",
              !.got.phase = IF reached \/ @ \in {"none", "failed"} THEN @ ELSE "waiting"]
    BY <1>1, <2>1
  <2>3. /\ callers'[c] \in ClientCalls /\ callers'[c].at = "verdict"
        /\ callers'[c].got.born = callers[c].got.born /\ callers'[c].got.desired = callers[c].got.desired
        /\ callers'[c].got.phase \in {callers[c].got.phase, "waiting"}
        /\ callers'[c].asked = callers[c].asked /\ callers'[c].born = callers[c].born
        /\ callers'[c].answer = callers[c].answer
    <3>1. callers[c].got \in ClientRows
      BY <1>1 DEF ClientCalls
    <3>2. PICK phase \in {callers[c].got.phase, "waiting"} :
            callers'[c] = [callers[c] EXCEPT !.at = "verdict", !.got = [callers[c].got EXCEPT !.phase = phase]]
      BY <2>2, <3>1
    <3>3. /\ [callers[c].got EXCEPT !.phase = phase] \in ClientRows
          /\ [callers[c].got EXCEPT !.phase = phase].born = callers[c].got.born
          /\ [callers[c].got EXCEPT !.phase = phase].desired = callers[c].got.desired
          /\ [callers[c].got EXCEPT !.phase = phase].phase = phase
      BY <3>1 DEF ClientRows
    <3>4. callers'[c].got = [callers[c].got EXCEPT !.phase = phase]
      BY <1>1, <3>2 DEF ClientCalls
    <3>5. /\ callers'[c] \in ClientCalls /\ callers'[c].at = "verdict"
          /\ callers'[c].asked = callers[c].asked /\ callers'[c].born = callers[c].born
          /\ callers'[c].answer = callers[c].answer
      BY <1>1, <3>2, <3>3 DEF ClientCalls
    <3> QED
      BY <3>3, <3>4, <3>5
  <2>4. Says(record, callers'[c], truth[c]) /\ Says(callers'[c].got, callers'[c], truth[c])
    BY <1>1, <2>1, <2>3 DEF Says
  <2> QED
    BY <1>1, <2>1, <2>2, <2>3, <2>4 DEF CallerStands, CallIsSound
<1>6. CASE C!GivesUp(c)
  <2>1. callers' = [callers EXCEPT ![c] = IF callers[c].again /\ callers[c].asked = "running"
                THEN [C!NoCall EXCEPT !.asked = "ensure", !.at = "look"]
                ELSE C!Answer("unavailable")]
    BY <1>6 DEF C!GivesUp, C!Becomes
  <2>2. callers' = [callers EXCEPT ![c] = callers'[c]]
    BY <1>1, <2>1
  <2>3. CASE callers'[c] = [C!NoCall EXCEPT !.asked = "ensure", !.at = "look"]
    <3>1. /\ callers'[c] \in ClientCalls /\ callers'[c].at = "look" /\ callers'[c].asked = "ensure"
          /\ callers'[c].born = 0 /\ callers'[c].answer = "none"
      <4>1. C!NoCall \in ClientCalls /\ C!NoCall.born = 0 /\ C!NoCall.answer = "none"
        BY NoCallSound DEF C!NoCall
      <4> QED
        BY <2>3, <4>1 DEF ClientCalls
    <3> QED
      BY <1>1, <2>2, <3>1 DEF CallerStands, CallIsSound
  <2>4. CASE callers'[c] = C!Answer("unavailable")
    BY <2>2, <2>4, AnswerSound
  <2> QED
    BY <1>1, <2>1, <2>3, <2>4
<1> QED
  BY <1>3, <1>4, <1>5, <1>6

LEMMA CallerAnswers ==
  ASSUME ClientInv, NEW c \in Callers, C!Verdicts(c)
  PROVE  ClientInv'
<1> DEFINE call == callers[c]
<1>1. /\ callers \in [Callers -> ClientCalls] /\ births \in Nat \ {0}
      /\ call \in ClientCalls /\ CallIsSound(call) /\ call.at = "verdict"
      /\ UNCHANGED <<record, truth, births>>
      /\ Says(record, call, truth[c]) /\ Says(call.got, call, truth[c])
  BY DEF ClientInv, ClientTypes, CallerStands, C!Verdicts, C!Server
<1>2. callers' = [callers EXCEPT ![c] = IF C!Awaited(call) = "deleted" THEN C!GoneVerdict(call) ELSE C!RestVerdict(call)]
  BY DEF C!Verdicts, C!Becomes
<1>3. callers' = [callers EXCEPT ![c] = callers'[c]]
  BY <1>1, <1>2
<1>4. callers'[c] = C!Again(call) => callers'[c] \in ClientCalls /\ CallerStands(callers'[c], truth[c])
  <2> SUFFICES ASSUME callers'[c] = C!Again(call) PROVE callers'[c] \in ClientCalls /\ CallerStands(callers'[c], truth[c])
    OBVIOUS
  <2>1. /\ callers'[c] \in ClientCalls /\ callers'[c].at = "read" /\ callers'[c].asked = call.asked
        /\ callers'[c].born = call.born /\ callers'[c].answer = call.answer
    BY <1>1, NoCallSound DEF C!Again, ClientCalls
  <2>2. Says(record, callers'[c], truth[c])
    BY <1>1, <2>1 DEF Says
  <2> QED
    BY <1>1, <2>1, <2>2 DEF CallerStands, CallIsSound
<1>5. callers'[c] \in ClientCalls /\ CallerStands(callers'[c], truth[c])
  <2>1. CASE C!Awaited(call) = "deleted"
    <3>1. callers'[c] = C!GoneVerdict(call) /\ call.asked \in {"ensure", "deleted"}
      BY <1>1, <1>2, <2>1 DEF C!Awaited
    <3>2. CASE call.got.desired # "deleted" /\ call.asked = "ensure"
      <4>1. callers'[c] = [call EXCEPT !.at = "look", !.again = FALSE, !.born = 0, !.got = C!NoRecord]
        BY <3>1, <3>2 DEF C!GoneVerdict
      <4>2. /\ callers'[c] \in ClientCalls /\ callers'[c].at = "look" /\ callers'[c].asked = call.asked
            /\ callers'[c].born = 0 /\ callers'[c].answer = call.answer
        <5>1. callers'[c] = [asked |-> call.asked, at |-> "look", born |-> 0, got |-> C!NoRecord,
                             again |-> FALSE, answer |-> call.answer]
          BY <1>1, <4>1 DEF ClientCalls
        <5> QED
          BY <1>1, <5>1, NoCallSound DEF ClientCalls
      <4> QED
        BY <1>1, <3>2, <4>2 DEF CallerStands, CallIsSound
    <3>3. CASE call.got.desired # "deleted" /\ call.asked # "ensure"
      <4>1. callers'[c] = C!Answer("ok")
        BY <3>1, <3>3 DEF C!GoneVerdict
      <4>2. truth[c].true
        BY <1>1, <3>1, <3>3 DEF Says
      <4> QED
        BY <4>1, <4>2, AnswerSound
    <3>4. CASE call.got.desired = "deleted" /\ call.got.phase = "failed"
      <4>1. callers'[c] = C!Answer("failed")
        BY <3>1, <3>4 DEF C!GoneVerdict
      <4> QED
        BY <4>1, AnswerSound
    <3>5. CASE call.got.desired = "deleted" /\ call.got.phase # "failed"
      <4>1. callers'[c] = C!Again(call)
        BY <3>1, <3>5 DEF C!GoneVerdict
      <4> QED
        BY <1>4, <4>1
    <3> QED
      BY <3>2, <3>3, <3>4, <3>5
  <2>2. CASE C!Awaited(call) # "deleted"
    <3>1. callers'[c] = C!RestVerdict(call) /\ call.asked \in {"running", "stopped", "resize"}
      BY <1>1, <1>2, <2>2 DEF C!Awaited, CallIsSound
    <3>2. CASE call.got.born # call.born
      <4>1. callers'[c] = C!Answer("superseded")
        BY <3>1, <3>2 DEF C!RestVerdict, C!OwnRead
      <4>2. truth[c].overtaken
        BY <1>1, <3>1, <3>2 DEF Says
      <4> QED
        BY <4>1, <4>2, AnswerSound
    <3>3. CASE call.got.born = call.born /\ call.got.phase \in C!Resting
      <4>1. callers'[c] = C!Answer(C!AnswerOf(call))
        BY <3>1, <3>3 DEF C!RestVerdict, C!OwnRead
      <4>2. /\ C!AnswerOf(call) \in {"superseded", "failed", "missing", "ok"}
            /\ (C!AnswerOf(call) = "superseded" =>
                  call.asked \notin {"resize", call.got.desired} \/ (call.asked = "resize" /\ call.got.desired = "deleted"))
            /\ (C!AnswerOf(call) = "ok" =>
                  call.asked \in {"resize", call.got.desired} /\ call.got.phase \notin {"failed", "lost"})
        BY DEF C!AnswerOf
      <4>3. /\ (C!AnswerOf(call) = "ok" => truth[c].true)
            /\ (C!AnswerOf(call) = "superseded" => truth[c].overtaken)
        BY <1>1, <3>1, <3>3, <4>2 DEF Says, C!Resting
      <4> QED
        BY <4>1, <4>2, <4>3, AnswerSound
    <3>4. CASE call.got.born = call.born /\ call.got.phase \notin C!Resting
      <4>1. callers'[c] = C!Again(call)
        BY <3>1, <3>4 DEF C!RestVerdict, C!OwnRead
      <4> QED
        BY <1>4, <4>1
    <3> QED
      BY <3>2, <3>3, <3>4
  <2> QED
    BY <2>1, <2>2
<1> QED
  BY <1>1, <1>3, <1>5, CallerMoves

LEMMA ClientBegins ==
  C!ClientInit => ClientInv
<1> SUFFICES ASSUME C!ClientInit PROVE ClientInv
  OBVIOUS
<1>1. /\ record = C!NoRecord /\ births = 1
      /\ callers = [c \in Callers |-> C!NoCall] /\ truth = [c \in Callers |-> C!Untouched]
  BY DEF C!ClientInit
<1>2. C!NoRecord \in ClientRows /\ C!NoCall \in ClientCalls /\ C!Untouched \in Truths
  BY DEF C!NoRecord, C!NoCall, C!Untouched, ClientRows, ClientCalls, Truths
<1>3. ClientTypes /\ RowIsSound
  BY <1>1, <1>2 DEF ClientTypes, RowIsSound, C!NoRecord
<1>4. ASSUME NEW c \in Callers PROVE CallerStands(callers[c], truth[c])
  BY <1>1 DEF CallerStands, CallIsSound, C!NoCall
<1> QED
  BY <1>3, <1>4 DEF ClientInv

LEMMA ClientStep ==
  ASSUME ClientInv, C!ClientNext
  PROVE  ClientInv'
<1>1. ASSUME NEW c \in Callers,
             \/ \E asked \in C!Wishes \cup {"create", "resize", "deleted", "ensure"} : C!Calls(c, asked)
             \/ \E lost \in BOOLEAN : C!Asks(c, lost) \/ C!Creates(c, lost)
             \/ C!Deletes(c) \/ C!EnsureLooks(c)
             \/ C!Reads(c) \/ \E reached \in BOOLEAN : C!ReadsState(c, reached) \/ C!EnsureFinds(c, reached)
             \/ C!Verdicts(c) \/ C!GivesUp(c)
      PROVE  ClientInv'
  BY <1>1, CallerBegins, CallerAsks, CallerCreates, CallerDeletes, CallerLooks, CallerAnswers DEF C!Wishes
<1> QED
  BY <1>1, LoopStands DEF C!ClientNext

\* Whatever a client is answered is of the machine it asked for and of what came after: to be told
\* that it is done says that it was, and to be told another overtook it says that one did, however
\* the name was deleted and made anew between its reads (client.ts).
THEOREM AnswersAreOwn == PartsSpec => []AnswersOwn
<1>1. PartsInit => ClientInv
  BY ClientBegins DEF PartsInit
<1>2. ASSUME ClientInv, UNCHANGED clientVars PROVE ClientInv'
  BY <1>2 DEF clientVars, ClientInv, ClientTypes, RowIsSound, CallerStands, CallIsSound
<1>3. ClientInv /\ [PartsNext]_allVars => ClientInv'
  BY <1>2, ClientStep DEF PartsNext, allVars
<1>4. ClientInv => AnswersOwn
  BY DEF ClientInv, CallerStands, AnswersOwn, C!AnswersOwn
<1> QED
  BY <1>1, <1>3, <1>4, PTL DEF PartsSpec, allVars

--------------------------------------------------------------------------------
(* Forwarders. *)

\* Ports are numbers from 1, and a port that is "none"'s is nobody's.
PortNames == Ports \subseteq Nat \ {0} /\ "none" \notin Names

PortRows == [state : {"none", "making", "made", "undoing", "undone", "deleting"}, port : Ports \cup {0}]
PortOps == [kind : {"none", "make", "start", "stop", "pause", "remove"}, boot : Nat,
            at : {"none", "sent", "listen", "clone", "boot", "unlisten", "done", "failed"},
            port : Ports \cup {0}, ports : SUBSET (Ports \cup {0})]

PortTypes ==
  /\ rows \in [Names -> PortRows] /\ ops \in [Names -> PortOps]
  /\ boot \in Nat \ {0} /\ known \in Nat /\ known <= boot
  /\ dials \in [Ports -> Names \cup {"none"}] /\ forwarded \in [Names -> Ports \cup {0}]
  /\ adopting \in [boot : Nat, machines : SUBSET [name : Names, port : Ports], told : BOOLEAN]
  /\ adopting.boot <= boot
  /\ excused \in [refused : SUBSET Names, closed : SUBSET Ports, strayed : BOOLEAN]

\* What is asked of a machine fits where its row stands; only a make has a port of its own.
OpFits(r, o) ==
  /\ o.boot <= boot
  /\ r.state = "making" => o.kind = "make"
  /\ r.state = "made" => r.port # 0 /\ o.kind \in {"none", "start", "stop", "pause"}
  /\ o.kind \in {"start", "stop", "pause"} => r.state \in {"made", "deleting"} /\ r.port # 0
  /\ r.state \in {"none", "undone"} => o.kind = "none"
  /\ r.state = "none" => r.port = 0
  /\ o.kind = "make" => r.state \in {"making", "deleting"} /\ r.port \in {0, o.port}
  /\ o.kind = "make" => (o.at = "sent" => o.port = 0) /\ (o.at \in {"listen", "clone", "boot", "done"} => o.port # 0)
  /\ o.kind = "remove" => r.state \in {"undoing", "deleting"}
  /\ o.kind # "make" => o.port = 0
  /\ o.kind = "none" => o = F!NoOp

\* A make of this boot that holds a port until it fails.
HoldsPort(n, p) == ops[n].kind = "make" /\ ops[n].boot = boot /\ ops[n].port = p /\ ops[n].at # "failed"

\* No two rows have one port, no two makes hold one, and an adoption gives a machine once.
RowsApart == \A n, m \in Names : n # m /\ rows[n].port # 0 => rows[m].port # rows[n].port
MakesApart == \A n, m \in Names, p \in Ports : n # m /\ HoldsPort(n, p) => ~ HoldsPort(m, p)
GivenOnce == \A g, h \in adopting.machines : g.name = h.name => g = h

PortBase ==
  /\ PortTypes /\ \A n \in Names : OpFits(rows[n], ops[n])
  /\ RowsApart /\ MakesApart /\ GivenOnce

MadeAt(n, p) == rows[n].state = "made" /\ rows[n].port = p
StandsAt(n, p) == (rows[n].state = "made" \/ ops[n].kind \in {"start", "stop", "pause"}) /\ rows[n].port = p
HasPort(n, p) == rows[n].port = p \/ (ops[n].kind = "make" /\ ops[n].boot = boot /\ ops[n].port = p)
Sound(p) == p \notin excused.closed

\* What listens is noted, what is noted is had, and what is removed is forgotten.
DialIsNoted == \A p \in Ports : dials[p] # "none" => forwarded[dials[p]] = p
NotedIsHad == \A n \in Names : forwarded[n] # 0 => HasPort(n, forwarded[n])
GoneIsClosed ==
  \A n \in Names :
    \/ rows[n].state \in {"none", "undone"}
    \/ ops[n].kind = "remove" /\ ops[n].at = "done" /\ ops[n].boot = boot
    => forwarded[n] = 0

\* A make has its port to itself: what it picked is free until it listens, and then is its own; and
\* a port that its call did not know taken is one that its machine listens on.
MakeIsAlone == \A n, m \in Names, p \in Ports : n # m /\ HoldsPort(n, p) /\ StandsAt(m, p) => ~ Sound(p)
PickIsFree == \A n \in Names, p \in Ports : HoldsPort(n, p) /\ ops[n].at = "listen" /\ Sound(p) => dials[p] = "none"
MakeListens == \A n \in Names, p \in Ports : HoldsPort(n, p) /\ ops[n].at # "listen" /\ Sound(p) => dials[p] = n
UntoldListens ==
  \A n, m \in Names, p \in Ports :
    /\ n # m /\ ops[n].kind = "make" /\ ops[n].at = "sent" /\ ops[n].boot = boot
    /\ p \notin ops[n].ports /\ StandsAt(m, p) /\ Sound(p)
    => dials[p] = m

\* No other listens for a machine; and it listens itself, but while it is yet to be adopted.
NoneInstead == \A n \in Names, p \in Ports : StandsAt(n, p) /\ Sound(p) => dials[p] \in {n, "none"}
ToBeAdopted(n) ==
  /\ known # boot /\ ~ (adopting.boot = boot /\ adopting.told)
  /\ adopting.boot = boot => [name |-> n, port |-> rows[n].port] \in adopting.machines
MadeListens ==
  \A n \in Names, p \in Ports :
    MadeAt(n, p) /\ Sound(p) /\ n \notin excused.refused => dials[p] = n \/ ToBeAdopted(n)

PortsStand ==
  /\ DialIsNoted /\ NotedIsHad /\ GoneIsClosed
  /\ MakeIsAlone /\ PickIsFree /\ MakeListens /\ UntoldListens
  /\ NoneInstead /\ MadeListens

\* Once the host was given a machine that is gone, its ports are as they may be until it restarts.
PortInv == PortBase /\ (excused.strayed \/ PortsStand)

\* A step of a machine's row or operation alone, of which no new listening comes.
RowMoves(n) ==
  /\ UNCHANGED <<known, boot, dials, forwarded, adopting, excused>>
  /\ rows' = [rows EXCEPT ![n] = rows'[n]] /\ rows'[n] \in PortRows
  /\ ops' = [ops EXCEPT ![n] = ops'[n]] /\ ops'[n] \in PortOps
  /\ OpFits(rows'[n], ops'[n])
  /\ \A p \in Ports : HoldsPort(n, p)' => HoldsPort(n, p) /\ (ops'[n].at = "listen" <=> ops[n].at = "listen")
  /\ rows'[n].port # 0 => \A m \in Names \ {n} : rows[m].port # rows'[n].port

\* What is made listens, or was made before; what is had stays had, or was closed.
RowStays(n) ==
  /\ \A p \in Ports : MadeAt(n, p)' => MadeAt(n, p) \/ (HoldsPort(n, p) /\ ops[n].at = "done")
  /\ \A p \in Ports : StandsAt(n, p)' => StandsAt(n, p) \/ (HoldsPort(n, p) /\ ops[n].at = "done")
  /\ \A p \in Ports : HasPort(n, p) => HasPort(n, p)' \/ forwarded[n] = 0
  /\ \/ rows'[n].state \in {"none", "undone"}
     \/ ops'[n].kind = "remove" /\ ops'[n].at = "done" /\ ops'[n].boot = boot
     => forwarded[n] = 0
  /\ ops'[n].kind = "make" /\ ops'[n].at = "sent" =>
       ops'[n] = ops[n] \/ \A m \in Names \ {n} : rows[m].port # 0 => rows[m].port \in ops'[n].ports

LEMMA RowBase ==
  ASSUME PortBase, NEW n \in Names, RowMoves(n)
  PROVE  PortBase'
<1> USE DEF PortBase
<1>1. /\ \A m \in Names : rows[m] \in PortRows /\ ops[m] \in PortOps
      /\ \A m \in Names \ {n} : rows'[m] = rows[m] /\ ops'[m] = ops[m]
      /\ boot' = boot
  BY DEF PortTypes, RowMoves
<1>2. PortTypes'
  BY DEF PortTypes, RowMoves
<1>3. (\A m \in Names : OpFits(rows[m], ops[m]))'
  BY <1>1 DEF RowMoves, OpFits
<1>4. RowsApart'
  BY <1>1 DEF RowsApart, RowMoves
<1>5. ASSUME NEW m \in Names, NEW p \in Ports, HoldsPort(m, p)' PROVE HoldsPort(m, p)
  BY <1>1, <1>5 DEF RowMoves, HoldsPort
<1>6. MakesApart'
  BY <1>5 DEF MakesApart
<1> QED
  BY <1>2, <1>3, <1>4, <1>6 DEF GivenOnce, RowMoves

LEMMA RowStands ==
  ASSUME PortBase, PortsStand, NEW n \in Names, RowMoves(n), RowStays(n)
  PROVE  PortsStand'
<1>1. /\ \A m \in Names : rows[m] \in PortRows /\ ops[m] \in PortOps
      /\ \A m \in Names \ {n} : rows'[m] = rows[m] /\ ops'[m] = ops[m]
      /\ boot' = boot /\ dials' = dials /\ forwarded' = forwarded /\ excused' = excused
      /\ known' = known /\ adopting' = adopting
      /\ forwarded \in [Names -> Ports \cup {0}] /\ dials \in [Ports -> Names \cup {"none"}]
  BY DEF PortBase, PortTypes, RowMoves
<1>2. ASSUME NEW m \in Names, NEW p \in Ports, HoldsPort(m, p)'
      PROVE  HoldsPort(m, p) /\ (ops'[m].at = "listen" <=> ops[m].at = "listen")
  BY <1>1, <1>2 DEF RowMoves, HoldsPort
<1>3. ASSUME NEW m \in Names, NEW p \in Ports, MadeAt(m, p)'
      PROVE  MadeAt(m, p) \/ (HoldsPort(m, p) /\ ops[m].at = "done")
  BY <1>1, <1>3 DEF RowStays, MadeAt
<1>0. ASSUME NEW m \in Names, NEW p \in Ports, StandsAt(m, p)'
      PROVE  StandsAt(m, p) \/ (HoldsPort(m, p) /\ ops[m].at = "done")
  BY <1>0, <1>1 DEF RowStays, StandsAt
<1>4. ASSUME NEW m \in Names, NEW p \in Ports, HasPort(m, p), forwarded[m] # 0
      PROVE  HasPort(m, p)'
  BY <1>1, <1>4 DEF RowStays, HasPort
<1>5. \A p : Sound(p)' <=> Sound(p)
  BY <1>1 DEF Sound
<1>6. DialIsNoted'
  BY <1>1 DEF PortsStand, DialIsNoted
<1>7. NotedIsHad'
  BY <1>1, <1>4 DEF PortsStand, NotedIsHad
<1>8. GoneIsClosed'
  BY <1>1 DEF PortsStand, GoneIsClosed, RowStays
<1>9. MakeIsAlone'
  BY <1>0, <1>2, <1>5 DEF PortsStand, MakeIsAlone, PortBase, MakesApart
<1>10. PickIsFree' /\ MakeListens'
  BY <1>1, <1>2, <1>5 DEF PortsStand, PickIsFree, MakeListens
<1>11. UntoldListens'
  <2>1. ASSUME NEW k \in Names, NEW m \in Names, NEW p \in Ports, k # m,
               ops'[k].kind = "make", ops'[k].at = "sent", ops'[k].boot = boot,
               p \notin ops'[k].ports, StandsAt(m, p)', Sound(p)
        PROVE  dials[p] = m
    <3>1. CASE HoldsPort(m, p) /\ ops[m].at = "done"
      BY <2>1, <3>1 DEF PortsStand, MakeListens
    <3>2. CASE StandsAt(m, p) /\ ops'[k] = ops[k]
      BY <2>1, <3>2 DEF PortsStand, UntoldListens
    <3>3. CASE StandsAt(m, p) /\ ops'[k] # ops[k]
      BY <1>1, <2>1, <3>3 DEF RowStays, StandsAt, PortBase, OpFits
    <3> QED
      BY <1>0, <2>1, <3>1, <3>2, <3>3
  <2> QED
    BY <1>1, <1>5, <2>1 DEF UntoldListens
<1>12. NoneInstead'
  BY <1>0, <1>1, <1>5 DEF PortsStand, NoneInstead, MakeListens
<1>13. MadeListens'
  <2>1. ASSUME NEW m \in Names, NEW p \in Ports, MadeAt(m, p)', Sound(p), m \notin excused.refused
        PROVE  dials[p] = m \/ ToBeAdopted(m)'
    <3>1. CASE HoldsPort(m, p) /\ ops[m].at = "done"
      BY <2>1, <3>1 DEF PortsStand, MakeListens
    <3>2. CASE MadeAt(m, p)
      BY <1>1, <2>1, <3>2 DEF PortsStand, MadeListens, ToBeAdopted, MadeAt
    <3> QED
      BY <1>3, <2>1, <3>1, <3>2
  <2> QED
    BY <1>1, <1>5, <2>1 DEF MadeListens
<1> QED
  BY <1>6, <1>7, <1>8, <1>9, <1>10, <1>11, <1>12, <1>13 DEF PortsStand

LEMMA RowSteps ==
  ASSUME PortInv, NEW n \in Names, RowMoves(n), PortsStand => RowStays(n)
  PROVE  PortInv'
<1>1. PortBase'
  BY RowBase DEF PortInv
<1>2. PortsStand => PortsStand'
  BY RowStands DEF PortInv
<1> QED
  BY <1>1, <1>2 DEF PortInv, RowMoves

LEMMA SentFits ==
  ASSUME PortNames, PortInv, NEW n \in Names, NEW kind \in {"make", "start", "stop", "pause", "remove"}
  PROVE  /\ F!Sent(n, kind) \in PortOps /\ F!Sent(n, kind).kind = kind /\ F!Sent(n, kind).boot = boot
         /\ F!Sent(n, kind).at = "sent" /\ F!Sent(n, kind).port = 0
         /\ \A m \in Names \ {n} : rows[m].port # 0 => rows[m].port \in F!Sent(n, kind).ports
BY DEF F!Sent, PortOps, PortRows, PortInv, PortBase, PortTypes, PortNames

\* The store's steps, and a host's that change no port.
LEMMA Requested ==
  ASSUME PortNames, PortInv, NEW n \in Names,
         \/ F!Create(n) \/ F!Delete(n) \/ F!RemoveSent(n)
         \/ \E kind \in {"start", "stop", "pause"} : F!Wish(n, kind)
  PROVE  PortInv'
<1>1. /\ rows \in [Names -> PortRows] /\ ops \in [Names -> PortOps] /\ OpFits(rows[n], ops[n])
      /\ rows[n] \in PortRows /\ ops[n] \in PortOps /\ boot \in Nat /\ 0 \notin Ports
      /\ \A m \in Names \ {n} : rows[n].port # 0 => rows[m].port # rows[n].port
  BY DEF PortInv, PortBase, PortTypes, PortNames, RowsApart
<1>2. CASE F!Create(n)
  <2>1. /\ rows[n] = F!NoRow /\ rows' = [rows EXCEPT ![n] = [state |-> "making", port |-> 0]]
        /\ ops' = [ops EXCEPT ![n] = F!Sent(n, "make")]
        /\ UNCHANGED <<known, boot, dials, forwarded, adopting, excused>>
    BY <1>2 DEF F!Create, F!Sends
  <2>2. /\ rows' = [rows EXCEPT ![n] = rows'[n]] /\ rows'[n] = [state |-> "making", port |-> 0]
        /\ ops' = [ops EXCEPT ![n] = ops'[n]] /\ ops'[n] = F!Sent(n, "make")
    BY <1>1, <2>1
  <2>3. RowMoves(n)
    BY <1>1, <2>1, <2>2, SentFits DEF RowMoves, OpFits, PortRows, HoldsPort
  <2>4. PortsStand => RowStays(n)
    BY <1>1, <2>1, <2>2, SentFits DEF RowStays, MadeAt, StandsAt, HasPort, PortsStand, GoneIsClosed, F!NoRow, OpFits
  <2> QED
    BY <2>3, <2>4, RowSteps
<1>3. CASE F!Delete(n)
  <2>1. /\ rows[n].state \notin {"none", "deleting"} /\ ops' = ops
        /\ rows' = [rows EXCEPT ![n] = IF @.state = "undone" THEN F!NoRow ELSE [@ EXCEPT !.state = "deleting"]]
        /\ UNCHANGED <<known, boot, dials, forwarded, adopting, excused>>
    BY <1>3 DEF F!Delete
  <2>2. /\ rows' = [rows EXCEPT ![n] = rows'[n]] /\ ops' = [ops EXCEPT ![n] = ops'[n]] /\ ops'[n] = ops[n]
        /\ rows'[n] = IF rows[n].state = "undone" THEN F!NoRow ELSE [rows[n] EXCEPT !.state = "deleting"]
    BY <1>1, <2>1
  <2>3. CASE rows[n].state = "undone"
    <3>1. RowMoves(n)
      BY <1>1, <2>1, <2>2, <2>3 DEF RowMoves, OpFits, PortRows, HoldsPort, F!NoRow
    <3>2. PortsStand => RowStays(n)
      BY <1>1, <2>1, <2>2, <2>3 DEF RowStays, MadeAt, StandsAt, HasPort, PortsStand, GoneIsClosed, F!NoRow, OpFits
    <3> QED
      BY <3>1, <3>2, RowSteps
  <2>4. CASE rows[n].state # "undone"
    <3>1. rows'[n] \in PortRows /\ rows'[n].port = rows[n].port /\ rows'[n].state = "deleting"
      BY <1>1, <2>2, <2>4 DEF PortRows
    <3>2. RowMoves(n)
      BY <1>1, <2>1, <2>2, <3>1 DEF RowMoves, OpFits, HoldsPort
    <3>3. PortsStand => RowStays(n)
      BY <1>1, <2>1, <2>2, <3>1 DEF RowStays, MadeAt, StandsAt, HasPort, PortsStand, GoneIsClosed
    <3> QED
      BY <3>2, <3>3, RowSteps
  <2> QED
    BY <2>3, <2>4
<1>4. ASSUME NEW kind \in {"start", "stop", "pause", "remove"}, ops' = [ops EXCEPT ![n] = F!Sent(n, kind)], ops[n] = F!NoOp,
             rows[n].state \in IF kind = "remove" THEN {"undoing", "deleting"} ELSE {"made"},
             UNCHANGED <<rows, known, boot, dials, forwarded, adopting, excused>>
      PROVE  PortInv'
  <2>1. /\ rows' = [rows EXCEPT ![n] = rows'[n]] /\ rows'[n] = rows[n]
        /\ ops' = [ops EXCEPT ![n] = ops'[n]] /\ ops'[n] = F!Sent(n, kind)
    BY <1>1, <1>4
  <2>2. RowMoves(n)
    BY <1>1, <1>4, <2>1, SentFits DEF RowMoves, OpFits, HoldsPort
  <2>3. PortsStand => RowStays(n)
    BY <1>1, <1>4, <2>1, SentFits DEF RowStays, MadeAt, StandsAt, HasPort, PortsStand, GoneIsClosed, F!NoOp
  <2> QED
    BY <2>2, <2>3, RowSteps
<1>5. CASE F!RemoveSent(n)
  BY <1>4, <1>5 DEF F!RemoveSent, F!Sends
<1>6. ASSUME NEW kind \in {"start", "stop", "pause"}, F!Wish(n, kind) PROVE PortInv'
  BY <1>4, <1>6 DEF F!Wish, F!Sends
<1> QED
  BY <1>2, <1>3, <1>5, <1>6

LEMMA Reported ==
  ASSUME PortNames, PortInv, NEW n \in Names, F!Ran(n) \/ F!Hears(n) \/ F!Loses(n)
  PROVE  PortInv'
<1>1. /\ rows \in [Names -> PortRows] /\ ops \in [Names -> PortOps] /\ OpFits(rows[n], ops[n])
      /\ rows[n] \in PortRows /\ ops[n] \in PortOps /\ boot \in Nat /\ 0 \notin Ports
      /\ \A m \in Names \ {n} : rows[n].port # 0 => rows[m].port # rows[n].port
  BY DEF PortInv, PortBase, PortTypes, PortNames, RowsApart
<1>2. F!NoOp \in PortOps /\ F!NoOp.kind = "none" /\ F!NoOp.boot = 0 /\ F!NoOp.port = 0 /\ F!NoOp.at = "none"
  BY DEF F!NoOp, PortOps
<1>3. CASE F!Ran(n)
  <2>1. /\ ops[n].kind = "make" /\ ops[n].boot = boot /\ ops[n].port # 0 /\ rows[n].port = 0 /\ F!PortFree(n)
        /\ rows' = [rows EXCEPT ![n].port = ops[n].port] /\ ops' = ops
        /\ UNCHANGED <<known, boot, dials, forwarded, adopting, excused>>
    BY <1>3 DEF F!Ran
  <2>2. /\ rows' = [rows EXCEPT ![n] = rows'[n]] /\ ops' = [ops EXCEPT ![n] = ops'[n]] /\ ops'[n] = ops[n]
        /\ rows'[n] \in PortRows /\ rows'[n].port = ops[n].port /\ rows'[n].state = rows[n].state
    BY <1>1, <2>1 DEF PortRows, PortOps
  <2>3. RowMoves(n)
    BY <1>1, <2>1, <2>2 DEF RowMoves, OpFits, HoldsPort, F!PortFree
  <2>4. PortsStand => RowStays(n)
    BY <1>1, <2>1, <2>2 DEF RowStays, MadeAt, StandsAt, HasPort, PortsStand, GoneIsClosed, OpFits
  <2> QED
    BY <2>3, <2>4, RowSteps
<1>4. CASE F!Hears(n)
  <2>1. /\ ops[n].at \in {"done", "failed"} /\ ops[n].boot = boot /\ F!PortFree(n)
        /\ rows' = [rows EXCEPT ![n] = F!RowAfter(n, ops[n].at)] /\ ops' = [ops EXCEPT ![n] = F!NoOp]
        /\ UNCHANGED <<known, boot, dials, forwarded, adopting, excused>>
    BY <1>4 DEF F!Hears, F!Ended, F!Ends
  <2>2. /\ rows' = [rows EXCEPT ![n] = rows'[n]] /\ rows'[n] = F!RowAfter(n, ops[n].at)
        /\ ops' = [ops EXCEPT ![n] = ops'[n]] /\ ops'[n] = F!NoOp
    BY <1>1, <2>1
  <2> DEFINE r == [rows[n] EXCEPT !.port = F!Told(n)]
  <2>3. r \in PortRows /\ r.state = rows[n].state /\ r.port = (IF ops[n].port = 0 THEN rows[n].port ELSE ops[n].port)
    BY <1>1 DEF F!Told, PortRows, PortOps
  <2>4. r.port # 0 => \A m \in Names \ {n} : rows[m].port # r.port
    BY <1>1, <2>1, <2>3 DEF F!PortFree
  <2>5. /\ rows[n].state = "making" => rows'[n] = [r EXCEPT !.state = IF ops[n].at = "done" THEN "made" ELSE "undoing"]
        /\ rows[n].state # "making" /\ ops[n].kind = "remove" /\ ops[n].at = "done" =>
             rows'[n] = (IF rows[n].state = "deleting" THEN F!NoRow ELSE [r EXCEPT !.state = "undone"])
        /\ rows[n].state # "making" /\ ~ (ops[n].kind = "remove" /\ ops[n].at = "done") => rows'[n] = r
    BY <2>2, <2>3 DEF F!RowAfter
  <2> HIDE DEF r
  <2>6. CASE rows[n].state = "making"
    <3>1. /\ rows'[n] \in PortRows /\ rows'[n].port = r.port
          /\ rows'[n].state = IF ops[n].at = "done" THEN "made" ELSE "undoing"
      BY <2>3, <2>5, <2>6 DEF PortRows
    <3>2. RowMoves(n)
      BY <1>1, <1>2, <2>1, <2>2, <2>3, <2>4, <2>6, <3>1 DEF RowMoves, OpFits, HoldsPort
    <3>3. PortsStand => RowStays(n)
      BY <1>1, <1>2, <2>1, <2>2, <2>3, <2>6, <3>1 DEF RowStays, MadeAt, StandsAt, HasPort, HoldsPort, OpFits
    <3> QED
      BY <3>2, <3>3, RowSteps
  <2>7. CASE rows[n].state # "making" /\ ops[n].kind = "remove" /\ ops[n].at = "done"
    <3>1. /\ rows'[n] \in PortRows /\ rows'[n].port \in {0, rows[n].port}
          /\ (rows'[n].state = "none" /\ rows'[n].port = 0) \/ rows'[n].state = "undone"
      BY <1>1, <2>3, <2>5, <2>7 DEF PortRows, OpFits, F!NoRow
    <3>2. RowMoves(n)
      BY <1>1, <1>2, <2>1, <2>2, <2>7, <3>1 DEF RowMoves, OpFits, HoldsPort
    <3>3. PortsStand => RowStays(n)
      BY <1>1, <1>2, <2>1, <2>2, <2>7, <3>1 DEF RowStays, MadeAt, StandsAt, PortsStand, GoneIsClosed
    <3> QED
      BY <3>2, <3>3, RowSteps
  <2>8. CASE rows[n].state # "making" /\ ~ (ops[n].kind = "remove" /\ ops[n].at = "done")
    <3>1. rows'[n] \in PortRows /\ rows'[n].port = r.port /\ rows'[n].state = rows[n].state
      BY <2>3, <2>5, <2>8
    <3>2. RowMoves(n)
      BY <1>1, <1>2, <2>1, <2>2, <2>3, <2>4, <2>8, <3>1 DEF RowMoves, OpFits, HoldsPort
    <3>3. PortsStand => RowStays(n)
      BY <1>1, <1>2, <2>1, <2>2, <2>3, <2>8, <3>1 DEF RowStays, MadeAt, StandsAt, HasPort, PortsStand, GoneIsClosed, OpFits
    <3> QED
      BY <3>2, <3>3, RowSteps
  <2> QED
    BY <2>6, <2>7, <2>8
<1>5. CASE F!Loses(n)
  <2>1. /\ ops[n].boot # boot /\ ops' = [ops EXCEPT ![n] = F!NoOp]
        /\ rows' = [rows EXCEPT ![n] = IF rows[n].state = "making" THEN [rows[n] EXCEPT !.state = "undoing"] ELSE rows[n]]
        /\ UNCHANGED <<known, boot, dials, forwarded, adopting, excused>>
    BY <1>5 DEF F!Loses, F!Ended
  <2>2. /\ rows' = [rows EXCEPT ![n] = rows'[n]] /\ ops' = [ops EXCEPT ![n] = ops'[n]] /\ ops'[n] = F!NoOp
        /\ rows'[n] \in PortRows /\ rows'[n].port = rows[n].port
        /\ rows'[n].state = IF rows[n].state = "making" THEN "undoing" ELSE rows[n].state
    BY <1>1, <2>1 DEF PortRows
  <2>3. RowMoves(n)
    BY <1>1, <1>2, <2>1, <2>2 DEF RowMoves, OpFits, HoldsPort
  <2>4. PortsStand => RowStays(n)
    BY <1>1, <1>2, <2>1, <2>2 DEF RowStays, MadeAt, StandsAt, HasPort, PortsStand, GoneIsClosed
  <2> QED
    BY <2>3, <2>4, RowSteps
<1> QED
  BY <1>3, <1>4, <1>5

\* A step of the host that gives and takes no port.
LEMMA OpGoes ==
  ASSUME PortNames, PortInv, NEW n \in Names, NEW at \in {"clone", "boot", "unlisten", "done", "failed"},
         ops' = [ops EXCEPT ![n].at = at], UNCHANGED <<rows, known, boot, dials, forwarded, adopting, excused>>,
         ops[n].kind # "none", ops[n].kind = "remove" => at # "done",
         ops[n].kind = "make" => at = "failed" \/ (at \in {"boot", "done"} /\ ops[n].at \in {"clone", "boot"})
  PROVE  PortInv'
<1>1. /\ rows \in [Names -> PortRows] /\ ops \in [Names -> PortOps] /\ OpFits(rows[n], ops[n])
      /\ rows[n] \in PortRows /\ ops[n] \in PortOps /\ boot \in Nat /\ 0 \notin Ports
      /\ \A m \in Names \ {n} : rows[n].port # 0 => rows[m].port # rows[n].port
  BY DEF PortInv, PortBase, PortTypes, PortNames, RowsApart
<1>2. /\ rows' = [rows EXCEPT ![n] = rows'[n]] /\ rows'[n] = rows[n]
      /\ ops' = [ops EXCEPT ![n] = ops'[n]] /\ ops'[n] = [ops[n] EXCEPT !.at = at]
  BY <1>1
<1>3. /\ ops'[n] \in PortOps /\ ops'[n].kind = ops[n].kind /\ ops'[n].boot = ops[n].boot
      /\ ops'[n].port = ops[n].port /\ ops'[n].at = at
  BY <1>1, <1>2 DEF PortOps
<1>4. RowMoves(n)
  BY <1>1, <1>2, <1>3 DEF RowMoves, OpFits, HoldsPort
<1>5. PortsStand => RowStays(n)
  BY <1>1, <1>2, <1>3 DEF RowStays, MadeAt, StandsAt, HasPort, PortsStand, GoneIsClosed
<1> QED
  BY <1>4, <1>5, RowSteps

\* What else a host's step leaves.
HostMoves(n) ==
  /\ UNCHANGED <<rows, known, boot, adopting>>
  /\ ops' = [ops EXCEPT ![n] = ops'[n]] /\ ops'[n] \in PortOps /\ ops[n].boot = boot
  /\ ops'[n].kind = ops[n].kind /\ ops'[n].boot = ops[n].boot /\ ops[n].kind # "none"
  /\ dials' \in [Ports -> Names \cup {"none"}] /\ forwarded' \in [Names -> Ports \cup {0}]
  /\ excused' \in [refused : SUBSET Names, closed : SUBSET Ports, strayed : BOOLEAN]
  /\ excused'.strayed = excused.strayed

LEMMA HostBase ==
  ASSUME PortBase, NEW n \in Names, HostMoves(n), OpFits(rows[n], ops'[n]),
         \A p \in Ports : HoldsPort(n, p)' => \A m \in Names \ {n} : ~ HoldsPort(m, p)
  PROVE  PortBase'
<1>1. /\ \A m \in Names : rows'[m] = rows[m]
      /\ \A m \in Names \ {n} : ops'[m] = ops[m]
      /\ boot' = boot
  BY DEF PortBase, PortTypes, HostMoves
<1>2. PortTypes'
  BY DEF PortBase, PortTypes, HostMoves
<1>3. (\A m \in Names : OpFits(rows[m], ops[m]))'
  <2>1. ASSUME NEW m \in Names PROVE OpFits(rows[m], ops'[m])
    BY <1>1 DEF PortBase
  <2> QED
    BY <1>1, <2>1 DEF OpFits
<1>4. \A m \in Names \ {n}, p \in Ports : HoldsPort(m, p)' <=> HoldsPort(m, p)
  BY <1>1 DEF HoldsPort
<1>5. MakesApart'
  BY <1>4 DEF MakesApart, PortBase
<1> QED
  BY <1>1, <1>2, <1>3, <1>5 DEF PortBase, RowsApart, GivenOnce, HostMoves

\* The facts on the other machines, and on rows, that a host's step keeps.
LEMMA HostKeeps ==
  ASSUME PortBase, NEW n \in Names, HostMoves(n)
  PROVE  /\ \A m \in Names \ {n} : ops'[m] = ops[m]
         /\ \A m \in Names \ {n}, p \in Ports : (HoldsPort(m, p)' <=> HoldsPort(m, p)) /\ (HasPort(m, p)' <=> HasPort(m, p))
         /\ \A m \in Names, p \in Ports : (MadeAt(m, p)' <=> MadeAt(m, p)) /\ (StandsAt(m, p)' <=> StandsAt(m, p))
         /\ \A m \in Names : ToBeAdopted(m)' <=> ToBeAdopted(m)
<1>1. \A m \in Names \ {n} : ops'[m] = ops[m]
  BY DEF PortBase, PortTypes, HostMoves
<1>2. \A m \in Names \ {n}, p \in Ports : (HoldsPort(m, p)' <=> HoldsPort(m, p)) /\ (HasPort(m, p)' <=> HasPort(m, p))
  BY <1>1 DEF HoldsPort, HasPort, HostMoves
<1>3. \A m \in Names, p \in Ports : (MadeAt(m, p)' <=> MadeAt(m, p)) /\ (StandsAt(m, p)' <=> StandsAt(m, p))
  BY <1>1 DEF MadeAt, StandsAt, HostMoves
<1>4. \A m \in Names : ToBeAdopted(m)' <=> ToBeAdopted(m)
  BY DEF ToBeAdopted, HostMoves
<1> QED
  BY <1>1, <1>2, <1>3, <1>4

LEMMA LowestIsOf ==
  ASSUME PortNames, NEW U \in SUBSET Ports, U # {}
  PROVE  F!LowestOf(U) \in U
<1>1. \E n \in U : \A m \in U : n <= m
  BY Least DEF PortNames
<1> QED
  BY <1>1 DEF F!LowestOf

LEMMA Picked ==
  ASSUME PortNames, PortInv, NEW n \in Names, F!MakePicks(n), UNCHANGED <<rows, known, boot, adopting>>
  PROVE  PortInv'
<1>1. /\ rows \in [Names -> PortRows] /\ ops \in [Names -> PortOps] /\ OpFits(rows[n], ops[n])
      /\ rows[n] \in PortRows /\ ops[n] \in PortOps /\ boot \in Nat /\ 0 \notin Ports
      /\ ops[n].kind = "make" /\ ops[n].at = "sent" /\ ops[n].boot = boot /\ ops[n].port = 0
      /\ UNCHANGED <<rows, known, boot, dials, forwarded, adopting, excused>>
      /\ PortBase
  BY DEF PortInv, PortBase, PortTypes, PortNames, F!MakePicks, F!In, OpFits
<1>2. CASE F!Pickable(n) = {}
  <2>1. ops' = [ops EXCEPT ![n].at = "failed", ![n].port = 0]
    BY <1>2 DEF F!MakePicks
  <2>2. ops' = [ops EXCEPT ![n].at = "failed"]
    BY <1>1, <2>1 DEF PortOps
  <2> QED
    BY <1>1, <2>2, OpGoes
<1>3. CASE F!Pickable(n) # {}
  <2> DEFINE q == F!LowestOf(F!Pickable(n))
  <2>1. q \in F!Pickable(n)
    BY <1>3, LowestIsOf DEF F!Pickable
  <2>2. ops' = [ops EXCEPT ![n].at = "listen", ![n].port = q]
    BY <1>3 DEF F!MakePicks
  <2>3. /\ q \in Ports /\ q \notin ops[n].ports /\ dials[q] = "none"
        /\ \A m \in Names : ~ HoldsPort(m, q)
    BY <2>1 DEF F!Pickable, F!Held, HoldsPort
  <2> HIDE DEF q
  <2>4. /\ ops' = [ops EXCEPT ![n] = ops'[n]] /\ ops'[n] \in PortOps /\ ops'[n].kind = "make" /\ ops'[n].boot = boot
        /\ ops'[n].at = "listen" /\ ops'[n].port = q
    BY <1>1, <2>2, <2>3 DEF PortOps
  <2>5. HostMoves(n)
    BY <1>1, <2>4 DEF HostMoves, PortBase, PortTypes
  <2>6. \A p \in Ports : (HoldsPort(n, p)' <=> p = q) /\ ~ HasPort(n, p) /\ ~ HoldsPort(n, p) /\ ~ StandsAt(n, p)
    BY <1>1, <2>4 DEF HoldsPort, HasPort, StandsAt, OpFits
  <2>7. PortBase'
    BY <1>1, <2>3, <2>4, <2>5, <2>6, HostBase DEF OpFits
  <2>8. /\ \A m \in Names \ {n} : ops'[m] = ops[m]
        /\ \A m \in Names \ {n}, p \in Ports : (HoldsPort(m, p)' <=> HoldsPort(m, p)) /\ (HasPort(m, p)' <=> HasPort(m, p))
        /\ \A m \in Names, p \in Ports : (MadeAt(m, p)' <=> MadeAt(m, p)) /\ (StandsAt(m, p)' <=> StandsAt(m, p))
        /\ \A m \in Names : ToBeAdopted(m)' <=> ToBeAdopted(m)
    BY <1>1, <2>5, HostKeeps
  <2>9. forwarded \in [Names -> Ports \cup {0}] /\ \A p : Sound(p)' <=> Sound(p)
    BY <1>1 DEF PortBase, PortTypes, Sound
  <2>10. ASSUME PortsStand PROVE PortsStand'
    <3> USE <2>10 DEF PortsStand
    <3>1. DialIsNoted'
      BY <1>1 DEF DialIsNoted
    <3>2. NotedIsHad'
      BY <1>1, <2>6, <2>8, <2>9 DEF NotedIsHad
    <3>3. GoneIsClosed'
      BY <1>1, <2>4, <2>8 DEF GoneIsClosed
    <3>4. ASSUME NEW m \in Names \ {n}, StandsAt(m, q), Sound(q) PROVE FALSE
      <4>1. dials[q] = m
        BY <1>1, <2>3, <3>4 DEF UntoldListens
      <4> QED
        BY <2>3, <4>1 DEF PortNames
    <3>5. MakeIsAlone'
      BY <2>6, <2>8, <2>9, <3>4 DEF MakeIsAlone
    <3>6. PickIsFree' /\ MakeListens'
      BY <1>1, <2>3, <2>4, <2>6, <2>8, <2>9 DEF PickIsFree, MakeListens
    <3>7. UntoldListens'
      BY <1>1, <2>4, <2>8, <2>9 DEF UntoldListens
    <3>8. NoneInstead' /\ MadeListens'
      BY <1>1, <2>8, <2>9 DEF NoneInstead, MadeListens
    <3> QED
      BY <3>1, <3>2, <3>3, <3>5, <3>6, <3>7, <3>8
  <2> QED
    BY <1>1, <2>7, <2>10 DEF PortInv
<1> QED
  BY <1>2, <1>3

LEMMA Listened ==
  ASSUME PortNames, PortInv, NEW n \in Names, F!MakeListens(n), UNCHANGED <<rows, known, boot, adopting>>
  PROVE  PortInv'
<1> DEFINE q == ops[n].port
<1>1. /\ rows \in [Names -> PortRows] /\ ops \in [Names -> PortOps] /\ OpFits(rows[n], ops[n])
      /\ rows[n] \in PortRows /\ ops[n] \in PortOps /\ boot \in Nat /\ 0 \notin Ports
      /\ ops[n].kind = "make" /\ ops[n].at = "listen" /\ ops[n].boot = boot /\ q \in Ports
      /\ UNCHANGED <<rows, known, boot, adopting, excused>> /\ PortBase
      /\ dials \in [Ports -> Names \cup {"none"}] /\ forwarded \in [Names -> Ports \cup {0}] /\ "none" \notin Names
  BY DEF PortInv, PortBase, PortTypes, PortNames, F!MakeListens, F!In, OpFits, PortOps
<1>2. /\ dials' = IF dials[q] = "none" THEN [dials EXCEPT ![q] = n] ELSE dials
      /\ forwarded' = [forwarded EXCEPT ![n] = q] /\ ops' = [ops EXCEPT ![n].at = "clone"]
  BY DEF F!MakeListens, F!Listens, F!Listening, F!Goes
<1>3. /\ ops' = [ops EXCEPT ![n] = ops'[n]] /\ ops'[n] \in PortOps /\ ops'[n].kind = "make" /\ ops'[n].boot = boot
      /\ ops'[n].at = "clone" /\ ops'[n].port = q
  BY <1>1, <1>2 DEF PortOps
<1>4. /\ \A p \in Ports \ {q} : dials'[p] = dials[p]
      /\ dials'[q] = IF dials[q] = "none" THEN n ELSE dials[q]
      /\ \A m \in Names \ {n} : forwarded'[m] = forwarded[m]
      /\ forwarded'[n] = q
      /\ dials' \in [Ports -> Names \cup {"none"}] /\ forwarded' \in [Names -> Ports \cup {0}]
  BY <1>1, <1>2
<1>5. HostMoves(n)
  BY <1>1, <1>3, <1>4 DEF HostMoves, PortBase, PortTypes
<1>6. \A p \in Ports : /\ (HoldsPort(n, p)' <=> p = q) /\ (HoldsPort(n, p) <=> p = q)
                       /\ (HasPort(n, p)' <=> p = q) /\ (HasPort(n, p) <=> p = q) /\ ~ StandsAt(n, p)
  BY <1>1, <1>3 DEF HoldsPort, HasPort, StandsAt, OpFits
<1>7. PortBase'
  <2>1. \A p \in Ports : HoldsPort(n, p)' => \A m \in Names \ {n} : ~ HoldsPort(m, p)
    BY <1>1, <1>6 DEF PortBase, MakesApart
  <2>2. OpFits(rows[n], ops'[n])
    BY <1>1, <1>3 DEF OpFits
  <2> QED
    BY <1>1, <1>5, <2>1, <2>2, HostBase
<1>8. /\ \A m \in Names \ {n} : ops'[m] = ops[m]
      /\ \A m \in Names \ {n}, p \in Ports : (HoldsPort(m, p)' <=> HoldsPort(m, p)) /\ (HasPort(m, p)' <=> HasPort(m, p))
      /\ \A m \in Names, p \in Ports : (MadeAt(m, p)' <=> MadeAt(m, p)) /\ (StandsAt(m, p)' <=> StandsAt(m, p))
      /\ \A m \in Names : ToBeAdopted(m)' <=> ToBeAdopted(m)
  BY <1>1, <1>5, HostKeeps
<1>9. \A p : Sound(p)' <=> Sound(p)
  BY <1>1 DEF Sound
<1> HIDE DEF q
<1>10. ASSUME PortsStand PROVE PortsStand'
  <2> USE <1>10 DEF PortsStand
  <2>1. ASSUME NEW p \in Ports, dials'[p] # "none" PROVE forwarded'[dials'[p]] = p
    <3>1. CASE p = q /\ dials[q] = "none"
      BY <1>4, <3>1
    <3>2. CASE dials'[p] = dials[p]
      <4>1. forwarded[dials[p]] = p /\ dials[p] \in Names
        BY <1>1, <2>1, <3>2 DEF DialIsNoted
      <4>2. CASE dials[p] = n
        <5>1. HasPort(n, p)
          BY <1>1, <4>1, <4>2 DEF NotedIsHad
        <5> QED
          BY <1>4, <1>6, <3>2, <4>2, <5>1
      <4> QED
        BY <1>4, <3>2, <4>1, <4>2
    <3> QED
      BY <1>4, <3>1, <3>2
  <2>2. DialIsNoted'
    BY <2>1 DEF DialIsNoted
  <2>3. NotedIsHad'
    BY <1>1, <1>4, <1>6, <1>8 DEF NotedIsHad
  <2>4. GoneIsClosed'
    BY <1>1, <1>3, <1>4, <1>8 DEF GoneIsClosed, OpFits
  <2>5. MakeIsAlone'
    BY <1>6, <1>8, <1>9 DEF MakeIsAlone
  <2>6. \A m \in Names \ {n} : ~ HoldsPort(m, q)
    BY <1>1, <1>6 DEF PortBase, MakesApart
  <2>7. PickIsFree'
    BY <1>1, <1>3, <1>4, <1>6, <1>8, <1>9, <2>6 DEF PickIsFree
  <2>8. Sound(q) => dials[q] = "none"
    BY <1>1, <1>6 DEF PickIsFree
  <2>9. MakeListens'
    BY <1>1, <1>4, <1>6, <1>8, <1>9, <2>6, <2>8 DEF MakeListens
  <2>10. UntoldListens'
    BY <1>1, <1>3, <1>4, <1>8, <1>9 DEF UntoldListens
  <2>11. NoneInstead'
    <3>1. \A m \in Names : StandsAt(m, q) /\ Sound(q) => FALSE
      BY <1>1, <1>6 DEF MakeIsAlone
    <3> QED
      BY <1>4, <1>8, <1>9, <3>1 DEF NoneInstead
  <2>12. MadeListens'
    BY <1>1, <1>4, <1>8, <1>9 DEF MadeListens
  <2> QED
    BY <2>2, <2>3, <2>4, <2>5, <2>7, <2>9, <2>10, <2>11, <2>12
<1> QED
  BY <1>1, <1>7, <1>10 DEF PortInv

LEMMA Started ==
  ASSUME PortNames, PortInv, NEW n \in Names, F!StartListens(n), UNCHANGED <<rows, known, boot, adopting>>
  PROVE  PortInv'
<1>0. PICK q \in Ports : q = rows[n].port
  BY DEF PortInv, PortBase, PortTypes, F!StartListens, F!In, OpFits, PortRows
<1>1. /\ rows \in [Names -> PortRows] /\ ops \in [Names -> PortOps] /\ OpFits(rows[n], ops[n])
      /\ rows[n] \in PortRows /\ ops[n] \in PortOps /\ boot \in Nat /\ 0 \notin Ports
      /\ ops[n].kind = "start" /\ ops[n].at = "sent" /\ ops[n].boot = boot /\ ops[n].port = 0 /\ q = rows[n].port
      /\ UNCHANGED <<rows, known, boot, adopting>> /\ PortBase
      /\ dials \in [Ports -> Names \cup {"none"}] /\ forwarded \in [Names -> Ports \cup {0}] /\ "none" \notin Names
      /\ excused \in [refused : SUBSET Names, closed : SUBSET Ports, strayed : BOOLEAN]
  BY <1>0 DEF PortInv, PortBase, PortTypes, PortNames, F!StartListens, F!In, OpFits, PortRows
<1>2. CASE vms[n] = "missing"
  <2>1. ops' = [ops EXCEPT ![n].at = "failed"] /\ UNCHANGED <<dials, forwarded, excused>>
    BY <1>2 DEF F!StartListens, F!Goes
  <2> QED
    BY <1>1, <2>1, OpGoes
<1>3. CASE vms[n] # "missing"
  <2>1. /\ dials' = IF dials[q] = "none" THEN [dials EXCEPT ![q] = n] ELSE dials
        /\ forwarded' = [forwarded EXCEPT ![n] = q]
        /\ ops' = [ops EXCEPT ![n].at = IF vms[n] = "running" THEN "done" ELSE "boot"]
        /\ excused' = [excused EXCEPT !.refused = @ \ {n}, !.closed = IF F!Alone(n, q) THEN @ \ {q} ELSE @]
    BY <1>1, <1>3 DEF F!StartListens, F!Listens, F!Listening, F!Goes
  <2>2. /\ ops' = [ops EXCEPT ![n] = ops'[n]] /\ ops'[n] \in PortOps /\ ops'[n].kind = "start" /\ ops'[n].boot = boot
        /\ ops'[n].port = 0 /\ ops'[n].at \in {"done", "boot"}
    BY <1>1, <2>1 DEF PortOps
  <2>3. /\ \A p \in Ports \ {q} : dials'[p] = dials[p]
        /\ dials'[q] = IF dials[q] = "none" THEN n ELSE dials[q]
        /\ \A m \in Names \ {n} : forwarded'[m] = forwarded[m]
        /\ forwarded'[n] = q
        /\ dials' \in [Ports -> Names \cup {"none"}] /\ forwarded' \in [Names -> Ports \cup {0}]
    BY <1>1, <2>1
  <2>4. /\ excused' \in [refused : SUBSET Names, closed : SUBSET Ports, strayed : BOOLEAN]
        /\ excused'.refused = excused.refused \ {n} /\ excused'.strayed = excused.strayed
        /\ excused'.closed = IF F!Alone(n, q) THEN excused.closed \ {q} ELSE excused.closed
    BY <1>1, <2>1
  <2>5. HostMoves(n)
    BY <1>1, <2>2, <2>3, <2>4 DEF HostMoves
  <2>6. \A p \in Ports : /\ ~ HoldsPort(n, p)' /\ ~ HoldsPort(n, p)
                         /\ (HasPort(n, p)' <=> p = q) /\ (HasPort(n, p) <=> p = q) /\ (StandsAt(n, p) <=> p = q)
    BY <1>1, <2>2 DEF HoldsPort, HasPort, StandsAt
  <2>7. PortBase'
    <3>1. OpFits(rows[n], ops'[n])
      BY <1>1, <2>2 DEF OpFits
    <3> QED
      BY <1>1, <2>5, <2>6, <3>1, HostBase
  <2>8. /\ \A m \in Names \ {n} : ops'[m] = ops[m]
        /\ \A m \in Names \ {n}, p \in Ports : (HoldsPort(m, p)' <=> HoldsPort(m, p)) /\ (HasPort(m, p)' <=> HasPort(m, p))
        /\ \A m \in Names, p \in Ports : (MadeAt(m, p)' <=> MadeAt(m, p)) /\ (StandsAt(m, p)' <=> StandsAt(m, p))
        /\ \A m \in Names : ToBeAdopted(m)' <=> ToBeAdopted(m)
    BY <1>1, <2>5, HostKeeps
  <2>9. /\ \A p \in Ports \ {q} : Sound(p)' <=> Sound(p)
        /\ Sound(q)' => Sound(q) \/ F!Alone(n, q)
    BY <2>4 DEF Sound
  <2>10. \A m \in Names : StandsAt(m, q) => m = n
    <3>1. ASSUME NEW m \in Names, StandsAt(m, q) PROVE rows[m].port = q
      BY <1>1, <3>1 DEF StandsAt
    <3> QED
      BY <1>1, <3>1 DEF PortBase, RowsApart
  <2>11. F!Alone(n, q) => \A m \in Names \ {n} : ~ HasPort(m, q) /\ ~ HoldsPort(m, q)
    BY <1>1 DEF F!Alone, HasPort, HoldsPort
  <2>12. ASSUME PortsStand PROVE PortsStand'
    <3> USE <2>12 DEF PortsStand
    <3>1. ASSUME NEW p \in Ports, dials'[p] # "none" PROVE forwarded'[dials'[p]] = p
      <4>1. CASE p = q /\ dials[q] = "none"
        BY <2>3, <4>1
      <4>2. CASE dials'[p] = dials[p]
        <5>1. forwarded[dials[p]] = p /\ dials[p] \in Names
          BY <1>1, <3>1, <4>2 DEF DialIsNoted
        <5>2. CASE dials[p] = n
          <6>1. HasPort(n, p)
            BY <1>1, <5>1, <5>2 DEF NotedIsHad
          <6> QED
            BY <2>3, <2>6, <4>2, <5>2, <6>1
        <5> QED
          BY <2>3, <4>2, <5>1, <5>2
      <4> QED
        BY <2>3, <4>1, <4>2
    <3>2. DialIsNoted'
      BY <3>1 DEF DialIsNoted
    <3>3. NotedIsHad'
      BY <1>1, <2>3, <2>6, <2>8 DEF NotedIsHad
    <3>4. GoneIsClosed'
      BY <1>1, <2>2, <2>3, <2>8 DEF GoneIsClosed, OpFits
    <3>5. Sound(q)' => \A m \in Names : ~ HoldsPort(m, q)
      BY <1>1, <2>6, <2>9, <2>11 DEF MakeIsAlone
    <3>6. Sound(q)' => dials'[q] = n
      <4>1. Sound(q) => dials[q] \in {n, "none"}
        BY <1>1, <2>6 DEF NoneInstead
      <4>2. ASSUME NEW m \in Names \ {n}, dials[q] = m PROVE HasPort(m, q)
        BY <1>1, <4>2 DEF DialIsNoted, NotedIsHad
      <4>3. dials[q] \in Names \cup {"none"}
        BY <1>1
      <4> QED
        BY <2>3, <2>9, <2>11, <4>1, <4>2, <4>3
    <3>7. MakeIsAlone'
      BY <2>6, <2>8, <2>9, <3>5 DEF MakeIsAlone
    <3>8. PickIsFree' /\ MakeListens'
      BY <1>1, <2>3, <2>6, <2>8, <2>9, <3>5 DEF PickIsFree, MakeListens
    <3>9. UntoldListens'
      BY <1>1, <2>2, <2>3, <2>8, <2>9, <2>10, <3>6 DEF UntoldListens
    <3>10. NoneInstead'
      BY <2>3, <2>8, <2>9, <2>10, <3>6 DEF NoneInstead
    <3>11. MadeListens'
      <4>1. ASSUME NEW m \in Names, NEW p \in Ports, MadeAt(m, p), Sound(p)', m \notin excused'.refused
            PROVE  dials'[p] = m \/ ToBeAdopted(m)'
        <5>1. StandsAt(m, p)
          BY <4>1 DEF MadeAt, StandsAt
        <5>2. CASE p = q
          BY <2>10, <3>6, <4>1, <5>1, <5>2
        <5>3. CASE p # q
          <6>1. m # n /\ m \notin excused.refused
            BY <2>4, <2>6, <4>1, <5>1, <5>3
          <6> QED
            BY <2>3, <2>8, <2>9, <4>1, <5>3, <6>1 DEF MadeListens
        <5> QED
          BY <5>2, <5>3
      <4> QED
        BY <2>8, <4>1 DEF MadeListens
    <3> QED
      BY <3>2, <3>3, <3>4, <3>7, <3>8, <3>9, <3>10, <3>11
  <2> QED
    BY <1>1, <2>4, <2>7, <2>12 DEF PortInv
<1> QED
  BY <1>2, <1>3

LEMMA Unlistened ==
  ASSUME PortNames, PortInv, NEW n \in Names, F!RemoveUnlistens(n), UNCHANGED <<rows, known, boot, adopting>>
  PROVE  PortInv'
<1> DEFINE q == forwarded[n]
<1>1. /\ rows \in [Names -> PortRows] /\ ops \in [Names -> PortOps] /\ OpFits(rows[n], ops[n])
      /\ rows[n] \in PortRows /\ ops[n] \in PortOps /\ boot \in Nat /\ 0 \notin Ports
      /\ ops[n].kind = "remove" /\ ops[n].boot = boot /\ ops[n].port = 0 /\ q \in Ports \cup {0}
      /\ rows[n].state \in {"undoing", "deleting"}
      /\ UNCHANGED <<rows, known, boot, adopting>> /\ PortBase
      /\ dials \in [Ports -> Names \cup {"none"}] /\ forwarded \in [Names -> Ports \cup {0}] /\ "none" \notin Names
      /\ excused \in [refused : SUBSET Names, closed : SUBSET Ports, strayed : BOOLEAN]
  BY DEF PortInv, PortBase, PortTypes, PortNames, F!RemoveUnlistens, F!In, OpFits
<1>2. /\ dials' = [p \in Ports |-> IF p = q THEN "none" ELSE dials[p]]
      /\ forwarded' = [forwarded EXCEPT ![n] = 0] /\ ops' = [ops EXCEPT ![n].at = "done"]
      /\ excused' = [excused EXCEPT !.closed = @ \cup {p \in Ports : p = q /\ dials[p] \notin {n, "none"}}]
  BY DEF F!RemoveUnlistens, F!Unlistens, F!Goes
<1>3. /\ ops' = [ops EXCEPT ![n] = ops'[n]] /\ ops'[n] \in PortOps /\ ops'[n].kind = "remove" /\ ops'[n].boot = boot
      /\ ops'[n].port = 0 /\ ops'[n].at = "done"
  BY <1>1, <1>2 DEF PortOps
<1>4. /\ \A p \in Ports : dials'[p] = IF p = q THEN "none" ELSE dials[p]
      /\ \A m \in Names \ {n} : forwarded'[m] = forwarded[m]
      /\ forwarded'[n] = 0
      /\ dials' \in [Ports -> Names \cup {"none"}] /\ forwarded' \in [Names -> Ports \cup {0}]
  BY <1>1, <1>2
<1>5. /\ excused' \in [refused : SUBSET Names, closed : SUBSET Ports, strayed : BOOLEAN]
      /\ excused'.refused = excused.refused /\ excused'.strayed = excused.strayed
      /\ excused'.closed = excused.closed \cup {p \in Ports : p = q /\ dials[p] \notin {n, "none"}}
  BY <1>1, <1>2
<1>6. HostMoves(n)
  BY <1>1, <1>3, <1>4, <1>5 DEF HostMoves
<1>7. \A p \in Ports : ~ HoldsPort(n, p)' /\ ~ HoldsPort(n, p) /\ ~ StandsAt(n, p)
  BY <1>1, <1>3 DEF HoldsPort, StandsAt
<1>8. PortBase'
  <2>1. OpFits(rows[n], ops'[n])
    BY <1>1, <1>3 DEF OpFits
  <2> QED
    BY <1>1, <1>6, <1>7, <2>1, HostBase
<1>9. /\ \A m \in Names \ {n} : ops'[m] = ops[m]
      /\ \A m \in Names \ {n}, p \in Ports : (HoldsPort(m, p)' <=> HoldsPort(m, p)) /\ (HasPort(m, p)' <=> HasPort(m, p))
      /\ \A m \in Names, p \in Ports : (MadeAt(m, p)' <=> MadeAt(m, p)) /\ (StandsAt(m, p)' <=> StandsAt(m, p))
      /\ \A m \in Names : ToBeAdopted(m)' <=> ToBeAdopted(m)
  BY <1>1, <1>6, HostKeeps
<1>10. \A p \in Ports : Sound(p)' => Sound(p) /\ (p = q => dials[p] \in {n, "none"})
  BY <1>5 DEF Sound
<1> HIDE DEF q
<1>11. ASSUME PortsStand PROVE PortsStand'
  <2> USE <1>11 DEF PortsStand
  <2>1. ASSUME NEW p \in Ports, dials'[p] # "none" PROVE forwarded'[dials'[p]] = p
    <3>1. p # q /\ dials'[p] = dials[p] /\ dials[p] \in Names /\ forwarded[dials[p]] = p
      BY <1>1, <1>4, <2>1 DEF DialIsNoted
    <3>2. dials[p] # n
      BY <3>1 DEF q
    <3> QED
      BY <1>4, <3>1, <3>2
  <2>2. DialIsNoted'
    BY <2>1 DEF DialIsNoted
  <2>3. NotedIsHad'
    BY <1>1, <1>4, <1>9 DEF NotedIsHad
  <2>4. GoneIsClosed'
    BY <1>1, <1>4, <1>9 DEF GoneIsClosed
  <2>5. MakeIsAlone'
    BY <1>7, <1>9, <1>10 DEF MakeIsAlone
  <2>6. PickIsFree'
    BY <1>4, <1>7, <1>9, <1>10 DEF PickIsFree
  <2>7. MakeListens'
    <3>1. ASSUME NEW m \in Names \ {n}, NEW p \in Ports, HoldsPort(m, p), ops[m].at # "listen", Sound(p)'
          PROVE  dials'[p] = m
      <4>1. dials[p] = m
        BY <1>10, <3>1 DEF MakeListens
      <4> QED
        BY <1>1, <1>4, <1>10, <3>1, <4>1
    <3> QED
      BY <1>7, <1>9, <3>1 DEF MakeListens
  <2>8. UntoldListens'
    <3>1. ASSUME NEW k \in Names, NEW m \in Names \ {n}, NEW p \in Ports, k # n, k # m, ops[k].kind = "make",
                 ops[k].at = "sent", ops[k].boot = boot, p \notin ops[k].ports, StandsAt(m, p), Sound(p)'
          PROVE  dials'[p] = m
      <4>1. dials[p] = m
        BY <1>10, <3>1 DEF UntoldListens
      <4> QED
        BY <1>1, <1>4, <1>10, <3>1, <4>1
    <3> QED
      BY <1>1, <1>3, <1>7, <1>9, <3>1 DEF UntoldListens
  <2>9. NoneInstead'
    BY <1>4, <1>9, <1>10 DEF NoneInstead
  <2>10. MadeListens'
    <3>1. ASSUME NEW m \in Names, NEW p \in Ports, MadeAt(m, p), Sound(p)', m \notin excused.refused
          PROVE  dials'[p] = m \/ ToBeAdopted(m)
      <4>1. m # n
        BY <1>1, <3>1 DEF MadeAt
      <4>2. dials[p] = m \/ ToBeAdopted(m)
        BY <1>10, <3>1 DEF MadeListens
      <4> QED
        BY <1>1, <1>4, <1>10, <3>1, <4>1, <4>2
    <3> QED
      BY <1>5, <1>9, <3>1 DEF MadeListens
  <2> QED
    BY <2>2, <2>3, <2>4, <2>5, <2>6, <2>7, <2>8, <2>9, <2>10
<1> QED
  BY <1>1, <1>5, <1>8, <1>11 DEF PortInv

LEMMA Unbound ==
  ASSUME PortNames, PortInv, NEW n \in Names, NEW q \in Ports, F!BindRefused(n, q)
  PROVE  PortInv'
<1>1. /\ rows \in [Names -> PortRows] /\ ops \in [Names -> PortOps] /\ OpFits(rows[n], ops[n])
      /\ rows[n] \in PortRows /\ ops[n] \in PortOps /\ boot \in Nat /\ 0 \notin Ports
      /\ ops[n].boot = boot /\ dials[q] = "none"
      /\ \/ ops[n].kind = "make" /\ ops[n].at = "listen" /\ q = ops[n].port
         \/ ops[n].kind = "start" /\ q = rows[n].port
      /\ UNCHANGED <<rows, known, boot, dials, adopting, excused>> /\ PortBase
      /\ dials \in [Ports -> Names \cup {"none"}] /\ forwarded \in [Names -> Ports \cup {0}] /\ "none" \notin Names
  BY DEF PortInv, PortBase, PortTypes, PortNames, F!BindRefused, F!In
<1>2. forwarded' = [forwarded EXCEPT ![n] = q] /\ ops' = [ops EXCEPT ![n].at = "failed"]
  BY DEF F!BindRefused, F!Goes
<1>3. /\ ops' = [ops EXCEPT ![n] = ops'[n]] /\ ops'[n] \in PortOps /\ ops'[n].kind = ops[n].kind /\ ops'[n].boot = boot
      /\ ops'[n].port = ops[n].port /\ ops'[n].at = "failed" /\ ops[n].kind \in {"make", "start"}
  BY <1>1, <1>2 DEF PortOps
<1>4. /\ \A m \in Names \ {n} : forwarded'[m] = forwarded[m]
      /\ forwarded'[n] = q /\ forwarded' \in [Names -> Ports \cup {0}]
  BY <1>1, <1>2
<1>5. HostMoves(n)
  BY <1>1, <1>3, <1>4 DEF HostMoves, PortBase, PortTypes
<1>6. \A p \in Ports : ~ HoldsPort(n, p)' /\ (HasPort(n, p)' <=> p = q) /\ (HasPort(n, p) <=> p = q)
  BY <1>1, <1>3 DEF HoldsPort, HasPort, OpFits
<1>7. PortBase'
  <2>1. OpFits(rows[n], ops'[n])
    BY <1>1, <1>3 DEF OpFits
  <2> QED
    BY <1>1, <1>5, <1>6, <2>1, HostBase
<1>8. /\ \A m \in Names \ {n} : ops'[m] = ops[m]
      /\ \A m \in Names \ {n}, p \in Ports : (HoldsPort(m, p)' <=> HoldsPort(m, p)) /\ (HasPort(m, p)' <=> HasPort(m, p))
      /\ \A m \in Names, p \in Ports : (MadeAt(m, p)' <=> MadeAt(m, p)) /\ (StandsAt(m, p)' <=> StandsAt(m, p))
      /\ \A m \in Names : ToBeAdopted(m)' <=> ToBeAdopted(m)
  BY <1>1, <1>5, HostKeeps
<1>9. \A p : Sound(p)' <=> Sound(p)
  BY <1>1 DEF Sound
<1>10. ASSUME PortsStand PROVE PortsStand'
  <2> USE <1>10 DEF PortsStand
  <2>1. ASSUME NEW p \in Ports, dials[p] # "none" PROVE dials[p] # n /\ forwarded[dials[p]] = p /\ dials[p] \in Names
    BY <1>1, <1>6, <2>1 DEF DialIsNoted, NotedIsHad
  <2>2. DialIsNoted'
    BY <1>1, <1>4, <2>1 DEF DialIsNoted
  <2>3. NotedIsHad'
    BY <1>1, <1>4, <1>6, <1>8 DEF NotedIsHad
  <2>4. GoneIsClosed'
    BY <1>1, <1>3, <1>4, <1>8 DEF GoneIsClosed, OpFits
  <2>5. MakeIsAlone'
    BY <1>6, <1>8, <1>9 DEF MakeIsAlone
  <2>6. PickIsFree' /\ MakeListens'
    BY <1>1, <1>6, <1>8, <1>9 DEF PickIsFree, MakeListens
  <2>7. UntoldListens'
    BY <1>1, <1>3, <1>8, <1>9 DEF UntoldListens
  <2>8. NoneInstead' /\ MadeListens'
    BY <1>1, <1>8, <1>9 DEF NoneInstead, MadeListens
  <2> QED
    BY <2>2, <2>3, <2>4, <2>5, <2>6, <2>7, <2>8
<1> QED
  BY <1>1, <1>7, <1>10 DEF PortInv

LEMMA MacHostSteps ==
  ASSUME PortNames, PortInv, NEW n \in Names,
         F!HostActs(n) \/ F!StepFails(n) \/ \E p \in Ports : F!BindRefused(n, p)
  PROVE  PortInv'
<1>1. ASSUME NEW kind, NEW from, NEW at \in {"boot", "unlisten", "done", "failed"}, F!In(n, kind, from), F!Goes(n, at),
             UNCHANGED <<rows, known, boot, dials, forwarded, adopting, excused>>,
             \/ kind = "make" /\ from \in {"clone", "boot"} /\ at \in {"boot", "done"}
             \/ kind \in {"start", "stop", "pause"}
             \/ kind = "remove" /\ at # "done"
      PROVE  PortInv'
  BY <1>1, OpGoes DEF F!In, F!Goes
<1>2. CASE F!HostActs(n)
  <2>1. UNCHANGED <<rows, known, boot, adopting>>
    BY <1>2 DEF F!HostActs
  <2>2. CASE F!MakeClones(n) \/ F!StopEnds(n) \/ F!RemoveDeletes(n)
    BY <1>1, <2>1, <2>2 DEF F!MakeClones, F!StopEnds, F!RemoveDeletes
  <2>3. CASE F!Boots(n)
    BY <1>1, <2>1, <2>3 DEF F!Boots
  <2>4. CASE F!PauseEnds(n)
    BY <1>1, <2>1, <2>4 DEF F!PauseEnds
  <2> QED
    BY <1>2, <2>1, <2>2, <2>3, <2>4, Picked, Listened, Started, Unlistened DEF F!HostActs
<1>3. CASE F!StepFails(n)
  BY <1>3, OpGoes DEF F!StepFails, F!Goes
<1> QED
  BY <1>2, <1>3, Unbound

LEMMA AdoptionMoves ==
  ASSUME PortNames, PortInv, F!AdoptReads \/ F!AdoptRecords \/ F!AdoptFails
  PROVE  PortInv'
<1>1. /\ UNCHANGED <<rows, ops, boot, dials, forwarded, excused>> /\ PortBase /\ 0 \notin Ports
      /\ PortTypes /\ \A n \in Names : rows[n] \in PortRows /\ OpFits(rows[n], ops[n])
  BY DEF PortInv, PortBase, PortTypes, PortNames, F!AdoptReads, F!AdoptRecords, F!AdoptFails
<1>2. F!NoAdopting \in [boot : Nat, machines : SUBSET [name : Names, port : Ports], told : BOOLEAN]
  BY DEF F!NoAdopting
<1>3. /\ PortTypes' /\ GivenOnce'
      /\ \A n \in Names, p \in Ports : MadeAt(n, p) => dials[p] = n \/ ~ ToBeAdopted(n) \/ ToBeAdopted(n)'
  <2>1. CASE F!AdoptReads
    <3>1. /\ adopting = F!NoAdopting /\ known # boot /\ known' = known
          /\ adopting' = [boot |-> boot, told |-> FALSE,
                          machines |-> {[name |-> n, port |-> rows[n].port] : n \in {m \in Names : rows[m].state = "made"}}]
      BY <2>1 DEF F!AdoptReads
    <3>2. \A n \in Names : rows[n].state = "made" => rows[n].port \in Ports
      BY <1>1 DEF OpFits, PortRows
    <3>3. PortTypes'
      BY <1>1, <3>1, <3>2 DEF PortTypes
    <3>4. GivenOnce'
      BY <3>1 DEF GivenOnce
    <3>5. \A n \in Names : rows[n].state = "made" => ToBeAdopted(n)'
      BY <1>1, <3>1 DEF ToBeAdopted
    <3> QED
      BY <3>3, <3>4, <3>5 DEF MadeAt
  <2>2. CASE F!AdoptRecords \/ F!AdoptFails
    <3>1. /\ adopting' = F!NoAdopting
          /\ known' = known \/ (known' = adopting.boot /\ adopting.told)
      BY <2>2 DEF F!AdoptRecords, F!AdoptFails
    <3>2. PortTypes'
      BY <1>1, <1>2, <3>1 DEF PortTypes, F!NoAdopting
    <3>3. GivenOnce'
      BY <3>1 DEF GivenOnce, F!NoAdopting
    <3>4. \A n \in Names : ToBeAdopted(n) => ToBeAdopted(n)'
      BY <1>1, <3>1 DEF ToBeAdopted, F!NoAdopting, PortTypes
    <3> QED
      BY <3>2, <3>3, <3>4
  <2> QED
    BY <2>1, <2>2
<1>4. PortBase'
  BY <1>1, <1>3 DEF PortBase, OpFits, RowsApart, MakesApart, HoldsPort
<1>5. ASSUME PortsStand PROVE PortsStand'
  <2> USE <1>5 DEF PortsStand
  <2>1. DialIsNoted' /\ NotedIsHad' /\ GoneIsClosed'
    BY <1>1 DEF DialIsNoted, NotedIsHad, HasPort, GoneIsClosed
  <2>2. MakeIsAlone' /\ PickIsFree' /\ MakeListens'
    BY <1>1 DEF MakeIsAlone, PickIsFree, MakeListens, HoldsPort, StandsAt, Sound
  <2>3. UntoldListens' /\ NoneInstead'
    BY <1>1 DEF UntoldListens, NoneInstead, StandsAt, Sound
  <2>4. MadeListens'
    <3>1. ASSUME NEW n \in Names, NEW p \in Ports, MadeAt(n, p), Sound(p), n \notin excused.refused
          PROVE  dials[p] = n \/ ToBeAdopted(n)'
      BY <1>3, <3>1 DEF MadeListens
    <3> QED
      BY <1>1, <3>1 DEF MadeListens, MadeAt, Sound
  <2> QED
    BY <2>1, <2>2, <2>3, <2>4
<1> QED
  BY <1>1, <1>4, <1>5 DEF PortInv

LEMMA Adopted ==
  ASSUME PortNames, PortInv, NEW shut \in SUBSET Names, F!AdoptTold(shut)
  PROVE  PortInv'
<1> DEFINE given == {g.name : g \in adopting.machines}
           portOf(n) == (CHOOSE g \in adopting.machines : g.name = n).port
           dialed == {n \in given \ shut : dials[portOf(n)] = "none"}
<1>1. /\ UNCHANGED <<rows, ops, boot, known>> /\ PortBase /\ 0 \notin Ports /\ "none" \notin Names
      /\ PortTypes /\ \A n \in Names : rows[n] \in PortRows /\ OpFits(rows[n], ops[n])
      /\ dials \in [Ports -> Names \cup {"none"}] /\ forwarded \in [Names -> Ports \cup {0}]
      /\ adopting \in [boot : Nat, machines : SUBSET [name : Names, port : Ports], told : BOOLEAN]
      /\ excused \in [refused : SUBSET Names, closed : SUBSET Ports, strayed : BOOLEAN]
  BY DEF PortInv, PortBase, PortTypes, PortNames, F!AdoptTold
<1>2. /\ adopting' = [adopting EXCEPT !.told = TRUE]
      /\ forwarded' = [n \in Names |-> IF n \in given THEN portOf(n) ELSE forwarded[n]]
      /\ dials' = [p \in Ports |-> IF \E n \in dialed : portOf(n) = p
                                   THEN CHOOSE n \in dialed : portOf(n) = p ELSE dials[p]]
      /\ excused' = [excused EXCEPT !.refused = @ \cup shut,
           !.strayed = @ \/ \E n \in given : rows[n] # [state |-> "made", port |-> portOf(n)]]
      /\ ~ adopting.told
  BY DEF F!AdoptTold
<1>3. given \subseteq Names /\ dialed \subseteq Names /\ \A n \in given : portOf(n) \in Ports
  <2>1. ASSUME NEW n \in given PROVE n \in Names /\ portOf(n) \in Ports
    <3>1. PICK g \in adopting.machines : g.name = n
      OBVIOUS
    <3>2. (CHOOSE h \in adopting.machines : h.name = n) \in adopting.machines
      BY <3>1
    <3> QED
      BY <1>1, <3>1, <3>2
  <2> QED
    BY <2>1
<1>4. \A g \in adopting.machines : portOf(g.name) = g.port /\ g.name \in given
  <2>1. ASSUME NEW g \in adopting.machines PROVE portOf(g.name) = g.port
    <3>1. (CHOOSE h \in adopting.machines : h.name = g.name) = g
      BY <1>1 DEF PortBase, GivenOnce
    <3> QED
      BY <3>1
  <2> QED
    BY <2>1
<1> HIDE DEF given, portOf
<1>5. /\ excused'.closed = excused.closed /\ excused'.refused = excused.refused \cup shut
      /\ excused'.strayed = (excused.strayed \/ \E n \in given : rows[n] # [state |-> "made", port |-> portOf(n)])
      /\ excused' \in [refused : SUBSET Names, closed : SUBSET Ports, strayed : BOOLEAN]
  BY <1>1, <1>2
<1>6. \A p \in Ports : \/ dials'[p] = dials[p] /\ \A n \in dialed : portOf(n) # p
                       \/ dials'[p] \in dialed /\ portOf(dials'[p]) = p
  <2>1. ASSUME NEW p \in Ports, NEW n \in dialed, portOf(n) = p
        PROVE  dials'[p] \in dialed /\ portOf(dials'[p]) = p
    BY <1>2, <2>1
  <2>2. ASSUME NEW p \in Ports, \A n \in dialed : portOf(n) # p PROVE dials'[p] = dials[p]
    BY <1>2, <2>2
  <2> QED
    BY <2>1, <2>2
<1>7. /\ dials' \in [Ports -> Names \cup {"none"}] /\ forwarded' \in [Names -> Ports \cup {0}]
      /\ adopting' \in [boot : Nat, machines : SUBSET [name : Names, port : Ports], told : BOOLEAN]
      /\ adopting'.boot = adopting.boot /\ adopting'.machines = adopting.machines
  <2>1. \A p \in Ports : dials'[p] \in Names \cup {"none"}
    BY <1>1, <1>3, <1>6
  <2>2. dials' \in [Ports -> Names \cup {"none"}]
    BY <1>2, <2>1
  <2> QED
    BY <1>1, <1>2, <1>3, <2>2
<1>8. PortBase'
  BY <1>1, <1>5, <1>7 DEF PortBase, PortTypes, GivenOnce, OpFits, RowsApart, MakesApart, HoldsPort
<1>9. ASSUME ~ excused'.strayed PROVE PortsStand'
  <2>1. PortsStand
    BY <1>5, <1>9 DEF PortInv
  <2> USE <2>1 DEF PortsStand
  <2>2. ASSUME NEW n \in given
        PROVE  /\ rows[n].state = "made" /\ rows[n].port = portOf(n) /\ portOf(n) \in Ports /\ n \in Names
               /\ forwarded'[n] = portOf(n) /\ MadeAt(n, portOf(n)) /\ StandsAt(n, portOf(n)) /\ ops[n].kind # "make"
               /\ ops[n].kind # "remove"
    <3>1. rows[n] = [state |-> "made", port |-> portOf(n)]
      BY <1>5, <1>9
    <3> QED
      BY <1>1, <1>2, <1>3, <3>1 DEF MadeAt, StandsAt, OpFits
  <2>3. \A n \in Names \ given : forwarded'[n] = forwarded[n]
    BY <1>2
  <2>4. ASSUME NEW p \in Ports, dials'[p] # dials[p]
        PROVE  /\ dials[p] = "none" /\ dials'[p] \in Names /\ dials'[p] \in given
               /\ rows[dials'[p]].port = p /\ StandsAt(dials'[p], p)
    BY <1>3, <1>6, <2>2, <2>4
  <2>5. ASSUME NEW n \in given \ shut, dials[portOf(n)] \in {n, "none"} PROVE dials'[portOf(n)] = n
    <3> DEFINE p == portOf(n)
    <3>1. p \in Ports /\ rows[n].port = p /\ n \in Names /\ p # 0
      BY <1>1, <2>2
    <3>2. CASE n \in dialed
      <4>1. dials'[p] \in dialed /\ portOf(dials'[p]) = p
        BY <1>6, <3>1, <3>2
      <4>2. rows[dials'[p]].port = p /\ dials'[p] \in Names
        BY <1>3, <2>2, <4>1
      <4> QED
        BY <1>1, <3>1, <4>2 DEF PortBase, RowsApart
    <3>3. CASE n \notin dialed
      <4>1. dials[p] # "none"
        BY <3>3
      <4>2. dials[p] = n
        BY <2>5, <4>1
      <4> QED
        BY <2>4, <3>1, <4>1, <4>2
    <3> QED
      BY <3>2, <3>3
  <2>6. /\ \A n \in Names, p \in Ports : HoldsPort(n, p)' <=> HoldsPort(n, p)
        /\ \A n \in Names, p \in Ports : HasPort(n, p)' <=> HasPort(n, p)
        /\ \A n \in Names, p \in Ports : (MadeAt(n, p)' <=> MadeAt(n, p)) /\ (StandsAt(n, p)' <=> StandsAt(n, p))
        /\ \A p : Sound(p)' <=> Sound(p)
    BY <1>1, <1>5 DEF HoldsPort, HasPort, MadeAt, StandsAt, Sound
  <2>7. ASSUME NEW p \in Ports, dials'[p] # "none" PROVE forwarded'[dials'[p]] = p
    <3>1. CASE dials'[p] # dials[p]
      BY <2>2, <2>4, <3>1
    <3>2. CASE dials'[p] = dials[p]
      <4>1. dials[p] \in Names /\ forwarded[dials[p]] = p /\ HasPort(dials[p], p)
        BY <1>1, <2>7, <3>2 DEF DialIsNoted, NotedIsHad
      <4>2. CASE dials[p] \in given
        BY <2>2, <3>2, <4>1, <4>2 DEF HasPort
      <4> QED
        BY <2>3, <3>2, <4>1, <4>2
    <3> QED
      BY <3>1, <3>2
  <2>8. DialIsNoted'
    BY <2>7 DEF DialIsNoted
  <2>9. NotedIsHad'
    <3>1. ASSUME NEW n \in Names, forwarded'[n] # 0 PROVE HasPort(n, forwarded'[n])
      BY <2>2, <2>3, <3>1 DEF NotedIsHad, HasPort
    <3>2. \A n \in Names : forwarded'[n] \in Ports \cup {0}
      BY <1>7
    <3> QED
      BY <1>1, <3>1 DEF NotedIsHad, HasPort
  <2>10. GoneIsClosed'
    BY <1>1, <2>2, <2>3 DEF GoneIsClosed
  <2>11. MakeIsAlone'
    BY <2>6 DEF MakeIsAlone
  <2>12. PickIsFree'
    <3>1. ASSUME NEW n \in Names, NEW p \in Ports, HoldsPort(n, p), ops[n].at = "listen", Sound(p)
          PROVE  dials'[p] = "none"
      <4>1. dials[p] = "none" /\ ops[n].kind = "make"
        BY <3>1 DEF PickIsFree, HoldsPort
      <4>2. CASE dials'[p] # dials[p]
        BY <2>2, <2>4, <3>1, <4>1, <4>2 DEF MakeIsAlone
      <4> QED
        BY <4>1, <4>2
    <3> QED
      BY <1>1, <2>6, <3>1 DEF PickIsFree
  <2>13. MakeListens' /\ UntoldListens'
    BY <1>1, <2>4, <2>6 DEF MakeListens, UntoldListens
  <2>14. NoneInstead'
    <3>1. ASSUME NEW n \in Names, NEW p \in Ports, StandsAt(n, p), Sound(p) PROVE dials'[p] \in {n, "none"}
      <4>1. dials[p] \in {n, "none"} /\ rows[n].port = p /\ p # 0
        BY <1>1, <3>1 DEF NoneInstead, StandsAt
      <4>2. CASE dials'[p] # dials[p]
        BY <1>1, <2>4, <4>1, <4>2 DEF PortBase, RowsApart
      <4> QED
        BY <4>1, <4>2
    <3> QED
      BY <2>6, <3>1 DEF NoneInstead
  <2>15. MadeListens'
    <3>1. ASSUME NEW n \in Names, NEW p \in Ports, MadeAt(n, p), Sound(p), n \notin excused'.refused
          PROVE  dials'[p] = n \/ ToBeAdopted(n)'
      <4>1. /\ dials[p] = n \/ ToBeAdopted(n)
            /\ dials[p] \in {n, "none"} /\ rows[n].port = p /\ n \notin shut
        BY <1>5, <3>1 DEF MadeListens, NoneInstead, MadeAt, StandsAt
      <4>2. CASE dials[p] = n
        BY <1>1, <2>4, <4>2
      <4>3. CASE ToBeAdopted(n) /\ adopting.boot = boot
        <5>1. [name |-> n, port |-> p] \in adopting.machines
          BY <4>1, <4>3 DEF ToBeAdopted
        <5>2. n \in given \ shut /\ portOf(n) = p
          BY <1>4, <4>1, <5>1
        <5> QED
          BY <2>5, <4>1, <5>2
      <4>4. CASE ToBeAdopted(n) /\ adopting.boot # boot
        BY <1>1, <1>7, <4>4 DEF ToBeAdopted
      <4> QED
        BY <4>1, <4>2, <4>3, <4>4
    <3> QED
      BY <2>6, <3>1 DEF MadeListens
  <2> QED
    BY <2>8, <2>9, <2>10, <2>11, <2>12, <2>13, <2>14, <2>15
<1> QED
  BY <1>5, <1>8, <1>9 DEF PortInv

LEMMA PortsRestart ==
  ASSUME PortNames, PortInv, F!HostRestarts
  PROVE  PortInv'
<1>0. /\ boot \in Nat /\ boot' = boot + 1 /\ known < boot' /\ boot' \in Nat \ {0}
      /\ adopting.boot \in Nat /\ adopting.boot < boot' /\ known' = known /\ adopting' = adopting
  <2>1. boot \in Nat \ {0} /\ known \in Nat /\ known <= boot /\ adopting.boot \in Nat /\ adopting.boot <= boot
    BY DEF PortInv, PortBase, PortTypes
  <2>2. boot' = boot + 1 /\ known' = known /\ adopting' = adopting
    BY DEF F!HostRestarts
  <2> QED
    BY <2>1, <2>2
<1>1. /\ UNCHANGED <<rows, ops, known, adopting>> /\ PortBase /\ PortTypes /\ "none" \notin Names
      /\ \A n \in Names : ops[n] \in PortOps /\ OpFits(rows[n], ops[n])
      /\ dials' = [p \in Ports |-> "none"] /\ forwarded' = [n \in Names |-> 0]
      /\ excused' = [refused |-> {}, closed |-> {}, strayed |-> FALSE]
  BY DEF PortInv, PortBase, PortTypes, PortNames, F!HostRestarts
<1>2. \A n \in Names : ops[n].boot # boot' /\ ops[n].boot <= boot'
  BY <1>0, <1>1 DEF OpFits, PortOps
<1>3. PortTypes'
  BY <1>0, <1>1 DEF PortTypes
<1>4. \A n \in Names, p \in Ports : ~ HoldsPort(n, p)'
  BY <1>1, <1>2 DEF HoldsPort
<1>5. PortBase'
  BY <1>1, <1>2, <1>3, <1>4 DEF PortBase, GivenOnce, OpFits, RowsApart, MakesApart
<1>6. DialIsNoted' /\ NotedIsHad' /\ GoneIsClosed'
  BY <1>1 DEF DialIsNoted, NotedIsHad, GoneIsClosed
<1>7. MakeIsAlone' /\ PickIsFree' /\ MakeListens' /\ UntoldListens' /\ NoneInstead'
  BY <1>1, <1>2, <1>4 DEF MakeIsAlone, PickIsFree, MakeListens, UntoldListens, NoneInstead
<1>8. MadeListens'
  BY <1>0, <1>1 DEF MadeListens, ToBeAdopted, PortTypes
<1> QED
  BY <1>5, <1>6, <1>7, <1>8 DEF PortInv, PortsStand

LEMMA ForwardersBegin ==
  ASSUME PortNames, F!ForwarderInit
  PROVE  PortInv
<1>1. /\ rows = [n \in Names |-> F!NoRow] /\ ops = [n \in Names |-> F!NoOp] /\ known = 0 /\ boot = 1
      /\ dials = [p \in Ports |-> "none"] /\ forwarded = [n \in Names |-> 0] /\ adopting = F!NoAdopting
      /\ excused = [refused |-> {}, closed |-> {}, strayed |-> FALSE] /\ 0 \notin Ports
  BY DEF F!ForwarderInit, PortNames
<1>2. F!NoRow \in PortRows /\ F!NoOp \in PortOps
  BY DEF F!NoRow, F!NoOp, PortRows, PortOps
<1>3. PortTypes
  BY <1>1, <1>2 DEF PortTypes, F!NoAdopting
<1>4. \A n \in Names : OpFits(rows[n], ops[n])
  BY <1>1 DEF OpFits, F!NoRow, F!NoOp
<1>5. \A n \in Names, p \in Ports : ~ HoldsPort(n, p) /\ ~ StandsAt(n, p)
  BY <1>1 DEF HoldsPort, StandsAt, F!NoRow, F!NoOp
<1>6. PortBase
  BY <1>1, <1>3, <1>4, <1>5 DEF PortBase, RowsApart, MakesApart, GivenOnce, F!NoRow, F!NoAdopting
<1>7. DialIsNoted /\ NotedIsHad /\ GoneIsClosed
  BY <1>1 DEF DialIsNoted, NotedIsHad, GoneIsClosed
<1>8. MakeIsAlone /\ PickIsFree /\ MakeListens /\ UntoldListens /\ NoneInstead
  BY <1>5 DEF MakeIsAlone, PickIsFree, MakeListens, UntoldListens, NoneInstead
<1>9. MadeListens
  BY <1>1 DEF MadeListens, MadeAt, F!NoRow
<1> QED
  BY <1>6, <1>7, <1>8, <1>9 DEF PortInv, PortsStand

LEMMA ForwarderStep ==
  ASSUME PortNames, PortInv, F!ForwarderNext
  PROVE  PortInv'
<1>1. ASSUME NEW n \in Names,
             \/ F!Create(n) \/ F!Delete(n) \/ F!RemoveSent(n)
             \/ \E kind \in {"start", "stop", "pause"} : F!Wish(n, kind)
             \/ F!Ran(n) \/ F!Hears(n) \/ F!Loses(n)
             \/ F!HostActs(n) \/ F!StepFails(n) \/ \E p \in Ports : F!BindRefused(n, p)
      PROVE  PortInv'
  BY <1>1, Requested, Reported, MacHostSteps
<1>2. CASE F!AdoptTells
  <2>1. ASSUME NEW n \in Names, F!AdoptTold({n}) PROVE PortInv'
    BY <2>1, Adopted
  <2>2. ASSUME F!AdoptTold({}) PROVE PortInv'
    BY <2>2, Adopted
  <2> QED
    BY <1>2, <2>1, <2>2 DEF F!AdoptTells
<1>3. CASE F!AdoptReads \/ F!AdoptRecords \/ F!AdoptFails
  BY <1>3, AdoptionMoves
<1>4. CASE F!HostRestarts
  BY <1>4, PortsRestart
<1> QED
  BY <1>1, <1>2, <1>3, <1>4 DEF F!ForwarderNext

\* Once a host's boot is recorded, a running machine's port leads to its VM and to no other, through
\* restarts of the host's process, makes that fail or are cut, and ports used again, but for what is
\* excused (operations.ts, machine-ports.ts, platform/tart, fleet.ts).
THEOREM ForwardersAreTrue ==
  ASSUME PortNames
  PROVE  PartsSpec => []ForwardersTrue
<1>1. PartsInit => PortInv
  BY ForwardersBegin DEF PartsInit
<1>2. ASSUME PortInv, UNCHANGED forwarderVars PROVE PortInv'
  <2>1. UNCHANGED <<rows, known, boot, dials, forwarded, ops, adopting, excused>>
    BY <1>2 DEF forwarderVars
  <2>2. PortBase'
    BY <1>2, <2>1 DEF PortInv, PortBase, PortTypes, OpFits, RowsApart, MakesApart, GivenOnce, HoldsPort
  <2>3. PortsStand => PortsStand'
    BY <2>1 DEF PortsStand, DialIsNoted, NotedIsHad, GoneIsClosed, MakeIsAlone, PickIsFree, MakeListens,
                UntoldListens, NoneInstead, MadeListens, HoldsPort, HasPort, StandsAt, MadeAt, Sound, ToBeAdopted
  <2> QED
    BY <1>2, <2>1, <2>2, <2>3 DEF PortInv
<1>3. PortInv /\ [PartsNext]_allVars => PortInv'
  BY <1>2, ForwarderStep DEF PartsNext, allVars
<1>4. ASSUME PortInv PROVE ForwardersTrue
  <2>1. ASSUME known = boot, ~ excused.strayed, NEW n \in Names \ excused.refused, rows[n].state = "made",
               rows[n].port \notin excused.closed
        PROVE  dials[rows[n].port] = n
    <3>1. rows[n].port \in Ports
      BY <1>4, <2>1 DEF PortInv, PortBase, PortTypes, OpFits, PortRows
    <3> QED
      BY <1>4, <2>1, <3>1 DEF PortInv, PortsStand, MadeListens, MadeAt, Sound, ToBeAdopted
  <2> QED
    BY <2>1 DEF ForwardersTrue, F!ForwardersTrue
<1> QED
  BY <1>1, <1>3, <1>4, PTL DEF PartsSpec, allVars
================================================================================
