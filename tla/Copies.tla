--------------------------------- MODULE Copies ---------------------------------
(***************************************************************************)
(* A machine "a", a checkpoint "k" captured from it, and a machine "b"     *)
(* copied from either, on one host: what their rows, loops and leases do   *)
(* to one another (apps/server/src/checkpoints.ts, copies.ts, steps.ts,    *)
(* machines.ts, platform/sqlite.ts; apps/host/src/operations.ts).          *)
(*                                                                         *)
(* The calls between loop and host, which MachineLife has in full, are     *)
(* here what they amount to: an operation is run at most once between its  *)
(* begin and its end, and is lost when the host restarts.                  *)
(***************************************************************************)
EXTENDS MachineChart

CONSTANTS
  MaxCreates,    \* bound: creates of "a"
  MaxRequests,   \* bound: forks, restores, captures, wishes and resizes, together
  MaxFaults      \* bound: failing steps and restarts of either process, together

ASSUME CopiesAssumption ==
  {MaxCreates, MaxRequests, MaxFaults} \subseteq Nat

K == INSTANCE CheckpointChart

Machines == {"a", "b"}
Names == Machines \cup {"k"}

VARIABLES
  row,     \* the stored row of each name, or Gone
  op,      \* the stored operation of each name, with how far its host is with it
  loop,    \* each name's look: idle, or what it read and will write with
  pauser,  \* the request that captures "a" before it pauses it
  vm,      \* what the host holds of each machine
  image,   \* what the host holds of the checkpoint
  left     \* what is left of each bound

vars == <<row, op, loop, pauser, vm, image, left>>

hostVars == <<vm, image>>

--------------------------------------------------------------------------------
(* Rows and leases. *)

Exists(r) == row[r] # Gone

StateIn(r, leaves) == Exists(r) /\ row[r].state \in leaves

Idle == [at |-> "idle"]

NoVM == [is |-> "none", size |-> NoSize, from |-> NoSize]

NoImage == [is |-> "none", size |-> NoSize, ran |-> FALSE]

Spend(what) == /\ left[what] > 0
               /\ left' = [left EXCEPT ![what] = @ - 1]

StepIn(r, leaf) == IF r = "k" THEN K!StepOf(leaf) ELSE StepOf(leaf)

ActivityIn(r) == IF r = "k" THEN K!ActivityOf(row[r].state) ELSE ActivityOf(row[r].state)

\* A make shares its source, which its row only names.
MachineLeases(r, kind) ==
  {[on |-> r, mode |-> IF kind = "join" THEN "share" ELSE "own"]}
  \cup (IF kind = "make" /\ row[r].src # "base"
        THEN {[on |-> row[r].src, mode |-> "share"]} ELSE {})

LeasesIn(r, kind) ==
  IF r = "k" THEN K!LeasesOf(row[r], r, kind) ELSE MachineLeases(r, kind)

\* Mutant of Conflicting: only two owners conflict.
ConflictingOwners(wanted, held) == wanted.on = held.on /\ wanted.mode = "own" /\ held.mode = "own"

Conflicting(wanted, held) ==
  wanted.on = held.on /\ "own" \in {wanted.mode, held.mode}

Busy(leases) ==
  \E s \in Names : op[s] # NoOp /\ \E w \in leases, h \in op[s].leases : Conflicting(w, h)

\* A wish also says which capture it comes after.  The sizes that a lost resize
\* left are read from its host.
After(r, e) ==
  LET next == IF r = "k" THEN K!Transition(row[r], e) ELSE Transition(row[r], e) IN
  CASE e.type = "ask" /\ row[r].state \in Making \cup Made -> [next EXCEPT !.after = e.after]
    [] e.type = "lost" /\ op[r].kind = "resize" /\ vm[r].is # "none" ->
         [next EXCEPT !.size = vm[r].size]
    [] OTHER -> next

Beginning(r, e) ==
  IF r = "k" THEN K!Begins(row[r], e) /\ op[r] = NoOp ELSE Begins(row[r], e, op[r])

Finishing(r, e) ==
  op[r] # NoOp /\ IF r = "k" THEN K!Finishes(row[r], e) ELSE Finishes(row[r], e, op[r])

\* One event on one row, in one transaction with its operation and leases.  An
\* operation another one keeps out writes nothing.
Advance(r, e) ==
  LET next == After(r, e)
      kind == StepIn(r, next.state)
  IN IF Beginning(r, e) /\ Busy(LeasesIn(r, kind)) THEN UNCHANGED <<row, op>>
     ELSE /\ row' = [row EXCEPT ![r] = next]
          /\ op' = [op EXCEPT ![r] =
               IF Beginning(r, e)
               THEN [kind |-> kind, leases |-> LeasesIn(r, kind), at |-> "begun",
                     to |-> IF r # "k" THEN row[r].resize ELSE NoSize]
               ELSE IF Finishing(r, e) THEN NoOp ELSE @]

--------------------------------------------------------------------------------
(* Requests. *)

Born(src, size) ==
  [state |-> "making.due", desired |-> "running", prepared |-> FALSE, error |-> None,
   resize |-> NoSize, size |-> size, host |-> "h", after |-> None, src |-> src]

Free(r) == ~Exists(r) \/ row[r].state = "undone"

Create ==
  /\ Free("a")
  /\ Spend("creates")
  /\ row' = [row EXCEPT !["a"] = Born("base", 1)]
  /\ UNCHANGED <<op, loop, pauser, hostVars>>

\* A copy that holds its source's RAM is never smaller than its source, whose sizes
\* it is asked at when it is asked at none.
Fits(size, source) == size >= source.size

Copy(src) ==
  /\ Free("b")
  /\ Spend("requests")
  /\ row' = [row EXCEPT !["b"] = Born(src, row[src].size)]
  /\ UNCHANGED <<op, loop, pauser, hostVars>>

Fork == StateIn("a", Made) /\ Copy("a")

Restore == StateIn("k", {"ready"}) /\ Copy("k")

Captured == [state |-> "capturing.due", error |-> None, published |-> None,
             machine |-> "a", size |-> row["a"].size]

\* Mutant of Capturing: a capture takes a machine at whatever stage it is.
CapturingAny ==
  /\ Exists("a")
  /\ ~Exists("k") \/ row["k"].state = "failed"
  /\ row' = [row EXCEPT !["k"] = Captured]

\* insertCheckpoint takes a free name, or one whose checkpoint failed.
Capturing ==
  /\ StateIn("a", Made)
  /\ ~Exists("k") \/ row["k"].state = "failed"
  /\ row' = [row EXCEPT !["k"] = Captured]

Capture == Capturing /\ Spend("requests") /\ UNCHANGED <<op, loop, pauser, hostVars>>

\* A pause with a capture takes only a machine its host sees running.  It counts as
\* the two requests it is.
PauseCaptures ==
  /\ pauser = "idle"
  /\ left.requests > 1
  /\ left' = [left EXCEPT !.requests = @ - 2]
  /\ StateIn("a", Made) /\ vm["a"].is \in {"up", "ready"}
  /\ Capturing
  /\ pauser' = "waiting"
  /\ UNCHANGED <<op, loop, hostVars>>

Unbegun == StateIn("k", {"capturing.due"}) /\ op["k"] = NoOp

\* It waits for the capture to begin, but not for ever, and asks for the pause.
PauseAsks ==
  /\ pauser = "waiting"
  /\ pauser' = "idle"
  /\ IF Exists("a")
     THEN Advance("a", [type |-> "ask", desired |-> "paused", after |-> "k"])
     ELSE UNCHANGED <<row, op>>
  /\ UNCHANGED <<loop, hostVars, left>>

Ask(wish) ==
  /\ Exists("a")
  /\ Spend("requests")
  /\ Advance("a", [type |-> "ask", desired |-> wish, after |-> None])
  /\ UNCHANGED <<loop, pauser, hostVars>>

Resize ==
  /\ StateIn("a", Made)
  /\ Spend("requests")
  /\ Advance("a", [type |-> "resize", sizing |-> 2])
  /\ UNCHANGED <<loop, pauser, hostVars>>

Removed(r) ==
  /\ Exists(r)
  /\ Advance(r, [type |-> "delete"])
  /\ UNCHANGED <<loop, pauser, hostVars, left>>

\* A request deletes any row.
Delete(r) == Removed(r)

\* The sweep deletes a ready checkpoint that has expired, which it may at any time.
Sweep == StateIn("k", {"ready"}) /\ Removed("k")

\* The tick forgets a failed row once it was kept long enough.
Expire(r) ==
  /\ StateIn(r, {"undone", "failed"})
  /\ row' = [row EXCEPT ![r] = Gone]
  /\ UNCHANGED <<op, loop, pauser, hostVars, left>>

\* The control plane's process starts again: looks and waiting requests go.
Crash ==
  /\ Spend("faults")
  /\ loop' = [r \in Names |-> Idle]
  /\ pauser' = "idle"
  /\ UNCHANGED <<row, op, hostVars>>

--------------------------------------------------------------------------------
(* The loops.  A look reads the row and what else it needs, waits for the  *)
(* host, and then writes.                                                  *)

Seen(r) ==
  CASE vm[r].is \in {"up", "ready"} -> "running"
    [] vm[r].is = "none" -> "missing"
    [] vm[r].is = "partial" -> "stopped"
    [] OTHER -> vm[r].is

\* Why a copy can't be made: its source went, or outgrew what it was asked.
RefusedBySource(r) ==
  /\ row[r].src # "base"
  /\ ~Exists(row[r].src) \/ ~Fits(row[r].size, row[row[r].src])

Looking(seen, refused, after) ==
  [at |-> "looking", seen |-> seen, refused |-> refused, after |-> after]

\* A look that reads what may change before it writes: the VM and the wish of "a",
\* the source of "b".  Nothing is asked of "b", and the others read only the boot.
Reads(r) == \/ r = "a" /\ StateIn("a", Made)
            \/ r = "b" /\ StateIn("b", {"making.due"})

LookBegins(r) ==
  /\ loop[r] = Idle
  /\ Reads(r) /\ ActivityIn(r) \in {"read", "recheck"}
  /\ loop' = [loop EXCEPT ![r] =
       IF row[r].state = "making.due" THEN Looking("unknown", RefusedBySource(r), None)
       ELSE Looking(Seen(r), FALSE, IF row[r].desired = "paused" THEN row[r].after ELSE None)]
  /\ UNCHANGED <<row, op, pauser, hostVars, left>>

\* It ends with a write.  The capture that a pause comes after is looked up only
\* now; whether the pause has one is as the row was when the look began.
LookEnds(r) ==
  /\ loop[r].at = "looking"
  /\ loop' = [loop EXCEPT ![r] = Idle]
  /\ IF Exists(r)
     THEN Advance(r, IF loop[r].refused THEN [type |-> "refused"]
                     ELSE [type |-> "read", seen |-> loop[r].seen, joins |-> FALSE,
                           awaiting |-> loop[r].after = "k" /\ Unbegun])
     ELSE UNCHANGED <<row, op>>
  /\ UNCHANGED <<pauser, hostVars, left>>

\* Any other look.
Looks(r) ==
  /\ loop[r] = Idle
  /\ Exists(r) /\ ActivityIn(r) \in {"read", "recheck"}
  /\ ~Reads(r)
  /\ Advance(r, [type |-> "read", seen |-> IF r = "b" THEN Seen("b") ELSE "unknown",
                 joins |-> FALSE, awaiting |-> FALSE])
  /\ UNCHANGED <<loop, pauser, hostVars, left>>

StepEnded(r) == op[r] # NoOp /\ op[r].at \in {"done", "failed", "cleared", "cancelled", "lost"}

EventOf(r) ==
  CASE op[r].at = "lost" -> [type |-> "lost", error |-> "Internal"]
    [] op[r].at # "lost" /\ r = "k" ->
         [type |-> "reported", status |-> IF op[r].at = "cleared" THEN "failed" ELSE op[r].at,
          error |-> "Internal", cleared |-> op[r].at = "cleared"]
    [] OTHER ->
         [type |-> "reported", status |-> op[r].at, error |-> "Internal", move |-> None,
          size |-> IF op[r].kind = "resize" THEN vm[r].size ELSE NoSize,
          prepared |-> row[r].src # "base"]

\* The row takes how its step ended, and its operation and leases go.
Follows(r) ==
  /\ StepEnded(r)
  /\ Advance(r, EventOf(r))
  /\ UNCHANGED <<loop, pauser, hostVars, left>>

--------------------------------------------------------------------------------
(* The host. *)

At(r, at) == op' = [op EXCEPT ![r].at = at]

Running(r) == op[r] # NoOp /\ op[r].at = "running"

Up(m) == vm[m].is \in {"up", "ready"}

\* What a step reads on the host, besides what it changes.
SourceOf(r) ==
  CASE op[r].kind = "capture" -> row["k"].machine
    [] op[r].kind = "make" -> row[r].src
    [] OTHER -> "base"

\* Mutant of Copyable: the sizes a copy was asked are not held against its source.
CopyableAnySize(r) ==
  CASE SourceOf(r) = "base" -> TRUE
    [] SourceOf(r) = "a" -> Up("a")
    [] SourceOf(r) = "k" -> image.is = "whole"

\* A copy is made of a running machine or a whole checkpoint, at sizes it can take.
Copyable(r) ==
  CASE SourceOf(r) = "base" -> TRUE
    [] SourceOf(r) = "a" -> Up("a") /\ (r = "b" => Fits(row[r].size, row["a"]))
    [] SourceOf(r) = "k" -> image.is = "whole" /\ Fits(row[r].size, row["k"])

CanDo(r) ==
  CASE op[r].kind \in {"make", "capture"} -> Copyable(r)
    [] op[r].kind \in {"remove", "deleteCheckpoint"} -> TRUE
    [] op[r].kind = "resize" -> vm[r].is \in {"up", "ready", "stopped"}
    [] OTHER -> vm[r].is # "none"

\* A step is built from the rows as it is sent: without its source it is lost.
\* A capture that its first check refuses left nothing, and says so.
Runs(r) ==
  /\ op[r] # NoOp /\ op[r].at = "begun"
  /\ At(r, CASE SourceOf(r) \in Names /\ ~Exists(SourceOf(r)) -> "lost"
             [] SourceOf(r) \notin Names \/ Exists(SourceOf(r)) ->
                  IF CanDo(r) THEN "running"
                  ELSE IF op[r].kind = "capture" THEN "cleared" ELSE "failed")
  /\ UNCHANGED <<row, loop, pauser, hostVars, left>>

SizeOf(src) == IF src = "k" THEN image.size ELSE vm[src].size

DoneVM(r) ==
  LET v == vm[r] IN
  CASE op[r].kind = "make" /\ row[r].src = "base" -> [is |-> "up", size |-> row[r].size, from |-> NoSize]
    [] op[r].kind = "make" /\ row[r].src # "base" ->
         [is |-> "ready", size |-> row[r].size, from |-> SizeOf(row[r].src)]
    [] op[r].kind = "start" -> [v EXCEPT !.is = "ready"]
    [] op[r].kind = "stop" -> [v EXCEPT !.is = "stopped"]
    [] op[r].kind = "pause" -> [v EXCEPT !.is = IF Up(r) THEN "paused" ELSE @]
    [] op[r].kind = "resize" -> [v EXCEPT !.size = op[r].to]
    [] op[r].kind = "remove" -> NoVM

\* What a machine's step leaves when it fails or its host stops under it.
CutVMs(r) ==
  LET v == vm[r] IN
  CASE op[r].kind = "make" -> {v, [DoneVM(r) EXCEPT !.is = "partial"]}
    [] op[r].kind = "start" -> {v, [v EXCEPT !.is = "up"]}
    [] op[r].kind = "pause" -> {v, DoneVM(r), [v EXCEPT !.is = "stopped"]}
    [] op[r].kind = "remove" -> {v, [v EXCEPT !.is = "partial"], NoVM}
    [] OTHER -> {v, DoneVM(r)}

DoneImage ==
  IF op["k"].kind = "capture"
  THEN [is |-> IF vm["a"].is = "none" THEN "partial" ELSE "whole", size |-> vm["a"].size,
        ran |-> Up("a")]
  ELSE NoImage

CutImages ==
  IF op["k"].kind = "capture" THEN {image, [DoneImage EXCEPT !.is = "partial"], DoneImage}
  ELSE {image, [image EXCEPT !.is = "partial"], NoImage}

WorkDone(r) ==
  /\ Running(r)
  /\ At(r, "done")
  /\ IF r = "k" THEN image' = DoneImage /\ UNCHANGED vm
     ELSE vm' = [vm EXCEPT ![r] = DoneVM(r)] /\ UNCHANGED image
  /\ UNCHANGED <<row, loop, pauser, left>>

MachineCut(r) == \E v \in CutVMs(r) : vm' = [vm EXCEPT ![r] = v]

\* A failed capture deletes what it made, and has cleared it only if that went well.
CheckpointFails ==
  /\ \E i \in CutImages : image' = i
  /\ At("k", IF op["k"].kind = "capture" /\ image' = NoImage THEN "cleared" ELSE "failed")

WorkFails(r) ==
  /\ Running(r)
  /\ Spend("faults")
  /\ IF r = "k" THEN CheckpointFails /\ UNCHANGED vm
     ELSE MachineCut(r) /\ At(r, "failed") /\ UNCHANGED image
  /\ UNCHANGED <<row, loop, pauser>>

\* A machine's step that is wanted no more is cut short; a checkpoint's never is.
WorkCancelled(r) ==
  /\ r # "k" /\ Running(r)
  /\ ~Wants(op[r].kind, DesiredOf(row[r]))
  /\ MachineCut(r) /\ At(r, "cancelled")
  /\ UNCHANGED <<row, loop, pauser, image, left>>

\* The host's process starts again and loses every step it was sent.
Reboot ==
  /\ Spend("faults")
  /\ op' = [r \in Names |-> IF op[r] = NoOp THEN NoOp ELSE [op[r] EXCEPT !.at = "lost"]]
  /\ \E v, w \in UNION {IF Running(r) THEN CutVMs(r) ELSE {vm[r]} : r \in Machines},
        i \in IF Running("k") THEN CutImages ELSE {image} :
       /\ v \in IF Running("a") THEN CutVMs("a") ELSE {vm["a"]}
       /\ w \in IF Running("b") THEN CutVMs("b") ELSE {vm["b"]}
       /\ vm' = [r \in Machines |-> IF r = "a" THEN v ELSE w]
       /\ image' = i
  /\ UNCHANGED <<row, loop, pauser>>

--------------------------------------------------------------------------------
Init ==
  /\ row = [r \in Names |-> Gone]
  /\ op = [r \in Names |-> NoOp]
  /\ loop = [r \in Names |-> Idle]
  /\ pauser = "idle"
  /\ vm = [r \in Machines |-> NoVM]
  /\ image = NoImage
  /\ left = [creates |-> MaxCreates, requests |-> MaxRequests, faults |-> MaxFaults]

Client ==
  \/ Create \/ Fork \/ Restore \/ Capture \/ PauseCaptures \/ PauseAsks \/ Resize
  \/ \E wish \in {"running", "paused"} : Ask(wish)
  \/ Sweep
  \/ \E r \in Names : Delete(r) \/ Expire(r)

Turn(r) == LookBegins(r) \/ LookEnds(r) \/ Looks(r) \/ Follows(r)

Work(r) == Runs(r) \/ WorkDone(r) \/ WorkFails(r) \/ WorkCancelled(r)

Next == Client \/ Crash \/ Reboot \/ \E r \in Names : Turn(r) \/ Work(r)

Spec == Init /\ [][Next]_vars

--------------------------------------------------------------------------------
(* Properties. *)

MachineRow ==
  [state : Leaf, desired : {"running", "paused"}, prepared : BOOLEAN, error : {None, "Internal"},
   resize : {NoSize, 2}, size : {1, 2}, host : {"h"}, after : {None, "k"}, src : {"base", "a", "k"}]

CheckpointRow ==
  [state : K!Leaf, error : {None, "Internal"}, published : {None}, machine : {"a"}, size : {1, 2}]

Begun(r) == {"begun", "running", "done", "failed", "cleared", "cancelled", "lost"}

\* The type of every variable.
TypeOK ==
  /\ \A r \in Machines : row[r] \in MachineRow \cup {Gone}
  /\ row["k"] \in CheckpointRow \cup {Gone}
  /\ \A r \in Names : op[r] = NoOp \/ /\ op[r].kind \in {"make", "start", "stop", "pause", "resize",
                                           "remove", "capture", "deleteCheckpoint"}
                                      /\ op[r].at \in Begun(r)
                                      /\ op[r].to \in {NoSize, 2}
  /\ \A r \in Names : loop[r].at \in {"idle", "looking"}
  /\ pauser \in {"idle", "waiting"}
  /\ \A r \in Machines : vm[r] \in [is : {"none", "partial", "up", "ready", "stopped", "paused"},
                                    size : {NoSize, 1, 2}, from : {NoSize, 1, 2}]
  /\ image \in [is : {"none", "partial", "whole"}, size : {NoSize, 1, 2}, ran : BOOLEAN]

\* Nothing changes or removes what a step under way copies: not the machine under
\* a fork or a capture, and not the checkpoint under a restore.
SourceStill ==
  \A r \in Names : Running(r) /\ SourceOf(r) \in Names => ~Running(SourceOf(r))

\* A name with no row, or one shown as failed for good, has nothing on the host.
NothingLeft ==
  /\ \A r \in Machines : Free(r) => vm[r] = NoVM
  /\ ~Exists("k") \/ row["k"].state = "failed" => image = NoImage

\* A checkpoint that reads ready is whole, and holds its machine as it ran, also
\* when the capture belongs to a pause that was asked with it.
ReadyWhole == StateIn("k", {"ready"}) => image.is = "whole" /\ image.ran

\* A fork is never smaller than what it was made of, also when its source grew
\* between the request, the look that checked it and the make.
ForkFits == StateIn("b", Made) /\ row["b"].src = "a" => vm["b"].size >= vm["b"].from

\* No copy is smaller than what it was made of, and so neither is a restore.
CopyFits == StateIn("b", Made) => vm["b"].size >= vm["b"].from

\* Leases keep the promise of a reader-writer lock over the names.
HeldLeases ==
  UNION {IF op[r] = NoOp THEN {} ELSE {[by |-> r, on |-> l.on, mode |-> l.mode] : l \in op[r].leases} :
         r \in Names}

Lock == INSTANCE Leases WITH held <- HeldLeases, Taker <- Names, Name <- Names

LeasesLock == Lock!Spec

\* What has copied "a", or may yet: a capture or a fork that has not ended its make.
Claims ==
  {r \in {"k", "b"} :
     \/ r = "k" /\ StateIn(r, {"capturing.due", "capturing.sent"})
     \/ r = "b" /\ StateIn(r, Making) /\ row["b"].src = "a"}

\* Nothing joins those a delete of a machine may have to wait for, so that captures
\* and forks, however often they are asked, do not hold it back for ever.
DeleteShutsOut == [][StateIn("a", Deleting) => Claims' \subseteq Claims]_vars
================================================================================
