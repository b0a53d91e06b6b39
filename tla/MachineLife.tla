------------------------------- MODULE MachineLife -------------------------------
(***************************************************************************)
(* One machine name over its whole life: its row and operation in the      *)
(* control plane's store, the loop that drives it, the hosts that run its  *)
(* steps, and the calls between them (apps/server/src/machines.ts,         *)
(* operations.ts, driver.ts; apps/host/src/operations.ts).                 *)
(*                                                                         *)
(* A call to a host is made of the request, which stays deliverable        *)
(* forever once it is sent (late, or twice), and the answer, which the     *)
(* loop may stop waiting for at any time: a timeout, a broken connection   *)
(* and a wake all look alike.  An operation's sequence stands for its ID,  *)
(* as both are fresh at each begin.                                        *)
(***************************************************************************)
EXTENDS MachineChart

CONSTANTS
  Host,          \* the configured hosts
  Sizings,       \* what a client may resize the machine to
  Source,        \* what it is made from: "base", "copy" (of a machine or a checkpoint),
                 \* or "builder", an ephemeral row whose setup only memory holds
  MaxCreates,    \* bound: creates of the name
  MaxAsks,       \* bound: wishes and resizes recorded
  MaxFails,      \* bound: steps that fail
  MaxCrashes,    \* bound: restarts of the control plane
  MaxReboots,    \* bound: restarts of hosts, over all of them
  MaxJoins,      \* bound: reads that find a tailnet check due
  MaxDrifts      \* bound: changes of the VM that no step made

ASSUME ConstantsAssumption ==
  /\ Sizings \subseteq Nat \ {NoSize}
  /\ Source \in {"base", "copy", "builder"}
  /\ None \notin Host
  /\ {MaxCreates, MaxAsks, MaxFails, MaxCrashes, MaxReboots, MaxJoins, MaxDrifts} \subseteq Nat

VARIABLES
  row,      \* the stored row, or Gone where the store has none
  op,       \* the stored operation of this machine, or NoOp
  last,     \* the stored counter that numbers operations
  held,     \* what the process keeps of a create: [known, setup, untried]
  loop,     \* where the name's loop is in its turn, with what it read
  sent,     \* the operations a host was ever asked to run
  cancels,  \* the operations a host was ever asked to cancel
  collects, \* the reports a host was ever told it may forget
  boot,     \* each host's boot
  entry,    \* each host's entries: what it holds of each operation it accepted
  seen,     \* the last sequence each host accepted on this machine
  vm,       \* what each host holds of the machine
  ran,      \* history: every operation whose work began, as often as it began
  left      \* what is left of each bound

vars == <<row, op, last, held, loop, sent, cancels, collects,
          boot, entry, seen, vm, ran, left>>

serverVars == <<row, op, last, held, loop>>
netVars == <<sent, cancels, collects>>
hostVars == <<boot, entry, seen, vm, ran>>

Ephemeral == Source = "builder"

--------------------------------------------------------------------------------
(* The host's view of the VM.  `up` is running before it is readied.       *)

NoVM == [is |-> "none", size |-> NoSize]

Seen(h) ==
  CASE vm[h].is \in {"up", "ready"} -> "running"
    [] vm[h].is = "none" -> "missing"
    [] vm[h].is = "partial" -> "stopped"
    [] OTHER -> vm[h].is

\* What a step leaves when it ends as its host means it to.
DoneEffect(kind, to, v) ==
  CASE kind = "make" -> [is |-> IF Source = "copy" THEN "ready" ELSE "up", size |-> 1]
    [] kind = "start" -> [v EXCEPT !.is = "ready"]
    [] kind = "stop" -> [v EXCEPT !.is = "stopped"]
    [] kind = "pause" -> [v EXCEPT !.is = IF v.is \in {"up", "ready"} THEN "paused" ELSE @]
    [] kind = "remove" -> NoVM
    [] kind = "resize" -> [v EXCEPT !.size = to]
    [] OTHER -> v

\* A step that finds no VM fails, but for the two that need none.
CanDo(kind, v) ==
  CASE kind \in {"make", "remove"} -> TRUE
    [] kind = "resize" -> v.is \in {"up", "ready", "stopped"}
    [] OTHER -> v.is # "none"

\* What it may leave when it fails, is interrupted, or its host dies under it.
CutEffects(kind, to, v) ==
  IF ~CanDo(kind, v) THEN {v} ELSE
  CASE kind = "make" -> {v, [is |-> "partial", size |-> 1], [is |-> "up", size |-> 1]}
    [] kind = "start" -> {v, [v EXCEPT !.is = "up"]}
    [] kind = "pause" -> {v, DoneEffect("pause", to, v), [v EXCEPT !.is = "stopped"]}
    [] kind = "remove" -> {v, [v EXCEPT !.is = "partial"], NoVM}
    [] OTHER -> {v, DoneEffect(kind, to, v)}

--------------------------------------------------------------------------------
(* The store and the requests. *)

Forgotten == [known |-> FALSE, setup |-> FALSE, untried |-> {}]

Exists == row # Gone

\* Writes one event on the row, with what it does to the operation.
Advance(e, boots) ==
  /\ row' = IF Throws(row, e, op) THEN row ELSE Transition(row, e)
  /\ IF Begins(row, e, op)
     THEN /\ op' = [seq |-> last + 1, kind |-> StepOf(row'.state), host |-> row.host,
                    boot |-> boots, to |-> row.resize]
          /\ last' = last + 1
     ELSE /\ op' = IF Finishes(row, e, op) THEN NoOp ELSE op
          /\ UNCHANGED last

Spend(what) == /\ left[what] > 0
               /\ left' = [left EXCEPT ![what] = @ - 1]

\* The other hosts a create may go on to: none for a builder or a fork, any that
\* answered and could hold it for a base or a template's build.
Others(h) == IF Source = "builder" THEN {{}} ELSE SUBSET (Host \ {h})

\* insertMachine takes a free name, or one whose row is undone.
Create ==
  /\ ~Exists \/ row.state = "undone"
  /\ Spend("creates")
  /\ \E h \in Host : \E untried \in Others(h) :
       /\ row' = [state |-> "making.due", desired |-> "running", prepared |-> FALSE,
                  error |-> None, resize |-> NoSize, size |-> 1, host |-> h]
       /\ held' = [known |-> TRUE, setup |-> Ephemeral, untried |-> untried]
  /\ UNCHANGED <<op, last, loop, netVars, hostVars>>

Ask(wish) ==
  /\ Exists
  /\ Spend("asks")
  /\ Advance([type |-> "ask", desired |-> wish], 0)
  /\ UNCHANGED <<held, loop, netVars, hostVars>>

Resize(to) ==
  /\ Exists
  /\ Spend("asks")
  /\ Advance([type |-> "resize", sizing |-> to], 0)
  /\ UNCHANGED <<held, loop, netVars, hostVars>>

Delete ==
  /\ Exists
  /\ Advance([type |-> "delete"], 0)
  /\ UNCHANGED <<held, loop, netVars, hostVars, left>>

\* The tick deletes an undone row once it has been kept long enough.
Expire ==
  /\ Exists /\ row.state = "undone"
  /\ row' = Gone
  /\ UNCHANGED <<op, last, held, loop, netVars, hostVars, left>>

\* The process ends and starts again: its memory goes, the store stays, and
\* every ephemeral row is deleted before it is driven.
Crash ==
  /\ Spend("crashes")
  /\ held' = Forgotten
  /\ loop' = [at |-> "idle"]
  /\ IF Exists /\ Ephemeral THEN Advance([type |-> "delete"], 0) ELSE UNCHANGED <<row, op, last>>
  /\ UNCHANGED <<netVars, hostVars>>

--------------------------------------------------------------------------------
(* The loop's turn over a row it only looks at. *)

LookBegins ==
  /\ loop.at = "idle"
  /\ Exists
  /\ ActivityOf(row.state) \in {"read", "recheck"}
  /\ loop' = IF row.state \in Made
             THEN [at |-> "seeing", host |-> row.host]
             ELSE [at |-> "reading", host |-> row.host, saw |-> "unknown",
                   due |-> row.state = "making.due"]
  /\ UNCHANGED <<row, op, last, held, netVars, hostVars, left>>

\* readMachines: a host that does not answer leaves the VM unknown.
Sees ==
  /\ loop.at = "seeing"
  /\ loop' = [at |-> "reading", host |-> loop.host, saw |-> Seen(loop.host), due |-> FALSE]
  /\ UNCHANGED <<row, op, last, held, netVars, hostVars, left>>

SeesNothing ==
  /\ loop.at = "seeing"
  /\ loop' = [at |-> "reading", host |-> loop.host, saw |-> "unknown", due |-> FALSE]
  /\ UNCHANGED <<row, op, last, held, netVars, hostVars, left>>

\* readHost gives the boot, and the row then takes the read.
Looks(joins) ==
  /\ loop.at = "reading"
  /\ joins => loop.saw = "running" /\ ~Ephemeral
  /\ IF joins THEN Spend("joins") ELSE UNCHANGED left
  /\ loop' = [at |-> "idle"]
  /\ IF Exists
     THEN Advance([type |-> "read", seen |-> loop.saw, joins |-> joins, awaiting |-> FALSE],
                  boot[loop.host])
     ELSE UNCHANGED <<row, op, last>>
  /\ UNCHANGED <<held, netVars, hostVars>>

\* A copy whose source went before its make began is refused (refusedBySource).
Refuses ==
  /\ Source = "copy"
  /\ loop.at = "reading" /\ loop.due
  /\ Spend("fails")
  /\ loop' = [at |-> "idle"]
  /\ IF Exists THEN Advance([type |-> "refused"], 0) ELSE UNCHANGED <<row, op, last>>
  /\ UNCHANGED <<held, netVars, hostVars>>

--------------------------------------------------------------------------------
(* The loop's turn over a row whose step it follows. *)

\* What this turn asks is decided by the row as it is read now.
PollBegins ==
  /\ loop.at = "idle"
  /\ Exists
  /\ ActivityOf(row.state) = "follow"
  /\ op # NoOp
  /\ loop' = [at |-> "waiting", op |-> op, error |-> row.error]
  /\ cancels' = IF Wants(op.kind, DesiredOf(row)) THEN cancels ELSE cancels \cup {op.seq}
  /\ UNCHANGED <<row, op, last, held, sent, collects, hostVars, left>>

Held(h, id) == id \in DOMAIN entry[h]

Heard(what) == [at |-> "heard", op |-> loop.op, error |-> loop.error, heard |-> what]

Lost == [status |-> "lost"]

\* Mutant of Waits: an absent step is given up although it may still be on its way.
WaitsOnce ==
  /\ loop.at = "waiting"
  /\ LET h == loop.op.host
         absent == ~Held(h, loop.op.seq)
     IN /\ absent => boot[h] # loop.op.boot \/ loop.op \in sent
        /\ loop' = IF absent THEN Heard(Lost)
                   ELSE LET report == entry[h][loop.op.seq] IN
                        IF report.status = "running" THEN [at |-> "idle"]
                        ELSE Heard([status |-> report.status, error |-> report.error,
                                    size |-> report.size])
  /\ UNCHANGED <<row, op, last, held, netVars, hostVars, left>>

\* waitOperation answers: a report, or that the host does not hold the step.
Waits ==
  /\ loop.at = "waiting"
  /\ LET h == loop.op.host
         absent == ~Held(h, loop.op.seq)
         unbuilt == loop.op.kind = "make" /\ Ephemeral /\ ~held.setup
     IN /\ absent => boot[h] # loop.op.boot \/ unbuilt
        /\ loop' = IF absent THEN Heard(Lost)
                   ELSE LET report == entry[h][loop.op.seq] IN
                        IF report.status = "running" THEN [at |-> "idle"]
                        ELSE Heard([status |-> report.status, error |-> report.error,
                                    size |-> report.size])
  /\ UNCHANGED <<row, op, last, held, netVars, hostVars, left>>

\* It answers that it has not had the step, which is built again and sent.
Sends ==
  /\ loop.at = "waiting"
  /\ ~Held(loop.op.host, loop.op.seq)
  /\ boot[loop.op.host] = loop.op.boot
  /\ loop.op.kind = "make" /\ Ephemeral => held.setup
  /\ loop' = [loop EXCEPT !.at = "sending"]
  /\ sent' = sent \cup {loop.op}
  /\ UNCHANGED <<row, op, last, held, cancels, collects, hostVars, left>>

\* The loop stops waiting for an answer: it failed, timed out, or a wake came.
GivesUp ==
  /\ loop.at \in {"reading", "waiting", "sending"}
  /\ loop' = [at |-> "idle"]
  /\ UNCHANGED <<row, op, last, held, netVars, hostVars, left>>

\* Where a create that failed for want of capacity may go next.
Moves == IF loop.error = "Capacity" /\ loop.op.kind = "remove" /\ held.untried # {}
         THEN held.untried ELSE {None}

\* A step that did not end done is given an error, its host's or that it was cut short.
EventOf(heard, move) ==
  IF heard.status = "lost" THEN [type |-> "lost"]
  ELSE [type |-> "reported", status |-> heard.status,
        error |-> IF heard.error = None THEN "Internal" ELSE heard.error,
        size |-> heard.size, prepared |-> Source = "copy", move |-> move]

\* What the process keeps of the create, once the row is written.
HeldAfter ==
  CASE row' = Gone \/ row'.state \in Made \cup {"undone"} -> Forgotten
    [] row' # Gone /\ row'.state = "making.due" /\ held.known ->
         [held EXCEPT !.untried = @ \ {row'.host}]
    [] OTHER -> held

\* The row takes what was heard, and the host is told to forget the report.
Follows ==
  /\ loop.at = "heard"
  /\ Exists
  /\ \E move \in Moves : Advance(EventOf(loop.heard, move), 0)
  /\ held' = HeldAfter
  /\ collects' = collects \cup {loop.op.seq}
  /\ loop' = IF loop.heard = Lost /\ loop.op.kind = "resize"
             THEN [at |-> "sizing", host |-> loop.op.host] ELSE [at |-> "idle"]
  /\ UNCHANGED <<sent, cancels, hostVars, left>>

\* After a lost resize the sizes are read from the host, if it answers.
Sizes ==
  /\ loop.at = "sizing"
  /\ loop' = [at |-> "idle"]
  /\ IF Exists /\ vm[loop.host].is # "none"
     THEN Advance([type |-> "sized", sizing |-> vm[loop.host].size], 0)
     ELSE UNCHANGED <<row, op, last>>
  /\ UNCHANGED <<held, netVars, hostVars, left>>

SizesNothing ==
  /\ loop.at = "sizing"
  /\ loop' = [at |-> "idle"]
  /\ UNCHANGED <<row, op, last, held, netVars, hostVars, left>>

--------------------------------------------------------------------------------
(* The host: `accept` keeps an entry per operation, and its fiber first    *)
(* interrupts and forgets the last operation of the same machine.          *)

Running(h, id) == Held(h, id) /\ entry[h][id].status = "running"

Working(h, id) == Running(h, id) /\ entry[h][id].at = "working"

Counted(id) == [i \in DOMAIN ran \cup {id} |->
                  IF i \notin DOMAIN ran THEN 1 ELSE IF i = id THEN ran[i] + 1 ELSE ran[i]]

\* Mutant of Takes: the host forgets how far it came on the machine.
TakesAnyOrder(o) ==
  /\ ~Held(o.host, o.seq)
  /\ o.boot = boot[o.host]

\* Mutant of Takes: the host runs steps meant for an earlier boot of it.
TakesAnyBoot(o) ==
  /\ ~Held(o.host, o.seq)
  /\ o.seq > seen[o.host]

\* A run that is neither held already, nor of another boot, nor behind.
Takes(o) ==
  /\ ~Held(o.host, o.seq)
  /\ o.boot = boot[o.host]
  /\ o.seq > seen[o.host]

Accept(o) ==
  LET h == o.host
      before == seen[h]
      waits == Running(h, before)
      new == [kind |-> o.kind, to |-> o.to, status |-> "running", error |-> None,
              size |-> NoSize, at |-> IF waits THEN "queued" ELSE "working",
              before |-> before, cut |-> FALSE]
  IN /\ entry' = [entry EXCEPT ![h] =
          [id \in (DOMAIN @ \cup {o.seq}) \ (IF waits THEN {} ELSE {before}) |->
             CASE id = o.seq -> new
               [] id # o.seq /\ id = before -> [@[id] EXCEPT !.cut = TRUE]
               [] OTHER -> @[id]]]
     /\ seen' = [seen EXCEPT ![h] = o.seq]
     /\ ran' = IF waits THEN ran ELSE Counted(o.seq)
     /\ UNCHANGED <<boot, vm>>

\* runOperation, answered to the loop that waits for it.
Runs ==
  /\ loop.at = "sending"
  /\ IF Takes(loop.op) THEN Accept(loop.op) ELSE UNCHANGED hostVars
  /\ loop' = IF Takes(loop.op) \/ Held(loop.op.host, loop.op.seq)
             THEN [at |-> "idle"] ELSE Heard(Lost)
  /\ UNCHANGED <<row, op, last, held, netVars, left>>

\* runOperation delivered when nobody waits for its answer any more.
RunsLate(o) ==
  /\ o \in sent
  /\ Takes(o)
  /\ Accept(o)
  /\ UNCHANGED <<serverVars, netVars, left>>

\* cancelOperation interrupts the fiber, whatever it is doing.
Cancels(h, id) ==
  /\ id \in cancels
  /\ Running(h, id) /\ ~entry[h][id].cut
  /\ entry' = [entry EXCEPT ![h][id].cut = TRUE]
  /\ UNCHANGED <<serverVars, netVars, boot, seen, vm, ran, left>>

\* collectOperation forgets an entry whose operation ended.
Collects(h, id) ==
  /\ id \in collects
  /\ Held(h, id) /\ ~Running(h, id)
  /\ entry' = [entry EXCEPT ![h] = [i \in DOMAIN @ \ {id} |-> @[i]]]
  /\ UNCHANGED <<serverVars, netVars, boot, seen, vm, ran, left>>

\* Mutant of WorkBegins: it does not wait for the operation before to end.
WorkBeginsAtOnce(h, id) ==
  /\ Running(h, id) /\ entry[h][id].at = "queued"
  /\ entry' = [entry EXCEPT ![h][id].at = "working"]
  /\ ran' = Counted(id)
  /\ UNCHANGED <<serverVars, netVars, boot, seen, vm, left>>

\* The operation before has ended, so this one's fiber forgets it and goes on.
\* An interrupt held back until now ends it before its work begins.
WorkBegins(h, id) ==
  /\ Running(h, id) /\ entry[h][id].at = "queued"
  /\ LET e == entry[h][id]
         next == IF e.cut THEN [e EXCEPT !.status = "cancelled"] ELSE [e EXCEPT !.at = "working"]
     IN /\ ~Running(h, e.before)
        /\ entry' = [entry EXCEPT ![h] =
             [i \in DOMAIN @ \ {e.before} |-> IF i = id THEN next ELSE @[i]]]
        /\ ran' = IF e.cut THEN ran ELSE Counted(id)
  /\ UNCHANGED <<serverVars, netVars, boot, seen, vm, left>>

End(h, id, status, error, size) ==
  entry' = [entry EXCEPT ![h][id] =
              [@ EXCEPT !.status = status, !.error = error, !.size = size]]

WorkDone(h, id) ==
  /\ Working(h, id)
  /\ LET e == entry[h][id] IN
     /\ CanDo(e.kind, vm[h])
     /\ vm' = [vm EXCEPT ![h] = DoneEffect(e.kind, e.to, @)]
     /\ End(h, id, "done", None, IF e.kind = "resize" THEN e.to ELSE NoSize)
  /\ UNCHANGED <<serverVars, netVars, boot, seen, ran, left>>

\* Mutant of WorkFails: a failed resize reports no sizes.
WorkFailsUnread(h, id) ==
  /\ Working(h, id)
  /\ entry[h][id].kind # "join"
  /\ LET e == entry[h][id] IN
     IF CanDo(e.kind, vm[h])
     THEN /\ Spend("fails")
          /\ \E v \in CutEffects(e.kind, e.to, vm[h]) : vm' = [vm EXCEPT ![h] = v]
     ELSE UNCHANGED <<left, vm>>
  /\ End(h, id, "failed", "Other", NoSize)
  /\ UNCHANGED <<serverVars, netVars, boot, seen, ran>>

\* A resize that got past its checks reports the sizes it reads back when it fails.
WorkFails(h, id) ==
  /\ Working(h, id)
  /\ entry[h][id].kind # "join"
  /\ LET e == entry[h][id] IN
     /\ IF CanDo(e.kind, vm[h])
        THEN /\ Spend("fails")
             /\ \E v \in CutEffects(e.kind, e.to, vm[h]) : vm' = [vm EXCEPT ![h] = v]
        ELSE UNCHANGED <<left, vm>>
     /\ \E error \in IF e.kind = "make" THEN {"Capacity", "Other"} ELSE {"Other"} :
          End(h, id, "failed", error,
              IF e.kind = "resize" /\ CanDo("resize", vm[h]) THEN vm'[h].size ELSE NoSize)
  /\ UNCHANGED <<serverVars, netVars, boot, seen, ran>>

WorkCancelled(h, id) ==
  /\ Working(h, id)
  /\ entry[h][id].cut
  /\ \E v \in CutEffects(entry[h][id].kind, entry[h][id].to, vm[h]) :
       vm' = [vm EXCEPT ![h] = v]
  /\ End(h, id, "cancelled", None, NoSize)
  /\ UNCHANGED <<serverVars, netVars, boot, seen, ran, left>>

\* The host's process starts again: its fibers and its memory go, and its VMs
\* stay, or stop when the whole computer restarted.
Reboot(h) ==
  /\ left.reboots > 0
  /\ boot' = [boot EXCEPT ![h] = @ + 1]
  /\ entry' = [entry EXCEPT ![h] = <<>>]
  /\ seen' = [seen EXCEPT ![h] = 0]
  /\ \E v \in {vm[h]} \cup UNION {CutEffects(entry[h][id].kind, entry[h][id].to, vm[h]) :
                                 id \in {i \in DOMAIN entry[h] : Working(h, i)}},
        stops \in BOOLEAN :
       /\ stops => v.is \in {"up", "ready"} /\ left.drifts > 0
       /\ vm' = [vm EXCEPT ![h] = IF stops THEN [v EXCEPT !.is = "stopped"] ELSE v]
       /\ left' = [left EXCEPT !.reboots = @ - 1, !.drifts = IF stops THEN @ - 1 ELSE @]
  /\ UNCHANGED <<serverVars, netVars, ran>>

\* The guest shuts down, or something else than a step deletes the VM.
Drifts(h) ==
  /\ vm[h].is \notin {"none", "partial"}
  /\ Spend("drifts")
  /\ \E v \in {NoVM} \cup {w \in {[vm[h] EXCEPT !.is = "stopped"]} : vm[h].is \in {"up", "ready"}} :
       vm' = [vm EXCEPT ![h] = v]
  /\ UNCHANGED <<serverVars, netVars, boot, entry, seen, ran>>

--------------------------------------------------------------------------------
Init ==
  /\ row = Gone /\ op = NoOp /\ last = 0
  /\ held = Forgotten /\ loop = [at |-> "idle"]
  /\ sent = {} /\ cancels = {} /\ collects = {}
  /\ boot = [h \in Host |-> 1]
  /\ entry = [h \in Host |-> <<>>]
  /\ seen = [h \in Host |-> 0]
  /\ vm = [h \in Host |-> NoVM]
  /\ ran = <<>>
  /\ left = [creates |-> MaxCreates, asks |-> MaxAsks, fails |-> MaxFails,
             crashes |-> MaxCrashes, reboots |-> MaxReboots, joins |-> MaxJoins,
             drifts |-> MaxDrifts]

Client == \/ Create \/ Delete \/ Expire
          \/ \E wish \in {"running", "stopped", "paused"} : Ask(wish)
          \/ \E to \in Sizings : Resize(to)

Turn == \/ LookBegins \/ Sees \/ SeesNothing \/ Refuses
        \/ \E joins \in BOOLEAN : Looks(joins)
        \/ PollBegins \/ Waits \/ Sends \/ Runs \/ GivesUp \/ Follows
        \/ Sizes \/ SizesNothing

HostStep(h) ==
  \/ \E o \in sent : o.host = h /\ RunsLate(o)
  \/ \E id \in DOMAIN entry[h] :
       \/ Cancels(h, id) \/ Collects(h, id)
       \/ WorkBegins(h, id) \/ WorkDone(h, id) \/ WorkFails(h, id) \/ WorkCancelled(h, id)
  \/ Reboot(h) \/ Drifts(h)

Next == Client \/ Turn \/ Crash \/ \E h \in Host : HostStep(h)

Spec == Init /\ [][Next]_vars

\* The loop takes its turns and what begins on a host ends.  Any one call may fail,
\* but a call made over and over is answered at last.
Fairness ==
  /\ WF_vars(LookBegins \/ PollBegins \/ Follows \/ Sizes \/ SizesNothing)
  /\ WF_vars(Sees \/ SeesNothing \/ Looks(FALSE) \/ Waits \/ Sends \/ Runs \/ GivesUp)
  /\ SF_vars(Sees)
  /\ SF_vars(loop.at = "reading" /\ (loop.saw # "unknown" \/ row.state \notin Made) /\ Looks(FALSE))
  /\ SF_vars(Waits \/ Sends) /\ SF_vars(Runs)
  /\ \A h \in Host :
       WF_vars(\E id \in DOMAIN entry[h] :
                 WorkBegins(h, id) \/ WorkDone(h, id) \/ WorkFails(h, id))

FairSpec == Spec /\ Fairness

--------------------------------------------------------------------------------
(* Properties. *)

Errors == {None, "Capacity", "Internal", "Other"}

Row == [state : Leaf, desired : {"running", "stopped", "paused"}, prepared : BOOLEAN,
        error : Errors, resize : Nat, size : Nat,
        host : Host]

Kind == {"make", "start", "stop", "pause", "resize", "join", "remove"}

Operation == [seq : Nat \ {0}, kind : Kind, host : Host, boot : Nat, to : Nat]

Seens == {"running", "stopped", "paused", "missing", "unknown"}

Ends == [status : {"done", "failed", "cancelled"}, error : Errors, size : Nat]

Loop ==
  [at : {"idle"}]
  \cup [at : {"seeing", "sizing"}, host : Host]
  \cup [at : {"reading"}, host : Host, saw : Seens, due : BOOLEAN]
  \cup [at : {"waiting", "sending"}, op : Operation, error : Errors]
  \cup [at : {"heard"}, op : Operation, error : Errors, heard : Ends \cup {Lost}]

Entry == [kind : Kind, to : Nat, status : {"running", "done", "failed", "cancelled"},
          error : Errors, size : Nat, at : {"queued", "working"}, before : Nat, cut : BOOLEAN]

VM == [is : {"none", "partial", "up", "ready", "stopped", "paused"}, size : Nat]

\* The type of every variable the store, the process, the network and the hosts hold.
TypeOK ==
  /\ row \in Row \cup {Gone}
  /\ op \in Operation \cup {NoOp}
  /\ last \in Nat
  /\ held \in [known : BOOLEAN, setup : BOOLEAN, untried : SUBSET Host]
  /\ loop \in Loop
  /\ sent \subseteq Operation
  /\ cancels \subseteq Nat /\ collects \subseteq Nat
  /\ boot \in [Host -> Nat] /\ seen \in [Host -> Nat]
  /\ DOMAIN entry = Host
  /\ \A h \in Host : entry[h] \in [DOMAIN entry[h] -> Entry] /\ DOMAIN entry[h] \subseteq Nat
  /\ vm \in [Host -> VM]

\* A row has an operation in flight exactly when its leaf has a step, of that
\* kind and on its host: what `applied` throws on, and the loop's "with no
\* operation", never happen, whatever request lands between two of its turns.
OpIsStep ==
  /\ op # NoOp <=> Exists /\ StepOf(row.state) # None
  /\ op # NoOp => StepOf(row.state) \in {"any", op.kind} /\ op.host = row.host

\* No step of a machine is ever worked on beside another, on one host or on two,
\* not even one that a lost call left behind.
OneWork ==
  \A g, h \in Host : \A i \in DOMAIN entry[g], j \in DOMAIN entry[h] :
    Working(g, i) /\ Working(h, j) => g = h /\ i = j

\* An operation's work begins at most once, however often it is sent or however
\* late it arrives, and whatever its host was told to forget.
OnceOnly == \A id \in DOMAIN ran : ran[id] = 1

\* A name without a row, or with an undone one, has nothing on any host: no VM,
\* and no work that could still make one.
NoOrphan ==
  ~Exists \/ row.state = "undone" =>
    \A h \in Host : vm[h] = NoVM /\ \A id \in DOMAIN entry[h] : ~Running(h, id)

\* A machine is on its row's host only, over every move past capacity.
OneHome == \A h \in Host : vm[h] # NoVM => Exists /\ row.host = h

\* A row that shows a client a phase to rest in has no work under way for it,
\* so nothing changes under the client's read.
RestIsIdle ==
  Exists /\ ActivityOf(row.state) \in {"recheck", "none"} =>
    \A h \in Host : \A id \in DOMAIN entry[h] : ~Running(h, id)

Matches ==
  LET is == vm[row.host].is IN
  CASE row.desired = "running" -> is = "ready"
    [] row.desired = "stopped" -> is = "stopped"
    [] OTHER -> is \in {"paused", "stopped"}

\* A settled machine is what it was last asked to be, and a lost one is nowhere,
\* when nothing but steps changes VMs.
SettledTrue ==
  /\ Exists /\ row.state = "made.settled" => Matches
  /\ Exists /\ row.state = "made.lost" => vm[row.host] = NoVM

\* A machine that settled as running has been readied since its VM came up: its
\* sshd and its start hook ran, "after each boot".  (SettledTrue says this and
\* more, but only while no VM stops by itself.)
HookRan ==
  Exists /\ row.state = "made.settled" /\ row.desired = "running" => vm[row.host].is # "up"

\* A row whose phase is failed says why.
FailedSays == Exists /\ PhaseOf(row.state) = "failed" => row.error # None

\* A row at rest with no resize owed has the sizes its VM has.
SizesTrue ==
  Exists /\ row.state \in {"made.settled", "made.failed"} /\ row.resize = NoSize
         /\ vm[row.host] # NoVM /\ loop.at # "sizing"
    => row.size = vm[row.host].size

\* A recorded delete only ever ends in the row's removal: no late report, loss
\* or wish brings the machine back.
DeleteIsFinal ==
  [][Exists /\ row.state \in Deleting => row' = Gone \/ row'.state \in Deleting]_row

\* Once requests and faults stop, the row comes to rest for good and tells the truth.
AtRest ==
  \/ ~Exists
  \/ row.state \in {"undone", "made.failed"}
  \/ row.state = "made.lost" /\ vm[row.host] = NoVM
  \/ row.state = "made.settled" /\ Matches

Converges == <>[]AtRest

\* The life of the name as a client knows it, and what any host has of it.
Stage ==
  CASE ~Exists -> "absent"
    [] Exists /\ row.state \in Making \cup Undoing -> "coming"
    [] Exists /\ row.state \in Made -> "here"
    [] Exists /\ row.state = "undone" -> "failed"
    [] OTHER -> "leaving"

Body == \E h \in Host : vm[h] # NoVM \/ \E id \in DOMAIN entry[h] : Running(h, id)

Promise == INSTANCE Lifecycle WITH stage <- Stage, body <- Body

\* The control plane and its hosts keep the promise of Lifecycle.
KeepsPromise == Promise!Spec

\* A delete is carried out at last, through lost calls, restarts and failed removes.
DeleteEnds == (Exists /\ row.state \in Deleting) ~> ~Exists
================================================================================
