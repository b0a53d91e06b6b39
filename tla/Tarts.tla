---------------------------------- MODULE Tarts ----------------------------------
(***************************************************************************)
(* One VM of a mac host (apps/host/src/platform/tart/tart.ts).  launchd    *)
(* runs it, from a job the host wrote, as a `tart run` that outlives the   *)
(* host's process and every step: the host learns what became of it from   *)
(* Tart's list, from launchd's state and from the job's log.               *)
(***************************************************************************)
EXTENDS Naturals

CONSTANTS
  MaxOrders,   \* bound: steps sent
  MaxTrips     \* bound: what goes wrong of itself: failures, cuts, restarts, refusals, halts

VARIABLES
  disk,        \* the VM as Tart keeps it: missing, stopped, or paused with its state saved
  runner,      \* its `tart run`: none, starting, running, or suspending
  job,         \* launchd's job of it: none, as this host writes it ("new"), or an older host's
  log,         \* what the job's log says that the host looks for
  order,       \* the step under way or the last that ended: its kind, and where it is
  late,        \* a step that started the runner ended before the runner opened the VM
  refused,     \* Apple's limit refused a runner since the step was sent
  orders, trips

tartVars == <<disk, runner, job, log, order, late, refused, orders, trips>>

NoOrder == [kind |-> "none", at |-> "lost"]
EndsOf == {"done", "failed", "capacity", "lost"}

\* `stateOf`, of Tart's list: a runner counts once it has opened the VM.
Listed == IF runner \in {"running", "suspending"} THEN "running" ELSE disk

Is(kinds, at) == order.kind \in kinds /\ order.at = at

Goes(at) == order' = [order EXCEPT !.at = at]

\* A start that ends while its runner has not opened the VM leaves it to open it whenever.
EndsLate == late' = (late \/ runner = "starting")

--------------------------------------------------------------------------------
(* A boot. *)

Sent(kind) ==
  /\ orders > 0 /\ order.at \in EndsOf
  /\ orders' = orders - 1
  /\ order' = [kind |-> kind, at |-> "sent"]
  /\ late' = (late /\ runner = "starting")
  /\ refused' = FALSE
  /\ UNCHANGED <<disk, runner, job, log, trips>>

\* A new name is made; a make that did not end well, and a delete, are followed by removes only.
Sends(kind) ==
  /\ kind \in CASE order = NoOrder /\ disk = "missing" -> {"make"}
               [] order.kind = "remove" \/ (order.kind = "make" /\ order.at # "done") -> {"remove"}
               [] OTHER -> {"start", "stop", "pause", "remove"}
  /\ ~Is({"remove"}, "done")
  /\ Sent(kind)

MakeClones ==
  /\ Is({"make"}, "sent")
  /\ disk' = "stopped"
  /\ Goes("launching")
  /\ UNCHANGED <<runner, job, log, late>>

StartSees ==
  /\ Is({"start"}, "sent")
  /\ Goes(CASE Listed = "missing" -> "failed"
            [] Listed = "running" -> "done"
            [] OTHER -> "launching")
  /\ UNCHANGED <<disk, runner, job, log, late>>

\* Mutant of LaunchEmpties: the log keeps what earlier boots said.
LaunchKeepsLog ==
  /\ Is({"make", "start"}, "launching")
  /\ Goes("loading")
  /\ UNCHANGED <<disk, runner, job, log, late>>

\* `launch`: the log is emptied before anything of this boot can be written to it.
LaunchEmpties ==
  /\ Is({"make", "start"}, "launching")
  /\ log' = {}
  /\ Goes("loading")
  /\ UNCHANGED <<disk, runner, job, late>>

\* A job that an older host loaded is replaced, unless it runs.
LaunchLoads ==
  /\ Is({"make", "start"}, "loading")
  /\ job' = IF job = "none" \/ runner = "none" THEN "new" ELSE job
  /\ Goes("kicking")
  /\ UNCHANGED <<disk, runner, log, late>>

\* `kickstart` starts what does not run.
LaunchKicks ==
  /\ Is({"make", "start"}, "kicking")
  /\ runner' = IF runner = "none" THEN "starting" ELSE runner
  /\ Goes("opening")
  /\ UNCHANGED <<disk, job, log, late>>

\* `started`: the gate is held until the runner has opened the VM or is gone, or a while has passed.
LaunchWaits ==
  /\ Is({"make", "start"}, "opening")
  /\ Goes("readying")
  /\ UNCHANGED <<disk, runner, job, log, late>>

\* `ready`: the agent answers; or launchd has no runner any more and the log says whether Apple's
\* limit refused it; or it takes too long.
Readies ==
  /\ Is({"make", "start"}, "readying")
  /\ \/ runner \in {"running", "suspending"} /\ Goes("done") /\ UNCHANGED late
     \/ runner = "none" /\ Goes(IF "limit" \in log THEN "capacity" ELSE "failed") /\ UNCHANGED late
     \/ runner # "none" /\ Goes("failed") /\ EndsLate
  /\ UNCHANGED <<disk, runner, job, log>>

--------------------------------------------------------------------------------
(* A stop, a pause and a remove. *)

\* A saved state is discarded, and what does not run is left.
StopSees ==
  /\ Is({"stop"}, "sent")
  /\ disk' = IF Listed = "paused" THEN "stopped" ELSE disk
  /\ Goes(IF Listed = "running" THEN "halting" ELSE "done")
  /\ UNCHANGED <<runner, job, log, late>>

\* The guest shuts down, or is forced off once it has not for a while, which can fail.
Halted ==
  /\ Is({"stop", "pause"}, "halting")
  /\ \/ /\ disk' = IF runner \in {"running", "suspending"} THEN "stopped" ELSE disk
        /\ runner' = "none"
        /\ Goes("done")
     \/ Goes("failed") /\ UNCHANGED <<disk, runner>>
  /\ UNCHANGED <<job, log, late>>

\* An older host booted the VM so that it cannot be suspended: it is stopped instead.
PauseSees ==
  /\ Is({"pause"}, "sent")
  /\ Goes(CASE Listed = "paused" -> "done"
            [] Listed \in {"missing", "stopped"} -> "failed"
            [] Listed = "running" /\ job = "old" -> "halting"
            [] OTHER -> "suspending")
  /\ UNCHANGED <<disk, runner, job, log, late>>

PauseSuspends ==
  /\ Is({"pause"}, "suspending")
  /\ IF runner \in {"running", "suspending"} THEN runner' = "suspending" /\ Goes("saving")
     ELSE Goes("failed") /\ UNCHANGED runner
  /\ UNCHANGED <<disk, job, log, late>>

\* What the log says tells a state that was saved from a VM that was only powered off.
PauseEnds ==
  /\ Is({"pause"}, "saving")
  /\ \/ runner = "none" /\ "saved" \in log /\ Goes("done") /\ UNCHANGED disk
     \/ runner = "none" /\ "saved" \notin log /\ Goes("failed") /\ disk' = "stopped"
     \/ runner = "suspending" /\ Goes("failed") /\ UNCHANGED disk
  /\ UNCHANGED <<runner, job, log, late>>

\* `deleteVm` forces off a VM that runs; a runner that has not opened it finds it gone.
RemoveDeletes ==
  /\ Is({"remove"}, "sent")
  /\ disk' = "missing"
  /\ runner' = IF runner = "starting" THEN "starting" ELSE "none"
  /\ Goes("unloading")
  /\ UNCHANGED <<job, log, late>>

\* `bootout` ends the job and whatever of it runs.
RemoveUnloads ==
  /\ Is({"remove"}, "unloading")
  /\ job' = "none" /\ runner' = "none"
  /\ Goes("clearing")
  /\ UNCHANGED <<disk, log, late>>

RemoveClears ==
  /\ Is({"remove"}, "clearing")
  /\ log' = {}
  /\ Goes("done")
  /\ UNCHANGED <<disk, runner, job, late>>

Host ==
  /\ \/ MakeClones \/ StartSees \/ LaunchEmpties \/ LaunchLoads \/ LaunchKicks \/ LaunchWaits
     \/ Readies \/ StopSees \/ Halted \/ PauseSees \/ PauseSuspends \/ PauseEnds
     \/ RemoveDeletes \/ RemoveUnloads \/ RemoveClears
  /\ UNCHANGED <<refused, orders, trips>>

Trips == trips > 0 /\ trips' = trips - 1

\* A command fails, or the step is cut where it can be: not as it halts or saves.
StepEnds ==
  /\ Trips
  /\ order.at \notin EndsOf \cup {"halting", "saving"}
  /\ Goes("failed")
  /\ EndsLate
  /\ UNCHANGED <<disk, runner, job, log, refused, orders>>

\* The host's process restarts: the step is lost wherever it is, and the VM and its job stay.
HostRestarts ==
  /\ Trips
  /\ order.at \notin EndsOf
  /\ Goes("lost")
  /\ EndsLate
  /\ UNCHANGED <<disk, runner, job, log, refused, orders>>

--------------------------------------------------------------------------------
(* The `tart run` of the job. *)

\* A saved state is taken as the VM opens.
Opens ==
  /\ runner = "starting" /\ disk # "missing"
  /\ runner' = "running" /\ disk' = "stopped"
  /\ UNCHANGED <<job, log, order, late, refused, orders, trips>>

FindsNothing ==
  /\ runner = "starting" /\ disk = "missing"
  /\ runner' = "none"
  /\ UNCHANGED <<disk, job, log, order, late, refused, orders, trips>>

\* Apple's limit refuses it, or it fails otherwise; a saved state it could not load is kept.
Exits(says) ==
  /\ Trips
  /\ runner = "starting"
  /\ runner' = "none" /\ log' = log \cup says
  /\ refused' = (refused \/ "limit" \in says)
  /\ UNCHANGED <<disk, job, order, late, orders>>

GuestHalts ==
  /\ Trips
  /\ runner = "running"
  /\ runner' = "none"
  /\ UNCHANGED <<disk, job, log, order, late, refused, orders>>

Saves ==
  /\ runner = "suspending"
  /\ runner' = "none" /\ disk' = "paused" /\ log' = log \cup {"saved"}
  /\ UNCHANGED <<job, order, late, refused, orders, trips>>

SaveFails ==
  /\ Trips
  /\ runner = "suspending"
  /\ runner' = "none"
  /\ UNCHANGED <<disk, job, log, order, late, refused, orders>>

Runner ==
  \/ Opens \/ FindsNothing \/ GuestHalts \/ Saves \/ SaveFails
  \/ \E says \in {{}, {"limit"}} : Exits(says)

--------------------------------------------------------------------------------

\* No VM yet, or one that an older host made and may have left running.
TartInit ==
  /\ \/ disk = "missing" /\ runner = "none" /\ job = "none"
     \/ disk = "stopped" /\ runner \in {"none", "running"} /\ job = "old"
  /\ log = {} /\ order = NoOrder /\ late = FALSE /\ refused = FALSE
  /\ orders = MaxOrders /\ trips = MaxTrips

TartNext ==
  \/ \E kind \in {"make", "start", "stop", "pause", "remove"} : Sends(kind)
  \/ Host \/ StepEnds \/ HostRestarts \/ Runner

\* What a step answered is so.  A pause that is done kept the VM's state, or stopped a VM that could
\* not be suspended; a stop that is done left nothing running; neither is told of a runner that an
\* earlier start left to open the VM late.  A remove that is done left no VM, job or runner.  What
\* is answered as Capacity is a boot of this very step that Apple's limit refused.
TartTrue ==
  /\ Is({"pause"}, "done") /\ ~late => runner = "none" /\ (disk = "paused" \/ job = "old")
  /\ Is({"stop"}, "done") /\ ~late => runner = "none"
  /\ Is({"remove"}, "done") => disk = "missing" /\ runner = "none" /\ job = "none"
  /\ order.at = "capacity" => refused
================================================================================
