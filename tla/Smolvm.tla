--------------------------------- MODULE Smolvm ---------------------------------
(***************************************************************************)
(* The parked bases of a linux host (apps/host/src/platform/smolvm.ts):    *)
(* a build's copy is booted once and frozen as a base, copies of the build *)
(* branch from it, and it is retired when nothing more can come of it.     *)
(* Restores, deletes of machines, the delete of the build's copy, parks    *)
(* and the settling at a start run at once, each a queue of jobs whose     *)
(* commands are steps of their own; a base's jobs that park or retire it   *)
(* take its lock.                                                          *)
(*                                                                         *)
(* One build stands for all, as bases of different builds share nothing.   *)
(* smolvm itself is external, and modelled as the code uses it: a base     *)
(* with branches refuses its delete, and a branch needs a live source.     *)
(***************************************************************************)
EXTENDS Naturals, Sequences, SequencesExt

CONSTANTS
  MaxMachines,  \* bound: machines restored from the build
  MaxFaults     \* bound: failing commands, VMs that die and restarts, together

VARIABLES
  rec,      \* what smolvm has of each name: its state, and what it branched from
  stored,   \* the smolvm version the build's copy was captured under; 0 when it isn't stored
  host,     \* the host: its boot, its smolvm version, and whether, since its process started, a
            \* command failed outside a restore or a delete of the copy met a freezer (`unclean`)
  jobs,     \* the queue of each actor
  lock,     \* who holds each base's lock
  made,     \* how far each machine came
  faults    \* what is left of the faults

smolvmVars == <<rec, stored, host, jobs, lock, made, faults>>

None == <<"none", 0>>

Natives == {"machine"} \X (1..MaxMachines)
Bases == {"base"} \X (1..MaxFaults + 1)
Freezers == {"freezer"} \X (1..MaxFaults + 1)

\* The scopes of the host's steps, and its own work: settling, and parks nobody waits for.
Copy == <<"copy", 0>>
Settling == <<"settle", 0>>
Parks == <<"parks", 0>>
Actors == Natives \cup {Copy, Settling, Parks}

FreezerOf(b) == <<"freezer", b[2]>>
BaseOf == <<"base", host.boot>>

Missing == [state |-> "missing", parent |-> None]

\* `alive`: the states in which a VM runs.
Alive == {"running", "pausing", "unreachable", "frozen"}

Present(n) == rec[n].state # "missing"
Pinned(b) == \E n \in DOMAIN rec : Present(n) /\ rec[n].parent = b

Job(do, on) == [do |-> do, on |-> on, at |-> "begin"]

At(a, do, at) == jobs[a] # <<>> /\ Head(jobs[a]).do = do /\ Head(jobs[a]).at = at

On(a) == Head(jobs[a]).on

Goes(a, at) == jobs' = [jobs EXCEPT ![a] = <<[Head(@) EXCEPT !.at = at]>> \o Tail(@)]

\* The job ends, other jobs follow it, and any lock it held is free.
Follows(a, next) ==
  /\ jobs' = [jobs EXCEPT ![a] = next \o Tail(@)]
  /\ lock' = [b \in Bases |-> IF lock[b] = a THEN None ELSE lock[b]]

Ends(a) == Follows(a, <<>>)

Puts(n, state, parent) == rec' = [rec EXCEPT ![n] = [state |-> state, parent |-> parent]]

Removes(n) == rec' = [rec EXCEPT ![n] = Missing]

--------------------------------------------------------------------------------
(* Parking: `parking`, `settled`, `parkAnew` and `freeze`, under the base's lock. *)

\* Only a copy captured under the host's own smolvm parks a base; another restores.
CapturedHere == stored # 0 /\ stored = host.version

Takes(a, b) == lock[b] = None /\ lock' = [lock EXCEPT ![b] = a]

ParkBegins(a) ==
  /\ At(a, "park", "begin")
  /\ IF CapturedHere THEN Takes(a, On(a)) /\ Goes(a, "clear")
     ELSE lock[On(a)] = None /\ Ends(a)
  /\ UNCHANGED <<rec, stored, host, made, faults>>

\* A freezer an earlier park left is removed before the base is looked at.
ParkClears(a) ==
  /\ At(a, "park", "clear")
  /\ Removes(FreezerOf(On(a)))
  /\ IF rec[On(a)].state = "frozen" THEN Ends(a)
     ELSE /\ Goes(a, IF rec[On(a)].state = "running" THEN "freeze"
                     ELSE IF Present(On(a)) THEN "retire" ELSE "create")
          /\ UNCHANGED lock
  /\ UNCHANGED <<stored, host, made, faults>>

\* A base that neither runs nor is frozen goes, unless branches keep it.
ParkRetires(a) ==
  /\ At(a, "park", "retire")
  /\ IF Pinned(On(a)) THEN Ends(a) /\ UNCHANGED rec
     ELSE Removes(On(a)) /\ Goes(a, "create") /\ UNCHANGED lock
  /\ UNCHANGED <<stored, host, made, faults>>

ParkCreates(a) ==
  /\ At(a, "park", "create")
  /\ Puts(On(a), "created", None)
  /\ Goes(a, "boot")
  /\ UNCHANGED <<stored, host, lock, made, faults>>

ParkBoots(a) ==
  /\ At(a, "park", "boot")
  /\ Puts(On(a), "running", None)
  /\ Goes(a, "freeze")
  /\ UNCHANGED <<stored, host, lock, made, faults>>

\* Branching the freezer freezes its source, when that still runs.
ParkFreezes(a) ==
  /\ At(a, "park", "freeze")
  /\ IF rec[On(a)].state \in {"running", "frozen"}
     THEN /\ rec' = [rec EXCEPT ![On(a)].state = "frozen",
                                ![FreezerOf(On(a))] = [state |-> "running", parent |-> On(a)]]
          /\ Goes(a, "thaw")
          /\ UNCHANGED lock
     ELSE Ends(a) /\ UNCHANGED rec
  /\ UNCHANGED <<stored, host, made, faults>>

ParkThaws(a) ==
  /\ At(a, "park", "thaw")
  /\ Removes(FreezerOf(On(a)))
  /\ Ends(a)
  /\ UNCHANGED <<stored, host, made, faults>>

--------------------------------------------------------------------------------
(* Retiring: `retireStale` and `retire`, under the base's lock. *)

Stale(b) == b # BaseOf \/ ~CapturedHere

RetireBegins(a) ==
  /\ At(a, "retire", "begin")
  /\ IF Stale(On(a)) THEN Takes(a, On(a)) /\ Goes(a, "clear")
     ELSE lock[On(a)] = None /\ Ends(a)
  /\ UNCHANGED <<rec, stored, host, made, faults>>

RetireClears(a) ==
  /\ At(a, "retire", "clear")
  /\ Removes(FreezerOf(On(a)))
  /\ Goes(a, "retire")
  /\ UNCHANGED <<stored, host, lock, made, faults>>

Retires(a) ==
  /\ At(a, "retire", "retire")
  /\ IF Pinned(On(a)) THEN UNCHANGED rec ELSE Removes(On(a))
  /\ Ends(a)
  /\ UNCHANGED <<stored, host, made, faults>>

\* The bases smolvm lists, by themselves or by their freezers.
ListedBases == {b \in Bases : Present(b) \/ Present(FreezerOf(b))}

RetireAll(bases) == SetToSeq({Job("retire", b) : b \in bases})

--------------------------------------------------------------------------------
(* `bases.settle`, at each start of the host's process. *)

SettleLists ==
  /\ At(Settling, "settle", "begin")
  /\ Follows(Settling, Append(RetireAll(ListedBases), Job("builds", None)))
  /\ UNCHANGED <<rec, stored, host, made, faults>>

SettleParks ==
  /\ At(Settling, "builds", "begin")
  /\ Follows(Settling, IF stored # 0 THEN <<Job("park", BaseOf)>> ELSE <<>>)
  /\ UNCHANGED <<rec, stored, host, made, faults>>

--------------------------------------------------------------------------------
(* The build's copy: fetched and parked in one step, and discarded in another. *)

Restoring == \E m \in Natives : jobs[m] # <<>> /\ Head(jobs[m]).do = "restore"

Fetch(version) ==
  /\ jobs[Copy] = <<>> /\ made[Copy] = "none"
  /\ stored' = version
  /\ made' = [made EXCEPT ![Copy] = "made"]
  /\ jobs' = [jobs EXCEPT ![Copy] = <<Job("park", BaseOf)>>]
  /\ UNCHANGED <<rec, host, lock, faults>>

\* Restores of the copy hold it shared, so its delete waits for them.
Discard ==
  /\ jobs[Copy] = <<>> /\ made[Copy] \in {"made", "discarding"} /\ ~Restoring
  /\ made' = [made EXCEPT ![Copy] = "discarding"]
  /\ jobs' = [jobs EXCEPT ![Copy] = <<Job("discard", BaseOf)>>]
  /\ UNCHANGED <<rec, stored, host, lock, faults>>

DiscardTakes ==
  /\ At(Copy, "discard", "begin")
  /\ Takes(Copy, On(Copy))
  /\ Goes(Copy, "unstore")
  /\ UNCHANGED <<rec, stored, host, made, faults>>

DiscardUnstores ==
  /\ At(Copy, "discard", "unstore")
  /\ stored' = 0
  /\ Goes(Copy, "retire")
  /\ UNCHANGED <<rec, host, lock, made, faults>>

\* The base's freezer is not removed first: one that a cut park left keeps its base.
DiscardRetires ==
  /\ At(Copy, "discard", "retire")
  /\ IF Pinned(On(Copy)) THEN UNCHANGED rec ELSE Removes(On(Copy))
  /\ host' = [host EXCEPT !.unclean = @ \/ Present(FreezerOf(On(Copy)))]
  /\ Ends(Copy)
  /\ UNCHANGED <<stored, made, faults>>

--------------------------------------------------------------------------------
(* Machines restored from the copy, and their deletes. *)

\* A base that is frozen is branched; else the copy is restored.
Restore(m) ==
  /\ jobs[m] = <<>> /\ made[m] = "none"
  /\ made[Copy] = "made" /\ jobs[Copy] = <<>> /\ stored = host.version
  /\ made' = [made EXCEPT ![m] = "making"]
  /\ jobs' = [jobs EXCEPT ![m] = <<Job("restore", BaseOf)>>]
  /\ UNCHANGED <<rec, stored, host, lock, faults>>

RestoreLooks(m) ==
  /\ At(m, "restore", "begin")
  /\ Goes(m, IF rec[On(m)].state = "frozen" THEN "branch" ELSE "create")
  /\ UNCHANGED <<rec, stored, host, lock, made, faults>>

\* A branch whose base went may leave a part of the machine.
RestoreBranches(m) ==
  /\ At(m, "restore", "branch")
  /\ IF rec[On(m)].state \in {"running", "frozen"}
     THEN /\ rec' = [rec EXCEPT ![On(m)].state = "frozen",
                                ![m] = [state |-> "running", parent |-> On(m)]]
          /\ Goes(m, "grow")
     ELSE /\ \E part \in {"missing", "created"} : Puts(m, part, None)
          /\ Goes(m, "relook")
  /\ UNCHANGED <<stored, host, lock, made, faults>>

\* Mutant of RestoreRelooks: the copy is restored over what the branch left.
RestoreRelooksOnly(m) ==
  /\ At(m, "restore", "relook")
  /\ Goes(m, "create")
  /\ UNCHANGED <<rec, stored, host, lock, made, faults>>

RestoreRelooks(m) ==
  /\ At(m, "restore", "relook")
  /\ IF rec[On(m)].state = "frozen"
     THEN made' = [made EXCEPT ![m] = "raced"] /\ Ends(m) /\ UNCHANGED rec
     ELSE Removes(m) /\ Goes(m, "create") /\ UNCHANGED <<lock, made>>
  /\ UNCHANGED <<stored, host, faults>>

\* `restoreRam`: a name smolvm already has is refused.
RestoreCreates(m) ==
  /\ At(m, "restore", "create")
  /\ IF Present(m) \/ stored = 0
     THEN made' = [made EXCEPT ![m] = "failed"] /\ Ends(m) /\ UNCHANGED rec
     ELSE Puts(m, "created", None) /\ Goes(m, "boot") /\ UNCHANGED <<lock, made>>
  /\ UNCHANGED <<stored, host, faults>>

RestoreBoots(m) ==
  /\ At(m, "restore", "boot")
  /\ Puts(m, "running", None)
  /\ Goes(m, "grow")
  /\ UNCHANGED <<stored, host, lock, made, faults>>

\* The machine is up; a park of its build is left to run by itself.
RestoreEnds(m) ==
  /\ At(m, "restore", "grow")
  /\ made' = [made EXCEPT ![m] = "made"]
  /\ jobs' = [jobs EXCEPT ![m] = <<>>, ![Parks] = Append(@, Job("park", On(m)))]
  /\ UNCHANGED <<rec, stored, host, lock, faults>>

Delete(m) ==
  /\ jobs[m] = <<>> /\ made[m] \in {"made", "raced", "failed", "broken", "deleting"}
  /\ made' = [made EXCEPT ![m] = "deleting"]
  /\ jobs' = [jobs EXCEPT ![m] = <<Job("delete", rec[m].parent)>>]
  /\ UNCHANGED <<rec, stored, host, lock, faults>>

\* Mutant of DeleteRemoves: nothing is done for the base the machine kept.
DeleteForgets(m) ==
  /\ At(m, "delete", "begin")
  /\ Removes(m) /\ Ends(m)
  /\ made' = [made EXCEPT ![m] = "deleted"]
  /\ UNCHANGED <<stored, host, faults>>

\* The base it branched from goes with its last branch, if it is stale; a machine already
\* gone may have left any.
DeleteRemoves(m) ==
  /\ At(m, "delete", "begin")
  /\ Removes(m)
  /\ made' = [made EXCEPT ![m] = "deleted"]
  /\ Follows(m, IF ~Present(m) THEN RetireAll(ListedBases)
                 ELSE IF On(m) \in Bases THEN <<Job("retire", On(m))>> ELSE <<>>)
  /\ UNCHANGED <<stored, host, faults>>

--------------------------------------------------------------------------------
(* Faults. *)

Fault == faults > 0 /\ faults' = faults - 1

\* A command fails: what it was for ends there.
CommandFails(a) ==
  /\ Fault
  /\ jobs[a] # <<>>
  /\ Ends(a)
  /\ IF Head(jobs[a]).do = "restore"
     THEN made' = [made EXCEPT ![a] = "broken"] /\ UNCHANGED host
     ELSE host' = [host EXCEPT !.unclean = TRUE] /\ UNCHANGED made
  /\ UNCHANGED <<rec, stored>>

Dies(n) ==
  /\ Fault
  /\ rec[n].state \in Alive
  /\ rec' = [rec EXCEPT ![n].state = "stopped"]
  /\ UNCHANGED <<stored, host, jobs, lock, made>>

Started(boot, version) ==
  /\ host' = [boot |-> boot, version |-> version, unclean |-> FALSE]
  /\ jobs' = [a \in Actors |-> IF a = Settling THEN <<Job("settle", None)>> ELSE <<>>]
  /\ lock' = [b \in Bases |-> None]
  /\ made' = [m \in DOMAIN made |-> IF made[m] = "making" THEN "broken" ELSE made[m]]

\* The host's process starts again, under another smolvm if it was replaced.
Restart(version) ==
  /\ Fault
  /\ Started(host.boot, version)
  /\ UNCHANGED <<rec, stored>>

Reboot ==
  /\ Fault
  /\ Started(host.boot + 1, host.version)
  /\ rec' = [n \in DOMAIN rec |->
       IF rec[n].state \in Alive THEN [rec[n] EXCEPT !.state = "stopped"] ELSE rec[n]]
  /\ UNCHANGED stored

--------------------------------------------------------------------------------
Versions == 1..2

SmolvmInit ==
  /\ rec = [n \in Natives \cup Bases \cup Freezers |-> Missing]
  /\ stored = 0
  /\ host = [boot |-> 1, version |-> 1, unclean |-> FALSE]
  /\ jobs = [a \in Actors |-> <<>>]
  /\ lock = [b \in Bases |-> None]
  /\ made = [m \in Natives \cup {Copy} |-> "none"]
  /\ faults = MaxFaults

Parking(a) ==
  \/ ParkBegins(a) \/ ParkClears(a) \/ ParkRetires(a) \/ ParkCreates(a)
  \/ ParkBoots(a) \/ ParkFreezes(a) \/ ParkThaws(a)

Retiring(a) == RetireBegins(a) \/ RetireClears(a) \/ Retires(a)

Restores(m) ==
  \/ Restore(m) \/ RestoreLooks(m) \/ RestoreBranches(m) \/ RestoreRelooks(m)
  \/ RestoreCreates(m) \/ RestoreBoots(m) \/ RestoreEnds(m)

SmolvmNext ==
  \/ \E a \in {Copy, Settling, Parks} : Parking(a)
  \/ \E a \in Natives \cup {Settling} : Retiring(a)
  \/ SettleLists \/ SettleParks
  \/ Discard \/ DiscardTakes \/ DiscardUnstores \/ DiscardRetires
  \/ \E m \in Natives : Restores(m) \/ Delete(m) \/ DeleteRemoves(m)
  \/ \E a \in Actors : CommandFails(a)
  \/ \E n \in DOMAIN rec : Dies(n)
  \/ \E v \in Versions : Fetch(v) \/ Restart(v)
  \/ Reboot

--------------------------------------------------------------------------------
Quiet == \A a \in Actors : jobs[a] = <<>>

Wanted(b) == b = BaseOf /\ CapturedHere

\* Once nothing runs, no freezer is left, and a base left is one a clone may still branch from
\* or a branch still keeps.  Exempt until the host's next start is what any command that failed
\* outside a restore left, or a delete of the build's copy that met a freezer.
BasesGo ==
  Quiet /\ ~host.unclean =>
    \A n \in Bases \cup Freezers : Present(n) => n \in Bases /\ (Wanted(n) \/ Pinned(n))

\* A restore none of whose own commands fails makes its machine, whatever becomes of the base it
\* looked at and of the part a branch left: what it falls back to is there, and its name is free.
\* Only a base that died and was parked anew before the second look fails it ("raced").
RestoreWorks == \A m \in Natives : made[m] # "failed"
================================================================================
