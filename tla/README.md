# clankerbox, verified

TLA+ models, TLC checks and TLAPS proofs of the clankerbox control plane and the
hosts it drives. Paths are relative to the repository's root. `S/` stands for
`apps/server/src/` and `H/` for `apps/host/src/`.

## 1. The system

A client asks the **control plane** (`apps/server`, one process over one SQLite
file) for machines, checkpoints and template builds. The control plane records
what is asked as a row, and one **loop** per name drives the row, sending whole
**steps** to the **host** that holds the machine (`apps/host`, a process per
computer, with no storage of its own). A step is an operation with an ID, a
number of its scope, the host's boot, and the leases it holds while it is
recorded. Clients wait by reading until a row rests.

| Component | State it keeps | Operations | Talks to |
|---|---|---|---|
| Machine chart (`S/machine-chart.ts`, `S/chart.ts`) | none: a pure chart of 23 leaves with facts (`desired`, `prepared`, `error`, `resize`, sizes, host) | `ask`, `resize`, `delete`, `read`, `refused`, `ran`, `reported`, `lost`, `sized`; `applied` begins and finishes operations | called inside `store.advance` |
| Machines service (`S/machines.ts`) | in memory: a create's setup and the hosts left to try; tailnet checks | create, fork, restore, start, stop, pause, resize, delete, exec, wait; startup; tick | store, driver, hosts client |
| Driver (`S/driver.ts`) | a latch per name with a loop | a turn looks at a row, follows its step, rests or ends | the row's resource |
| Poll (`S/operations.ts`) | none | cancel, wait, send again, collect | hosts client |
| Store (`S/store.ts`, `S/platform/sqlite.ts`) | rows of machines, checkpoints, templates, builds; operations with leases; a counter | `advance` (one transaction over row, operation and leases), insert, expire, watch | SQLite |
| Checkpoints (`S/checkpoint-chart.ts`, `S/checkpoints.ts`) | rows | capture, pause with capture, copy, publish, fetch, delete, sweep | store, driver, machines |
| Templates (`S/templates.ts`) | rows; a semaphore | build, run, end, tidy, copy to hosts, delete | machines, checkpoints |
| Placement, fleet, tailnet (`S/placement.ts`, `S/fleet.ts`, `S/tailnet.ts`) | a check per machine | choose hosts; adopt machines once per boot; back off | hosts client |
| Host operations (`H/operations.ts`) | a boot, an entry per operation, the last sequence per scope, VMs booting | run, wait, cancel, collect, exec, read, adopt | the runtime |
| Runtimes (`H/platform/smolvm.ts`, `H/platform/tart/`) | VMs, checkpoints on disk | create, start, stop, pause, resize, delete, capture, copy | external programs |
| Build store (`H/builds.ts`, `H/platform/s3.ts`) | objects and manifests | publish, fetch, unpublish | S3 |
| SDK client (`packages/sdk/src/client.ts`) | a wait's clock and target | every request, and its wait | the control plane |
| CLI, orbs, sandbox agent | configuration | requests | the SDK client |

What is hard here: requests land between any two turns of a loop; a call may be
lost, late or repeated, and the control plane cannot tell which; either process
may restart in the middle of anything, and the two forget different things; a
host's next step is accepted before its last one ended; a VM changes by itself.

What makes each component correct, in a line each:

- *chart and store*: a row and its operation agree; a delete is final; a failed
  row says why; two operations that conflict are never recorded together.
- *poll and host operations*: a step's work runs at most once, never beside
  another step of the machine, and never after a restart made it stale.
- *machines service*: what settles is what was last asked; a create that moves
  on leaves nothing behind; a name whose row is gone has nothing on any host.
- *driver*: no wake is lost; every row that should move is looked at again.
- *checkpoints, copies*: a copy is made from a source that is there for as long
  as it takes; a checkpoint is what its machine was when it was captured.
- *templates*: a build that ended or was dropped leaves no builder and no copy.
- *ports and RAM*: no two machines of a host hold one port, and no boot is
  admitted on room that another boot was given.
- *client*: a wait answers for its own request and its own machine.
- *runtimes*: RAM is resumed or copied only under the smolvm it belongs to; no
  base or freezer is left that nothing keeps; a mac VM's step answers what is so.
- *guests*: a running machine serves its own host key and holds its own node.
- *sandbox agent*: a URL leads to its own sandbox's present boot.

## 2. The modules

| Module | What it is | Code |
|---|---|---|
| `MachineChart` | the chart as operators on a row: `Transition`, and when an event `Begins` or `Finishes` an operation | `S/machine-chart.ts`, `S/chart.ts`, `phaseShown` of `S/machine-view.ts` |
| `MachineLife` | one machine name over its whole life, with the store, the loop, the calls and the hosts | `S/machines.ts`, `S/operations.ts`, `S/driver.ts`, `S/platform/sqlite.ts`, `H/operations.ts` |
| `Lifecycle` | abstract: the stage of a name, and whether any host has a body of it; `MachineLife` implements it | what the README and `docs/design/control-plane.md` promise of a name |
| `Driver` | the loop that drives one name, its latch, and the wakes that reach it | `S/driver.ts`, and who calls it in `S/machines.ts` |
| `CheckpointChart` | the chart of a checkpoint or build copy, as operators on a row | `S/checkpoint-chart.ts`, `S/chart.ts` |
| `Copies` | a machine, a checkpoint of it, and a machine copied from either, in one store with leases | `S/checkpoints.ts`, `S/copies.ts`, `S/steps.ts`, `S/machines.ts`, `S/platform/sqlite.ts`, `H/operations.ts` |
| `Leases` | abstract: a reader-writer lock over names; `Copies` implements it | what the leases of operations promise |
| `Builds` | the builds of a template: runs, sweeps, fetches, and the build store object by object | `S/templates.ts`, `S/checkpoints.ts`, `H/builds.ts`, `H/platform/s3.ts` |
| `Smolvm` | a build's parked base on a linux host, the clones that branch from it, and what retires it | `H/platform/smolvm.ts` |
| `Pins` | a linux machine's RAM and the smolvm version it belongs to | `S/machine-chart.ts`, `S/steps.ts`, `H/operations.ts`, `H/platform/smolvm.ts` |
| `Rooms` | a linux host's RAM budget, and the boots and growths it admits | `H/operations.ts`, `H/usage.ts`, `H/platform/smolvm.ts`, `S/steps.ts` |
| `Forwarders` | a mac host's ports: picked by makes, listened on by the host's process, adopted after restarts | `H/platform/tart/`, `H/machine-ports.ts`, `H/operations.ts`, `S/fleet.ts` |
| `Tarts` | one mac VM, run by launchd apart from the host's process | `H/platform/tart/tart.ts` |
| `Gates` | the gate between reads of every VM's disk and commands that need one | `H/platform/tart/disk-gate.ts` |
| `Guests` | the host keys and tailnet node inside a VM, and the scripts that give and take them | `H/guest.ts`, `H/operations.ts` |
| `Placements` | where a create goes, and goes on to | `S/placement.ts`, `S/hosts.ts`, `S/machines.ts` |
| `Tailnets` | when a machine's place on the tailnet is checked | `S/tailnet.ts`, `S/machines.ts` |
| `Watches` | a read of a machine that is held until it rests | `S/machines.ts`, `S/platform/sqlite.ts` |
| `Clients` | what a client's wait, and `ensure`, answer | `packages/sdk/src/client.ts` |
| `Sandboxes` | the sandbox agent's tunnels, ports and URLs | `packages/rivet-sandbox-agent/src/` |
| `MCMachineLife`, `MCDriver`, `MCCopies`, `MCClients`, `MCGuests` | the module of that name for TLC | |
| `MCParts` | thirteen modules side by side for TLC, from `Builds` to `Placements` | |
| `MachineLifeProofs` | theorems of the control plane's side of `MachineLife` | |
| `MachineHostProofs` | theorems of `MachineLife` that reach its hosts, the refinement of `Lifecycle`, and what settled rows and sizes say | |
| `DriverProofs`, `CopiesProofs`, `BuildsProofs`, `GateProofs` | theorems of the module of that name | |
| `PartsProofs` | theorems of the parts of `MCParts`: `Gates` (by `GateProofs`), `Watches`, `Tarts`, `Tailnets`, `Placements`, `Sandboxes`, `Pins`, `Clients`, `Forwarders` | |
| `HostPartsProofs` | the same of `Guests`, `Rooms`, `Smolvm` | |

`MachineLife` extends `MachineChart`; `Copies` extends it too and instantiates
`CheckpointChart`, as does `Builds`. What one module shows, another takes for
granted: that a step runs at most once and is lost only with its host's boot
(`MachineLife`) is an atomic call everywhere else; that wakes are seen (`Driver`)
is a loop that just moves; that a source stands still while it is copied
(`Copies`) is an atomic copy in `Guests` and `Pins`.

### MachineLife and the code

| State | In the code |
|---|---|
| `row` | the `machines` row: its leaf, wish, `prepared`, error, owed resize, sizes and host; `Gone` where there is none |
| `op`, `last` | the `operations` row of the machine, and the counter `begun` raises |
| `held` | `creates`: the setup of a builder, and the hosts a create has left to try |
| `loop` | where the name's loop is between two effects of a turn, with what it has read so far and will use after |
| `sent`, `cancels`, `collects` | every request of `runOperation`, `cancelOperation` and `collectOperation` that ever left: each may be delivered at any later time, or never |
| `boot`, `entry`, `seen` | a host's boot, its `entries`, and the last sequence of the machine's scope |
| `vm` | what a host has of the machine: nothing, a partial copy, `up` (running, not yet readied), `ready`, stopped or paused, with its size |
| `ran` | history only: how often each operation's work began |
| `left` | what is left of each bound |

Each action is one step between two points at which the code can be interrupted.
A `store.advance` is one transaction and so one action (`Advance`); a look is
three (`LookBegins`, `Sees` or `SeesNothing`, `Looks`), as it reads the VM and
the boot before it writes; a poll is `PollBegins` (with the cancel), `Waits` or
`Sends`, `Runs`, and `Follows`, which writes what was heard and tells the host
to collect. `GivesUp` is a timeout, a broken connection or a wake: the code
treats them alike. `RunsLate` delivers a run whose answer nobody waits for.
On a host, `Accept` makes the entry, whose fiber first interrupts and awaits the
one before (`WorkBegins`), and `WorkDone`, `WorkFails`, `WorkCancelled` end it.

Abstractions, each chosen so that no property can tell:

- One name. Operations of other names meet this one only through leases and
  ports (`Copies`, `Forwarders`); a busy lease here is a read that is not
  answered.
- A sizing is one positive number, all three sizes change together.
- What a step leaves when it fails or is cut is any of `CutEffects`; the
  runtimes' own commands are in `Smolvm` and `Tarts`.
- A resize's read-back of its sizes on the host is answered. (The code falls
  back on the sizes it knows; the finding of `life_sizes` does not need it.)
- `collectOperation` leaves with the write it follows; it may be delivered any
  time later, which covers the read of the sizes the code makes in between.
- `Create` picks any host and any later hosts; `Placements` has which.
- The tailnet check may be due at any read, at most `MaxJoins` times; `Tailnets`
  has when.

### Driver and the code

`MachineLife` takes a wake that comes at any time for granted; `Driver` is the
code that sees to it. Of the row it keeps the activity of its leaf (`act`), which
is all that `turn` branches on, and serves machines and checkpoints alike.

| State | In the code |
|---|---|
| `waking` | requests whose write is done and whose call of `drive` is not: the fiber may be interrupted in between |
| `wakes` | the map `wakes`, for this name |
| `loop` | each loop's place in `looped` and `turn`, whether its latch is open, and `rechecked` |
| `seen` | history only: whether a turn acted on the row, or tried and failed, since the last request |

`Closes` and `Turn` are apart because a request may land between the closing of
the latch and the read of the row; `LookUnanswered` and `Fails` both end in a
rest; `Leaves` is one synchronous block (`leaving`), which is what the proof
rests on. A turn of `looked` that finds no row is left out: a row that is
looked at is removed only by a turn that follows its step.

### Copies and the code

`row` and `op` are the store's rows and operations of "a", "b" and the
checkpoint "k", with each operation's leases; `loop` what a look has read and
will write with; `pauser` the request of a pause with a capture, between its
three steps; `vm` and `image` what the host holds, where `from` is what a VM's
RAM was copied at and `ran` whether a checkpoint was taken of a running machine.
Requests (`Capture`, `PauseCaptures` with `PauseAsks`, `Fork`, `Restore`, `Ask`, ...) write rows;
`Sweep` deletes a ready checkpoint that expired, at any time, as a request would;
looks begin operations unless a lease conflicts (`Busy`);
`Runs` is the host's work. `HeldLeases` maps the operations to the `held` of
`Leases`: an `advance` that ends one operation and begins the next is a drop and
a take, which the chart never does in one step.

Left out or reduced: a call runs at most once (`MachineLife`); one host, linux;
a copy is asked at its source's sizes; only the looks of "a" (made) and "b"
(before its make) hold stale reads, as no property tells the others'; the sizes
after a lost resize are read back at once, so that `CopyFits` does not rest on
the gap of `life_sizes`; a pause with a capture counts as two requests.

### Builds and the code

`template` and `last` are the template's row; `run` is the fiber of each build,
in memory; `copy` and `op` the rows and operations of the copies; `copier` the
fiber that holds the semaphore of `copied`; `remover` the delete of the template;
`store` the build store's manifests and objects. Objects are content: every build
needs its own and one that all share. A publish puts its missing objects and then
its manifest, an unpublish removes the manifest, reads the others and removes what
none names, each step apart, and the leases of `CheckpointChart` decide which may
run side by side. `Restarted` is what `make` does of the rows at startup.

`template` is a set, as no two builds have one id or number and nothing here
depends on their order. `NamesAssumption` says that names of copies are apart from
one another and from the builder's.

Reduced: a build's `id` stands for the fresh names of its copies; the discards of
one sweep are one step; the sweep's two reads are one where the run ends and two
where it matters; one host builds and one fetches, with equal pins and images;
the builder is `MachineLife`'s.

### The VMs of a linux host

`Smolvm`: `rec` is smolvm's own record of every VM by native name; `stored` the
smolvm under which the build's copy was captured (0: not stored); `jobs` what
each fiber has left to do, step by step; `lock` the semaphore of each base
(`alone`). A command is atomic, and any may fail (`CommandFails`, once the fault
bound allows); a branch from a base that went may leave a part of its VM. There
is one build, with one base name per boot of the computer; parks that restores
fork are queued; the commands of a restarted host end with it.

`Pins`: `row.pin` is the version the row has; `process` the host's boot and its
smolvm, which a restart may replace between any two commands of a step; `crossed`
is history. The row is `MachineChart`'s, reduced to what decides a step, without
room and ports. A VM that smolvm shows as "pausing" stays so until resumed.

`Rooms`: `under` is the operation on each machine, with the list of others its
call carried (`among`) and what its admission counted (`held`, `sure`);
`admission` the permit; `booting` the host's map. RAM of parked bases and a state
that cannot be read only add refusals, so they are one (`StepEnds`). `Total` is
the sum that `checkRamBudget` takes.

### The VMs of a mac host

`Forwarders`: `dials` says whose VM a port leads to; `ops` each machine's
operation with the port its make picked; `adopting` a pass of the fleet's, which
reads the boot, the rows, tells the host, and records the boot. Reports are taken
in before the process that gave them ends. `excused` is history, of the ports
that the property cannot speak of: machines whose adoption was refused
(`refused`), ports that were closed under their machine (`closed`), and whether
the host was given a machine that was gone (`strayed`); what ends each is in
section 3, "Gaps the properties step around".

`Tarts`: `disk` is what Tart's list says of the VM, `runner` the `tart run`
process, `job` the plist, `log` what the job's log holds of earlier launches.
The runner acts by itself, whatever the host's process does. `Gates`: `tasks` are
fibers entering and leaving, `readable` and `openable` the latches; a fiber woken
by a latch runs again later, as Effect's do (external).

### Guests and the code

`guests` is what a VM holds (key, tailnet state, its running daemon and node),
`image` a capture of it, `members` the rows, `work` the script that runs and its
next command. `Restore`, `Fork` and `Capture` copy all of `guests`, on linux with
what runs. A script's commands that write keys, the marker `host-key-wanted`, the
instance or the node are an action each, with the checks before them, and `Cut`
ends the step between two of them, as `UnkeyCut` does the script a build's capture
runs first. What follows a cut differs: a make's VM is removed with what was done to
it, any other machine keeps it. So the only identity that is given again to a VM an
earlier one was cut in is that of a base's first start, and a cut between its removal
of the image's keys and its `ssh-keygen` is recorded in `bared`, as nothing in the
VM says any more that a key is owed. One pair is not apart: the start of tailscaled
and the write of its pid (`Daemoned`). A step cut between these would leave a daemon
that `dropNode` does not find, which a linux copy would run on with. On linux the
keys of a branched VM are minted anew by smolvm as well, which is external.

### Requests and reads of the control plane

`Placements`: `creation` is a create that reads every host, `placement` its row,
`untried` the memory of the hosts left; `Row` is the row's next move, when the
host made it, or refused it for room. Pins stand for images too; room is not
counted, any make may meet `Capacity`; sizes are left out, as is the delete of a
running make (`MachineLife`). `Tailnets`: `check` is the entry of `tailnets`,
counted down at each look of a settled row. A lost start that booted is
`life_hook`'s. `Watches`: `untold` and `heard` are the queue from a write to the
readers that listen. An expiry is told to nobody.

### The clients

`Clients`: `callers` is each call's place in the loop of `polled`, what it read
and its answer; `truth` is history, of whether the machine it asked for came to
what was asked, and whether another request overtook it; both begin anew as the
call's own request is recorded. A request's reply may be lost after it was taken
in. The row's own loop is reduced to where it rests. `ensure` reads the row
(`EnsureLooks`) and then its host (`EnsureFinds`): `UndoneCreate` is what the client
makes of the two, so a made row that failed and whose VM is gone counts as well, and
is then deleted for the Conflict of its create.

`Sandboxes`: `known` is the agent's map, `sshs` the ssh processes with the boot
they lead to, `doing` the calls, one at a time per sandbox. A call of the control
plane is one step. Left out: a program that takes the port between ssh's check of
it and its bind.

### How MCParts composes

Thirteen of the modules share no state with one another. `MCParts` checks each by
itself in one run: `part` is chosen at first and never changes, so its behaviours
are the union of theirs, and nothing of one part hides in another. One set of two
model values stands for the names, callers and hosted machines, so that one
symmetry serves all; the parts never compare them with anything but equality.

## 3. The runs

The bounds of the `life` runs are constants of `MachineLife`: creates of the name, wishes and
resizes (`MaxAsks`), failing steps, restarts of the control plane (`MaxCrashes`)
and of hosts (`MaxReboots`), joins, and changes of the VM that no step made
(`MaxDrifts`). Lost, late and repeated calls are not bounded, nor deletes,
expiries, cancels or loops. Deadlock is not checked: a machine at rest has
nothing to do, and with the bounds spent the system really stops.

| Run | Question | Bounds | Checked |
|---|---|---|---|
| `life_requests` | do a wish or resize and deletes, landing anywhere in a life that may move past a full host, keep row and operation together and the VM in one place? | base; 2 hosts (symmetric), 1 ask, 2 failures, 1 host restart | `OpIsStep`, `OneHome`, `DeleteIsFinal`, `KeepsPromise` |
| `life_builder` | is a step's work ever doubled, or left behind, when a name is made twice and memory is lost? | builder; 2 creates, 1 failure, 1 crash, 1 host restart | `OneWork`, `OnceOnly`, `NoOrphan` |
| `life_copy` | do a join, a resize and a wish at once keep rest phases idle, and the row true? | copy; 2 asks of which a resize, 2 failures, 1 restart of the control plane, 1 join | `RestIsIdle`, `SizesTrue`, `SettledTrue` |
| `life_live` | does a machine come to rest, and a delete end? | base; 1 ask, 1 failure, 1 crash, 1 drift | `Converges`, `DeleteEnds` |
| `life_sizes` | violation: are the sizes shown the VM's after a lost resize? | base; 1 resize, 1 host restart | `SizesTrue` |
| `life_hook` | violation: did the start hook run on each boot of a settled machine? | base; 1 drift, 1 host restart | `HookRan` |
| `driver` | is a wake lost, or a row left, wherever requests land in a turn? | 4 requests, 1 crash, 2 loops | `OneLoop`, `NeverLeft`, `NeverSleptOver`, `Rechecks` |
| `copies` | does anything change what another copies, stay behind, or hold a delete back? | 1 create, 2 forks, restores, captures, wishes or resizes, 1 failure or restart | `SourceStill`, `NothingLeft`, `ReadyWhole`, `ForkFits`, `LeasesLock`, `DeleteShutsOut` |
| `copies_sizes` | violation: is a restore as large as what was captured? | 3 requests, no fault | `CopyFits` |
| `parts` | does each of thirteen parts keep what it promises? | see below | one or two properties of each |
| `ensure` | violation: does `ensure` delete only what a failed create left? | 2 clients, 2 calls, no fault | `EnsureSpares` |
| `guests_keys` | violation: has every prepared machine a host key? | 2 machines, 4 steps, 1 cut | `KeyIsMinted` |

The parts of `parts`, their bounds (in `parts.cfg`) and their properties:

| Part | Bounds | Properties |
|---|---|---|
| `Builds` | 2 builds of which 1 is kept, 1 fault | `StoreWhole`, `StoreClean`, `ReadyHasCopy`, `CloneIsOwn`, `BuiltGo` |
| `Smolvm` | 2 clones, 1 fault (a failed command, a VM that dies, a restart under another smolvm, a reboot) | `BasesGo`, `RestoreWorks` |
| `Pins` | 3 wishes or copies, 2 faults, 2 smolvm versions | `RamTrue` |
| `Forwarders` | 2 machines on 2 ports, 3 requests, 1 failure or restart | `ForwardersTrue` |
| `Guests` | 2 machines, 4 steps, 1 cut, both platforms | `OwnIdentity` |
| `Clients` | 2 clients, 3 calls, 1 failure or lost reply | `AnswersOwn` |
| `Rooms` | 2 machines, a budget of 2 units, 3 operations, 1 stop or restart | `RoomKept` |
| `Sandboxes` | 2 sandboxes on 2 ports, 2 callers, 3 calls, 1 mishap | `UrlsLead` |
| `Watches` | 2 held reads, 3 writes | `HeldWakes` |
| `Tailnets` | waits of 3 and 2 rechecks, 4 requests, 2 flaws | `StandsChecked` |
| `Gates` | 3 fibers, 6 entries | `GateHolds` |
| `Tarts` | 4 steps, 2 faults | `TartTrue` |
| `Placements` | 3 hosts, 1 create, 1 change | `PlacedRight` |

Why the bounds are enough: the code keeps one operation of a machine at a time
and a host looks one operation back, so a wish beside deletes, which are not
bounded, gives every order of "in flight", "cut", "followed by another"; two wishes
follow each other in `life_copy`, and `life_requests` holds with 2 wishes and 1 failure
too (6.7 million states without the symmetry, too many to keep), `SettledTrue` in it
as well, which `life_copy` checks here without a host restart and `SettlingIsTrue`
proves with any number of them; one restart separates two boots; a second create is
the first that can meet an old bearer's messages; two hosts are the first on which a move can leave something; one failure at each
point of each step is reached because the bound is spent anywhere. For `driver`,
two loops are the first that could run side by side, and four requests make a
row, land twice in its turns and come once more after the loop left. In `copies`
two requests make one copy under way and one that meets it. In `parts`, two of
each is the first number that can collide on a base, a port, a key, a unit of RAM
or a name; a second call is the first that overtakes another and a third comes
after both; a third host is the first that can be skipped or tried twice; three
fibers are the first of which one waits while two meet. Each property
has a mutant of the code it is about, under the same bounds, that breaks it.

### What the properties say

- `OpIsStep`: the operation in the store is the leaf's step, on the row's host:
  neither error `applied` can throw, nor the driver's "with no operation", ever
  happens.
- `OneWork`, `OnceOnly`, `NoOrphan`: the sequence number, the boot and the chain
  of fibers are each needed, and are enough, against late and repeated runs.
- `OneHome`, and `KeepsPromise` (refinement of `Lifecycle`): a name's body is
  one, on one host, and gone before the name is free again.
- `SettledTrue`: a row that settles as running, stopped or paused is, as long as
  only steps change VMs; a lost machine is nowhere.
- `RestIsIdle`: no host works on a machine whose phase is one to rest in. (A
  join shows the settled phase on purpose and is followed, not at rest here.)
- `SizesTrue`: the sizes shown of a machine at rest are its VM's. `DeleteIsFinal`,
  `DeleteEnds`, `Converges`: a delete is never undone and is carried out; a machine
  comes to rest and stays there.
- `NeverLeft` and `NeverSleptOver`: what the comment of `driver` promises, "a
  wake is seen by the turn it lands in or by the next"; a turn that fails, or
  whose host does not answer, counts only if its latch was closed, so a request
  that landed in it still gets a turn of its own. `Rechecks`: under `FairSpec`
  of `Driver`, a row at rest is looked at for ever.
- `SourceStill`, `LeasesLock`: nothing changes or removes a source under a copy of
  it, and the leases of any operations are a reader-writer lock. `DeleteShutsOut`
  (an action property): once a machine is being deleted, no capture or fork joins
  those the delete may have to wait for.
- `NothingLeft`, `ReadyWhole`, `ForkFits`: of the image a failed capture leaves, of
  what a ready checkpoint holds, of the sizes of a fork whose source grew.
- `StoreWhole`, `StoreClean`: a manifest in the build store has its objects, and no
  object is there for a build that went. `ReadyHasCopy`, `CloneIsOwn`, `BuiltGo`:
  of the copies a ready build has, that a create takes, and a dropped one leaves.
- `BasesGo`, `RestoreWorks`, `RamTrue`, `RoomKept`, `ForwardersTrue`, `GateHolds`,
  `TartTrue`, `OwnIdentity`, `PlacedRight`, `StandsChecked`, `HeldWakes`,
  `AnswersOwn`, `UrlsLead`: as the comment before each says.

### Gaps the properties step around

Some properties hold but for a case that the code does not handle. Each is a
variable of its model, set by the actions that make the case and read by the
property. Three of the cases contradict a sentence of the repository's README.md. That of
`OwnIdentity` contradicts README.md:9, and has a violation run (`guests_keys`). That of
`BasesGo` contradicts README.md:263, "a base goes once no machine branched from it
remains and its build's copy is deleted", and that of `BuiltGo` README.md:258, which
says the control plane deletes an older build's copy: these two are stated here and
with their hazards, and no run stands for them. For the others no document was found
that a run could hold against the code.

- `BasesGo` (`unclean`): until the host's next start, what is left by any command that
  failed outside a restore, in a park, a retire or the settling as well as in a delete,
  and what is left by a delete of a build's copy that met a freezer. A failed command
  ends what it was for, and nothing takes it up again before that start. A freezer is
  met where a park could not remove it: the delete then finds the base pinned
  (`H/platform/smolvm.ts:1212`), which it takes for a base that machines keep, and is
  answered done.
- `OwnIdentity` (`bared`): a VM whose keys a cut identity took with no marker, and the
  copies of it, have no host key. All else that the property says holds of them too.
- `RamTrue`: a start sent on a look that saw the VM run finds it stopped and boots
  it under a smolvm the row never learns of (`blind`).
- `RoomKept`: a boot admitted on a list older than another's make or growth, or of
  a VM that stopped after its start saw it run (`overlooked`).
- `ForwardersTrue` (`excused`): a listener whose bind was refused as it was
  adopted, until a start of the machine; a machine that was deleted while the host
  was given it, until the host restarts; and a port closed under its machine. The
  last takes a longer way: a make's bind of a port is refused, its record of the
  port stays, another make picks that port and listens, and the remove of the
  first closes it under the second. A start of the second mends it, but not for
  good while a third make is on its way whose call was sent before any row had the
  port: it may still pick it. So a start ends the excuse only if no other name has
  the port by then (`Alone`). That last condition was found by the proof, as no
  invariant could be made inductive without it; TLC then showed the case at larger
  bounds than `parts.cfg` has.
- `TartTrue`: a start cut after launchd was told leaves a runner that opens the VM
  after a later stop or pause was answered done (`late`).
- `BuiltGo` speaks of the copy a build's own host made. A fetch that was found due
  before the build was dropped may begin after (`S/templates.ts:295`); its copy becomes
  ready and stays until the next sweep, which a recheck does not run.
- `ReadyWhole` does not say that a pause's capture goes before the pause.

### Fairness

`FairSpec` asks: the loop takes its turns (`WF`: it is one fiber, `Effect.forever`
in all but name, and each of its waits is bounded); each kind of call that is
made over and over is answered at last (`SF` on `Sees`, on a read that saw the
VM, on `Waits \/ Sends`, and on `Runs`: a host that never answers again never
acts, as the README says); and work that began on a host ends (`WF` per host,
as every step has a timeout). Nothing is asked of `GivesUp`, of late messages,
cancels and collects, of crashes, or of clients. In `Driver`, every loop steps
and every written request reaches its wake (`WF`); the store may fail a read of
the row, but not each one for ever (`SF` on `Turn`). `Converges` speaks of the state
after requests and faults stop, which the bounds make them do.

### Findings

1. `life_sizes`, doc against code. README.md:216: a resize "keeps what the
   runtime gave when it fails part way, or when the host stops during it, which
   the machine's sizes then show". A lost resize is followed by a single read of
   the sizes (`S/machines.ts:363`); if that fails, or the control plane restarts
   before it, the row keeps the old sizes, and nothing reads them again.
2. `life_hook`, code. README.md:292: the start hook is "run as root after each
   boot, fork or restore". The control plane starts a prepared machine whose VM
   stopped; the host's process restarts when the VM is up but not readied; the
   lost step leaves `prepared` as it was, and the next read (`S/machine-chart.ts:188`)
   takes the VM, running and "prepared", for settled. A start asked by a client
   clears `prepared` and does not have this gap.
3. `copies_sizes`, code. README.md:210: "a linux copy, holding its source's RAM,
   only grows". A capture writes its machine's sizes as it is asked
   (`S/checkpoints.ts:222`), then waits out a resize that is under way; a restore is
   held against the row's sizes and made with less RAM than was captured.
4. `ensure`, code. README.md:390: `ensure` deletes "a failed create's row that still
   answers `Conflict`". It takes any Conflict of its create for that, also that of a
   machine another client made between its read and its create.
5. `guests_keys`, code. README.md:9: each new machine "replaces the image's host keys
   with one new Ed25519 key". `identityScript` removes the keys
   (`H/guest.ts:531`), mints one, removes the marker, and is given again until the
   instance is written. On a base's first start no marker was ever written: cut
   after the removal, the next run finds neither keys nor marker, mints nothing, and
   the machine is prepared with no host key.

## 4. The proofs

The theorems hold for every value of the constants that the assumptions allow:
any number of hosts, names, machines, callers, builds, any bounds on requests and
faults. All safety invariants and action properties that a passing run checks are
stated by a theorem, as is the refinement of `Lifecycle` and of `Leases`; what the
runs still show alone is at the end of this section.

Each safety theorem has one form: an invariant `Inv`, a conjunction of named parts,
with `Init => Inv`, `Inv /\ [Next]_vars => Inv'` and `Inv` implying the property. The
invariants were checked by TLC before they were proved, those of `Forwarders`,
`Guests`, `Rooms` and `Smolvm` at larger bounds than `parts.cfg` has.
The proof of a step goes by a few lemmas on what any step of one kind leaves alone
("moves", "keeps"), and then one lemma per action.

### A machine's life

`MachineLifeProofs` assumes `ConstantsAssumption` (sizings are positive, `None` is
no host).

- `TypesHold`: `Spec => []TypeOK`. `TypeOK` is inductive in the form `Types`
  (the same conjuncts, grouped by who holds them). Lemmas type each event of the
  chart (`AskTypes`, ..., `TransitionTypes`), then a write (`AdvanceTypes`), then
  each action.
- `OperationsAreSteps`: `Spec => []OpIsStep`. Not inductive alone: a turn writes
  what it heard long after it read the operation, so the invariant is
  `OpInv == Types /\ OpIsStep /\ LoopHasOp`, with `LoopHasOp` saying that a loop
  which follows an operation follows the one that is stored. The argument is in
  `AdvanceOp`: a request keeps the row's step or makes it "any" (`RequestSteps`),
  a read only begins one (`ReadSteps`), an end leaves a leaf without one
  (`EndSteps`).
- `DeletesAreFinal`: `Spec => DeleteIsFinal`, from `RowSteps` (only a create, an
  expiry or an event of the chart writes a row) and `DeletingStays`.
- `FailuresSayWhy`: `Spec => []FailedSays`, from `Says`, a stronger invariant
  over all leaves on the way to a failed phase (`undoing.due` and `undoing.sent`
  already carry the error the row will show).

`MachineHostProofs` adds the hosts, every message ever sent, and the restarts:

    Inv == OpInv /\ Numbers /\ Hosts /\ Home /\ Rest /\ Look /\ Removed /\ HeardTrue

- `Numbers`: a sequence number names one operation, and the row's is the highest.
- `Hosts`: what a host has begun was sent to this boot of it, and is `Spent`: a
  second delivery meets a later boot or a higher sequence. Entries form a chain,
  each queued behind one that runs (`Chain`).
- `Home`: every host but the row's is `Clean`: no VM, nothing running, and nothing
  sent that it could still take. `Rest`: between two steps the row's own host is
  quiet. These two are why a late or repeated run does no harm.
- `Look`, `Removed`, `HeardTrue`: what a loop holds from an earlier read is still so
  when it writes: the row is on that host, a remove answered done left no VM, the
  step that was heard of is over.

From it follow `MachinesHaveOneHome`, `NothingIsOrphaned`, `WorkIsOne`,
`WorkBeginsOnce` and `RestingRowsAreIdle`, and `PromiseKept`: the initial states map
to those of `Lifecycle`, and every step is one of its steps or a stutter.

What a settled row says of the VM needs a condition, as VMs may change by
themselves. `SettlingIsTrue` is `Spec => [](Undrifted => SettledTrue)` where
`Undrifted` says that the bound on drifts is unspent: `Steady` (a machine that is to
run and is prepared is ready, what a look saw is so until it is written, a step that
ended done left what it should) is inductive beside `Alone`, that a host runs
nothing but the recorded step. `SizesAreTrue` is `Spec => [](Unrestarted =>
SizesTrue)`: the finding of `life_sizes` is that a host's restart loses the report of
a resize, and the theorem says that nothing else does. Its `SizesInv` follows a
report from the host's entry to the row: it is not collected before it is taken
(`Past`), a resize is not cut (`Uncut`), the host still holds what the row waits for
(`Keepers`), and `SizeFits` compares the VM with the size that is due.

### The driver and the gate

`DriverProofs` holds for any set of loops and any bounds. `LoopsAreOne`,
`RowsAreNotLeft` and `WakesAreSeen` follow from one invariant, `Inv`: the types,
`Mapped` (the loops that run are those of the map, one at most), and the two
properties themselves, which are inductive beside it. `SetsOne` and `StepSets`
reduce every action of a loop to the setting of that loop alone; `LoopInv` then
goes through the actions, and uses that the latch closes before the row is read.

`GateProofs` is `GateHolds` for any finite set of fibers (`IsFiniteSet(Tasks)`), as
`Inv == Typed /\ Counts /\ Latches /\ Apart`: the two counters of the code are the
cardinalities of the fibers that are in (`Counts`, with `Recount` for a set that
gains or loses one), a latch is open exactly while its count is zero, and no fiber
sleeps at an open one.

### Copies and builds

`CopiesProofs`: `Inv` is `Types`; `Steps`, that an operation holds the leases of its
row's step; `Apart`, that no two operations hold conflicting leases, which is
inductive because `Busy` reads exactly what `Apart` speaks of; and from these what a
host may hold at each leaf: `Holds` of machines, `Capturings` of the checkpoint,
`SizesKnown` and `Forking` of the sizes a copy was asked with. `SourcesStay`,
`NothingIsLeft`, `ReadyIsWhole` and `ForksFit` are consequences; `LeasesAreALock` is the
refinement of `Leases` (every `advance` is a take, a drop or neither);
`DeleteIsNotHeld` is the action property.

`BuildsProofs`, for any number of builds: `StoreInv` is what the leases give
(`CopyOk`, `Apart`), with `StoreWhole` itself and `Owned`, that all that is in the
store is of builds whose copy is there; the point is `Progress`, which says what
a publish or an unpublish that is part way has done, with the store's lease as the
reason why no other undoes it. `BuildInv` adds that numbers and ids are never used
again (`Fresh`, `Paired`), where each run stands (`RunOf`), that nothing deletes what
lives (`Kept`), and that what does not live is being deleted or has been read by a
sweep (`Going`). It assumes `BuildsAssumption` and `NamesAssumption`.

### The parts

`PartsProofs` and `HostPartsProofs` prove the parts of `MCParts` one by one. A step
of one part leaves the others' variables alone, so each theorem is of the
composition `PartsSpec`, by the part's own invariant:

| Part | Invariant, beside its types | Assumes |
|---|---|---|
| `Watches` | `HeldWake`: a held read that should answer has a tiding to come | `MaxWrites \in Nat` |
| `Tarts` | which step may be where (`Stations`), only a late or opening step has a runner starting, the log is of the present boot (`LogIsOwn`), and what each answer found is still so | |
| `Tailnets` | `NameIsFree`, `RestsPrepared`, `CutNotReady`, `WaitEnds`, `StatusIsOwn`: a status is the present machine's, and a wait without end is of a guest without tailscaled | waits are numbers, the backoff positive |
| `Placements` | `TriedInOrder` relates what was tried, the row's host and the hosts in memory as one sequence; `BodyIsThere`, `PinIsRead` | `SiteCount \in Nat` |
| `Sandboxes` | `LockIsHeld`, `PortsApart`, `ForeignApart`; `BoxesStand`: what each call of a sandbox has let go of or opened; `EnsuredLead` | 0 is no port, "free" no user |
| `Pins` | a look is true until it decides (`LookIsTrue`), the row's pin is that of the RAM there is (`PinIsRam`), what a step compared stays so while its process runs (`MatchIsTrue`) | |
| `Clients` | `RowIsSound`, and of each call `Says`: what the row shows, and what the call read of it, is so of the call's own request or that was overtaken | |
| `Forwarders` | `PortBase`, and unless `strayed` `PortsStand`: what listens is noted, what is noted is had, a make's port is free until it listens and then its own, also against calls sent before (`UntoldListens`), nobody listens in another's place (`NoneInstead`) | ports are positive, "none" is no name |
| `Guests` | keys and nodes are numbered as they are made; those of machines that have their own are apart (`KeysApart`, `NodesApart`) and their nodes live; what each command has replaced so far, and that a key is owed, marked or `bared` where there is none (`GuestFits`, `WillHaveKeys`) | |
| `Rooms` | `PermitIsHeld`, `CountsAll`: the one admission counted all that runs or boots by now; the sum of the loads fits, unless `overlooked` | a finite set of machines, a budget in `Nat`, "free" is no machine |
| `Smolvm` | below | |

`Smolvm` is the longest. Its actors are queues of jobs, so `SmolInv` first says what
a queue may hold (`QueueFits`: only the first job has begun), that a base's lock is
held by who is at a job on it (`LockIsHeld`), and what branches from what
(`Branches`). Then every base that is there is *covered*: the host is `unclean`, or it
`MayStay` (it is wanted, a machine keeps it, or a retire, a discard or the settling
is still to look at it), and likewise every freezer (a park is about to thaw it, or a
park or retire is due that clears it first). The covers of a job that ends must be
those of what it found: a retire that finds its base wanted is why the base stays; one
that finds it pinned, why a machine keeps it; `Cleared` is why that machine is no
freezer. Once nothing is queued only "wanted" and "kept" are left, which is
`BasesGo`. `CopyIsKept` and `MachineFits` give `RestoreWorks`: the delete of the copy
waits for restores, and a name is free whenever a restore creates it.

Where a proof would take induction over data, it goes by the least element of a set
of numbers (`Least`, from the library's `NatLessThanWellFounded` and `WFMin`, which
take a set and no operator): the choice of hosts in `Placements`, and the sum over a
finite set of machines in `Rooms`, whose fold is a recursive function on the subsets
(`LeastSet`: a smallest subset with a wrong sum has an element less).

### Only model-checked

`Converges`, `DeleteEnds` and `Rechecks`: liveness under fairness, and with it
`ENABLED`, is out of the prover's reach. So are the violations, which are of single
behaviours. `TypeOK` of `MachineLife`, `Copies` and `Builds`, `FailedSays` and
`Lock!Exclusive` are proved and not run. There is no `RECURSIVE` operator in any
module.

## 5. What could come next

1. Liveness of the driver by hand: `Rechecks` as a chain of leads-to steps, each from
   a weak-fairness rule, once a prover can take `ENABLED`.
2. `SettledTrue` with drifts: the row's next read corrects it, which is a leads-to.
3. Two names in `MachineLife`, sharing a host's budget, as a composition with `Rooms`.

Runs are kept few: one for each question above.

## 6. Not modelled

Entry points, configuration, routes, schemas, the CLI's parsing and printing,
logging, the text of the guest's scripts beyond what they do to keys and nodes,
the programs the runtimes call, S3's own calls, tart's stored checkpoints, `exec`,
the orbs' dispatch: I/O or sequential code over the SDK. SQL statements are
modelled by the transaction they make. `exec` changes no state the control plane
keeps. The waits of a client for checkpoints and templates run the loop that
`Clients` has for machines.
