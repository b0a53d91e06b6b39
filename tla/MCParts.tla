--------------------------------- MODULE MCParts --------------------------------
(***************************************************************************)
(* Components that share no state, checked in one run: every behaviour is  *)
(* of one of them, `part`, and the others stay as they began.  Builds is   *)
(* here whole; the bounds are given in parts.cfg.                          *)
(***************************************************************************)
EXTENDS Builds

CONSTANTS
  MaxMachines,              \* Smolvm: machines restored from the build
  MaxWishes, MaxTroubles,   \* Pins
  Names, Ports, MaxAsks, MaxBreaks,   \* Forwarders
  Machines, MaxActs, MaxCuts,         \* Guests
  Callers, MaxCalls, MaxSlips,        \* Clients
  Hosted, Budget, MaxBoots, MaxUpsets,                \* Rooms
  Boxes, UrlPorts, Users, MaxUses, MaxMishaps,        \* Sandboxes
  Readers, MaxWrites,                                 \* Watches
  JoinedWait, LongestBackoff, MaxDemands, MaxFlaws,   \* Tailnets
  Tasks, MaxTurns,                                    \* Gates
  MaxOrders, MaxTrips,                                \* Tarts
  SiteCount, MaxCreations, MaxShifts                  \* Placements

VARIABLES
  part,
  rec, stored, host, jobs, lock, made, faults,                          \* Smolvm
  row, look, process, step, vm, crossed, wishes, troubles,              \* Pins
  rows, known, boot, dials, forwarded, ops, vms, adopting, excused, asks, breaks,  \* Forwarders
  guests, image, members, work, live, fresh, platform, acts, cuts,      \* Guests
  record, box, callers, truth, spared, births, calls, slips,            \* Clients
  listed, vmNow, under, booting, admission, overlooked, boots, upsets,             \* Rooms
  machine, urls, sshs, foreign, locks, doing, ensured, calm, uses, mishaps,        \* Sandboxes
  bearer, untold, reads, heard, writes,                                 \* Watches
  member, stepping, guest, check, found, demands, flaws,                \* Tailnets
  tasks, readings, openers, readable, openable, turns,                  \* Gates
  disk, runner, job, log, order, late, refused, orders, trips,          \* Tarts
  sites, draining, stocked, infos, creation, placement, untried, bodies,
  placed, tried, steady, creations, shifts                              \* Placements

S == INSTANCE Smolvm
P == INSTANCE Pins
F == INSTANCE Forwarders
G == INSTANCE Guests
C == INSTANCE Clients
R == INSTANCE Rooms
B == INSTANCE Sandboxes WITH known <- urls, lock <- locks
W == INSTANCE Watches
T == INSTANCE Tailnets
D == INSTANCE Gates WITH reads <- readings
M == INSTANCE Tarts
L == INSTANCE Placements

\* One set of values stands for what each component has two of, so that one exchange is of all.
Symmetry == Permutations(Names \cup Machines \cup Callers \cup Hosted \cup Boxes \cup Users \cup Readers)

Parts == {"builds", "smolvm", "pins", "forwarders", "guests", "clients",
          "rooms", "sandboxes", "watches", "tailnets", "gates", "tarts", "placements"}

PartsInit ==
  /\ part \in Parts
  /\ Init /\ S!SmolvmInit /\ P!PinInit /\ F!ForwarderInit /\ G!GuestInit /\ C!ClientInit
  /\ R!RoomInit /\ B!BoxInit /\ W!WatchInit /\ T!TailInit
  /\ D!GateInit /\ M!TartInit /\ L!PlaceInit
  /\ part # "guests" => platform = "linux"
  /\ part # "tarts" => disk = "missing"
  /\ part # "placements" => draining = {} /\ stocked = {}

smolvmVars == <<rec, stored, host, jobs, lock, made, faults>>
pinVars == <<row, look, process, step, vm, crossed, wishes, troubles>>
forwarderVars == <<rows, known, boot, dials, forwarded, ops, vms, adopting, excused, asks, breaks>>
guestVars == <<guests, image, members, work, live, fresh, platform, acts, cuts>>
clientVars == <<record, box, callers, truth, spared, births, calls, slips>>
roomVars == <<listed, vmNow, under, booting, admission, overlooked, boots, upsets>>
boxVars == <<machine, urls, sshs, foreign, locks, doing, ensured, calm, uses, mishaps>>
watchVars == <<bearer, untold, reads, heard, writes>>
tailVars == <<member, stepping, guest, check, found, demands, flaws>>
gateVars == <<tasks, readings, openers, readable, openable, turns>>
tartVars == <<disk, runner, job, log, order, late, refused, orders, trips>>
placeVars == <<sites, draining, stocked, infos, creation, placement, untried, bodies, placed, tried,
               steady, creations, shifts>>

PartsNext ==
  /\ \/ part = "builds" /\ Next
     \/ part # "builds" /\ UNCHANGED vars
  /\ \/ part = "smolvm" /\ S!SmolvmNext
     \/ part # "smolvm" /\ UNCHANGED smolvmVars
  /\ \/ part = "pins" /\ P!PinNext
     \/ part # "pins" /\ UNCHANGED pinVars
  /\ \/ part = "forwarders" /\ F!ForwarderNext
     \/ part # "forwarders" /\ UNCHANGED forwarderVars
  /\ \/ part = "guests" /\ G!GuestNext
     \/ part # "guests" /\ UNCHANGED guestVars
  /\ \/ part = "clients" /\ C!ClientNext
     \/ part # "clients" /\ UNCHANGED clientVars
  /\ \/ part = "rooms" /\ R!RoomNext
     \/ part # "rooms" /\ UNCHANGED roomVars
  /\ \/ part = "sandboxes" /\ B!BoxNext
     \/ part # "sandboxes" /\ UNCHANGED boxVars
  /\ \/ part = "watches" /\ W!WatchNext
     \/ part # "watches" /\ UNCHANGED watchVars
  /\ \/ part = "tailnets" /\ T!TailNext
     \/ part # "tailnets" /\ UNCHANGED tailVars
  /\ \/ part = "gates" /\ D!GateNext
     \/ part # "gates" /\ UNCHANGED gateVars
  /\ \/ part = "tarts" /\ M!TartNext
     \/ part # "tarts" /\ UNCHANGED tartVars
  /\ \/ part = "placements" /\ L!PlaceNext
     \/ part # "placements" /\ UNCHANGED placeVars
  /\ UNCHANGED part

PartsSpec ==
  PartsInit /\ [][PartsNext]_<<part, vars, smolvmVars, pinVars, forwarderVars, guestVars, clientVars,
                              roomVars, boxVars, watchVars, tailVars, gateVars, tartVars, placeVars>>

\* Bases and freezers of smolvm go once nothing needs them (Smolvm).
BasesGo == S!BasesGo

\* A restore none of whose commands fails makes its machine (Smolvm).
RestoreWorks == S!RestoreWorks

\* RAM is resumed and copied only under the smolvm it belongs to (Pins).
RamTrue == P!RamTrue

\* A mac machine's port leads to its VM (Forwarders).
ForwardersTrue == F!ForwardersTrue

\* A prepared machine's host key and tailnet node are its own (Guests).
OwnIdentity == G!OwnIdentity

\* A client is answered of the machine it asked, and of what came after it asked (Clients).
AnswersOwn == C!AnswersOwn

\* What runs on a linux host fits its RAM budget (Rooms).
RoomKept == R!RoomKept

\* A sandbox's URL leads to its own machine's present boot (Sandboxes).
UrlsLead == B!UrlsLead

\* A held read never sleeps over what it waits for (Watches).
HeldWakes == W!HeldWakes

\* A running machine's place on the tailnet is checked again (Tailnets).
StandsChecked == T!StandsChecked

\* Tart's reads and the commands that need a disk alone are kept apart, and none sleeps on (Gates).
GateHolds == D!GateHolds

\* What a mac host's step answered of its VM is so (Tarts).
TartTrue == M!TartTrue

\* A create goes where it was placed, in order, and under the pin it needs (Placements).
PlacedRight == L!PlacedRight
================================================================================
