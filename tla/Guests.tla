---------------------------------- MODULE Guests ---------------------------------
(***************************************************************************)
(* Who a guest is: its SSH host key and its tailnet node, which the        *)
(* scripts of apps/host/src/guest.ts give and take inside the VM, in the   *)
(* order apps/host/src/operations.ts runs them.  Everything a guest holds  *)
(* is copied with it by a capture, a fork or a restore, on linux with the  *)
(* processes that run.  The scripts that run on a machine that outlives    *)
(* their step can be cut between two of their commands, the step lost: an  *)
(* action is one command that writes, with the checks before it, or, of    *)
(* `tailnetScript`, the start of tailscaled with the write of its pid.     *)
(*                                                                         *)
(* A lost make's VM is removed and a lost start runs again, as MachineLife *)
(* has it; no step runs on a machine while it is copied, as Copies has it. *)
(***************************************************************************)
EXTENDS Naturals

CONSTANTS
  Machines,   \* machine names, of which template builders take some
  MaxActs,    \* bound: steps the control plane sends
  MaxCuts     \* bound: steps that fail, are cut, or are lost

VARIABLES
  guests,     \* what each machine's VM holds
  image,      \* what a capture holds: a checkpoint, or a build's copy
  members,    \* the rows: instance, whether it is a builder, prepared, and the host key on record
  work,       \* the step on each machine, and the script command that is next
  live,       \* the nodes the tailnet knows
  fresh,      \* the next number not yet used, for instances, keys and nodes
  platform,   \* "linux", whose copies are of running VMs, or "mac", of stopped ones
  acts, cuts

guestVars == <<guests, image, members, work, live, fresh, platform, acts, cuts>>

\* `wanted` is the marker host-key-wanted; `bared` records that an identity was cut after it removed
\* keys that no marker says are wanted.
NoGuest == [instance |-> 0, keys |-> 0, wanted |-> FALSE, bared |-> FALSE,
            node |-> 0, daemon |-> FALSE, on |-> FALSE]
NoMember == [instance |-> 0, builder |-> FALSE, made |-> FALSE, prepared |-> FALSE, hostKey |-> 0]
Idle == [kind |-> "none", at |-> "none"]

\* What every VM of one base image holds: keys of the image's own.
ImageKeys == 1
BaseGuest == [NoGuest EXCEPT !.keys = ImageKeys, !.on = TRUE]

Acts == acts > 0 /\ acts' = acts - 1

Sets(m, guest) == guests' = [guests EXCEPT ![m] = guest]
Goes(m, kind, at) == work' = [work EXCEPT ![m] = [kind |-> kind, at |-> at]]
In(m, at) == work[m].at = at

Ends(m, member) ==
  /\ members' = [members EXCEPT ![m] = member]
  /\ work' = [work EXCEPT ![m] = Idle]

\* A machine that stands, with no step on it.
Stands(m) == members[m].made /\ work[m] = Idle

--------------------------------------------------------------------------------
(* The steps that are sent. *)

NewMember(m, builder) ==
  /\ members[m] = NoMember
  /\ members' = [members EXCEPT ![m] = [NoMember EXCEPT !.instance = fresh, !.builder = builder]]
  /\ fresh' = fresh + 1

\* A base's make readies nothing: its machine is readied by the start that follows; a builder's
\* base is prepared, and its setup run, on the tailnet where its host joins.
MakeBase(m, builder, joins) ==
  /\ Acts
  /\ NewMember(m, builder)
  /\ Sets(m, BaseGuest)
  /\ Goes(m, "make", IF ~builder THEN "made" ELSE IF joins THEN "daemon" ELSE "setup")
  /\ UNCHANGED <<image, live, platform, cuts>>

\* smolvm's branch mints host keys anew where there are any, as it copies a VM's RAM.
Branched(guest) ==
  [guest EXCEPT !.keys = IF platform = "linux" /\ @ # 0 THEN fresh + 1 ELSE @,
                !.daemon = @ /\ platform = "linux", !.on = TRUE]

CopyInto(m, guest) ==
  /\ Acts
  /\ members[m] = NoMember
  /\ members' = [members EXCEPT ![m] = [NoMember EXCEPT !.instance = fresh]]
  /\ fresh' = fresh + 2
  /\ Sets(m, Branched(guest))
  /\ Goes(m, "make", "identity")
  /\ UNCHANGED <<image, live, platform, cuts>>

Copyable(s) == Stands(s) /\ guests[s].on = (platform = "linux")

Fork(s, m) == Copyable(s) /\ ~members[s].builder /\ CopyInto(m, guests[s])

Restore(m) == image # NoGuest /\ CopyInto(m, image)

\* `unkey` before a build's capture, where copies are of RAM.
Unkeyed(guest) ==
  IF guest.keys = 0 THEN guest ELSE [guest EXCEPT !.keys = 0, !.wanted = TRUE]

Capture(s) ==
  /\ Acts
  /\ Copyable(s)
  /\ LET guest == IF members[s].builder /\ platform = "linux" THEN Unkeyed(guests[s])
                  ELSE guests[s]
     IN Sets(s, guest) /\ image' = guest
  /\ UNCHANGED <<members, work, live, fresh, platform, cuts>>

\* A capture of a build whose `unkey` was cut after the marker, before or after the keys were taken.
UnkeyCut(s, taken) ==
  /\ Acts
  /\ cuts > 0 /\ cuts' = cuts - 1
  /\ Copyable(s) /\ members[s].builder /\ platform = "linux" /\ guests[s].keys # 0
  /\ Sets(s, IF taken THEN Unkeyed(guests[s]) ELSE [guests[s] EXCEPT !.wanted = TRUE])
  /\ UNCHANGED <<image, members, work, live, fresh, platform>>

Start(m) ==
  /\ Acts
  /\ Stands(m) /\ ~members[m].builder /\ ~members[m].prepared
  /\ Sets(m, [guests[m] EXCEPT !.on = TRUE])
  /\ Goes(m, "start", "identity")
  /\ UNCHANGED <<image, members, live, fresh, platform, cuts>>

Stop(m) ==
  /\ Acts
  /\ Stands(m)
  /\ Sets(m, [guests[m] EXCEPT !.on = FALSE, !.daemon = FALSE])
  /\ members' = [members EXCEPT ![m].prepared = FALSE]
  /\ UNCHANGED <<image, work, live, fresh, platform, cuts>>

Join(m) ==
  /\ Acts
  /\ Stands(m) /\ ~members[m].builder /\ guests[m].on
  /\ Goes(m, "join", "daemon")
  /\ UNCHANGED <<guests, image, members, live, fresh, platform, cuts>>

Remove(m) ==
  /\ Acts
  /\ Stands(m)
  /\ Sets(m, NoGuest)
  /\ members' = [members EXCEPT ![m] = NoMember]
  /\ UNCHANGED <<image, work, live, fresh, platform, cuts>>

--------------------------------------------------------------------------------
(* `identityScript`, and `startScript`. *)

Same == UNCHANGED <<image, live, platform, acts, cuts>>

Identified(m) == guests[m].instance = members[m].instance

IdentityKept(m) ==
  /\ In(m, "identity") /\ Identified(m)
  /\ Goes(m, work[m].kind, "prepare")
  /\ UNCHANGED <<guests, members, fresh>> /\ Same

\* Mutant of IdentityKills: the node a copy came with is logged out of the tailnet.
IdentityLogsOut(m) ==
  /\ In(m, "identity") /\ ~Identified(m)
  /\ Sets(m, [guests[m] EXCEPT !.daemon = FALSE])
  /\ live' = live \ {guests[m].node}
  /\ Goes(m, work[m].kind, "drop")
  /\ UNCHANGED <<members, fresh, image, platform, acts, cuts>>

\* `dropNode`: the node's process is killed, then its state removed, the tailnet not told.
IdentityKills(m) ==
  /\ In(m, "identity") /\ ~Identified(m)
  /\ Sets(m, [guests[m] EXCEPT !.daemon = FALSE])
  /\ Goes(m, work[m].kind, "drop")
  /\ UNCHANGED <<members, fresh>> /\ Same

IdentityDrops(m) ==
  /\ In(m, "drop")
  /\ Sets(m, [guests[m] EXCEPT !.node = 0])
  /\ Goes(m, work[m].kind, "keys")
  /\ UNCHANGED <<members, fresh>> /\ Same

\* Where there are keys, or the build's capture took them, they go, one new key is minted, and the
\* marker goes last.
IdentityUnkeys(m) ==
  /\ In(m, "keys")
  /\ IF guests[m].keys # 0 \/ guests[m].wanted
     THEN Sets(m, [guests[m] EXCEPT !.keys = 0]) /\ Goes(m, work[m].kind, "mint")
     ELSE UNCHANGED guests /\ Goes(m, work[m].kind, "instance")
  /\ UNCHANGED <<members, fresh>> /\ Same

IdentityMints(m) ==
  /\ In(m, "mint")
  /\ Sets(m, [guests[m] EXCEPT !.keys = fresh])
  /\ fresh' = fresh + 1
  /\ Goes(m, work[m].kind, "unmark")
  /\ UNCHANGED members /\ Same

IdentityUnmarks(m) ==
  /\ In(m, "unmark")
  /\ Sets(m, [guests[m] EXCEPT !.wanted = FALSE])
  /\ Goes(m, work[m].kind, "instance")
  /\ UNCHANGED <<members, fresh>> /\ Same

\* The instance is written last: an identity cut before it is given again.
IdentityEnds(m) ==
  /\ In(m, "instance")
  /\ Sets(m, [guests[m] EXCEPT !.instance = members[m].instance])
  /\ Goes(m, work[m].kind, "prepare")
  /\ UNCHANGED <<members, fresh>> /\ Same

\* The host key, if there is one, is read as the preparation ends, and kept with its outcome.
Prepares(m) ==
  /\ In(m, "prepare")
  /\ Ends(m, [members[m] EXCEPT !.made = TRUE, !.prepared = TRUE,
                                !.hostKey = IF guests[m].keys = 0 THEN @ ELSE guests[m].keys])
  /\ UNCHANGED <<guests, fresh>> /\ Same

--------------------------------------------------------------------------------
(* `tailnetScript`, twice, as `joined` runs it, and `scrubScript`. *)

\* A daemon that does not answer is started on the state the guest kept, and its pid written, in one
\* step: a node the tailnet has dropped needs a login.
Daemoned(m) ==
  /\ In(m, "daemon")
  /\ Sets(m, [guests[m] EXCEPT !.daemon = TRUE, !.node = IF @ \in live THEN @ ELSE 0])
  /\ Goes(m, work[m].kind, "up")
  /\ UNCHANGED <<members, fresh>> /\ Same

\* A key is minted, good for one node, only where a login is needed.
Ups(m) ==
  /\ In(m, "up")
  /\ LET needsLogin == guests[m].node = 0
     IN /\ Sets(m, IF needsLogin THEN [guests[m] EXCEPT !.node = fresh] ELSE guests[m])
        /\ live' = IF needsLogin THEN live \cup {fresh} ELSE live
        /\ fresh' = IF needsLogin THEN fresh + 1 ELSE fresh
  /\ IF work[m].kind = "join" THEN Ends(m, members[m])
     ELSE Goes(m, "make", "setup") /\ UNCHANGED members
  /\ UNCHANGED <<image, platform, acts, cuts>>

\* The setup ends; a builder that joined is scrubbed before its make is done.
SetupEnds(m) ==
  /\ In(m, "setup")
  /\ Goes(m, "make", IF guests[m].daemon THEN "logout" ELSE "made")
  /\ UNCHANGED <<guests, members, fresh>> /\ Same

ScrubLogsOut(m) ==
  /\ In(m, "logout")
  /\ live' = live \ {guests[m].node}
  /\ Goes(m, "make", "scrub")
  /\ UNCHANGED <<guests, image, members, fresh, platform, acts, cuts>>

ScrubDrops(m) ==
  /\ In(m, "scrub")
  /\ Sets(m, [guests[m] EXCEPT !.node = 0, !.daemon = FALSE])
  /\ Goes(m, "make", "made")
  /\ UNCHANGED <<members, fresh>> /\ Same

BaseMade(m) ==
  /\ In(m, "made")
  /\ Ends(m, [members[m] EXCEPT !.made = TRUE])
  /\ UNCHANGED <<guests, fresh>> /\ Same

--------------------------------------------------------------------------------
(* What goes wrong. *)

\* A step ends between two commands.  What a make left is removed, its builder logged out first if
\* its host still runs; any other machine stays as it is, perhaps between the old keys and the new.
Cut(m, scrubbed) ==
  /\ cuts > 0 /\ work[m] # Idle
  /\ cuts' = cuts - 1
  /\ IF work[m].kind = "make"
     THEN /\ Sets(m, NoGuest)
          /\ live' = IF scrubbed /\ members[m].builder THEN live \ {guests[m].node} ELSE live
          /\ Ends(m, NoMember)
     ELSE /\ guests' = [guests EXCEPT ![m].bared = @ \/ (In(m, "mint") /\ ~guests[m].wanted)]
          /\ Ends(m, members[m]) /\ UNCHANGED live
  /\ UNCHANGED <<image, fresh, platform, acts>>

\* The tailnet drops an ephemeral node that is offline.
Expires(node) ==
  /\ \A m \in Machines : guests[m].node = node => ~guests[m].daemon
  /\ live' = live \ {node}
  /\ UNCHANGED <<guests, image, members, work, fresh, platform, acts, cuts>>

--------------------------------------------------------------------------------
GuestInit ==
  /\ guests = [m \in Machines |-> NoGuest]
  /\ image = NoGuest
  /\ members = [m \in Machines |-> NoMember]
  /\ work = [m \in Machines |-> Idle]
  /\ live = {}
  /\ fresh = ImageKeys + 1
  /\ platform \in {"linux", "mac"}
  /\ acts = MaxActs
  /\ cuts = MaxCuts

ScriptActs(m) ==
  \/ IdentityKept(m) \/ IdentityKills(m) \/ IdentityDrops(m)
  \/ IdentityUnkeys(m) \/ IdentityMints(m) \/ IdentityUnmarks(m) \/ IdentityEnds(m) \/ Prepares(m)
  \/ Daemoned(m) \/ Ups(m) \/ SetupEnds(m) \/ ScrubLogsOut(m) \/ ScrubDrops(m) \/ BaseMade(m)

GuestNext ==
  \/ \E m \in Machines :
       \/ \E builder, joins \in BOOLEAN : (joins => builder) /\ MakeBase(m, builder, joins)
       \/ Restore(m) \/ \E s \in Machines \ {m} : Fork(s, m)
       \/ Capture(m) \/ Start(m) \/ Stop(m) \/ Join(m) \/ Remove(m)
       \/ ScriptActs(m)
       \/ \E taken \in BOOLEAN : UnkeyCut(m, taken)
       \/ \E scrubbed \in BOOLEAN : Cut(m, scrubbed)
  \/ \E node \in live : Expires(node)

--------------------------------------------------------------------------------
Ready(m) == members[m].prepared /\ guests[m].on /\ work[m] = Idle

\* Every prepared machine that runs is itself, whatever its VM was copied from, what is copied from
\* it, and after which command of a script a step on it was cut: it serves the host key its row has,
\* which no other serves, and its node is its own and still on the tailnet.  Only one whose VM, or
\* whose source's VM, lost its keys to a cut identity (`bared`) serves none.
OwnIdentity ==
  \A m \in Machines : Ready(m) =>
    /\ guests[m].keys = members[m].hostKey
    /\ guests[m].keys # 0 \/ guests[m].bared
    /\ guests[m].daemon /\ guests[m].node # 0 => guests[m].node \in live
    /\ \A n \in Machines \ {m} : Ready(n) =>
         /\ guests[m].keys # 0 => guests[n].keys # guests[m].keys
         /\ guests[m].node # 0 => guests[n].node # guests[m].node

\* What README.md:9 says of the host keys, asked only that there is one: every prepared machine that
\* runs has a host key.
KeyIsMinted == \A m \in Machines : Ready(m) => guests[m].keys # 0
================================================================================
