------------------------------- MODULE Placements -------------------------------
(***************************************************************************)
(* Where a create goes (apps/server/src/placement.ts, hosts.ts and         *)
(* machines.ts).  Every host is read at once; those that can take it are   *)
(* tried in config order, a later one only after a definite Capacity.  The *)
(* row holds the host tried now, the control plane's memory the rest.      *)
(* Hosts restart meanwhile, with another runtime pin or other bases, and   *)
(* copies of a build go.                                                   *)
(*                                                                         *)
(* A host's room is not counted here: a make may meet Capacity at any      *)
(* time.  An image that a base names anew outdates a copy as a pin does,   *)
(* so pins stand for both.  Sizes are left out.                            *)
(***************************************************************************)
EXTENDS Naturals, Sequences

CONSTANTS
  SiteCount,       \* hosts, in config order
  MaxCreations,    \* bound: creates of the name
  MaxShifts        \* bound: restarts, hosts that stop answering, copies and answers lost

VARIABLES
  sites,       \* each host: whether it answers, its boot, pin and whether it offers the base
  draining,    \* hosts the config drains
  stocked,     \* hosts with a ready copy of the build
  infos,       \* the pin each host had as this process last read it, 0 if it has not
  creation,    \* the create under way: what it is of, the copies it found, and each host's answer
  placement,   \* the row
  untried,     \* `creates`: the hosts to try after the row's
  bodies,      \* the pin under which the machine's VM booted on each host, 0 if it has none
  placed, tried,   \* the hosts the create was placed on, and those it was sent to
  steady,      \* the control plane has not restarted since the create
  creations, shifts

placeVars == <<sites, draining, stocked, infos, creation, placement, untried, bodies, placed, tried,
               steady, creations, shifts>>

Sites == 1..SiteCount
BuildPin == 1
Pins == {1, 2}
NoCreation == [of |-> "nothing"]
NoPlacement == [state |-> "none", host |-> 0, of |-> "nothing", pin |-> 0, boot |-> 0, error |-> "none"]
Unread == [up |-> FALSE, boot |-> 0, pin |-> 0, offers |-> FALSE]

--------------------------------------------------------------------------------
(* A create. *)

\* A template's ready build and its copies are read before the hosts are.
Creates(of) ==
  /\ creations > 0 /\ creation = NoCreation
  /\ placement.state \in {"none", "undone"}
  /\ creations' = creations - 1
  /\ creation' = [of |-> of, held |-> stocked, answers |-> [h \in Sites |-> Unread]]
  /\ UNCHANGED <<sites, draining, stocked, infos, placement, untried, bodies, placed, tried, steady, shifts>>

\* `read`: what a host answers is kept, for this create and for later ones.
Reads(h) ==
  /\ creation # NoCreation /\ creation.answers[h] = Unread
  /\ creation' = [creation EXCEPT !.answers[h] = sites[h]]
  /\ infos' = IF sites[h].up THEN [infos EXCEPT ![h] = sites[h].pin] ELSE infos
  /\ UNCHANGED <<sites, draining, stocked, placement, untried, bodies, placed, tried, steady, creations, shifts>>

\* `sifted`: who answered, is not draining, and offers the base or holds a copy not outdated.
Takes(h) ==
  /\ creation.answers[h].up
  /\ h \notin draining
  /\ IF creation.of = "base" THEN creation.answers[h].offers
     ELSE h \in creation.held /\ creation.answers[h].pin = BuildPin

\* Those of the first n hosts, in order.
Sifted[n \in 0..SiteCount] ==
  IF n = 0 THEN <<>> ELSE IF Takes(n) THEN Append(Sifted[n - 1], n) ELSE Sifted[n - 1]

Placing == Sifted[SiteCount]

\* No host can take it: the create is refused, and leaves nothing.
Refuses ==
  /\ creation # NoCreation /\ \A h \in Sites : creation.answers[h] # Unread
  /\ Placing = <<>>
  /\ creation' = NoCreation
  /\ UNCHANGED <<sites, draining, stocked, infos, placement, untried, bodies, placed, tried, steady, creations, shifts>>

\* `born`: the row is written over an undone one, and the rest is kept in memory.
Born ==
  /\ creation # NoCreation /\ \A h \in Sites : creation.answers[h] # Unread
  /\ Placing # <<>>
  /\ placement' = [state |-> "due", host |-> Head(Placing), of |-> creation.of,
                   pin |-> creation.answers[Head(Placing)].pin, boot |-> 0, error |-> "none"]
  /\ untried' = Tail(Placing)
  /\ creation' = NoCreation
  /\ placed' = Placing /\ tried' = <<>> /\ steady' = TRUE
  /\ UNCHANGED <<sites, draining, stocked, infos, bodies, creations, shifts>>

--------------------------------------------------------------------------------
(* The row's host is read, and sent the make. *)

In(state) == placement.state = state
Here == sites[placement.host]

\* Mutant of Stored: the host that is tried now stays the next to try.
StoredUntaken(row) ==
  /\ placement' = row
  /\ untried' = IF row.state \in {"made", "undone", "none"} THEN <<>> ELSE untried

\* `stored`: memory follows the row, that of a create being over once it is made or undone.
Stored(row) ==
  /\ placement' = row
  /\ untried' = CASE row.state = "due" -> Tail(untried)
                  [] row.state \in {"made", "undone", "none"} -> <<>>
                  [] OTHER -> untried

Undoes(error) == Stored([placement EXCEPT !.state = "undoing", !.error = error])

\* `refusedBySource`: the copy went before the make began.
DueRefused ==
  /\ In("due")
  /\ placement.of = "build" /\ placement.host \notin stocked
  /\ Undoes("NotBuilt")
  /\ UNCHANGED <<sites, infos, bodies, tried>>

\* The copy may go after it was looked for.  The operation begins under the boot just read, and the row takes the pin of that boot.
DueReads ==
  /\ In("due") /\ Here.up
  /\ Stored([placement EXCEPT !.state = "sent", !.pin = Here.pin, !.boot = Here.boot])
  /\ infos' = [infos EXCEPT ![placement.host] = Here.pin]
  /\ tried' = Append(tried, placement.host)
  /\ UNCHANGED <<sites, bodies>>

\* `restorable`, asked once the boot is admitted.
Restorable == placement.of = "base" \/ Here.pin = BuildPin

Sendable == placement.of = "base" \/ placement.host \in stocked

\* A copy that is gone cannot be named to the host, so the make is as good as lost.
Unsendable ==
  /\ In("sent") /\ ~Sendable
  /\ Undoes("Lost")
  /\ UNCHANGED <<sites, infos, bodies, tried>>

\* A make that meets Capacity as a VM boots has made the VM.
MakeEnds(as) ==
  /\ In("sent") /\ Here.up /\ Here.boot = placement.boot /\ Sendable
  /\ as \in {"done", "Internal"} => Restorable
  /\ as = "PinMismatch" => ~Restorable
  /\ \E booted \in (IF as = "done" THEN {TRUE}
                     ELSE IF Restorable THEN BOOLEAN ELSE {FALSE}) :
        bodies' = [bodies EXCEPT ![placement.host] = IF booted THEN Here.pin ELSE @]
  /\ IF as = "done" THEN Stored([placement EXCEPT !.state = "made"]) ELSE Undoes(as)
  /\ UNCHANGED <<sites, infos, tried>>

\* The host answers under another boot: whatever the make came to is unknown, and is undone.
MakeLost ==
  /\ In("sent") /\ Here.up /\ Here.boot # placement.boot
  /\ Undoes("Lost")
  /\ UNCHANGED <<sites, infos, bodies, tried>>

\* The host ran the make, and was restarted before anyone heard how it ended.
MakeUnheard ==
  /\ In("sent") /\ Here.up /\ Here.boot = placement.boot /\ Sendable /\ Restorable
  /\ bodies' = [bodies EXCEPT ![placement.host] = Here.pin]
  /\ sites' = [sites EXCEPT ![placement.host].boot = @ + 1]
  /\ shifts > 0 /\ shifts' = shifts - 1
  /\ UNCHANGED <<draining, stocked, infos, creation, placement, untried, placed, tried, steady, creations>>

\* `movedPastCapacity`: the next host, where the create failed for want of room.
Moves == placement.error = "Capacity" /\ untried # <<>> /\ infos[Head(untried)] # 0

\* What the make left is removed first; a failed make then goes on, or is over.
RemoveEnds ==
  /\ placement.state \in {"undoing", "deleting"} /\ Here.up
  /\ bodies' = [bodies EXCEPT ![placement.host] = 0]
  /\ Stored(CASE In("deleting") -> NoPlacement
              [] In("undoing") /\ Moves ->
                   [placement EXCEPT !.state = "due", !.error = "none",
                                     !.host = Head(untried), !.pin = infos[Head(untried)]]
              [] OTHER -> [placement EXCEPT !.state = "undone"])
  /\ UNCHANGED <<sites, infos, tried>>

\* A delete as the make runs is in MachineLife.
Deletes ==
  /\ placement.state \in {"due", "undoing", "undone", "made"}
  /\ Stored(IF In("undone") THEN NoPlacement ELSE [placement EXCEPT !.state = "deleting"])
  /\ UNCHANGED <<sites, infos, bodies, tried>>

Row ==
  /\ \/ DueRefused \/ DueReads \/ Unsendable \/ MakeLost \/ RemoveEnds \/ Deletes
     \/ \E as \in {"done", "Internal", "PinMismatch", "Capacity"} : MakeEnds(as)
  /\ UNCHANGED <<draining, stocked, creation, placed, steady, creations, shifts>>

--------------------------------------------------------------------------------
(* What goes wrong meanwhile. *)

Shift == shifts > 0 /\ shifts' = shifts - 1

HostRestarts(h, pin, offers) ==
  /\ Shift
  /\ sites' = [sites EXCEPT ![h] = [up |-> TRUE, boot |-> @.boot + 1, pin |-> pin, offers |-> offers]]
  /\ UNCHANGED <<draining, stocked, infos, creation, placement, untried, bodies, placed, tried, steady, creations>>

\* A host answers nothing for a while, as it is stopped or is not reached.
HostSilent(h) ==
  /\ IF sites[h].up THEN Shift ELSE UNCHANGED shifts
  /\ sites' = [sites EXCEPT ![h].up = ~@]
  /\ UNCHANGED <<draining, stocked, infos, creation, placement, untried, bodies, placed, tried, steady, creations>>

CopyGoes(h) ==
  /\ Shift
  /\ h \in stocked
  /\ ~(In("sent") /\ placement.host = h)
  /\ stocked' = stocked \ {h}
  /\ UNCHANGED <<sites, draining, infos, creation, placement, untried, bodies, placed, tried, steady, creations>>

\* The control plane restarts: the create under way, `creates` and what hosts told are gone.
ServerRestarts ==
  /\ Shift
  /\ creation' = NoCreation /\ untried' = <<>>
  /\ infos' = [h \in Sites |-> 0]
  /\ steady' = FALSE
  /\ UNCHANGED <<sites, draining, stocked, placement, bodies, placed, tried, creations>>

--------------------------------------------------------------------------------

PlaceInit ==
  /\ sites \in [Sites -> [up : {TRUE}, boot : {1}, pin : {BuildPin}, offers : BOOLEAN]]
  /\ draining \in {{}, {1}}
  /\ stocked = {h \in Sites : sites[h].offers}
  /\ infos = [h \in Sites |-> 0]
  /\ creation = NoCreation /\ placement = NoPlacement /\ untried = <<>>
  /\ bodies = [h \in Sites |-> 0]
  /\ placed = <<>> /\ tried = <<>> /\ steady = TRUE
  /\ creations = MaxCreations /\ shifts = MaxShifts

PlaceNext ==
  \/ \E of \in {"base", "build"} : Creates(of)
  \/ \E h \in Sites : Reads(h) \/ HostSilent(h) \/ CopyGoes(h)
  \/ Refuses \/ Born \/ Row \/ MakeUnheard \/ ServerRestarts
  \/ \E h \in Sites, pin \in Pins, offers \in BOOLEAN : HostRestarts(h, pin, offers)

\* A create is tried on the hosts it was placed on, in order, each once; only the row's host can hold
\* its VM, which booted under the pin the row shows, and under the build's where it is of one; and
\* where the control plane did not restart, it ends for want of room only after every host was tried.
PlacedRight ==
  /\ \E n \in 0..Len(placed) : tried = SubSeq(placed, 1, n)
  /\ \A h \in Sites : bodies[h] # 0 =>
       /\ h = placement.host
       /\ placement.of = "build" => bodies[h] = BuildPin
  /\ In("made") => bodies[placement.host] = placement.pin
  /\ In("undone") /\ placement.error = "Capacity" /\ steady => tried = placed
================================================================================
