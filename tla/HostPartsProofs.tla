----------------------------- MODULE HostPartsProofs -----------------------------
(***************************************************************************)
(* More of the components that are checked side by side (MCParts): those   *)
(* of a host that are about its resources and its VMs' contents.  What a   *)
(* guest holds of its own (Guests), the RAM that a host lets run (Rooms),  *)
(* and the bases it parks (Smolvm), for any values of their constants.     *)
(***************************************************************************)
EXTENDS MCParts, FiniteSetTheorems, WellFoundedInduction, TLAPS

allVars == <<part, vars, smolvmVars, pinVars, forwarderVars, guestVars, clientVars,
             roomVars, boxVars, watchVars, tailVars, gateVars, tartVars, placeVars>>

\* Every set of naturals that is not empty has a least number: what stands for induction here.
LEMMA Least == ASSUME NEW U \in SUBSET Nat, U # {} PROVE \E n \in U : \A m \in U : n <= m
<1>1. PICK n \in U : \A m \in U : ~ (<<m, n>> \in OpToRel(<, Nat))
  BY NatLessThanWellFounded, WFMin
<1>2. \A m \in U : ~ (m < n)
  BY <1>1 DEF OpToRel
<1> QED
  BY <1>2

--------------------------------------------------------------------------------
(* Guests. *)

GuestStates == [instance : Nat, keys : Nat, wanted : BOOLEAN, bared : BOOLEAN,
                node : Nat, daemon : BOOLEAN, on : BOOLEAN]
MemberRows == [instance : Nat, builder : BOOLEAN, made : BOOLEAN, prepared : BOOLEAN, hostKey : Nat]
ScriptWork == [kind : {"none", "make", "start", "join"},
               at : {"none", "identity", "drop", "keys", "mint", "unmark", "instance", "prepare",
                     "daemon", "up", "setup", "logout", "scrub", "made"}]

\* What a VM holds once an identity gave it its keys.
HasKeysOrBared(g) == g.keys # 0 \/ g.bared

\* What a VM or a capture holds was numbered before, and it has keys, is to be given some, or lost
\* them to a cut identity.
Numbered(g) == g.instance < fresh /\ g.keys < fresh /\ g.node < fresh
WillHaveKeys(g) == g.keys # 0 \/ g.wanted \/ g.bared

GuestTypes ==
  /\ guests \in [Machines -> GuestStates] /\ members \in [Machines -> MemberRows]
  /\ work \in [Machines -> ScriptWork]
  /\ fresh \in Nat /\ fresh > 1 /\ live \in SUBSET Nat
  /\ image \in GuestStates /\ Numbered(image) /\ (image # G!NoGuest => WillHaveKeys(image))

\* A guest g beside its row r and the script w that runs in it: a builder is never given an identity,
\* what is inherited is dropped before an identity is given, and it is whole once it is prepared.
GuestFits(g, r, w) ==
  /\ Numbered(g) /\ r.instance < fresh
  /\ r.builder \/ r.made \/ r.prepared \/ w # G!Idle => r.instance # 0
  /\ r.instance # 0 => WillHaveKeys(g) \/ w.at = "mint"
  /\ r.builder => g.instance = 0
  /\ w.at \in {"identity", "drop", "keys", "mint", "unmark", "instance", "prepare"} => ~ r.builder /\ ~ r.prepared
  /\ w.at \in {"drop", "keys", "mint", "unmark", "instance"} => g.instance # r.instance
  /\ w.at \in {"keys", "mint", "unmark", "instance"} => g.node = 0
  /\ w.at = "unmark" => g.keys # 0
  /\ w.at = "instance" => HasKeysOrBared(g)
  /\ w.at = "prepare" => g.instance = r.instance
  /\ w.at \in {"setup", "logout", "scrub"} \/ (w.at \in {"daemon", "up"} /\ w.kind # "join") => r.builder
  /\ g.instance = r.instance /\ r.instance # 0 => HasKeysOrBared(g)
  /\ r.hostKey # 0 => g.instance = r.instance /\ g.keys = r.hostKey
  /\ r.prepared => ~ r.builder /\ g.instance = r.instance /\ r.hostKey = g.keys

\* A guest that has its own identity, one whose keys are its own, and one whose node is its own.
IsOwn(m) == members[m].instance # 0 /\ guests[m].instance = members[m].instance
KeysAreOwn(m) == IsOwn(m) \/ work[m].at \in {"unmark", "instance"}
NodeIsOwn(m) == IsOwn(m) \/ members[m].builder

KeysApart ==
  \A m, n \in Machines :
    m # n /\ KeysAreOwn(m) /\ KeysAreOwn(n) /\ guests[m].keys # 0 => guests[n].keys # guests[m].keys
NodesApart ==
  \A m, n \in Machines :
    m # n /\ NodeIsOwn(m) /\ NodeIsOwn(n) /\ guests[m].node # 0 => guests[n].node # guests[m].node
NodesLive ==
  \A m \in Machines : IsOwn(m) /\ guests[m].daemon /\ guests[m].node # 0 => guests[m].node \in live

GuestInv ==
  /\ GuestTypes /\ \A m \in Machines : GuestFits(guests[m], members[m], work[m])
  /\ KeysApart /\ NodesApart /\ NodesLive

\* A step of one machine: what becomes its own was its own, is new, or is none.
GuestMoves(m) ==
  /\ guests' = [guests EXCEPT ![m] = guests'[m]] /\ guests'[m] \in GuestStates
  /\ members' = [members EXCEPT ![m] = members'[m]] /\ members'[m] \in MemberRows
  /\ work' = [work EXCEPT ![m] = work'[m]] /\ work'[m] \in ScriptWork
  /\ fresh' \in Nat /\ fresh <= fresh' /\ live' \in SUBSET Nat
  /\ image' = image \/ (image' \in GuestStates /\ Numbered(image') /\ WillHaveKeys(image'))
  /\ GuestFits(guests[m], members[m], work[m])'
  /\ KeysAreOwn(m)' => \/ guests'[m].keys = 0 \/ guests'[m].keys >= fresh
                       \/ KeysAreOwn(m) /\ guests'[m].keys = guests[m].keys
  /\ NodeIsOwn(m)' => \/ guests'[m].node = 0 \/ guests'[m].node >= fresh
                      \/ NodeIsOwn(m) /\ guests'[m].node = guests[m].node
  /\ IsOwn(m)' /\ guests'[m].daemon /\ guests'[m].node # 0 => guests'[m].node \in live'
  /\ \A n \in Machines \ {m} : IsOwn(n) /\ guests[n].daemon /\ guests[n].node # 0 /\ guests[n].node \in live
                                 => guests[n].node \in live'

LEMMA GuestSteps ==
  ASSUME GuestInv, NEW m \in Machines, GuestMoves(m)
  PROVE  GuestInv'
<1>1. /\ \A n \in Machines : /\ guests[n] \in GuestStates /\ members[n] \in MemberRows /\ work[n] \in ScriptWork
                             /\ GuestFits(guests[n], members[n], work[n])
      /\ \A n \in Machines \ {m} : guests'[n] = guests[n] /\ members'[n] = members[n] /\ work'[n] = work[n]
      /\ fresh \in Nat /\ fresh' \in Nat /\ fresh <= fresh' /\ guests'[m] \in GuestStates
  BY DEF GuestInv, GuestTypes, GuestMoves
<1>2. \A g \in GuestStates : Numbered(g) => Numbered(g)'
  BY <1>1 DEF Numbered, GuestStates
<1>3. GuestTypes'
  <2>1. image' \in GuestStates /\ (image' # G!NoGuest => WillHaveKeys(image'))
    BY DEF GuestInv, GuestTypes, GuestMoves
  <2>2. Numbered(image)'
    BY <1>1, <2>1 DEF GuestInv, GuestTypes, GuestMoves, Numbered, GuestStates
  <2> QED
    BY <1>1, <2>1, <2>2 DEF GuestInv, GuestTypes, GuestMoves, WillHaveKeys
<1>4. ASSUME NEW n \in Machines PROVE GuestFits(guests[n], members[n], work[n])'
  <2>1. CASE n = m
    BY <2>1 DEF GuestMoves
  <2>2. CASE n # m
    <3>1. members[n].instance < fresh'
      BY <1>1 DEF GuestFits, MemberRows
    <3>2. Numbered(guests[n])'
      BY <1>1, <2>2 DEF GuestFits, Numbered, GuestStates
    <3> QED
      BY <1>1, <2>2, <3>1, <3>2 DEF GuestFits, WillHaveKeys, HasKeysOrBared
  <2> QED
    BY <2>1, <2>2
<1>5. \A n \in Machines \ {m} : /\ (KeysAreOwn(n)' <=> KeysAreOwn(n)) /\ (NodeIsOwn(n)' <=> NodeIsOwn(n))
                                /\ (IsOwn(n)' <=> IsOwn(n))
                                /\ guests[n].keys < fresh /\ guests[n].node < fresh
  BY <1>1 DEF KeysAreOwn, NodeIsOwn, IsOwn, GuestFits, Numbered
<1>6. KeysApart'
  <2>1. ASSUME NEW n \in Machines \ {m}, KeysAreOwn(m)', KeysAreOwn(n)'
        PROVE  guests'[m].keys # guests'[n].keys \/ (guests'[m].keys = 0 /\ guests'[n].keys = 0)
    <3>1. guests'[n].keys = guests[n].keys /\ guests[n].keys \in Nat /\ guests'[m].keys \in Nat
      BY <1>1 DEF GuestStates
    <3>2. KeysAreOwn(m) => guests[m].keys # guests[n].keys \/ (guests[m].keys = 0 /\ guests[n].keys = 0)
      BY <1>5, <2>1 DEF GuestInv, KeysApart
    <3> QED
      BY <1>1, <1>5, <2>1, <3>1, <3>2 DEF GuestMoves
  <2>2. ASSUME NEW n \in Machines \ {m}, NEW k \in Machines \ {m}, n # k, KeysAreOwn(n)', KeysAreOwn(k)', guests'[n].keys # 0
        PROVE  guests'[k].keys # guests'[n].keys
    BY <1>1, <1>5, <2>2 DEF GuestInv, KeysApart
  <2> QED
    BY <2>1, <2>2 DEF KeysApart
<1>7. NodesApart'
  <2>1. ASSUME NEW n \in Machines \ {m}, NodeIsOwn(m)', NodeIsOwn(n)'
        PROVE  guests'[m].node # guests'[n].node \/ (guests'[m].node = 0 /\ guests'[n].node = 0)
    <3>1. guests'[n].node = guests[n].node /\ guests[n].node \in Nat /\ guests'[m].node \in Nat
      BY <1>1 DEF GuestStates
    <3>2. NodeIsOwn(m) => guests[m].node # guests[n].node \/ (guests[m].node = 0 /\ guests[n].node = 0)
      BY <1>5, <2>1 DEF GuestInv, NodesApart
    <3> QED
      BY <1>1, <1>5, <2>1, <3>1, <3>2 DEF GuestMoves
  <2>2. ASSUME NEW n \in Machines \ {m}, NEW k \in Machines \ {m}, n # k, NodeIsOwn(n)', NodeIsOwn(k)', guests'[n].node # 0
        PROVE  guests'[k].node # guests'[n].node
    BY <1>1, <1>5, <2>2 DEF GuestInv, NodesApart
  <2> QED
    BY <2>1, <2>2 DEF NodesApart
<1>8. NodesLive'
  BY <1>1, <1>5 DEF GuestInv, NodesLive, GuestMoves
<1> QED
  BY <1>3, <1>4, <1>6, <1>7, <1>8 DEF GuestInv

LEMMA GuestFacts ==
  ASSUME GuestInv, NEW m \in Machines
  PROVE  /\ guests \in [Machines -> GuestStates] /\ members \in [Machines -> MemberRows]
         /\ work \in [Machines -> ScriptWork]
         /\ guests[m] \in GuestStates /\ members[m] \in MemberRows /\ work[m] \in ScriptWork
         /\ GuestFits(guests[m], members[m], work[m])
         /\ fresh \in Nat /\ fresh > 1 /\ live \in SUBSET Nat
         /\ image \in GuestStates /\ Numbered(image) /\ (image # G!NoGuest => WillHaveKeys(image))
BY DEF GuestInv, GuestTypes

\* The empty guest, row and script; a base image's guest.
LEMMA GuestBlanks ==
  /\ G!NoGuest \in GuestStates /\ G!NoMember \in MemberRows /\ G!Idle \in ScriptWork
  /\ G!NoMember.instance = 0 /\ ~ G!NoMember.builder /\ ~ G!NoMember.made /\ ~ G!NoMember.prepared
  /\ G!NoMember.hostKey = 0
  /\ G!BaseGuest \in GuestStates /\ G!BaseGuest.instance = 0 /\ G!BaseGuest.keys = 1 /\ G!BaseGuest.node = 0
  /\ ~ G!BaseGuest.daemon
<1>1. /\ G!NoGuest \in GuestStates /\ G!NoGuest.instance = 0 /\ G!NoGuest.node = 0 /\ ~ G!NoGuest.daemon
      /\ G!BaseGuest = [G!NoGuest EXCEPT !.keys = 1, !.on = TRUE]
  BY DEF G!NoGuest, G!BaseGuest, G!ImageKeys, GuestStates
<1> QED
  BY <1>1 DEF G!NoMember, G!Idle, GuestStates, MemberRows, ScriptWork

\* A machine that is gone has nothing of its own.
LEMMA GuestGone ==
  ASSUME GuestInv, NEW m \in Machines,
         guests' = [guests EXCEPT ![m] = G!NoGuest], members' = [members EXCEPT ![m] = G!NoMember],
         work' = [work EXCEPT ![m] = G!Idle], UNCHANGED <<image, fresh>>, live' \in SUBSET Nat,
         \A n \in Machines \ {m} : IsOwn(n) /\ guests[n].daemon /\ guests[n].node # 0 /\ guests[n].node \in live
                                     => guests[n].node \in live'
  PROVE  GuestInv'
<1>1. /\ guests'[m] = G!NoGuest /\ members'[m] = G!NoMember /\ work'[m] = G!Idle
      /\ members' = [members EXCEPT ![m] = members'[m]] /\ guests' = [guests EXCEPT ![m] = guests'[m]]
      /\ work' = [work EXCEPT ![m] = work'[m]]
  BY GuestFacts
<1>2. (GuestFits(guests[m], members[m], work[m]))'
  BY <1>1, GuestFacts DEF GuestFits, Numbered, WillHaveKeys, HasKeysOrBared, G!NoGuest, G!NoMember, G!Idle
<1>3. ~ KeysAreOwn(m)' /\ ~ NodeIsOwn(m)' /\ ~ IsOwn(m)'
  BY <1>1 DEF KeysAreOwn, NodeIsOwn, IsOwn, G!NoMember, G!Idle
<1>4. GuestMoves(m)
  BY <1>1, <1>2, <1>3, GuestFacts, GuestBlanks DEF GuestMoves
<1> QED
  BY <1>4, GuestSteps

LEMMA GuestIsMade ==
  ASSUME GuestInv, NEW m \in Machines, NEW builder \in BOOLEAN, NEW joins \in BOOLEAN, joins => builder,
         G!MakeBase(m, builder, joins)
  PROVE  GuestInv'
<1> DEFINE r == [G!NoMember EXCEPT !.instance = fresh, !.builder = builder]
           w == [kind |-> "make", at |-> IF ~ builder THEN "made" ELSE IF joins THEN "daemon" ELSE "setup"]
<1>1. /\ members' = [members EXCEPT ![m] = r] /\ fresh' = fresh + 1
      /\ guests' = [guests EXCEPT ![m] = G!BaseGuest] /\ work' = [work EXCEPT ![m] = w]
      /\ UNCHANGED <<image, live>>
  BY DEF G!MakeBase, G!NewMember, G!Sets, G!Goes
<1>2. r \in MemberRows /\ r.instance = fresh /\ r.builder = builder /\ ~ r.made /\ ~ r.prepared /\ r.hostKey = 0
  BY GuestBlanks, GuestFacts DEF MemberRows
<1>3. w \in ScriptWork /\ (w.at # "made" => builder) /\ w.at \in {"made", "daemon", "setup"}
  BY DEF ScriptWork
<1> HIDE DEF r, w
<1>4. /\ members'[m] = r /\ guests'[m] = G!BaseGuest /\ work'[m] = w
      /\ members' = [members EXCEPT ![m] = members'[m]] /\ guests' = [guests EXCEPT ![m] = guests'[m]]
      /\ work' = [work EXCEPT ![m] = work'[m]]
  BY <1>1, GuestFacts
<1>5. (GuestFits(guests[m], members[m], work[m]))'
  BY <1>1, <1>2, <1>3, <1>4, GuestBlanks, GuestFacts DEF GuestFits, Numbered, WillHaveKeys, HasKeysOrBared
<1>6. ~ KeysAreOwn(m)' /\ ~ IsOwn(m)' /\ guests'[m].node = 0
  BY <1>2, <1>3, <1>4, GuestBlanks, GuestFacts DEF KeysAreOwn, IsOwn
<1>7. GuestMoves(m)
  BY <1>1, <1>2, <1>3, <1>4, <1>5, <1>6, GuestBlanks, GuestFacts DEF GuestMoves
<1> QED
  BY <1>7, GuestSteps

LEMMA GuestIsCopied ==
  ASSUME GuestInv, NEW m \in Machines, NEW g \in GuestStates, Numbered(g), WillHaveKeys(g), G!CopyInto(m, g)
  PROVE  GuestInv'
<1> DEFINE r == [G!NoMember EXCEPT !.instance = fresh]
           w == [kind |-> "make", at |-> "identity"]
<1>0. PICK h : h = G!Branched(g)
  OBVIOUS
<1>1. /\ members' = [members EXCEPT ![m] = r] /\ fresh' = fresh + 2
      /\ guests' = [guests EXCEPT ![m] = h] /\ work' = [work EXCEPT ![m] = w]
      /\ UNCHANGED <<image, live>>
  BY <1>0 DEF G!CopyInto, G!Sets, G!Goes
<1>2. r \in MemberRows /\ r.instance = fresh /\ ~ r.builder /\ ~ r.made /\ ~ r.prepared /\ r.hostKey = 0
  BY GuestBlanks, GuestFacts DEF MemberRows
<1>3. /\ h \in GuestStates /\ h.instance = g.instance /\ h.node = g.node /\ h.wanted = g.wanted /\ h.bared = g.bared
      /\ h.keys = g.keys \/ (g.keys # 0 /\ h.keys = fresh + 1)
  <2>1. h = [g EXCEPT !.keys = IF platform = "linux" /\ g.keys # 0 THEN fresh + 1 ELSE g.keys,
                      !.daemon = g.daemon /\ platform = "linux", !.on = TRUE]
    BY <1>0 DEF G!Branched
  <2>2. PICK k \in Nat : k = IF platform = "linux" /\ g.keys # 0 THEN fresh + 1 ELSE g.keys
    BY GuestFacts DEF GuestStates
  <2>3. PICK d \in BOOLEAN : d = (g.daemon /\ platform = "linux")
    OBVIOUS
  <2>4. h = [g EXCEPT !.keys = k, !.daemon = d, !.on = TRUE]
    BY <2>1, <2>2, <2>3
  <2>5. /\ h \in GuestStates /\ h.instance = g.instance /\ h.node = g.node /\ h.wanted = g.wanted /\ h.bared = g.bared
        /\ h.keys = k
    BY <2>4 DEF GuestStates
  <2> QED
    BY <2>2, <2>5
<1>4. w \in ScriptWork
  BY DEF ScriptWork
<1> HIDE DEF r, w
<1>5. /\ members'[m] = r /\ guests'[m] = h /\ work'[m] = w
      /\ members' = [members EXCEPT ![m] = members'[m]] /\ guests' = [guests EXCEPT ![m] = guests'[m]]
      /\ work' = [work EXCEPT ![m] = work'[m]]
  BY <1>1, GuestFacts
<1>6. /\ g.instance \in Nat /\ g.keys \in Nat /\ g.node \in Nat
      /\ g.instance < fresh /\ g.keys < fresh /\ g.node < fresh /\ (g.keys # 0 \/ g.wanted \/ g.bared)
  BY DEF Numbered, GuestStates, WillHaveKeys
<1>7. w.at = "identity"
  BY DEF w
<1>8. (GuestFits(guests[m], members[m], work[m]))'
  BY <1>1, <1>2, <1>3, <1>5, <1>6, <1>7, GuestFacts DEF GuestFits, Numbered, WillHaveKeys, HasKeysOrBared
<1>9. ~ KeysAreOwn(m)' /\ ~ NodeIsOwn(m)' /\ ~ IsOwn(m)'
  BY <1>2, <1>3, <1>5, <1>6, <1>7, GuestFacts DEF KeysAreOwn, NodeIsOwn, IsOwn
<1>10. GuestMoves(m)
  BY <1>1, <1>2, <1>3, <1>4, <1>5, <1>8, <1>9, GuestFacts DEF GuestMoves
<1> QED
  BY <1>10, GuestSteps

LEMMA GuestIsAsked ==
  ASSUME GuestInv, NEW m \in Machines,
         \/ G!Restore(m) \/ (\E s \in Machines \ {m} : G!Fork(s, m))
         \/ G!Capture(m) \/ (\E taken \in BOOLEAN : G!UnkeyCut(m, taken))
         \/ G!Start(m) \/ G!Stop(m) \/ G!Join(m) \/ G!Remove(m)
  PROVE  GuestInv'
<1>1. CASE G!Restore(m)
  BY <1>1, GuestFacts, GuestIsCopied DEF G!Restore
<1>2. ASSUME NEW s \in Machines, G!Fork(s, m) PROVE GuestInv'
  <2>1. members[s].made /\ work[s].at = "none" /\ G!CopyInto(m, guests[s])
    BY <1>2 DEF G!Fork, G!Copyable, G!Stands, G!Idle
  <2>2. guests[s] \in GuestStates /\ Numbered(guests[s]) /\ WillHaveKeys(guests[s])
    BY <2>1, GuestFacts DEF GuestFits
  <2> QED
    BY <2>1, <2>2, GuestIsCopied
<1>3. CASE G!Capture(m) \/ \E taken \in BOOLEAN : G!UnkeyCut(m, taken)
  <2>1. PICK h \in GuestStates :
          /\ guests' = [guests EXCEPT ![m] = h] /\ UNCHANGED <<members, work, live, fresh>>
          /\ image' \in {image, h} /\ members[m].made /\ work[m] = G!Idle
          /\ h.instance = guests[m].instance /\ h.node = guests[m].node /\ h.daemon = guests[m].daemon
          /\ h.bared = guests[m].bared
          /\ \/ h.keys = guests[m].keys /\ h.wanted = guests[m].wanted
             \/ members[m].builder /\ h.wanted /\ h.keys \in {0, guests[m].keys}
    <3>1. PICK h : /\ guests' = [guests EXCEPT ![m] = h] /\ UNCHANGED <<members, work, live, fresh>>
                   /\ image' \in {image, h} /\ members[m].made /\ work[m] = G!Idle
                   /\ \/ h = guests[m]
                      \/ members[m].builder /\ h = [guests[m] EXCEPT !.keys = 0, !.wanted = TRUE]
                      \/ members[m].builder /\ h = [guests[m] EXCEPT !.wanted = TRUE]
      <4>1. CASE G!Capture(m)
        <5>1. PICK h : h = IF members[m].builder /\ platform = "linux" THEN G!Unkeyed(guests[m]) ELSE guests[m]
          OBVIOUS
        <5>2. /\ guests' = [guests EXCEPT ![m] = h] /\ image' = h /\ UNCHANGED <<members, work, live, fresh>>
              /\ members[m].made /\ work[m] = G!Idle
          BY <4>1, <5>1 DEF G!Capture, G!Sets, G!Copyable, G!Stands
        <5>3. \/ h = guests[m]
              \/ members[m].builder /\ h = [guests[m] EXCEPT !.keys = 0, !.wanted = TRUE]
          BY <5>1 DEF G!Unkeyed
        <5> QED
          BY <5>2, <5>3
      <4>2. ASSUME NEW taken \in BOOLEAN, G!UnkeyCut(m, taken)
            PROVE  \E h : /\ guests' = [guests EXCEPT ![m] = h] /\ UNCHANGED <<members, work, live, fresh>>
                          /\ image' = image /\ members[m].made /\ work[m] = G!Idle /\ members[m].builder
                          /\ \/ h = [guests[m] EXCEPT !.keys = 0, !.wanted = TRUE]
                             \/ h = [guests[m] EXCEPT !.wanted = TRUE]
        <5>1. PICK h : h = IF taken THEN G!Unkeyed(guests[m]) ELSE [guests[m] EXCEPT !.wanted = TRUE]
          OBVIOUS
        <5>2. /\ guests' = [guests EXCEPT ![m] = h] /\ UNCHANGED <<members, work, live, fresh>>
              /\ image' = image /\ members[m].made /\ work[m] = G!Idle /\ members[m].builder /\ guests[m].keys # 0
          BY <4>2, <5>1 DEF G!UnkeyCut, G!Sets, G!Copyable, G!Stands
        <5>3. \/ h = [guests[m] EXCEPT !.keys = 0, !.wanted = TRUE]
              \/ h = [guests[m] EXCEPT !.wanted = TRUE]
          BY <5>1, <5>2 DEF G!Unkeyed
        <5> QED
          BY <5>2, <5>3
      <4> QED
        BY <1>3, <4>1, <4>2
    <3>2. /\ h \in GuestStates
          /\ h.instance = guests[m].instance /\ h.node = guests[m].node /\ h.daemon = guests[m].daemon
          /\ h.bared = guests[m].bared
          /\ \/ h.keys = guests[m].keys /\ h.wanted = guests[m].wanted
             \/ members[m].builder /\ h.wanted /\ h.keys \in {0, guests[m].keys}
      <4>1. CASE h = guests[m]
        BY <4>1, GuestFacts
      <4>2. CASE members[m].builder /\ h = [guests[m] EXCEPT !.keys = 0, !.wanted = TRUE]
        BY <4>2, GuestFacts DEF GuestStates
      <4>3. CASE members[m].builder /\ h = [guests[m] EXCEPT !.wanted = TRUE]
        BY <4>3, GuestFacts DEF GuestStates
      <4> QED
        BY <3>1, <4>1, <4>2, <4>3
    <3> QED
      BY <3>1, <3>2
  <2>3. /\ guests'[m] = h /\ members'[m] = members[m] /\ work'[m] = work[m]
        /\ members' = [members EXCEPT ![m] = members'[m]] /\ guests' = [guests EXCEPT ![m] = guests'[m]]
        /\ work' = [work EXCEPT ![m] = work'[m]]
    BY <2>1, GuestFacts
  <2>a. h.keys \in Nat /\ guests[m].keys \in Nat /\ (h.keys = 0 \/ h.keys = guests[m].keys) /\ G!Idle.at = "none"
    BY <2>1, GuestFacts DEF GuestStates, G!Idle
  <2>b. members[m].builder => guests[m].instance # members[m].instance /\ members[m].hostKey = 0
    BY <2>1, GuestFacts DEF GuestFits, MemberRows
  <2>4. (GuestFits(guests[m], members[m], work[m]))'
    BY <2>1, <2>3, <2>a, <2>b, GuestFacts DEF GuestFits, Numbered, WillHaveKeys, HasKeysOrBared
  <2>5. Numbered(h) /\ WillHaveKeys(h)
    BY <2>1, <2>a, GuestFacts DEF GuestFits, Numbered, WillHaveKeys
  <2>7. work[m].at \notin {"unmark", "instance"}
    BY <2>1 DEF G!Idle
  <2>8. /\ (IsOwn(m)' <=> IsOwn(m)) /\ (KeysAreOwn(m)' => IsOwn(m) /\ KeysAreOwn(m)) /\ (NodeIsOwn(m)' <=> NodeIsOwn(m))
    BY <2>1, <2>3, <2>7 DEF KeysAreOwn, NodeIsOwn, IsOwn
  <2>9. IsOwn(m) /\ guests[m].daemon /\ guests[m].node # 0 => guests[m].node \in live
    BY DEF GuestInv, NodesLive
  <2>c. image' = image \/ (image' \in GuestStates /\ Numbered(image') /\ WillHaveKeys(image'))
    BY <2>1, <2>5
  <2>d. KeysAreOwn(m)' => KeysAreOwn(m) /\ h.keys = guests[m].keys
    BY <2>1, <2>b, <2>8 DEF IsOwn
  <2>10. GuestMoves(m)
    BY <2>1, <2>3, <2>4, <2>d, <2>8, <2>9, <2>c, GuestFacts DEF GuestMoves
  <2> QED
    BY <2>10, GuestSteps
<1>4. CASE G!Start(m) \/ G!Stop(m)
  <2>1. PICK h \in GuestStates : guests' = [guests EXCEPT ![m] = h] /\ h.instance = guests[m].instance /\ h.keys = guests[m].keys
                      /\ h.wanted = guests[m].wanted /\ h.bared = guests[m].bared
                      /\ h.node = guests[m].node /\ (h.daemon => guests[m].daemon)
    <3>1. PICK h : /\ guests' = [guests EXCEPT ![m] = h]
                   /\ \/ h = [guests[m] EXCEPT !.on = TRUE]
                      \/ h = [guests[m] EXCEPT !.on = FALSE, !.daemon = FALSE]
      BY <1>4 DEF G!Start, G!Stop, G!Sets
    <3> QED
      BY <3>1, GuestFacts DEF GuestStates
  <2>2. PICK r \in MemberRows : members' = [members EXCEPT ![m] = r] /\ r.instance = members[m].instance /\ r.builder = members[m].builder
                     /\ r.made = members[m].made /\ ~ r.prepared /\ r.hostKey = members[m].hostKey
    <3>1. CASE G!Start(m)
      <4>1. members' = members /\ ~ members[m].prepared
        BY <3>1 DEF G!Start
      <4> QED
        BY <4>1, GuestFacts
    <3>2. CASE G!Stop(m)
      <4>1. members' = [members EXCEPT ![m] = [members[m] EXCEPT !.prepared = FALSE]]
        BY <3>2 DEF G!Stop
      <4> DEFINE q == [members[m] EXCEPT !.prepared = FALSE]
      <4>2. /\ q \in MemberRows /\ q.instance = members[m].instance /\ q.builder = members[m].builder
            /\ q.made = members[m].made /\ ~ q.prepared /\ q.hostKey = members[m].hostKey
        BY GuestFacts DEF MemberRows
      <4> HIDE DEF q
      <4> QED
        BY <4>1, <4>2 DEF q
    <3> QED
      BY <1>4, <3>1, <3>2
  <2>3. PICK w \in ScriptWork : work' = [work EXCEPT ![m] = w] /\ (w = G!Idle \/ (w.at = "identity" /\ ~ members[m].builder))
    <3>1. CASE G!Start(m)
      <4>1. work' = [work EXCEPT ![m] = [kind |-> "start", at |-> "identity"]] /\ ~ members[m].builder
        BY <3>1 DEF G!Start, G!Goes
      <4>2. [kind |-> "start", at |-> "identity"] \in ScriptWork
        BY DEF ScriptWork
      <4> QED
        BY <4>1, <4>2
    <3>2. CASE G!Stop(m)
      <4>1. work' = [work EXCEPT ![m] = G!Idle]
        BY <3>2, GuestFacts DEF G!Stop, G!Stands
      <4> QED
        BY <4>1, GuestBlanks
    <3> QED
      BY <1>4, <3>1, <3>2
  <2>4. UNCHANGED <<image, live, fresh>> /\ members[m].made
    BY <1>4 DEF G!Start, G!Stop, G!Stands
  <2>5. /\ guests'[m] = h /\ members'[m] = r /\ work'[m] = w
        /\ members' = [members EXCEPT ![m] = members'[m]] /\ guests' = [guests EXCEPT ![m] = guests'[m]]
        /\ work' = [work EXCEPT ![m] = work'[m]]
    BY <2>1, <2>2, <2>3, GuestFacts
  <2>6. w.at \in {"none", "identity"}
    BY <2>3 DEF G!Idle
  <2>7. (GuestFits(guests[m], members[m], work[m]))'
    <3>1. Numbered(guests[m])'
      BY <2>1, <2>4, <2>5, GuestFacts DEF GuestFits, Numbered
    <3>0. work[m] = G!Idle /\ G!Idle.at = "none"
      BY <1>4 DEF G!Start, G!Stop, G!Stands, G!Idle
    <3>2. /\ WillHaveKeys(guests[m])'
          /\ h.instance = r.instance => HasKeysOrBared(h)
          /\ r.hostKey # 0 => h.instance = r.instance /\ h.keys = r.hostKey
      BY <2>1, <2>2, <2>4, <2>5, <3>0, GuestFacts DEF GuestFits, WillHaveKeys, HasKeysOrBared
    <3>3. r.instance # 0 /\ r.instance < fresh /\ (r.builder => h.instance = 0) /\ ~ r.prepared
      BY <2>1, <2>2, <2>4, GuestFacts DEF GuestFits
    <3>4. w.at # "none" => ~ r.builder
      BY <2>2, <2>3 DEF G!Idle
    <3>5. fresh' = fresh
      BY <2>4
    <3> QED
      BY <2>5, <2>6, <3>1, <3>2, <3>3, <3>4, <3>5 DEF GuestFits, HasKeysOrBared
  <2>8. /\ (IsOwn(m)' <=> IsOwn(m)) /\ (KeysAreOwn(m)' => KeysAreOwn(m)) /\ (NodeIsOwn(m)' <=> NodeIsOwn(m))
    BY <2>1, <2>2, <2>5, <2>6 DEF KeysAreOwn, NodeIsOwn, IsOwn
  <2>9. IsOwn(m) /\ guests[m].daemon /\ guests[m].node # 0 => guests[m].node \in live
    BY DEF GuestInv, NodesLive
  <2>10. GuestMoves(m)
    BY <2>1, <2>2, <2>4, <2>5, <2>7, <2>8, <2>9, GuestFacts DEF GuestMoves
  <2> QED
    BY <2>10, GuestSteps
<1>5. CASE G!Join(m)
  <2>1. /\ UNCHANGED <<guests, members, image, live, fresh>> /\ members[m].made /\ work[m].at # "mint"
        /\ work' = [work EXCEPT ![m] = [kind |-> "join", at |-> "daemon"]]
    BY <1>5 DEF G!Join, G!Goes, G!Stands, G!Idle
  <2>2. /\ guests'[m] = guests[m] /\ members'[m] = members[m] /\ work'[m] = [kind |-> "join", at |-> "daemon"]
        /\ members' = [members EXCEPT ![m] = members'[m]] /\ guests' = [guests EXCEPT ![m] = guests'[m]]
        /\ work' = [work EXCEPT ![m] = work'[m]] /\ work'[m] \in ScriptWork
    BY <2>1, GuestFacts DEF ScriptWork
  <2>3. (GuestFits(guests[m], members[m], work[m]))'
    BY <2>1, <2>2, GuestFacts DEF GuestFits, Numbered, WillHaveKeys, HasKeysOrBared
  <2>4. /\ (IsOwn(m)' <=> IsOwn(m)) /\ (KeysAreOwn(m)' => KeysAreOwn(m)) /\ (NodeIsOwn(m)' <=> NodeIsOwn(m))
    BY <2>2 DEF KeysAreOwn, NodeIsOwn, IsOwn
  <2>5. GuestMoves(m)
    BY <2>1, <2>2, <2>3, <2>4, GuestFacts DEF GuestMoves, GuestInv, NodesLive
  <2> QED
    BY <2>5, GuestSteps
<1>6. CASE G!Remove(m)
  <2>1. /\ guests' = [guests EXCEPT ![m] = G!NoGuest] /\ members' = [members EXCEPT ![m] = G!NoMember]
        /\ work' = [work EXCEPT ![m] = G!Idle] /\ UNCHANGED <<image, live, fresh>>
    BY <1>6, GuestFacts DEF G!Remove, G!Sets, G!Stands
  <2> QED
    BY <2>1, GuestGone, GuestFacts
<1> QED
  BY <1>1, <1>2, <1>3, <1>4, <1>5, <1>6

LEMMA GuestIsScripted ==
  ASSUME GuestInv, NEW m \in Machines, G!ScriptActs(m)
  PROVE  GuestInv'
<1> DEFINE g == guests[m]
           r == members[m]
           Left(h, q, w) == guests'[m] = h /\ members'[m] = q /\ work'[m] = w
<1>0. /\ \A h : guests' = [guests EXCEPT ![m] = h] => guests'[m] = h
      /\ \A h : members' = [members EXCEPT ![m] = h] => members'[m] = h
      /\ \A h : work' = [work EXCEPT ![m] = h] => work'[m] = h
      /\ g \in GuestStates /\ r \in MemberRows /\ fresh \in Nat /\ fresh > 1 /\ live \in SUBSET Nat
      /\ g.instance \in Nat /\ g.keys \in Nat /\ g.node \in Nat /\ g.wanted \in BOOLEAN /\ g.daemon \in BOOLEAN
      /\ r.instance \in Nat /\ r.builder \in BOOLEAN /\ r.made \in BOOLEAN /\ r.prepared \in BOOLEAN
      /\ IsOwn(m) /\ g.daemon /\ g.node # 0 => g.node \in live
  BY GuestFacts DEF GuestStates, MemberRows, GuestInv, NodesLive
<1>f. /\ g \in GuestStates /\ r \in MemberRows /\ work[m] \in ScriptWork /\ fresh \in Nat /\ live \in SUBSET Nat
      /\ IsOwn(m) /\ g.daemon /\ g.node # 0 => g.node \in live
  BY <1>0, GuestFacts
<1>e. /\ (\E h : guests' = [guests EXCEPT ![m] = h]) \/ UNCHANGED guests => guests' = [guests EXCEPT ![m] = guests'[m]]
      /\ (\E h : members' = [members EXCEPT ![m] = h]) \/ UNCHANGED members => members' = [members EXCEPT ![m] = members'[m]]
      /\ (\E h : work' = [work EXCEPT ![m] = h]) \/ UNCHANGED work => work' = [work EXCEPT ![m] = work'[m]]
  BY GuestFacts
<1>00. GuestFits(g, r, work[m])
  BY GuestFacts
<1>000. work[m].kind \in {"none", "make", "start", "join"} /\ work[m] # G!Idle
  BY GuestFacts DEF ScriptWork, G!ScriptActs, G!IdentityKept, G!IdentityKills, G!IdentityDrops,
     G!IdentityUnkeys, G!IdentityMints, G!IdentityUnmarks, G!IdentityEnds, G!Prepares, G!Daemoned, G!Ups, G!SetupEnds, G!ScrubLogsOut, G!ScrubDrops, G!BaseMade, G!In, G!Idle
<1>1. CASE G!IdentityKept(m)
  <2> DEFINE w == [kind |-> work[m].kind, at |-> "prepare"]
  <2>1. /\ work' = [work EXCEPT ![m] = w] /\ UNCHANGED <<guests, members, fresh, image, live>>
        /\ work[m].at = "identity" /\ g.instance = r.instance
    BY <1>1 DEF G!IdentityKept, G!Goes, G!Same, G!In, G!Identified
  <2>2. w \in ScriptWork /\ w.at = "prepare"
    BY <1>000 DEF ScriptWork
  <2> HIDE DEF w
  <2>3. Left(g, r, w)
    BY <1>0, <2>1
  <2>4. (GuestFits(guests[m], members[m], work[m]))'
    BY <1>0, <1>00, <1>000, <2>1, <2>2, <2>3 DEF GuestFits, Numbered, WillHaveKeys, HasKeysOrBared
  <2>5. (IsOwn(m)' <=> IsOwn(m)) /\ (KeysAreOwn(m)' => IsOwn(m)) /\ (NodeIsOwn(m)' <=> NodeIsOwn(m))
    BY <2>2, <2>3 DEF IsOwn, KeysAreOwn, NodeIsOwn
  <2>7. UNCHANGED <<image, live, fresh>>
    BY <2>1
  <2>8. /\ members' = [members EXCEPT ![m] = members'[m]] /\ guests' = [guests EXCEPT ![m] = guests'[m]]
        /\ work' = [work EXCEPT ![m] = work'[m]]
    BY <1>e, <2>1
  <2>9. GuestMoves(m)
    BY <1>f, <2>7, <2>2, <2>4, <2>5, <2>3, <2>8 DEF GuestMoves, KeysAreOwn
  <2> QED
    BY <2>9, GuestSteps
<1>2. CASE G!IdentityKills(m)
  <2> DEFINE w == [kind |-> work[m].kind, at |-> "drop"]
             h == [g EXCEPT !.daemon = FALSE]
  <2>1. /\ work' = [work EXCEPT ![m] = w] /\ guests' = [guests EXCEPT ![m] = h]
        /\ UNCHANGED <<members, fresh, image, live>> /\ work[m].at = "identity" /\ g.instance # r.instance
    BY <1>2 DEF G!IdentityKills, G!Sets, G!Goes, G!Same, G!In, G!Identified
  <2>2. w \in ScriptWork /\ w.at = "drop"
    BY <1>000 DEF ScriptWork
  <2>3. /\ h \in GuestStates /\ h.node = g.node /\ h.instance = g.instance /\ h.keys = g.keys
        /\ h.wanted = g.wanted /\ h.bared = g.bared
    BY <1>0 DEF GuestStates
  <2> HIDE DEF w, h
  <2>4. Left(h, r, w)
    BY <1>0, <2>1
  <2>5. (GuestFits(guests[m], members[m], work[m]))'
    BY <1>0, <1>00, <1>000, <2>1, <2>2, <2>3, <2>4 DEF GuestFits, Numbered, WillHaveKeys, HasKeysOrBared
  <2>6. ~ IsOwn(m)' /\ ~ KeysAreOwn(m)' /\ (NodeIsOwn(m)' => NodeIsOwn(m))
    BY <1>00, <2>1, <2>2, <2>3, <2>4 DEF GuestFits, IsOwn, KeysAreOwn, NodeIsOwn
  <2>7. UNCHANGED <<image, live, fresh>>
    BY <2>1
  <2>8. /\ members' = [members EXCEPT ![m] = members'[m]] /\ guests' = [guests EXCEPT ![m] = guests'[m]]
        /\ work' = [work EXCEPT ![m] = work'[m]]
    BY <1>e, <2>1
  <2>9. GuestMoves(m)
    BY <1>f, <2>7, <2>2, <2>3, <2>5, <2>6, <2>4, <2>8 DEF GuestMoves
  <2> QED
    BY <2>9, GuestSteps
<1>3. CASE G!IdentityDrops(m)
  <2> DEFINE w == [kind |-> work[m].kind, at |-> "keys"]
             h == [g EXCEPT !.node = 0]
  <2>1. /\ work' = [work EXCEPT ![m] = w] /\ guests' = [guests EXCEPT ![m] = h]
        /\ UNCHANGED <<members, fresh, image, live>> /\ work[m].at = "drop"
    BY <1>3 DEF G!IdentityDrops, G!Sets, G!Goes, G!Same, G!In
  <2>2. w \in ScriptWork /\ w.at = "keys"
    BY <1>000 DEF ScriptWork
  <2>3. /\ h \in GuestStates /\ h.node = 0 /\ h.instance = g.instance /\ h.keys = g.keys
        /\ h.wanted = g.wanted /\ h.bared = g.bared
    BY <1>0 DEF GuestStates
  <2> HIDE DEF w, h
  <2>4. Left(h, r, w)
    BY <1>0, <2>1
  <2>5. (GuestFits(guests[m], members[m], work[m]))'
    BY <1>0, <1>00, <1>000, <2>1, <2>2, <2>3, <2>4 DEF GuestFits, Numbered, WillHaveKeys, HasKeysOrBared
  <2>6. ~ IsOwn(m)' /\ ~ KeysAreOwn(m)' /\ (NodeIsOwn(m)' => NodeIsOwn(m))
    BY <1>00, <2>1, <2>2, <2>3, <2>4 DEF GuestFits, IsOwn, KeysAreOwn, NodeIsOwn
  <2>7. UNCHANGED <<image, live, fresh>>
    BY <2>1
  <2>8. /\ members' = [members EXCEPT ![m] = members'[m]] /\ guests' = [guests EXCEPT ![m] = guests'[m]]
        /\ work' = [work EXCEPT ![m] = work'[m]]
    BY <1>e, <2>1
  <2>9. GuestMoves(m)
    BY <1>f, <2>7, <2>2, <2>3, <2>5, <2>6, <2>4, <2>8 DEF GuestMoves
  <2> QED
    BY <2>9, GuestSteps
<1>12. CASE G!IdentityUnkeys(m)
  <2> DEFINE some == g.keys # 0 \/ g.wanted
  <2>1. PICK w : w = [kind |-> work[m].kind, at |-> IF some THEN "mint" ELSE "instance"]
    OBVIOUS
  <2>2. PICK h : h = IF some THEN [g EXCEPT !.keys = 0] ELSE g
    OBVIOUS
  <2>3. /\ work' = [work EXCEPT ![m] = w] /\ guests' = [guests EXCEPT ![m] = h]
        /\ UNCHANGED <<members, fresh, image, live>> /\ work[m].at = "keys"
    BY <1>12, <1>f, <2>1, <2>2, GuestFacts DEF G!IdentityUnkeys, G!Sets, G!Goes, G!Same, G!In
  <2>4. w \in ScriptWork /\ ((some /\ w.at = "mint") \/ (~ some /\ w.at = "instance"))
    BY <1>000, <2>1 DEF ScriptWork
  <2>5. /\ h \in GuestStates /\ h.instance = g.instance /\ h.node = g.node /\ h.wanted = g.wanted /\ h.bared = g.bared
        /\ h.keys = 0
    BY <1>0, <2>2 DEF GuestStates
  <2>6. Left(h, r, w)
    BY <1>0, <2>3
  <2>7. (GuestFits(guests[m], members[m], work[m]))'
    BY <1>0, <1>00, <1>000, <2>3, <2>4, <2>5, <2>6 DEF GuestFits, Numbered, WillHaveKeys, HasKeysOrBared
  <2>8. ~ IsOwn(m)' /\ (NodeIsOwn(m)' => NodeIsOwn(m))
    BY <1>00, <2>3, <2>5, <2>6 DEF GuestFits, IsOwn, NodeIsOwn
  <2>9. /\ members' = [members EXCEPT ![m] = members'[m]] /\ guests' = [guests EXCEPT ![m] = guests'[m]]
        /\ work' = [work EXCEPT ![m] = work'[m]]
    BY <1>e, <2>3
  <2>10. UNCHANGED <<image, live, fresh>>
    BY <2>3
  <2>11. GuestMoves(m)
    <3>1. KeysAreOwn(m)' => guests'[m].keys = 0
      BY <2>5, <2>6
    <3>2. NodeIsOwn(m)' => NodeIsOwn(m) /\ guests'[m].node = guests[m].node
      BY <2>5, <2>6, <2>8
    <3>3. guests'[m] \in GuestStates /\ members'[m] \in MemberRows /\ work'[m] \in ScriptWork
      BY <1>f, <2>4, <2>5, <2>6
    <3>4. /\ fresh' \in Nat /\ fresh <= fresh' /\ live' \in SUBSET Nat /\ image' = image
          /\ \A n \in Machines \ {m} : IsOwn(n) /\ guests[n].daemon /\ guests[n].node # 0 /\ guests[n].node \in live
                                         => guests[n].node \in live'
      BY <1>f, <2>10
    <3> QED
      BY <3>1, <3>2, <3>3, <3>4, <2>7, <2>8, <2>9, <2>10, Zenon DEF GuestMoves
  <2> QED
    BY <2>11, GuestSteps
<1>13. CASE G!IdentityMints(m)
  <2> DEFINE w == [kind |-> work[m].kind, at |-> "unmark"]
             h == [g EXCEPT !.keys = fresh]
  <2>1. /\ work' = [work EXCEPT ![m] = w] /\ guests' = [guests EXCEPT ![m] = h]
        /\ UNCHANGED <<members, image, live>> /\ fresh' = fresh + 1 /\ work[m].at = "mint"
    BY <1>13 DEF G!IdentityMints, G!Sets, G!Goes, G!Same, G!In
  <2>2. w \in ScriptWork /\ w.at = "unmark"
    BY <1>000 DEF ScriptWork
  <2>3. /\ h \in GuestStates /\ h.node = g.node /\ h.instance = g.instance /\ h.keys = fresh
        /\ h.wanted = g.wanted /\ h.bared = g.bared
    BY <1>0 DEF GuestStates
  <2> HIDE DEF w, h
  <2>4. Left(h, r, w)
    BY <1>0, <2>1
  <2>5. (GuestFits(guests[m], members[m], work[m]))'
    BY <1>0, <1>00, <1>000, <2>1, <2>2, <2>3, <2>4 DEF GuestFits, Numbered, WillHaveKeys, HasKeysOrBared
  <2>6. ~ IsOwn(m)' /\ (NodeIsOwn(m)' => NodeIsOwn(m))
    BY <1>00, <2>1, <2>3, <2>4 DEF GuestFits, IsOwn, NodeIsOwn
  <2>7. UNCHANGED <<image, live>> /\ fresh' = fresh + 1
    BY <2>1
  <2>8. /\ members' = [members EXCEPT ![m] = members'[m]] /\ guests' = [guests EXCEPT ![m] = guests'[m]]
        /\ work' = [work EXCEPT ![m] = work'[m]]
    BY <1>e, <2>1
  <2>9. GuestMoves(m)
    <3>1. guests'[m].keys >= fresh /\ fresh' \in Nat /\ fresh <= fresh'
      BY <1>f, <2>3, <2>4, <2>7
    <3>2. NodeIsOwn(m)' => NodeIsOwn(m) /\ guests'[m].node = guests[m].node
      BY <2>3, <2>4, <2>6
    <3>3. guests'[m] \in GuestStates /\ members'[m] \in MemberRows /\ work'[m] \in ScriptWork
      BY <1>f, <2>2, <2>3, <2>4
    <3>4. /\ live' \in SUBSET Nat /\ image' = image
          /\ \A n \in Machines \ {m} : IsOwn(n) /\ guests[n].daemon /\ guests[n].node # 0 /\ guests[n].node \in live
                                         => guests[n].node \in live'
      BY <1>f, <2>7
    <3> QED
      BY <3>1, <3>2, <3>3, <3>4, <2>5, <2>6, <2>7, <2>8, Zenon DEF GuestMoves
  <2> QED
    BY <2>9, GuestSteps
<1>14. CASE G!IdentityUnmarks(m)
  <2> DEFINE w == [kind |-> work[m].kind, at |-> "instance"]
             h == [g EXCEPT !.wanted = FALSE]
  <2>1. /\ work' = [work EXCEPT ![m] = w] /\ guests' = [guests EXCEPT ![m] = h]
        /\ UNCHANGED <<members, fresh, image, live>> /\ work[m].at = "unmark"
    BY <1>14 DEF G!IdentityUnmarks, G!Sets, G!Goes, G!Same, G!In
  <2>2. w \in ScriptWork /\ w.at = "instance"
    BY <1>000 DEF ScriptWork
  <2>3. /\ h \in GuestStates /\ h.node = g.node /\ h.instance = g.instance /\ h.keys = g.keys /\ h.bared = g.bared
    BY <1>0 DEF GuestStates
  <2> HIDE DEF w, h
  <2>4. Left(h, r, w)
    BY <1>0, <2>1
  <2>5. (GuestFits(guests[m], members[m], work[m]))'
    BY <1>0, <1>00, <1>000, <2>1, <2>2, <2>3, <2>4 DEF GuestFits, Numbered, WillHaveKeys, HasKeysOrBared
  <2>6. KeysAreOwn(m) /\ ~ IsOwn(m)' /\ (NodeIsOwn(m)' => NodeIsOwn(m))
    BY <1>00, <2>1, <2>3, <2>4 DEF GuestFits, IsOwn, KeysAreOwn, NodeIsOwn
  <2>7. UNCHANGED <<image, live, fresh>>
    BY <2>1
  <2>8. /\ members' = [members EXCEPT ![m] = members'[m]] /\ guests' = [guests EXCEPT ![m] = guests'[m]]
        /\ work' = [work EXCEPT ![m] = work'[m]]
    BY <1>e, <2>1
  <2>9. GuestMoves(m)
    BY <1>f, <2>7, <2>2, <2>3, <2>5, <2>6, <2>4, <2>8 DEF GuestMoves
  <2> QED
    BY <2>9, GuestSteps
<1>4. CASE G!IdentityEnds(m)
  <2> DEFINE w == [kind |-> work[m].kind, at |-> "prepare"]
             h == [g EXCEPT !.instance = r.instance]
  <2>1. /\ work' = [work EXCEPT ![m] = w] /\ guests' = [guests EXCEPT ![m] = h]
        /\ UNCHANGED <<members, image, live, fresh>> /\ work[m].at = "instance"
    BY <1>4 DEF G!IdentityEnds, G!Sets, G!Goes, G!Same, G!In
  <2>2. w \in ScriptWork /\ w.at = "prepare"
    BY <1>000 DEF ScriptWork
  <2>3. h \in GuestStates /\ h.node = g.node /\ h.instance = r.instance /\ h.keys = g.keys /\ h.bared = g.bared
    BY <1>0 DEF GuestStates
  <2> HIDE DEF w, h
  <2>4. Left(h, r, w)
    BY <1>0, <2>1
  <2>5. (GuestFits(guests[m], members[m], work[m]))'
    BY <1>0, <1>00, <1>000, <2>1, <2>2, <2>3, <2>4 DEF GuestFits, Numbered, WillHaveKeys, HasKeysOrBared
  <2>6. KeysAreOwn(m) /\ h.node = 0
    BY <1>00, <2>1, <2>3 DEF KeysAreOwn, GuestFits
  <2>7. UNCHANGED <<image, live, fresh>>
    BY <2>1
  <2>8. /\ members' = [members EXCEPT ![m] = members'[m]] /\ guests' = [guests EXCEPT ![m] = guests'[m]]
        /\ work' = [work EXCEPT ![m] = work'[m]]
    BY <1>e, <2>1
  <2>9. GuestMoves(m)
    BY <1>f, <2>7, <2>2, <2>3, <2>5, <2>6, <2>4, <2>8 DEF GuestMoves
  <2> QED
    BY <2>9, GuestSteps
<1>5. CASE G!Prepares(m)
  <2> DEFINE q == [r EXCEPT !.made = TRUE, !.prepared = TRUE,
                            !.hostKey = IF g.keys = 0 THEN r.hostKey ELSE g.keys]
  <2>0. (IF g.keys = 0 THEN r.hostKey ELSE g.keys) = g.keys /\ r.hostKey \in Nat
    BY <1>0, <1>00 DEF GuestFits, MemberRows
  <2>1. /\ work' = [work EXCEPT ![m] = G!Idle] /\ members' = [members EXCEPT ![m] = q]
        /\ UNCHANGED <<guests, image, live, fresh>> /\ work[m].at = "prepare"
    BY <1>5 DEF G!Prepares, G!Ends, G!Same, G!In
  <2>2. q \in MemberRows /\ q.instance = r.instance /\ q.builder = r.builder /\ q.hostKey = g.keys /\ q.prepared /\ q.made
    BY <1>0, <2>0 DEF MemberRows
  <2> HIDE DEF q
  <2>3. Left(g, q, G!Idle) /\ G!Idle.at = "none"
    BY <1>0, <2>1 DEF G!Idle
  <2>4. (GuestFits(guests[m], members[m], work[m]))'
    BY <1>0, <1>00, <1>000, <2>1, <2>2, <2>3 DEF GuestFits, Numbered, WillHaveKeys, HasKeysOrBared
  <2>5. (IsOwn(m)' <=> IsOwn(m)) /\ (KeysAreOwn(m)' => KeysAreOwn(m)) /\ (NodeIsOwn(m)' <=> NodeIsOwn(m))
    BY <2>2, <2>3 DEF IsOwn, KeysAreOwn, NodeIsOwn
  <2>7. UNCHANGED <<image, live, fresh>>
    BY <2>1
  <2>8. /\ members' = [members EXCEPT ![m] = members'[m]] /\ guests' = [guests EXCEPT ![m] = guests'[m]]
        /\ work' = [work EXCEPT ![m] = work'[m]]
    BY <1>e, <2>1
  <2>9. GuestMoves(m)
    BY <1>f, <2>7, <2>2, <2>4, <2>5, GuestBlanks, <2>3, <2>8 DEF GuestMoves
  <2> QED
    BY <2>9, GuestSteps
<1>6. CASE G!Daemoned(m)
  <2> DEFINE w == [kind |-> work[m].kind, at |-> "up"]
             h == [g EXCEPT !.daemon = TRUE, !.node = IF @ \in live THEN @ ELSE 0]
  <2>1. /\ work' = [work EXCEPT ![m] = w] /\ guests' = [guests EXCEPT ![m] = h]
        /\ UNCHANGED <<members, image, live, fresh>> /\ work[m].at = "daemon"
    BY <1>6 DEF G!Daemoned, G!Sets, G!Goes, G!Same, G!In
  <2>2. w \in ScriptWork /\ w.at = "up" /\ w.kind = work[m].kind
    BY <1>000 DEF ScriptWork
  <2>3. /\ h \in GuestStates /\ h.instance = g.instance /\ h.keys = g.keys /\ h.wanted = g.wanted /\ h.bared = g.bared
        /\ h.node = 0 \/ (h.node = g.node /\ g.node \in live)
    BY <1>0 DEF GuestStates
  <2> HIDE DEF w, h
  <2>4. Left(h, r, w)
    BY <1>0, <2>1
  <2>5. (GuestFits(guests[m], members[m], work[m]))'
    BY <1>0, <1>00, <1>000, <2>1, <2>2, <2>3, <2>4 DEF GuestFits, Numbered, WillHaveKeys, HasKeysOrBared
  <2>6. (IsOwn(m)' <=> IsOwn(m)) /\ (KeysAreOwn(m)' => KeysAreOwn(m)) /\ (NodeIsOwn(m)' <=> NodeIsOwn(m))
    BY <2>2, <2>3, <2>4 DEF IsOwn, KeysAreOwn, NodeIsOwn
  <2>7. UNCHANGED <<image, live, fresh>>
    BY <2>1
  <2>8. /\ members' = [members EXCEPT ![m] = members'[m]] /\ guests' = [guests EXCEPT ![m] = guests'[m]]
        /\ work' = [work EXCEPT ![m] = work'[m]]
    BY <1>e, <2>1
  <2>9. GuestMoves(m)
    BY <1>f, <2>7, <2>2, <2>3, <2>5, <2>6, <2>4, <2>8 DEF GuestMoves
  <2> QED
    BY <2>9, GuestSteps
<1>7. CASE G!Ups(m)
  <2> DEFINE w == IF work[m].kind = "join" THEN G!Idle ELSE [kind |-> "make", at |-> "setup"]
             h == IF g.node = 0 THEN [g EXCEPT !.node = fresh] ELSE g
  <2>1. /\ work' = [work EXCEPT ![m] = w] /\ guests' = [guests EXCEPT ![m] = h]
        /\ UNCHANGED <<members, image>> /\ work[m].at = "up"
        /\ live' = IF g.node = 0 THEN live \cup {fresh} ELSE live
        /\ fresh' = IF g.node = 0 THEN fresh + 1 ELSE fresh
    BY <1>7, GuestFacts DEF G!Ups, G!Sets, G!Goes, G!Ends, G!In
  <2>2. w \in ScriptWork /\ (w.at = "none" \/ (w.at = "setup" /\ work[m].kind # "join"))
    BY DEF ScriptWork, G!Idle
  <2>3. /\ h \in GuestStates /\ h.instance = g.instance /\ h.keys = g.keys /\ h.wanted = g.wanted /\ h.daemon = g.daemon
        /\ h.bared = g.bared
        /\ (g.node = 0 /\ h.node = fresh) \/ (g.node # 0 /\ h.node = g.node)
    BY <1>0 DEF GuestStates
  <2> HIDE DEF w, h
  <2>4. Left(h, r, w)
    BY <1>0, <2>1
  <2>5. fresh' \in Nat /\ fresh <= fresh' /\ live \subseteq live' /\ live' \in SUBSET Nat /\ (h.node = fresh => h.node < fresh' /\ h.node \in live')
    BY <1>0, <1>00, <2>1, <2>3 DEF GuestFits, Numbered
  <2>6. (GuestFits(guests[m], members[m], work[m]))'
    BY <1>0, <1>00, <1>000, <2>1, <2>2, <2>3, <2>4, <2>5 DEF GuestFits, Numbered, WillHaveKeys, HasKeysOrBared
  <2>7. (IsOwn(m)' <=> IsOwn(m)) /\ (KeysAreOwn(m)' => KeysAreOwn(m)) /\ (NodeIsOwn(m)' <=> NodeIsOwn(m))
    BY <2>2, <2>3, <2>4 DEF IsOwn, KeysAreOwn, NodeIsOwn
  <2>8. /\ members' = [members EXCEPT ![m] = members'[m]] /\ guests' = [guests EXCEPT ![m] = guests'[m]]
        /\ work' = [work EXCEPT ![m] = work'[m]]
    BY <1>e, <2>1
  <2>9. GuestMoves(m)
    BY <1>0, <2>1, <2>2, <2>3, <2>5, <2>6, <2>7, <2>4, <2>8 DEF GuestMoves
  <2> QED
    BY <2>9, GuestSteps
<1>8. CASE G!SetupEnds(m)
  <2> DEFINE w == [kind |-> "make", at |-> IF g.daemon THEN "logout" ELSE "made"]
  <2>1. /\ work' = [work EXCEPT ![m] = w] /\ UNCHANGED <<guests, members, fresh, image, live>>
        /\ work[m].at = "setup"
    BY <1>8 DEF G!SetupEnds, G!Goes, G!Same, G!In
  <2>2. w \in ScriptWork /\ w.at \in {"logout", "made"}
    BY DEF ScriptWork
  <2> HIDE DEF w
  <2>3. Left(g, r, w)
    BY <1>0, <2>1
  <2>4. (GuestFits(guests[m], members[m], work[m]))'
    BY <1>0, <1>00, <1>000, <2>1, <2>2, <2>3 DEF GuestFits, Numbered, WillHaveKeys, HasKeysOrBared
  <2>5. (IsOwn(m)' <=> IsOwn(m)) /\ (KeysAreOwn(m)' => IsOwn(m)) /\ (NodeIsOwn(m)' <=> NodeIsOwn(m))
    BY <2>2, <2>3 DEF IsOwn, KeysAreOwn, NodeIsOwn
  <2>7. UNCHANGED <<image, live, fresh>>
    BY <2>1
  <2>8. /\ members' = [members EXCEPT ![m] = members'[m]] /\ guests' = [guests EXCEPT ![m] = guests'[m]]
        /\ work' = [work EXCEPT ![m] = work'[m]]
    BY <1>e, <2>1
  <2>9. GuestMoves(m)
    BY <1>f, <2>7, <2>2, <2>4, <2>5, <2>3, <2>8 DEF GuestMoves, KeysAreOwn
  <2> QED
    BY <2>9, GuestSteps
<1>9. CASE G!ScrubLogsOut(m)
  <2> DEFINE w == [kind |-> "make", at |-> "scrub"]
  <2>1. /\ work' = [work EXCEPT ![m] = w] /\ UNCHANGED <<guests, members, fresh, image>>
        /\ live' = live \ {g.node} /\ work[m].at = "logout"
    BY <1>9 DEF G!ScrubLogsOut, G!Goes, G!In
  <2>2. w \in ScriptWork /\ w.at = "scrub"
    BY DEF ScriptWork
  <2> HIDE DEF w
  <2>3. Left(g, r, w) /\ r.builder /\ ~ IsOwn(m)
    BY <1>0, <1>00, <2>1 DEF GuestFits, IsOwn
  <2>4. (GuestFits(guests[m], members[m], work[m]))'
    BY <1>0, <1>00, <1>000, <2>1, <2>2, <2>3 DEF GuestFits, Numbered, WillHaveKeys, HasKeysOrBared
  <2>5. ~ IsOwn(m)' /\ ~ KeysAreOwn(m)' /\ (NodeIsOwn(m)' <=> NodeIsOwn(m))
    BY <2>2, <2>3 DEF IsOwn, KeysAreOwn, NodeIsOwn
  <2>6. \A n \in Machines \ {m} : IsOwn(n) /\ guests[n].node # 0 => guests[n].node # g.node
    BY <2>3 DEF GuestInv, NodesApart, NodeIsOwn
  <2>7. UNCHANGED <<image, fresh>> /\ live' = live \ {g.node}
    BY <2>1
  <2>8. /\ members' = [members EXCEPT ![m] = members'[m]] /\ guests' = [guests EXCEPT ![m] = guests'[m]]
        /\ work' = [work EXCEPT ![m] = work'[m]]
    BY <1>e, <2>1
  <2>10. \A n \in Machines \ {m} : IsOwn(n) /\ guests[n].daemon /\ guests[n].node # 0 /\ guests[n].node \in live
                                    => guests[n].node \in live'
    BY <2>6, <2>7
  <2>13. guests'[m] = g /\ members'[m] = r /\ work'[m] = w
    BY <2>3
  <2>11. NodeIsOwn(m)' => NodeIsOwn(m) /\ guests'[m].node = guests[m].node
    BY <2>5, <2>13
  <2>12. g \in GuestStates /\ r \in MemberRows /\ w \in ScriptWork /\ fresh' \in Nat /\ fresh <= fresh'
         /\ live' \in SUBSET Nat /\ image' = image
    <3>1. live \in SUBSET Nat => live \ {g.node} \in SUBSET Nat
      OBVIOUS
    <3>2. fresh \in Nat /\ fresh' = fresh => fresh' \in Nat /\ fresh <= fresh'
      OBVIOUS
    <3> QED
      BY <3>1, <3>2, <1>f, <2>7, <2>2
  <2>9. GuestMoves(m)
    <3>1. guests'[m] \in GuestStates /\ members'[m] \in MemberRows /\ work'[m] \in ScriptWork
      BY <2>12, <2>13
    <3>2. IsOwn(m)' /\ guests'[m].daemon /\ guests'[m].node # 0 => guests'[m].node \in live'
      BY <2>5
    <3>3. ~ KeysAreOwn(m)'
      BY <2>5
    <3>4. NodeIsOwn(m)' => guests'[m].node = 0 \/ guests'[m].node >= fresh \/ (NodeIsOwn(m) /\ guests'[m].node = guests[m].node)
      BY <2>11
    <3> QED
      BY <2>12, <3>1, <3>2, <3>3, <3>4, <2>4, <2>8, <2>10, Zenon DEF GuestMoves
  <2> QED
    BY <2>9, GuestSteps
<1>10. CASE G!ScrubDrops(m)
  <2> DEFINE w == [kind |-> "make", at |-> "made"]
             h == [g EXCEPT !.node = 0, !.daemon = FALSE]
  <2>1. /\ work' = [work EXCEPT ![m] = w] /\ guests' = [guests EXCEPT ![m] = h]
        /\ UNCHANGED <<members, fresh, image, live>> /\ work[m].at = "scrub"
    BY <1>10 DEF G!ScrubDrops, G!Sets, G!Goes, G!Same, G!In
  <2>2. w \in ScriptWork /\ w.at = "made"
    BY DEF ScriptWork
  <2>3. h \in GuestStates /\ h.node = 0 /\ h.instance = g.instance /\ h.keys = g.keys /\ h.wanted = g.wanted /\ h.bared = g.bared
    BY <1>0 DEF GuestStates
  <2> HIDE DEF w, h
  <2>4. Left(h, r, w)
    BY <1>0, <2>1
  <2>5. (GuestFits(guests[m], members[m], work[m]))'
    BY <1>0, <1>00, <1>000, <2>1, <2>2, <2>3, <2>4 DEF GuestFits, Numbered, WillHaveKeys, HasKeysOrBared
  <2>6. (IsOwn(m)' <=> IsOwn(m)) /\ (KeysAreOwn(m)' => KeysAreOwn(m))
    BY <2>2, <2>3, <2>4 DEF IsOwn, KeysAreOwn
  <2>7. UNCHANGED <<image, live, fresh>>
    BY <2>1
  <2>8. /\ members' = [members EXCEPT ![m] = members'[m]] /\ guests' = [guests EXCEPT ![m] = guests'[m]]
        /\ work' = [work EXCEPT ![m] = work'[m]]
    BY <1>e, <2>1
  <2>9. GuestMoves(m)
    BY <1>f, <2>7, <2>2, <2>3, <2>5, <2>6, <2>4, <2>8 DEF GuestMoves
  <2> QED
    BY <2>9, GuestSteps
<1>11. CASE G!BaseMade(m)
  <2> DEFINE q == [r EXCEPT !.made = TRUE]
  <2>1. /\ work' = [work EXCEPT ![m] = G!Idle] /\ members' = [members EXCEPT ![m] = q]
        /\ UNCHANGED <<guests, image, live, fresh>> /\ work[m].at = "made"
    BY <1>11 DEF G!BaseMade, G!Ends, G!Same, G!In
  <2>2. q \in MemberRows /\ q.instance = r.instance /\ q.builder = r.builder /\ q.hostKey = r.hostKey /\ q.prepared = r.prepared /\ q.made
    BY <1>0 DEF MemberRows
  <2> HIDE DEF q
  <2>3. Left(g, q, G!Idle) /\ G!Idle.at = "none"
    BY <1>0, <2>1 DEF G!Idle
  <2>4. (GuestFits(guests[m], members[m], work[m]))'
    BY <1>0, <1>00, <1>000, <2>1, <2>2, <2>3 DEF GuestFits, Numbered, WillHaveKeys, HasKeysOrBared
  <2>5. (IsOwn(m)' <=> IsOwn(m)) /\ (KeysAreOwn(m)' => KeysAreOwn(m)) /\ (NodeIsOwn(m)' <=> NodeIsOwn(m))
    BY <2>2, <2>3 DEF IsOwn, KeysAreOwn, NodeIsOwn
  <2>7. UNCHANGED <<image, live, fresh>>
    BY <2>1
  <2>8. /\ members' = [members EXCEPT ![m] = members'[m]] /\ guests' = [guests EXCEPT ![m] = guests'[m]]
        /\ work' = [work EXCEPT ![m] = work'[m]]
    BY <1>e, <2>1
  <2>9. GuestMoves(m)
    BY <1>f, <2>7, <2>2, <2>4, <2>5, GuestBlanks, <2>3, <2>8 DEF GuestMoves
  <2> QED
    BY <2>9, GuestSteps
<1> QED
  BY <1>1, <1>2, <1>3, <1>4, <1>5, <1>6, <1>7, <1>8, <1>9, <1>10, <1>11, <1>12, <1>13, <1>14 DEF G!ScriptActs

LEMMA GuestIsCut ==
  ASSUME GuestInv, NEW m \in Machines, NEW scrubbed \in BOOLEAN, G!Cut(m, scrubbed)
  PROVE  GuestInv'
<1>1. CASE work[m].kind = "make"
  <2>1. /\ guests' = [guests EXCEPT ![m] = G!NoGuest] /\ members' = [members EXCEPT ![m] = G!NoMember]
        /\ work' = [work EXCEPT ![m] = G!Idle] /\ UNCHANGED <<image, fresh>>
        /\ live' = live \/ (members[m].builder /\ live' = live \ {guests[m].node})
    BY <1>1 DEF G!Cut, G!Sets, G!Ends
  <2>2. \A n \in Machines \ {m} : members[m].builder /\ IsOwn(n) /\ guests[n].node # 0 => guests[n].node # guests[m].node
    BY DEF GuestInv, NodesApart, NodeIsOwn
  <2>3. live' \in SUBSET Nat
    BY <2>1, GuestFacts
  <2>4. \A n \in Machines \ {m} : IsOwn(n) /\ guests[n].daemon /\ guests[n].node # 0 /\ guests[n].node \in live
                                    => guests[n].node \in live'
    BY <2>1, <2>2
  <2> QED
    BY <2>1, <2>3, <2>4, GuestGone
<1>2. CASE work[m].kind # "make"
  <2>1. PICK b \in BOOLEAN : b = (guests[m].bared \/ (work[m].at = "mint" /\ ~ guests[m].wanted))
    OBVIOUS
  <2>2. PICK h : h = [guests[m] EXCEPT !.bared = b]
    OBVIOUS
  <2>3. /\ guests' = [guests EXCEPT ![m] = h] /\ UNCHANGED <<members, image, live, fresh>>
        /\ work' = [work EXCEPT ![m] = G!Idle]
    BY <1>2, <2>1, <2>2, GuestFacts DEF G!Cut, G!Ends, G!In
  <2>4. /\ h \in GuestStates /\ h.instance = guests[m].instance /\ h.keys = guests[m].keys /\ h.node = guests[m].node
        /\ h.wanted = guests[m].wanted /\ h.daemon = guests[m].daemon /\ h.bared = b
    BY <2>2, GuestFacts DEF GuestStates
  <2>5. /\ guests'[m] = h /\ members'[m] = members[m] /\ work'[m] = G!Idle
        /\ members' = [members EXCEPT ![m] = members'[m]] /\ guests' = [guests EXCEPT ![m] = guests'[m]]
        /\ work' = [work EXCEPT ![m] = work'[m]] /\ G!Idle.at = "none"
    BY <2>3, GuestFacts DEF G!Idle
  <2>6. (GuestFits(guests[m], members[m], work[m]))'
    <3>1. members[m].instance # 0 => WillHaveKeys(h)
      <4>1. CASE work[m].at = "mint"
        BY <2>1, <2>4, <4>1 DEF WillHaveKeys
      <4>2. CASE work[m].at # "mint"
        BY <2>1, <2>4, <4>2, GuestFacts DEF GuestFits, WillHaveKeys
      <4> QED
        BY <4>1, <4>2
    <3>2. HasKeysOrBared(guests[m]) => HasKeysOrBared(h)
      BY <2>1, <2>4 DEF HasKeysOrBared
    <3> QED
      BY <2>3, <2>4, <2>5, <3>1, <3>2, GuestFacts DEF GuestFits, Numbered
  <2>7. /\ (IsOwn(m)' <=> IsOwn(m)) /\ (KeysAreOwn(m)' => KeysAreOwn(m)) /\ (NodeIsOwn(m)' <=> NodeIsOwn(m))
    BY <2>4, <2>5 DEF KeysAreOwn, NodeIsOwn, IsOwn
  <2>8. IsOwn(m) /\ guests[m].daemon /\ guests[m].node # 0 => guests[m].node \in live
    BY DEF GuestInv, NodesLive
  <2>9. UNCHANGED <<image, live, fresh>>
    BY <2>3
  <2>10. GuestMoves(m)
    BY <2>4, <2>5, <2>6, <2>7, <2>8, <2>9, GuestFacts, GuestBlanks DEF GuestMoves
  <2> QED
    BY <2>10, GuestSteps
<1> QED
  BY <1>1, <1>2

\* The node the tailnet drops is no machine's that has its daemon up.
LEMMA GuestExpires ==
  ASSUME GuestInv, NEW node, G!Expires(node)
  PROVE  GuestInv'
<1>1. UNCHANGED <<guests, members, work, image, fresh>> /\ live' = live \ {node}
  BY DEF G!Expires
<1>2. GuestTypes' /\ KeysApart' /\ NodesApart' /\ \A m \in Machines : GuestFits(guests[m], members[m], work[m])'
  BY <1>1 DEF GuestInv, GuestTypes, KeysApart, NodesApart, KeysAreOwn, NodeIsOwn, IsOwn, GuestFits, Numbered, WillHaveKeys, HasKeysOrBared
<1>3. NodesLive'
  BY <1>1 DEF GuestInv, NodesLive, IsOwn, G!Expires
<1> QED
  BY <1>2, <1>3 DEF GuestInv

LEMMA GuestBegins ==
  ASSUME G!GuestInit
  PROVE  GuestInv
<1>1. /\ fresh = 2 /\ live = {} /\ image = G!NoGuest
      /\ \A m \in Machines : guests[m] = G!NoGuest /\ members[m] = G!NoMember /\ work[m] = G!Idle
  BY DEF G!GuestInit, G!ImageKeys
<1>2. /\ guests \in [Machines -> GuestStates] /\ members \in [Machines -> MemberRows]
      /\ work \in [Machines -> ScriptWork]
  BY GuestBlanks DEF G!GuestInit
<1>3. GuestTypes
  BY <1>1, <1>2, GuestBlanks DEF GuestTypes, Numbered, G!NoGuest
<1>4. \A m \in Machines : GuestFits(guests[m], members[m], work[m]) /\ ~ KeysAreOwn(m) /\ ~ NodeIsOwn(m) /\ ~ IsOwn(m)
  BY <1>1, GuestBlanks DEF GuestFits, Numbered, WillHaveKeys, HasKeysOrBared, KeysAreOwn, NodeIsOwn, IsOwn, G!NoGuest, G!Idle
<1> QED
  BY <1>3, <1>4 DEF GuestInv, KeysApart, NodesApart, NodesLive

LEMMA GuestStaysInv ==
  ASSUME GuestInv, UNCHANGED guestVars
  PROVE  GuestInv'
BY DEF guestVars, GuestInv, GuestTypes, GuestFits, Numbered, WillHaveKeys, HasKeysOrBared, KeysApart, NodesApart, NodesLive, KeysAreOwn, NodeIsOwn, IsOwn

LEMMA GuestStepsOn ==
  ASSUME GuestInv, G!GuestNext
  PROVE  GuestInv'
<1>1. ASSUME NEW m \in Machines, NEW builder \in BOOLEAN, NEW joins \in BOOLEAN, joins => builder, G!MakeBase(m, builder, joins)
      PROVE  GuestInv'
  BY <1>1, GuestIsMade
<1>2. ASSUME NEW m \in Machines,
             \/ G!Restore(m) \/ (\E s \in Machines \ {m} : G!Fork(s, m))
             \/ G!Capture(m) \/ (\E taken \in BOOLEAN : G!UnkeyCut(m, taken))
             \/ G!Start(m) \/ G!Stop(m) \/ G!Join(m) \/ G!Remove(m)
      PROVE  GuestInv'
  BY <1>2, GuestIsAsked
<1>3. ASSUME NEW m \in Machines, G!ScriptActs(m) PROVE GuestInv'
  BY <1>3, GuestIsScripted
<1>4. ASSUME NEW m \in Machines, NEW scrubbed \in BOOLEAN, G!Cut(m, scrubbed) PROVE GuestInv'
  BY <1>4, GuestIsCut
<1>5. ASSUME NEW node, G!Expires(node) PROVE GuestInv'
  BY <1>5, GuestExpires
<1> QED
  BY <1>1, <1>2, <1>3, <1>4, <1>5 DEF G!GuestNext

\* A prepared machine that is up has its own identity.
LEMMA GuestIsItself ==
  ASSUME GuestInv
  PROVE  OwnIdentity
<1>1. \A m \in Machines : G!Ready(m) => /\ IsOwn(m) /\ KeysAreOwn(m) /\ NodeIsOwn(m)
                                        /\ guests[m].keys = members[m].hostKey
                                        /\ guests[m].keys # 0 \/ guests[m].bared
  BY GuestFacts DEF G!Ready, GuestFits, IsOwn, KeysAreOwn, NodeIsOwn, HasKeysOrBared
<1> QED
  BY <1>1 DEF OwnIdentity, G!OwnIdentity, GuestInv, KeysApart, NodesApart, NodesLive

\* Of Guests (apps/host/src/guest.ts, operations.ts): in any number of machines, copied in any order,
\* and with steps cut after any command that is an action of that module, a prepared machine serves
\* the host key its row has, which no other prepared machine serves, and its tailnet node is its own
\* and still on the tailnet.  It has a host key unless a cut identity took it without a marker, from
\* its VM or from the VM it is a copy of (`bared`).
THEOREM IdentitiesAreOwn == PartsSpec => []OwnIdentity
<1>1. PartsInit => GuestInv
  BY GuestBegins DEF PartsInit
<1>2. GuestInv /\ [PartsNext]_allVars => GuestInv'
  <2> SUFFICES ASSUME GuestInv, [PartsNext]_allVars PROVE GuestInv'
    OBVIOUS
  <2>1. CASE G!GuestNext
    BY <2>1, GuestStepsOn
  <2>2. CASE UNCHANGED guestVars
    BY <2>2, GuestStaysInv
  <2> QED
    BY <2>1, <2>2 DEF PartsNext, allVars, guestVars
<1>3. GuestInv => OwnIdentity
  BY GuestIsItself
<1> QED
  BY <1>1, <1>2, <1>3, PTL DEF PartsSpec, allVars

--------------------------------------------------------------------------------
(* Sums over a finite set. *)

\* Of any subsets of a finite set, some has the fewest elements.
LEMMA LeastSet ==
  ASSUME NEW H, IsFiniteSet(H), NEW Q \in SUBSET SUBSET H, Q # {}
  PROVE  \E s \in Q : Cardinality(s) \in Nat /\ \A t \in Q : Cardinality(s) <= Cardinality(t)
<1>1. \A s \in Q : IsFiniteSet(s) /\ Cardinality(s) \in Nat
  BY FS_Subset, FS_CardinalityType
<1> DEFINE U == {Cardinality(s) : s \in Q}
<1>2. U \in SUBSET Nat /\ U # {}
  BY <1>1
<1>3. PICK n \in U : \A k \in U : n <= k
  BY <1>2, Least
<1> QED
  BY <1>1, <1>3

Picked(s) == CHOOSE x \in s : TRUE

LEMMA PickedIs ==
  ASSUME NEW H, IsFiniteSet(H), NEW s \in SUBSET H, s # {}
  PROVE  /\ Picked(s) \in s /\ Picked(s) \in H /\ s \ {Picked(s)} \in SUBSET H
         /\ Cardinality(s) \in Nat /\ Cardinality(s \ {Picked(s)}) \in Nat
         /\ Cardinality(s \ {Picked(s)}) = Cardinality(s) - 1
<1>1. Picked(s) \in s
  BY DEF Picked
<1>2. IsFiniteSet(s) /\ Cardinality(s) \in Nat
  BY FS_Subset, FS_CardinalityType
<1>3. IsFiniteSet(s \ {Picked(s)}) /\ Cardinality(s \ {Picked(s)}) = Cardinality(s) - 1
  BY <1>1, <1>2, FS_RemoveElement
<1>4. Cardinality(s \ {Picked(s)}) \in Nat
  BY <1>3, FS_CardinalityType
<1> QED
  BY <1>1, <1>2, <1>3, <1>4

\* g sums f over the subsets of H, or over those of at most n elements.
Sums(g, f, H) == g = [s \in SUBSET H |-> IF s = {} THEN 0 ELSE g[s \ {Picked(s)}] + f[Picked(s)]]
Below(H, n) == {s \in SUBSET H : Cardinality(s) <= n}
SumsBelow(g, f, H, n) ==
  g = [s \in Below(H, n) |-> IF s = {} THEN 0 ELSE g[s \ {Picked(s)}] + f[Picked(s)]]

LEMMA SumsUpTo ==
  ASSUME NEW H, IsFiniteSet(H), NEW f
  PROVE  \A n \in Nat : \E g : SumsBelow(g, f, H, n)
<1> DEFINE U == {n \in Nat : ~ \E g : SumsBelow(g, f, H, n)}
<1> SUFFICES ASSUME U # {} PROVE FALSE
  OBVIOUS
<1>1. PICK n \in U : \A k \in U : n <= k
  BY Least
<1>2. \A s \in SUBSET H : IsFiniteSet(s) /\ Cardinality(s) \in Nat
  BY FS_Subset, FS_CardinalityType
<1>3. CASE n = 0
  <2> DEFINE g == [s \in Below(H, 0) |-> 0]
  <2>1. \A s \in Below(H, 0) : s = {}
    BY <1>2, FS_EmptySet DEF Below
  <2>2. SumsBelow(g, f, H, 0)
    BY <2>1 DEF SumsBelow
  <2> QED
    BY <1>1, <1>3, <2>2
<1>4. CASE n # 0
  <2>1. n - 1 \in Nat /\ n - 1 \notin U
    BY <1>1, <1>4
  <2>2. PICK g : SumsBelow(g, f, H, n - 1)
    BY <2>1
  <2> DEFINE h == [s \in Below(H, n) |-> IF s = {} THEN 0 ELSE g[s \ {Picked(s)}] + f[Picked(s)]]
  <2>3. ASSUME NEW s \in Below(H, n), s # {}
        PROVE  h[s \ {Picked(s)}] = g[s \ {Picked(s)}]
    <3> DEFINE t == s \ {Picked(s)}
    <3>1. s \in SUBSET H /\ Cardinality(s) <= n
      BY DEF Below
    <3>2. t \in SUBSET H /\ Cardinality(t) \in Nat /\ Cardinality(t) = Cardinality(s) - 1 /\ Cardinality(s) \in Nat
      BY <2>3, <3>1, PickedIs
    <3>3. t \in Below(H, n - 1) /\ t \in Below(H, n)
      BY <1>1, <3>1, <3>2 DEF Below
    <3> HIDE DEF t
    <3>4. g[t] = IF t = {} THEN 0 ELSE g[t \ {Picked(t)}] + f[Picked(t)]
      BY <2>2, <3>3 DEF SumsBelow
    <3>5. h[t] = IF t = {} THEN 0 ELSE g[t \ {Picked(t)}] + f[Picked(t)]
      BY <3>3
    <3>6. h[t] = g[t]
      BY <3>4, <3>5
    <3> QED
      BY <3>6 DEF t
  <2>4. h = [s \in Below(H, n) |-> IF s = {} THEN 0 ELSE h[s \ {Picked(s)}] + f[Picked(s)]]
    BY <2>3
  <2> HIDE DEF h
  <2>5. SumsBelow(h, f, H, n)
    BY <2>4 DEF SumsBelow
  <2> QED
    BY <1>1, <2>5
<1> QED
  BY <1>3, <1>4

LEMMA SumsExist ==
  ASSUME NEW H, IsFiniteSet(H), NEW f
  PROVE  \E g : Sums(g, f, H)
<1>1. Cardinality(H) \in Nat /\ \A s \in SUBSET H : Cardinality(s) <= Cardinality(H)
  BY FS_Subset, FS_CardinalityType
<1>2. PICK g : SumsBelow(g, f, H, Cardinality(H))
  BY <1>1, SumsUpTo
<1>3. Below(H, Cardinality(H)) = SUBSET H
  BY <1>1 DEF Below
<1> QED
  BY <1>2, <1>3 DEF Sums, SumsBelow

SumOf(f, H) == (CHOOSE g : Sums(g, f, H))[H]

\* How a sum is made up.
LEMMA SumsAre ==
  ASSUME NEW H, IsFiniteSet(H), NEW f \in [H -> Nat]
  PROVE  \E g : /\ SumOf(f, H) = g[H] /\ g \in [SUBSET H -> Nat] /\ g[{}] = 0
                /\ \A s \in SUBSET H : s # {} => g[s] = g[s \ {Picked(s)}] + f[Picked(s)]
<1>1. PICK g : Sums(g, f, H) /\ SumOf(f, H) = g[H]
  BY SumsExist DEF SumOf
<1>2. /\ g = [s \in SUBSET H |-> g[s]] /\ g[{}] = 0
      /\ \A s \in SUBSET H : s # {} => g[s] = g[s \ {Picked(s)}] + f[Picked(s)]
  BY <1>1 DEF Sums
<1>3. ASSUME NEW r \in SUBSET H, g[r] \notin Nat PROVE FALSE
  <2> DEFINE Q == {s \in SUBSET H : g[s] \notin Nat}
  <2>1. PICK s \in Q : Cardinality(s) \in Nat /\ \A t \in Q : Cardinality(s) <= Cardinality(t)
    BY <1>3, LeastSet
  <2>2. s \in SUBSET H /\ s # {} /\ g[s] \notin Nat
    <3>1. s \in SUBSET H /\ g[s] \notin Nat
      OBVIOUS
    <3>2. g[{}] = 0
      BY <1>2
    <3> QED
      BY <3>1, <3>2
  <2>3. s \ {Picked(s)} \notin Q /\ s \ {Picked(s)} \in SUBSET H /\ Picked(s) \in H
    BY <2>1, <2>2, PickedIs
  <2>4. g[s \ {Picked(s)}] \in Nat /\ f[Picked(s)] \in Nat
    BY <2>3
  <2>5. g[s] = g[s \ {Picked(s)}] + f[Picked(s)]
    BY <1>2, <2>2
  <2> QED
    BY <2>2, <2>4, <2>5
<1> QED
  BY <1>1, <1>2, <1>3

LEMMA SumIsNat ==
  ASSUME NEW H, IsFiniteSet(H), NEW f \in [H -> Nat]
  PROVE  SumOf(f, H) \in Nat
<1>1. \E g : SumOf(f, H) = g[H] /\ g \in [SUBSET H -> Nat]
  BY SumsAre
<1> QED
  BY <1>1

\* What is no more anywhere sums to no more.
LEMMA SumsGrow ==
  ASSUME NEW H, IsFiniteSet(H), NEW f \in [H -> Nat], NEW e \in [H -> Nat], \A x \in H : f[x] <= e[x]
  PROVE  SumOf(f, H) <= SumOf(e, H)
<1>1. PICK g : /\ SumOf(f, H) = g[H] /\ g \in [SUBSET H -> Nat] /\ g[{}] = 0
               /\ \A s \in SUBSET H : s # {} => g[s] = g[s \ {Picked(s)}] + f[Picked(s)]
  BY SumsAre
<1>2. PICK h : /\ SumOf(e, H) = h[H] /\ h \in [SUBSET H -> Nat] /\ h[{}] = 0
               /\ \A s \in SUBSET H : s # {} => h[s] = h[s \ {Picked(s)}] + e[Picked(s)]
  BY SumsAre
<1>3. ASSUME NEW r \in SUBSET H, ~ (g[r] <= h[r]) PROVE FALSE
  <2> DEFINE Q == {s \in SUBSET H : ~ (g[s] <= h[s])}
  <2>1. PICK s \in Q : Cardinality(s) \in Nat /\ \A t \in Q : Cardinality(s) <= Cardinality(t)
    BY <1>3, LeastSet
  <2>2. s \in SUBSET H /\ s # {} /\ ~ (g[s] <= h[s])
    <3>1. s \in SUBSET H /\ ~ (g[s] <= h[s])
      OBVIOUS
    <3>2. g[{}] <= h[{}]
      BY <1>1, <1>2
    <3> QED
      BY <3>1, <3>2
  <2>3. s \ {Picked(s)} \notin Q /\ s \ {Picked(s)} \in SUBSET H /\ Picked(s) \in H
    BY <2>1, <2>2, PickedIs
  <2>4. g[s \ {Picked(s)}] <= h[s \ {Picked(s)}] /\ f[Picked(s)] <= e[Picked(s)]
    BY <2>3
  <2>5. /\ g[s \ {Picked(s)}] \in Nat /\ h[s \ {Picked(s)}] \in Nat /\ f[Picked(s)] \in Nat /\ e[Picked(s)] \in Nat
    BY <1>1, <1>2, <2>3
  <2> QED
    BY <1>1, <1>2, <2>2, <2>4, <2>5
<1> QED
  BY <1>1, <1>2, <1>3

\* Sums that differ at one place differ by what is there.
LEMMA SumsDiffer ==
  ASSUME NEW H, IsFiniteSet(H), NEW f \in [H -> Nat], NEW e \in [H -> Nat], NEW n
  PROVE  n \in H /\ (\A x \in H \ {n} : e[x] = f[x]) => SumOf(e, H) + f[n] = SumOf(f, H) + e[n]
<1>1. PICK g : /\ SumOf(f, H) = g[H] /\ g \in [SUBSET H -> Nat] /\ g[{}] = 0
               /\ \A s \in SUBSET H : s # {} => g[s] = g[s \ {Picked(s)}] + f[Picked(s)]
  BY SumsAre
<1>2. PICK h : /\ SumOf(e, H) = h[H] /\ h \in [SUBSET H -> Nat] /\ h[{}] = 0
               /\ \A s \in SUBSET H : s # {} => h[s] = h[s \ {Picked(s)}] + e[Picked(s)]
  BY SumsAre
<1> SUFFICES ASSUME n \in H, \A x \in H \ {n} : e[x] = f[x]
             PROVE  SumOf(e, H) + f[n] = SumOf(f, H) + e[n]
  OBVIOUS
<1> DEFINE Same(s) == h[s] + (IF n \in s THEN f[n] ELSE 0) = g[s] + (IF n \in s THEN e[n] ELSE 0)
<1>3. ASSUME NEW r \in SUBSET H, ~ Same(r) PROVE FALSE
  <2> DEFINE Q == {s \in SUBSET H : ~ Same(s)}
  <2>1. PICK s \in Q : Cardinality(s) \in Nat /\ \A t \in Q : Cardinality(s) <= Cardinality(t)
    BY <1>3, LeastSet
  <2>2. s \in SUBSET H /\ s # {} /\ ~ Same(s)
    <3>1. s \in SUBSET H /\ ~ Same(s)
      OBVIOUS
    <3>2. Same({})
      BY <1>1, <1>2
    <3> QED
      BY <3>1, <3>2
  <2> DEFINE t == s \ {Picked(s)}
  <2>3. t \notin Q /\ t \in SUBSET H /\ Picked(s) \in H /\ Picked(s) \in s
    BY <2>1, <2>2, PickedIs
  <2>4. Same(t)
    BY <2>3
  <2>5. /\ h[s] = h[t] + e[Picked(s)] /\ g[s] = g[t] + f[Picked(s)]
        /\ f[Picked(s)] \in Nat /\ e[Picked(s)] \in Nat /\ g[t] \in Nat /\ h[t] \in Nat /\ f[n] \in Nat /\ e[n] \in Nat
    BY <1>1, <1>2, <2>2, <2>3
  <2>6. CASE Picked(s) = n
    <3>1. n \notin t /\ n \in s
      BY <2>3, <2>6
    <3> HIDE DEF t
    <3>2. h[t] = g[t] /\ ~ (h[s] + f[n] = g[s] + e[n])
      BY <2>2, <2>4, <2>5, <3>1
    <3> QED
      BY <2>5, <2>6, <3>2
  <2>7. CASE Picked(s) # n
    <3>1. (n \in t <=> n \in s) /\ e[Picked(s)] = f[Picked(s)]
      BY <2>3, <2>7
    <3> HIDE DEF t
    <3> QED
      BY <2>2, <2>4, <2>5, <3>1
  <2> QED
    BY <2>6, <2>7
<1>4. Same(H)
  BY <1>3
<1> QED
  BY <1>1, <1>2, <1>4

\* The sum of Rooms is such a sum.
LEMMA TotalIsSum ==
  ASSUME NEW f
  PROVE  R!Total(f) = SumOf(f, Hosted)
BY DEF R!Total, R!FoldSet, R!MapThenFoldSet, SumOf, Sums, Picked
--------------------------------------------------------------------------------
(* Rooms. *)

RoomRows == [ram : 0..Budget, port : BOOLEAN]
RoomVms == [state : {"missing", "running", "paused", "stopped"}, ram : 0..Budget]
RoomSteps == [kind : {"make", "start", "stop", "pause", "resize", "remove"}, to : R!Sizes,
              at : {"begun", "sent", "asking", "observing", "acting", "up", "ended"},
              among : [Hosted -> Nat], held : [Hosted -> Nat], sure : SUBSET Hosted]

RoomTypes ==
  /\ listed \in [Hosted -> RoomRows] /\ vmNow \in [Hosted -> RoomVms]
  /\ under \in [Hosted -> RoomSteps \cup {R!Idle}] /\ booting \in [Hosted -> Nat]
  /\ overlooked \in BOOLEAN

\* A machine's operation u beside its row l, its VM v and the RAM b admitted of it: the VM has what
\* the row lists, until a resize has run, and what is admitted is what the operation may run with.
RoomFits(u, l, v, b) ==
  /\ v.state = "missing" <=> v = R!NoVm
  /\ l = R!NoRow => u = R!Idle /\ v = R!NoVm
  /\ v = R!NoVm \/ v.ram = l.ram \/ (u # R!Idle /\ u.kind = "resize" /\ u.at \in {"up", "ended"})
  /\ u # R!Idle /\ u.kind # "resize" => u.to = l.ram
  /\ u # R!Idle /\ u.kind \in {"start", "resize"} /\ u.at \in {"asking", "observing", "acting"} => v # R!NoVm
  /\ u # R!Idle /\ u.kind = "resize" /\ u.at \in {"asking", "observing"} => u.to >= l.ram
  /\ b > 0 => u # R!Idle /\ u.at \in {"acting", "up"} /\ b = u.to
  /\ b > 0 /\ v.state = "running" => v.ram <= b

\* What a machine may run with: what is admitted of it, or what it runs with.
Load(v, b) == IF b > 0 THEN b ELSE IF v.state = "running" THEN v.ram ELSE 0
Loads == [n \in Hosted |-> Load(vmNow[n], booting[n])]

\* One admission at a time holds the permit, and counts no machine for less than its load.
PermitIsHeld == \A n \in Hosted : admission = n <=> under[n] # R!Idle /\ under[n].at = "observing"
CountsAll ==
  \A n, m \in Hosted : admission = n =>
    /\ under[n].held[n] = 0
    /\ m # n => /\ booting[m] > 0 => m \in under[n].sure
                /\ overlooked \/ Loads[m] <= under[n].held[m]

RoomInv ==
  /\ RoomTypes /\ \A n \in Hosted : RoomFits(under[n], listed[n], vmNow[n], booting[n])
  /\ PermitIsHeld /\ CountsAll
  /\ overlooked \/ R!Total(Loads) <= Budget

\* The host's machines are finitely many, and none is named as the free permit is.
RoomNames == IsFiniteSet(Hosted) /\ Budget \in Nat /\ "free" \notin Hosted

LEMMA RoomFacts ==
  ASSUME RoomNames, RoomInv
  PROVE  /\ listed \in [Hosted -> RoomRows] /\ vmNow \in [Hosted -> RoomVms]
         /\ under \in [Hosted -> RoomSteps \cup {R!Idle}] /\ booting \in [Hosted -> Nat]
         /\ overlooked \in BOOLEAN
         /\ Loads \in [Hosted -> Nat] /\ R!Total(Loads) \in Nat
<1>1. /\ listed \in [Hosted -> RoomRows] /\ vmNow \in [Hosted -> RoomVms]
      /\ under \in [Hosted -> RoomSteps \cup {R!Idle}] /\ booting \in [Hosted -> Nat]
      /\ overlooked \in BOOLEAN
  BY DEF RoomInv, RoomTypes
<1>2. Loads \in [Hosted -> Nat]
  BY <1>1 DEF Loads, Load, RoomVms, RoomNames
<1> QED
  BY <1>1, <1>2, TotalIsSum, SumIsNat DEF RoomNames

\* What is one machine's.
LEMMA RoomOf ==
  ASSUME RoomNames, RoomInv, NEW n \in Hosted
  PROVE  /\ listed[n] \in RoomRows /\ vmNow[n] \in RoomVms /\ under[n] \in RoomSteps \cup {R!Idle}
         /\ booting[n] \in Nat /\ booting[n] >= 0
         /\ listed[n].ram \in 0..Budget /\ listed[n].port \in BOOLEAN /\ listed[n].ram \in Nat
         /\ vmNow[n].state \in {"missing", "running", "paused", "stopped"} /\ vmNow[n].ram \in 0..Budget
         /\ vmNow[n].ram \in Nat
         /\ under[n] # R!Idle => /\ under[n] \in RoomSteps /\ under[n].to \in 1..Budget /\ under[n].to \in Nat
                                 /\ under[n].kind \in {"make", "start", "stop", "pause", "resize", "remove"}
                                 /\ under[n].kind # "none" /\ under[n].to > 0
         /\ under[n] = R!Idle => under[n].kind = "none"
         /\ RoomFits(under[n], listed[n], vmNow[n], booting[n])
         /\ Loads[n] = Load(vmNow[n], booting[n]) /\ Loads[n] \in Nat
<1>1. /\ listed[n] \in RoomRows /\ vmNow[n] \in RoomVms /\ under[n] \in RoomSteps \cup {R!Idle}
      /\ booting[n] \in Nat /\ RoomFits(under[n], listed[n], vmNow[n], booting[n]) /\ Loads[n] \in Nat
  BY RoomFacts DEF RoomInv
<1> QED
  BY <1>1 DEF RoomRows, RoomVms, RoomSteps, R!Sizes, R!Idle, RoomNames, Loads

\* A step of one machine n: it leaves or keeps its permit, its load grows only where it is overlooked.
RoomMoves(n) ==
  /\ under' = [under EXCEPT ![n] = under'[n]] /\ under'[n] \in RoomSteps \cup {R!Idle}
  /\ listed' = [listed EXCEPT ![n] = listed'[n]] /\ listed'[n] \in RoomRows
  /\ vmNow' = [vmNow EXCEPT ![n] = vmNow'[n]] /\ vmNow'[n] \in RoomVms
  /\ booting' = [booting EXCEPT ![n] = booting'[n]] /\ booting'[n] \in {0, booting[n]}
  /\ overlooked' \in BOOLEAN /\ (overlooked => overlooked')
  /\ overlooked' \/ Load(vmNow'[n], booting'[n]) <= Load(vmNow[n], booting[n])
  /\ RoomFits(under'[n], listed'[n], vmNow'[n], booting'[n])
  /\ admission' = admission \/ (admission = n /\ admission' = "free")
  /\ admission' = n <=> under'[n] # R!Idle /\ under'[n].at = "observing"
  /\ admission' = n => under'[n] = under[n]

LEMMA RoomSteps1 ==
  ASSUME RoomNames, RoomInv, NEW n \in Hosted, RoomMoves(n)
  PROVE  RoomInv'
<1>1. /\ \A m \in Hosted \ {n} : /\ under'[m] = under[m] /\ listed'[m] = listed[m] /\ vmNow'[m] = vmNow[m]
                                 /\ booting'[m] = booting[m] /\ Loads'[m] = Loads[m]
      /\ Loads[n] = Load(vmNow[n], booting[n]) /\ Loads'[n] = Load(vmNow'[n], booting'[n])
  BY RoomFacts DEF RoomMoves, Loads
<1>2. RoomTypes'
  BY RoomFacts DEF RoomMoves, RoomTypes
<1>3. \A m \in Hosted : (RoomFits(under[m], listed[m], vmNow[m], booting[m]))'
  <2>1. ASSUME NEW m \in Hosted \ {n} PROVE RoomFits(under'[m], listed'[m], vmNow'[m], booting'[m])
    BY <1>1, RoomOf
  <2>2. \A m \in Hosted : RoomFits(under'[m], listed'[m], vmNow'[m], booting'[m])
    BY <2>1 DEF RoomMoves
  <2> QED
    BY <2>2 DEF RoomFits, R!NoVm, R!NoRow, R!Idle
<1>4. PermitIsHeld'
  BY <1>1 DEF RoomMoves, RoomInv, PermitIsHeld, RoomNames
<1>5. \A m \in Hosted : overlooked' \/ Loads'[m] <= Loads[m]
  BY <1>1, RoomOf DEF RoomMoves
<1>6. Loads' \in [Hosted -> Nat]
  BY <1>2 DEF RoomTypes, Loads, Load, RoomVms, RoomNames
<1>7. CountsAll'
  <2> SUFFICES ASSUME NEW k \in Hosted, NEW m \in Hosted, admission' = k
               PROVE  /\ under'[k].held[k] = 0
                      /\ m # k => /\ booting'[m] > 0 => m \in under'[k].sure
                                  /\ overlooked' \/ Loads'[m] <= under'[k].held[m]
    BY DEF CountsAll
  <2>1. admission = k /\ under'[k] = under[k]
    BY <1>1 DEF RoomMoves, RoomNames
  <2>2. /\ under[k].held[k] = 0
        /\ m # k => /\ booting[m] > 0 => m \in under[k].sure
                    /\ overlooked \/ Loads[m] <= under[k].held[m]
    BY <2>1 DEF RoomInv, CountsAll
  <2>3. under[k].held[m] \in Nat /\ Loads[m] \in Nat /\ Loads'[m] \in Nat
    <3>1. under[k] \in RoomSteps
      BY <2>1, RoomOf DEF RoomInv, PermitIsHeld
    <3> QED
      BY <1>6, <3>1, RoomOf DEF RoomSteps
  <2>4. booting'[m] > 0 => booting[m] > 0
    BY <1>1, RoomOf DEF RoomMoves
  <2>5. overlooked => overlooked'
    BY DEF RoomMoves
  <2> QED
    BY <1>5, <2>1, <2>2, <2>3, <2>4, <2>5
<1>8. overlooked' \/ R!Total(Loads') <= Budget
  <2> SUFFICES ASSUME ~ overlooked' PROVE R!Total(Loads') <= Budget
    OBVIOUS
  <2>1. R!Total(Loads) <= Budget
    BY DEF RoomInv, RoomMoves
  <2>2. R!Total(Loads') <= R!Total(Loads)
    BY <1>5, <1>6, RoomFacts, TotalIsSum, SumsGrow DEF RoomNames
  <2>3. R!Total(Loads') \in Nat
    BY <1>6, TotalIsSum, SumIsNat DEF RoomNames
  <2> QED
    BY <2>1, <2>2, <2>3, RoomFacts DEF RoomNames
<1>9. (R!Total(Loads))' = R!Total(Loads')
  BY DEF R!Total, R!FoldSet, R!MapThenFoldSet
<1> QED
  BY <1>2, <1>3, <1>4, <1>7, <1>8, <1>9 DEF RoomInv

\* What an assignment at one machine leaves.
LEMMA RoomAt ==
  ASSUME RoomNames, RoomInv, NEW n \in Hosted
  PROVE  /\ \A h : under' = [under EXCEPT ![n] = h] => under'[n] = h /\ under' = [under EXCEPT ![n] = under'[n]]
         /\ \A h : listed' = [listed EXCEPT ![n] = h] => listed'[n] = h /\ listed' = [listed EXCEPT ![n] = listed'[n]]
         /\ \A h : vmNow' = [vmNow EXCEPT ![n] = h] => vmNow'[n] = h /\ vmNow' = [vmNow EXCEPT ![n] = vmNow'[n]]
         /\ \A h : booting' = [booting EXCEPT ![n] = h] => booting'[n] = h /\ booting' = [booting EXCEPT ![n] = booting'[n]]
         /\ UNCHANGED under => under'[n] = under[n] /\ under' = [under EXCEPT ![n] = under'[n]]
         /\ UNCHANGED listed => listed'[n] = listed[n] /\ listed' = [listed EXCEPT ![n] = listed'[n]]
         /\ UNCHANGED vmNow => vmNow'[n] = vmNow[n] /\ vmNow' = [vmNow EXCEPT ![n] = vmNow'[n]]
         /\ UNCHANGED booting => booting'[n] = booting[n] /\ booting' = [booting EXCEPT ![n] = booting'[n]]
BY RoomFacts

\* An operation that goes on is the same operation.
LEMMA RoomGoes ==
  ASSUME RoomNames, RoomInv, NEW n \in Hosted, under[n] # R!Idle,
         NEW a \in {"begun", "sent", "asking", "observing", "acting", "up", "ended"}, R!Goes(n, a)
  PROVE  /\ under' = [under EXCEPT ![n] = under'[n]] /\ under'[n] \in RoomSteps /\ under'[n] # R!Idle
         /\ under'[n].at = a /\ under'[n].kind = under[n].kind /\ under'[n].to = under[n].to
<1> DEFINE h == [under[n] EXCEPT !.at = a]
<1>1. under' = [under EXCEPT ![n] = h]
  BY DEF R!Goes
<1>2. h \in RoomSteps /\ h.at = a /\ h.kind = under[n].kind /\ h.to = under[n].to
  BY RoomOf DEF RoomSteps
<1> HIDE DEF h
<1>3. h # R!Idle
  BY <1>2 DEF RoomSteps, R!Idle
<1> QED
  BY <1>1, <1>2, <1>3, RoomAt

\* A step of the host that only moves the operation on, to neither an admission nor past one.
LEMMA RoomOnlyGoes ==
  ASSUME RoomNames, RoomInv, NEW n \in Hosted, under[n] # R!Idle,
         NEW a \in {"sent", "asking", "acting", "up", "ended"}, R!Goes(n, a),
         UNCHANGED <<listed, vmNow, booting, overlooked>>,
         admission' = admission \/ (admission = n /\ admission' = "free"), admission' # n,
         RoomFits(under'[n], listed[n], vmNow[n], booting[n])
  PROVE  RoomInv'
<1>1. /\ under' = [under EXCEPT ![n] = under'[n]] /\ under'[n] \in RoomSteps
      /\ under'[n].at = a
  BY RoomGoes
<1>2. RoomMoves(n)
  BY <1>1, RoomAt, RoomOf, RoomFacts DEF RoomMoves
<1> QED
  BY <1>2, RoomSteps1

LEMMA RoomIsAsked ==
  ASSUME RoomNames, RoomInv, NEW n \in Hosted,
         \/ \E kind \in {"make", "start", "stop", "pause", "resize", "remove"}, to \in R!Sizes : R!Begins(n, kind, to)
         \/ R!Sends(n) \/ R!Ran(n) \/ R!Hears(n)
  PROVE  RoomInv'
<1>0. admission = n <=> under[n] # R!Idle /\ under[n].at = "observing"
  BY DEF RoomInv, PermitIsHeld
<1>1. ASSUME NEW kind \in {"make", "start", "stop", "pause", "resize", "remove"}, NEW to \in R!Sizes, R!Begins(n, kind, to)
      PROVE  RoomInv'
  <2> DEFINE u == [kind |-> kind, to |-> to, at |-> "begun", among |-> R!Nowhere, held |-> R!Nowhere, sure |-> {}]
  <2>1. /\ under' = [under EXCEPT ![n] = u] /\ under[n] = R!Idle /\ UNCHANGED <<vmNow, booting, admission, overlooked>>
        /\ (kind = "make") = (listed[n] = R!NoRow) /\ (kind \notin {"make", "resize"} => to = listed[n].ram)
        /\ listed' = IF kind = "make" THEN [listed EXCEPT ![n] = [ram |-> to, port |-> FALSE]] ELSE listed
    BY <1>1 DEF R!Begins
  <2>2. u \in RoomSteps /\ u.kind = kind /\ u.to = to /\ u.at = "begun" /\ u # R!Idle
    BY DEF RoomSteps, R!Nowhere, R!Idle
  <2> HIDE DEF u
  <2>3. under'[n] = u /\ under' = [under EXCEPT ![n] = under'[n]]
    BY <2>1, RoomAt
  <2>4. to \in 1..Budget /\ to \in Nat /\ to > 0
    BY DEF R!Sizes, RoomNames
  <2>5. PICK l \in RoomRows : /\ listed'[n] = l /\ listed' = [listed EXCEPT ![n] = listed'[n]] /\ l # R!NoRow
                              /\ IF kind = "make" THEN l.ram = to ELSE l = listed[n]
    <3>1. CASE kind = "make"
      <4> DEFINE l == [ram |-> to, port |-> FALSE]
      <4>1. l \in RoomRows /\ l # R!NoRow /\ l.ram = to
        BY <2>4 DEF RoomRows, R!NoRow
      <4>2. listed' = [listed EXCEPT ![n] = l]
        BY <2>1, <3>1
      <4> HIDE DEF l
      <4>3. listed'[n] = l /\ listed' = [listed EXCEPT ![n] = listed'[n]]
        BY <4>2, RoomAt
      <4> QED
        BY <3>1, <4>1, <4>3
    <3>2. CASE kind # "make"
      BY <2>1, <3>2, RoomAt, RoomOf
    <3> QED
      BY <3>1, <3>2
  <2>6. booting[n] = 0 /\ (vmNow[n] = R!NoVm \/ vmNow[n].ram = listed[n].ram) /\ (vmNow[n].state = "missing" <=> vmNow[n] = R!NoVm)
        /\ (listed[n] = R!NoRow => vmNow[n] = R!NoVm)
    BY <2>1, RoomOf DEF RoomFits
  <2>7. RoomFits(u, l, vmNow[n], booting[n])
    BY <2>1, <2>2, <2>4, <2>5, <2>6 DEF RoomFits
  <2>8. admission' # n
    BY <1>0, <2>1
  <2>9. UNCHANGED <<vmNow, booting, admission, overlooked>>
    BY <2>1
  <2>10. RoomMoves(n)
    BY <2>2, <2>3, <2>5, <2>7, <2>8, <2>9, RoomAt, RoomOf, RoomFacts DEF RoomMoves
  <2> QED
    BY <2>10, RoomSteps1
<1>2. CASE R!Sends(n)
  <2> DEFINE u == [[under[n] EXCEPT !.at = "sent"] EXCEPT !.among = R!Others(n)]
  <2>1. /\ under' = [under EXCEPT ![n] = u] /\ under[n] # R!Idle /\ under[n].at = "begun"
        /\ UNCHANGED <<listed, vmNow, booting, admission, overlooked>>
    BY <1>2, RoomFacts DEF R!Sends
  <2>2. R!Others(n) \in [Hosted -> Nat]
    BY RoomOf DEF R!Others
  <2>3. u \in RoomSteps /\ u.at = "sent" /\ u.kind = under[n].kind /\ u.to = under[n].to
    BY <2>1, <2>2, RoomOf DEF RoomSteps
  <2> HIDE DEF u
  <2>4. under'[n] = u /\ under' = [under EXCEPT ![n] = under'[n]] /\ u # R!Idle
    <3>1. u # R!Idle
      BY <2>1, <2>3, RoomOf DEF R!Idle
    <3> QED
      BY <2>1, <3>1, RoomAt
  <2>5. RoomFits(u, listed[n], vmNow[n], booting[n])
    BY <2>1, <2>3, <2>4, RoomOf DEF RoomFits
  <2>6. UNCHANGED <<listed, vmNow, booting, admission, overlooked>> /\ admission # n
    BY <1>0, <2>1
  <2>7. RoomMoves(n)
    BY <2>3, <2>4, <2>5, <2>6, RoomAt, RoomOf, RoomFacts DEF RoomMoves
  <2> QED
    BY <2>7, RoomSteps1
<1>3. CASE R!Ran(n)
  <2> DEFINE l == [listed[n] EXCEPT !.port = TRUE]
  <2>1. /\ listed' = [listed EXCEPT ![n] = l] /\ UNCHANGED <<under, vmNow, booting, admission, overlooked>>
        /\ under[n].kind = "make" /\ under[n] # R!Idle
    BY <1>3, RoomOf DEF R!Ran
  <2>2. l \in RoomRows /\ l.ram = listed[n].ram /\ l # R!NoRow
    BY RoomOf DEF RoomRows, R!NoRow
  <2> HIDE DEF l
  <2>3. listed'[n] = l /\ listed' = [listed EXCEPT ![n] = listed'[n]]
    BY <2>1, RoomAt
  <2>4. RoomFits(under[n], l, vmNow[n], booting[n])
    BY <2>1, <2>2, RoomOf DEF RoomFits
  <2>5. UNCHANGED <<under, vmNow, booting, admission, overlooked>>
    BY <2>1
  <2>6. RoomMoves(n)
    BY <1>0, <2>2, <2>3, <2>4, <2>5, RoomAt, RoomOf, RoomFacts DEF RoomMoves
  <2> QED
    BY <2>6, RoomSteps1
<1>4. CASE R!Hears(n)
  <2> DEFINE l == IF vmNow[n] = R!NoVm THEN R!NoRow ELSE R!RowAfter(n)
  <2>1. /\ listed' = [listed EXCEPT ![n] = l] /\ under' = [under EXCEPT ![n] = R!Idle]
        /\ UNCHANGED <<vmNow, booting, admission, overlooked>>
        /\ under[n] # R!Idle /\ under[n].at = "ended" /\ (under[n].kind = "remove" => vmNow[n] = R!NoVm)
    BY <1>4 DEF R!Hears
  <2>2. l \in RoomRows /\ (vmNow[n] = R!NoVm \/ (l.ram = vmNow[n].ram /\ l # R!NoRow))
    <3>1. CASE vmNow[n] = R!NoVm
      BY <3>1 DEF RoomRows, R!NoRow, RoomNames
    <3>2. CASE vmNow[n] # R!NoVm
      <4>1. l = [ram |-> IF under[n].kind = "resize" THEN vmNow[n].ram ELSE listed[n].ram, port |-> TRUE]
        BY <2>1, <3>2 DEF R!RowAfter, R!ReadBack
      <4>2. under[n].kind # "resize" => vmNow[n].ram = listed[n].ram
        BY <2>1, <3>2, RoomOf DEF RoomFits
      <4>3. PICK size \in 0..Budget : /\ size = IF under[n].kind = "resize" THEN vmNow[n].ram ELSE listed[n].ram
                                     /\ size = vmNow[n].ram
        BY <4>2, RoomOf
      <4>4. l = [ram |-> size, port |-> TRUE]
        BY <4>1, <4>3
      <4>5. [ram |-> size, port |-> TRUE] \in RoomRows
        BY DEF RoomRows
      <4>6. [ram |-> size, port |-> TRUE] # R!NoRow
        BY DEF R!NoRow
      <4> HIDE DEF l
      <4> QED
        BY <4>3, <4>4, <4>5, <4>6
    <3> QED
      BY <3>1, <3>2
  <2> HIDE DEF l
  <2>3. listed'[n] = l /\ listed' = [listed EXCEPT ![n] = listed'[n]] /\ under'[n] = R!Idle /\ under' = [under EXCEPT ![n] = under'[n]]
    BY <2>1, RoomAt
  <2>4. RoomFits(R!Idle, l, vmNow[n], booting[n])
    BY <2>1, <2>2, RoomOf DEF RoomFits
  <2>5. UNCHANGED <<vmNow, booting, admission, overlooked>> /\ admission # n
    BY <1>0, <2>1
  <2>6. RoomMoves(n)
    BY <2>2, <2>3, <2>4, <2>5, RoomAt, RoomOf, RoomFacts DEF RoomMoves
  <2> QED
    BY <2>6, RoomSteps1
<1> QED
  BY <1>1, <1>2, <1>3, <1>4

LEMMA RoomSees ==
  ASSUME RoomNames, RoomInv, NEW n \in Hosted,
         R!MakeAsks(n) \/ R!StartSees(n) \/ R!StopSees(n) \/ R!ResizeSees(n) \/ R!PlainSees(n)
  PROVE  RoomInv'
<1>1. /\ UNCHANGED <<listed, vmNow, booting, overlooked, admission>>
      /\ under[n].at = "sent" /\ under[n].kind \in {"make", "start", "stop", "pause", "resize", "remove"}
  BY DEF R!MakeAsks, R!StartSees, R!StopSees, R!ResizeSees, R!PlainSees, R!Quiet, R!At
<1>2. under[n] # R!Idle
  BY <1>1, RoomOf
<1>3. admission # n
  BY <1>1 DEF RoomInv, PermitIsHeld
<1>4. PICK a \in {"asking", "acting", "ended"} :
        /\ R!Goes(n, a)
        /\ a # "ended" /\ under[n].kind \in {"start", "resize"} => vmNow[n].state # "missing"
        /\ a = "asking" /\ under[n].kind = "resize" => under[n].to >= listed[n].ram
  <2>1. CASE R!MakeAsks(n) \/ R!StopSees(n) \/ R!PlainSees(n)
    BY <2>1 DEF R!MakeAsks, R!StopSees, R!PlainSees, R!At
  <2>2. CASE R!StartSees(n)
    BY <2>2, RoomOf DEF R!StartSees, R!At, R!StateNow
  <2>3. CASE R!ResizeSees(n)
    <3>1. CASE vmNow[n].state \in {"missing", "paused"}
      BY <2>3, <3>1 DEF R!ResizeSees, R!At, R!StateNow
    <3>2. CASE vmNow[n].state = "running" /\ under[n].to < listed[n].ram
      BY <2>3, <3>2 DEF R!ResizeSees, R!At, R!StateNow
    <3>3. CASE vmNow[n].state = "running" /\ under[n].to >= listed[n].ram
      BY <1>2, <2>3, <3>3, RoomOf DEF R!ResizeSees, R!At, R!StateNow
    <3>4. CASE vmNow[n].state = "stopped"
      BY <2>3, <3>4 DEF R!ResizeSees, R!At, R!StateNow
    <3> QED
      BY <1>2, <3>1, <3>2, <3>3, <3>4, RoomOf
  <2> QED
    BY <2>1, <2>2, <2>3
<1>5. /\ under'[n] # R!Idle /\ under'[n].at = a /\ under'[n].kind = under[n].kind /\ under'[n].to = under[n].to
  BY <1>2, <1>4, RoomGoes
<1>6. RoomFits(under'[n], listed[n], vmNow[n], booting[n])
  BY <1>1, <1>2, <1>4, <1>5, RoomOf DEF RoomFits
<1> QED
  BY <1>1, <1>2, <1>3, <1>4, <1>6, RoomOnlyGoes

LEMMA RoomActs ==
  ASSUME RoomNames, RoomInv, NEW n \in Hosted,
         R!Boots(n) \/ R!Resizes(n) \/ R!StopResumes(n) \/ R!Leaves(n) \/ R!VmStops(n)
  PROVE  RoomInv'
<1>0. admission = n <=> under[n] # R!Idle /\ under[n].at = "observing"
  BY DEF RoomInv, PermitIsHeld
<1> DEFINE VmIs(state, ram) == vmNow' = [vmNow EXCEPT ![n] = [state |-> state, ram |-> ram]]
<1>1. \A state \in {"missing", "running", "paused", "stopped"}, ram \in 0..Budget : VmIs(state, ram) =>
        /\ vmNow' = [vmNow EXCEPT ![n] = vmNow'[n]] /\ vmNow'[n] \in RoomVms
        /\ vmNow'[n].state = state /\ vmNow'[n].ram = ram /\ vmNow'[n] = [state |-> state, ram |-> ram]
  BY RoomAt, RoomFacts DEF RoomVms
<1>2. CASE R!Boots(n)
  <2> DEFINE ram == IF under[n].kind = "make" THEN under[n].to ELSE vmNow[n].ram
  <2>1. /\ VmIs("running", ram) /\ R!Goes(n, "up") /\ UNCHANGED <<listed, booting, admission>>
        /\ under[n].at = "acting" /\ under[n].kind \in {"make", "start"}
        /\ overlooked' = (overlooked \/ (booting[n] = 0 /\ vmNow[n].state # "running"))
    BY <1>2 DEF R!Boots, R!Becomes, R!At
  <2>2. under[n] # R!Idle
    BY <2>1, RoomOf
  <2>3. ram \in 0..Budget /\ ram = listed[n].ram /\ ram \in Nat
    BY <2>1, <2>2, RoomOf DEF RoomFits, RoomNames
  <2>4. /\ under' = [under EXCEPT ![n] = under'[n]] /\ under'[n] \in RoomSteps /\ under'[n] # R!Idle
        /\ under'[n].at = "up" /\ under'[n].kind = under[n].kind /\ under'[n].to = under[n].to
    BY <2>1, <2>2, RoomGoes
  <2> HIDE DEF ram
  <2>5. /\ vmNow' = [vmNow EXCEPT ![n] = vmNow'[n]] /\ vmNow'[n] \in RoomVms
        /\ vmNow'[n].state = "running" /\ vmNow'[n].ram = ram /\ vmNow'[n] # R!NoVm
    <3>1. /\ vmNow' = [vmNow EXCEPT ![n] = vmNow'[n]] /\ vmNow'[n] \in RoomVms
        /\ vmNow'[n].state = "running" /\ vmNow'[n].ram = ram
      BY <1>1, <2>1, <2>3
    <3>2. vmNow'[n] # R!NoVm
      BY <2>1, <2>3, <3>1 DEF R!NoVm
    <3> QED
      BY <3>1, <3>2
  <2>6. RoomFits(under'[n], listed[n], vmNow'[n], booting[n])
    BY <2>1, <2>2, <2>3, <2>4, <2>5, RoomOf DEF RoomFits
  <2>7. overlooked' \/ Load(vmNow'[n], booting[n]) <= Load(vmNow[n], booting[n])
    <3>1. vmNow[n].state = "running" => vmNow[n].ram = ram
      BY <2>1, <2>2, <2>3, RoomOf DEF RoomFits, R!NoVm
    <3>2. CASE booting[n] > 0
      BY <3>2, RoomOf DEF Load
    <3>3. CASE booting[n] = 0 /\ vmNow[n].state = "running"
      BY <2>3, <2>5, <3>1, <3>3 DEF Load
    <3>4. CASE booting[n] = 0 /\ vmNow[n].state # "running"
      BY <2>1, <3>4
    <3> QED
      BY <3>2, <3>3, <3>4, RoomOf
  <2>8. /\ UNCHANGED <<listed, booting, admission>> /\ admission # n /\ overlooked' \in BOOLEAN /\ (overlooked => overlooked')
    BY <1>0, <2>1, RoomFacts
  <2>9. RoomMoves(n)
    BY <2>4, <2>5, <2>6, <2>7, <2>8, RoomAt, RoomOf DEF RoomMoves
  <2> QED
    BY <2>9, RoomSteps1
<1>3. CASE R!Resizes(n)
  <2>1. /\ VmIs(vmNow[n].state, under[n].to) /\ R!Goes(n, "up") /\ UNCHANGED <<listed, booting, admission, overlooked>>
        /\ under[n].at = "acting" /\ under[n].kind = "resize" /\ (booting[n] > 0) = (vmNow[n].state = "running")
    BY <1>3 DEF R!Resizes, R!Becomes, R!At
  <2>2. under[n] # R!Idle
    BY <2>1, RoomOf
  <2>3. /\ vmNow[n] # R!NoVm /\ vmNow[n].state # "missing" /\ under[n].to \in 0..Budget
        /\ (booting[n] > 0 => booting[n] = under[n].to)
    BY <2>1, <2>2, RoomOf DEF RoomFits, RoomNames
  <2>4. /\ under' = [under EXCEPT ![n] = under'[n]] /\ under'[n] \in RoomSteps /\ under'[n] # R!Idle
        /\ under'[n].at = "up" /\ under'[n].kind = under[n].kind /\ under'[n].to = under[n].to
    BY <2>1, <2>2, RoomGoes
  <2>5. /\ vmNow' = [vmNow EXCEPT ![n] = vmNow'[n]] /\ vmNow'[n] \in RoomVms
        /\ vmNow'[n].state = vmNow[n].state /\ vmNow'[n].ram = under[n].to /\ vmNow'[n] # R!NoVm
    <3>1. /\ vmNow' = [vmNow EXCEPT ![n] = vmNow'[n]] /\ vmNow'[n] \in RoomVms
        /\ vmNow'[n].state = vmNow[n].state /\ vmNow'[n].ram = under[n].to
      BY <1>1, <2>1, <2>3, RoomOf
    <3>2. vmNow'[n] # R!NoVm
      BY <2>1, <2>3, <3>1 DEF R!NoVm
    <3> QED
      BY <3>1, <3>2
  <2>6. RoomFits(under'[n], listed[n], vmNow'[n], booting[n])
    BY <2>1, <2>2, <2>3, <2>4, <2>5, RoomOf DEF RoomFits
  <2>7. Load(vmNow'[n], booting[n]) <= Load(vmNow[n], booting[n])
    BY <2>1, <2>3, <2>5, RoomOf DEF Load
  <2>8. UNCHANGED <<listed, booting, admission, overlooked>> /\ admission # n
    BY <1>0, <2>1
  <2>9. RoomMoves(n)
    BY <2>4, <2>5, <2>6, <2>7, <2>8, RoomAt, RoomOf, RoomFacts DEF RoomMoves
  <2> QED
    BY <2>9, RoomSteps1
<1>4. CASE R!StopResumes(n)
  <2>1. /\ VmIs("running", vmNow[n].ram) /\ UNCHANGED <<listed, under, booting, admission, overlooked>>
        /\ under[n].at = "acting" /\ under[n].kind = "stop" /\ vmNow[n].state = "paused" /\ booting[n] > 0
    BY <1>4 DEF R!StopResumes, R!Becomes, R!At
  <2>2. under[n] # R!Idle
    BY <2>1, RoomOf
  <2>3. /\ vmNow[n] # R!NoVm /\ booting[n] = under[n].to /\ vmNow[n].ram = listed[n].ram /\ under[n].to = listed[n].ram
    BY <2>1, <2>2, RoomOf DEF RoomFits
  <2>5. /\ vmNow' = [vmNow EXCEPT ![n] = vmNow'[n]] /\ vmNow'[n] \in RoomVms
        /\ vmNow'[n].state = "running" /\ vmNow'[n].ram = vmNow[n].ram /\ vmNow'[n] # R!NoVm
    <3>1. /\ vmNow' = [vmNow EXCEPT ![n] = vmNow'[n]] /\ vmNow'[n] \in RoomVms
        /\ vmNow'[n].state = "running" /\ vmNow'[n].ram = vmNow[n].ram
      BY <1>1, <2>1, <2>3, RoomOf
    <3>2. vmNow'[n] # R!NoVm
      BY <2>1, <2>3, <3>1 DEF R!NoVm
    <3> QED
      BY <3>1, <3>2
  <2>6. RoomFits(under[n], listed[n], vmNow'[n], booting[n])
    BY <2>1, <2>2, <2>3, <2>5, RoomOf DEF RoomFits
  <2>7. Load(vmNow'[n], booting[n]) <= Load(vmNow[n], booting[n])
    BY <2>1, <2>5, RoomOf DEF Load
  <2>8. UNCHANGED <<listed, under, booting, admission, overlooked>> /\ admission # n
    BY <1>0, <2>1
  <2>9. RoomMoves(n)
    BY <1>0, <2>5, <2>6, <2>7, <2>8, RoomAt, RoomOf, RoomFacts DEF RoomMoves
  <2> QED
    BY <2>9, RoomSteps1
<1>5. CASE R!Leaves(n)
  <2>1. /\ R!Goes(n, "up") /\ UNCHANGED <<listed, booting, admission, overlooked>>
        /\ under[n].at = "acting" /\ under[n].kind \in {"stop", "pause", "remove"}
    BY <1>5 DEF R!Leaves, R!At
  <2>2. under[n] # R!Idle
    BY <2>1, RoomOf
  <2>4. /\ under' = [under EXCEPT ![n] = under'[n]] /\ under'[n] \in RoomSteps /\ under'[n] # R!Idle
        /\ under'[n].at = "up" /\ under'[n].kind = under[n].kind /\ under'[n].to = under[n].to
    BY <2>1, <2>2, RoomGoes
  <2>5. PICK v \in RoomVms : /\ vmNow' = [vmNow EXCEPT ![n] = v]
                             /\ \/ v = R!NoVm \/ v = vmNow[n]
                                \/ vmNow[n].state = "running" /\ v.state \in {"paused", "stopped"} /\ v.ram = vmNow[n].ram
    <3>1. CASE under[n].kind = "remove"
      <4>1. vmNow' = [vmNow EXCEPT ![n] = R!NoVm]
        BY <1>5, <3>1 DEF R!Leaves
      <4>2. R!NoVm \in RoomVms
        BY DEF R!NoVm, RoomVms, RoomNames
      <4> QED
        BY <4>1, <4>2
    <3>2. CASE under[n].kind # "remove" /\ vmNow[n].state = "running"
      <4>1. PICK state \in {"paused", "stopped"} : VmIs(state, vmNow[n].ram)
        BY <1>5, <3>2 DEF R!Leaves, R!Becomes
      <4> DEFINE v == [state |-> state, ram |-> vmNow[n].ram]
      <4>2. v \in RoomVms /\ v.state = state /\ v.ram = vmNow[n].ram
        BY RoomOf DEF RoomVms
      <4>3. vmNow' = [vmNow EXCEPT ![n] = v]
        BY <4>1
      <4> HIDE DEF v
      <4> QED
        BY <3>2, <4>2, <4>3
    <3>3. CASE under[n].kind # "remove" /\ vmNow[n].state # "running"
      <4>1. UNCHANGED vmNow
        BY <1>5, <3>3 DEF R!Leaves
      <4> QED
        BY <4>1, RoomOf, RoomAt
    <3> QED
      BY <3>1, <3>2, <3>3
  <2>6. vmNow'[n] = v /\ vmNow' = [vmNow EXCEPT ![n] = vmNow'[n]] /\ R!NoVm.state = "missing" /\ R!NoVm.ram = 0
    BY <2>5, RoomAt DEF R!NoVm
  <2>7. RoomFits(under'[n], listed[n], vmNow'[n], booting[n])
    BY <2>1, <2>2, <2>4, <2>5, <2>6, RoomOf DEF RoomFits
  <2>8. Load(vmNow'[n], booting[n]) <= Load(vmNow[n], booting[n])
    BY <2>5, <2>6, RoomOf DEF Load
  <2>9. UNCHANGED <<listed, booting, admission, overlooked>> /\ admission # n
    BY <1>0, <2>1
  <2>10. RoomMoves(n)
    BY <2>4, <2>5, <2>6, <2>7, <2>8, <2>9, RoomAt, RoomOf, RoomFacts DEF RoomMoves
  <2> QED
    BY <2>10, RoomSteps1
<1>6. CASE R!VmStops(n)
  <2>1. /\ VmIs("stopped", vmNow[n].ram) /\ UNCHANGED <<listed, under, booting, admission, overlooked>>
        /\ vmNow[n].state = "running"
    BY <1>6 DEF R!VmStops, R!Becomes
  <2>2. /\ vmNow' = [vmNow EXCEPT ![n] = vmNow'[n]] /\ vmNow'[n] \in RoomVms
        /\ vmNow'[n].state = "stopped" /\ vmNow'[n].ram = vmNow[n].ram /\ vmNow'[n] # R!NoVm /\ vmNow[n] # R!NoVm
    <3>1. /\ vmNow' = [vmNow EXCEPT ![n] = vmNow'[n]] /\ vmNow'[n] \in RoomVms
        /\ vmNow'[n].state = "stopped" /\ vmNow'[n].ram = vmNow[n].ram
      BY <1>1, <2>1, RoomOf
    <3>2. vmNow'[n] # R!NoVm /\ vmNow[n] # R!NoVm
      BY <2>1, <3>1 DEF R!NoVm
    <3> QED
      BY <3>1, <3>2
  <2>3. RoomFits(under[n], listed[n], vmNow'[n], booting[n])
    BY <2>1, <2>2, RoomOf DEF RoomFits
  <2>4. Load(vmNow'[n], booting[n]) <= Load(vmNow[n], booting[n])
    BY <2>1, <2>2, RoomOf DEF Load
  <2>5. UNCHANGED <<listed, under, booting, admission, overlooked>>
    BY <2>1
  <2>6. RoomMoves(n)
    BY <1>0, <2>2, <2>3, <2>4, <2>5, RoomAt, RoomOf, RoomFacts DEF RoomMoves
  <2> QED
    BY <2>6, RoomSteps1
<1> QED
  BY <1>2, <1>3, <1>4, <1>5, <1>6

LEMMA RoomEnds ==
  ASSUME RoomNames, RoomInv, NEW n \in Hosted, R!StepEnds(n)
  PROVE  RoomInv'
<1>1. /\ R!Goes(n, "ended") /\ booting' = [booting EXCEPT ![n] = 0] /\ UNCHANGED <<listed, vmNow, overlooked>>
      /\ admission' = IF admission = n THEN "free" ELSE admission
      /\ under[n] # R!Idle /\ under[n].at \in {"sent", "asking", "observing", "acting", "up"}
  BY DEF R!StepEnds, R!Ends
<1>2. /\ under' = [under EXCEPT ![n] = under'[n]] /\ under'[n] \in RoomSteps /\ under'[n] # R!Idle
      /\ under'[n].at = "ended" /\ under'[n].kind = under[n].kind /\ under'[n].to = under[n].to
  BY <1>1, RoomGoes
<1>3. booting'[n] = 0 /\ booting' = [booting EXCEPT ![n] = booting'[n]]
  BY <1>1, RoomAt
<1>4. RoomFits(under'[n], listed[n], vmNow[n], 0)
  BY <1>1, <1>2, RoomOf DEF RoomFits
<1>5. Load(vmNow[n], 0) <= Load(vmNow[n], booting[n])
  BY RoomOf DEF Load, RoomFits
<1>6. /\ admission' = admission \/ (admission = n /\ admission' = "free")
      /\ admission' # n
  BY <1>1 DEF RoomNames
<1>7. UNCHANGED <<listed, vmNow, overlooked>>
  BY <1>1
<1>8. RoomMoves(n)
  BY <1>2, <1>3, <1>4, <1>5, <1>6, <1>7, RoomAt, RoomOf, RoomFacts DEF RoomMoves
<1> QED
  BY <1>8, RoomSteps1

\* An admission begins: what it holds of every other machine is that one's load, or is overlooked.
LEMMA RoomAdmissionBegins ==
  ASSUME RoomNames, RoomInv, NEW n \in Hosted, R!AdmitBegins(n)
  PROVE  RoomInv'
<1> DEFINE u == [[[under[n] EXCEPT !.at = "observing"] EXCEPT !.held = R!HeldBy(n)]
                   EXCEPT !.sure = {m \in Hosted: booting[m] > 0}]
<1>1. /\ under' = [under EXCEPT ![n] = u] /\ UNCHANGED <<listed, vmNow, booting>>
      /\ admission = "free" /\ admission' = n /\ overlooked' = (overlooked \/ R!Unlisted(n))
      /\ under[n] # R!Idle /\ under[n].at = "asking"
  BY RoomFacts DEF R!AdmitBegins
<1>2. R!HeldBy(n) \in [Hosted -> Nat]
  <2>1. under[n].among \in [Hosted -> Nat]
    BY <1>1, RoomOf DEF RoomSteps
  <2> QED
    BY <2>1, RoomOf DEF R!HeldBy
<1>3. /\ u \in RoomSteps /\ u.at = "observing" /\ u.kind = under[n].kind /\ u.to = under[n].to
      /\ u.held = R!HeldBy(n) /\ u.sure = {m \in Hosted: booting[m] > 0}
  BY <1>1, <1>2, RoomOf DEF RoomSteps
<1> HIDE DEF u
<1>4. u # R!Idle
  BY <1>1, <1>3, RoomOf DEF R!Idle
<1>5. under'[n] = u /\ \A m \in Hosted \ {n} : under'[m] = under[m]
  BY <1>1, RoomFacts
<1>6. Loads' = Loads
  BY <1>1 DEF Loads
<1>7. RoomTypes'
  <2>1. under' \in [Hosted -> RoomSteps \cup {R!Idle}]
    BY <1>1, <1>3, RoomFacts
  <2>2. overlooked' \in BOOLEAN
    BY <1>1
  <2> QED
    BY <1>1, <2>1, <2>2, RoomFacts DEF RoomTypes
<1>8. \A m \in Hosted : (RoomFits(under[m], listed[m], vmNow[m], booting[m]))'
  <2>1. RoomFits(u, listed[n], vmNow[n], booting[n])
    BY <1>1, <1>3, <1>4, RoomOf DEF RoomFits
  <2>2. \A m \in Hosted : RoomFits(under'[m], listed[m], vmNow[m], booting[m])
    BY <1>5, <2>1, RoomOf
  <2> QED
    BY <1>1, <2>2 DEF RoomFits, R!NoVm, R!NoRow, R!Idle
<1>9. PermitIsHeld'
  BY <1>1, <1>3, <1>4, <1>5 DEF PermitIsHeld, RoomInv, RoomNames
<1>10. CountsAll'
  <2>1. R!HeldBy(n)[n] = 0
    BY DEF R!HeldBy
  <2>2. ASSUME NEW m \in Hosted \ {n}, ~ overlooked' PROVE Loads[m] <= R!HeldBy(n)[m]
    <3>1. R!HeldBy(n)[m] = IF booting[m] > 0 THEN booting[m] ELSE under[n].among[m]
      BY DEF R!HeldBy
    <3>2. vmNow[m].state = "running" => ~ (R!HeldBy(n)[m] < vmNow[m].ram)
      BY <1>1, <2>2 DEF R!Unlisted
    <3>3. R!HeldBy(n)[m] \in Nat
      BY <1>2
    <3> QED
      BY <3>1, <3>2, <3>3, RoomOf DEF Load
  <2> QED
    BY <1>1, <1>3, <1>5, <1>6, <2>1, <2>2 DEF CountsAll
<1>11. overlooked' \/ R!Total(Loads') <= Budget
  BY <1>1, <1>6 DEF RoomInv
<1>12. (R!Total(Loads))' = R!Total(Loads')
  BY DEF R!Total, R!FoldSet, R!MapThenFoldSet
<1> QED
  BY <1>7, <1>8, <1>9, <1>10, <1>11, <1>12 DEF RoomInv

LEMMA RoomAdmits ==
  ASSUME RoomNames, RoomInv, NEW n \in Hosted, R!Admits(n)
  PROVE  RoomInv'
<1>1. /\ UNCHANGED <<listed, vmNow, overlooked>> /\ admission' = "free" /\ admission = n
      /\ under[n] # R!Idle /\ under[n].at = "observing"
  BY DEF R!Admits, RoomInv, PermitIsHeld
<1>2. CASE R!Counted(n) + R!Wanted(n) > Budget
  <2>1. R!Goes(n, "ended") /\ UNCHANGED booting
    BY <1>2 DEF R!Admits
  <2>2. /\ under'[n] # R!Idle /\ under'[n].at = "ended" /\ under'[n].kind = under[n].kind /\ under'[n].to = under[n].to
    BY <1>1, <2>1, RoomGoes
  <2>3. RoomFits(under'[n], listed[n], vmNow[n], booting[n])
    BY <1>1, <2>2, RoomOf DEF RoomFits
  <2>4. UNCHANGED <<listed, vmNow, booting, overlooked>> /\ admission' # n
    BY <1>1, <2>1 DEF RoomNames
  <2> QED
    BY <1>1, <2>1, <2>3, <2>4, RoomOnlyGoes
<1>3. CASE ~ (R!Counted(n) + R!Wanted(n) > Budget)
  <2> DEFINE w == under[n].to
             c == [m \in Hosted |->
                     IF m \in under[n].sure \/ vmNow[m].state = "running" THEN under[n].held[m] ELSE 0]
             e == [c EXCEPT ![n] = w]
  <2>1. R!Goes(n, "acting") /\ booting' = [booting EXCEPT ![n] = w]
    BY <1>3 DEF R!Admits, R!Wanted
  <2>2. /\ under' = [under EXCEPT ![n] = under'[n]] /\ under'[n] \in RoomSteps /\ under'[n] # R!Idle
        /\ under'[n].at = "acting" /\ under'[n].kind = under[n].kind /\ under'[n].to = w
    BY <1>1, <2>1, RoomGoes
  <2>3. /\ w \in Nat /\ w > 0 /\ booting'[n] = w /\ \A m \in Hosted \ {n} : booting'[m] = booting[m] /\ under'[m] = under[m]
    BY <1>1, <2>1, <2>2, RoomOf, RoomFacts
  <2>4. RoomTypes'
    <3>1. under' \in [Hosted -> RoomSteps \cup {R!Idle}] /\ booting' \in [Hosted -> Nat]
      BY <2>1, <2>2, <2>3, RoomFacts
    <3> QED
      BY <1>1, <3>1, RoomFacts DEF RoomTypes
  <2>5. \A m \in Hosted : (RoomFits(under[m], listed[m], vmNow[m], booting[m]))'
    <3>1. vmNow[n].state = "running" => vmNow[n].ram <= w
      BY <1>1, RoomOf DEF RoomFits, R!NoVm
    <3>2. RoomFits(under'[n], listed[n], vmNow[n], w)
      BY <1>1, <2>2, <2>3, <3>1, RoomOf DEF RoomFits
    <3>3. \A m \in Hosted : RoomFits(under'[m], listed[m], vmNow[m], booting'[m])
      BY <2>3, <3>2, RoomOf
    <3> QED
      BY <1>1, <3>3 DEF RoomFits, R!NoVm, R!NoRow, R!Idle
  <2>6. PermitIsHeld' /\ CountsAll'
    <3>1. \A m \in Hosted \ {n} : ~ (under[m] # R!Idle /\ under[m].at = "observing")
      BY <1>1 DEF RoomInv, PermitIsHeld
    <3>2. \A m \in Hosted : admission' # m
      BY <1>1 DEF RoomNames
    <3> QED
      BY <2>2, <2>3, <3>1, <3>2 DEF PermitIsHeld, CountsAll
  <2>7. Loads' \in [Hosted -> Nat] /\ Loads'[n] = w /\ \A m \in Hosted \ {n} : Loads'[m] = Loads[m]
    BY <1>1, <2>3, <2>4 DEF RoomTypes, Loads, Load, RoomVms, RoomNames
  <2>8. under[n].held \in [Hosted -> Nat] /\ under[n].held[n] = 0
    BY <1>1, RoomOf DEF RoomSteps, RoomInv, CountsAll
  <2>9. /\ c \in [Hosted -> Nat] /\ c[n] = 0 /\ e \in [Hosted -> Nat] /\ e[n] = w
        /\ \A m \in Hosted \ {n} : e[m] = c[m]
    BY <2>3, <2>8
  <2>10. R!Counted(n) = R!Total(c)
    BY DEF R!Counted
  <2>11. ASSUME ~ overlooked, NEW m \in Hosted \ {n} PROVE Loads[m] <= c[m]
    <3>1. (booting[m] > 0 => m \in under[n].sure) /\ Loads[m] <= under[n].held[m]
      BY <1>1, <2>11 DEF RoomInv, CountsAll
    <3>2. under[n].held[m] \in Nat
      BY <2>8
    <3> QED
      BY <3>1, <3>2, RoomOf DEF Load
  <2> HIDE DEF c, e
  <2>12. R!Total(e) = R!Total(c) + w
    <3> HIDE DEF w
    <3>0. e \in [Hosted -> Nat] /\ c \in [Hosted -> Nat] /\ IsFiniteSet(Hosted)
      BY <2>9 DEF RoomNames
    <3>1. n \in Hosted /\ w \in Nat /\ e[n] = w /\ c[n] = 0 /\ (\A x \in Hosted \ {n} : e[x] = c[x])
      BY <2>3, <2>9
    <3>2. SumOf(e, Hosted) + c[n] = SumOf(c, Hosted) + e[n]
      BY <3>0, <3>1, SumsDiffer
    <3>3. SumOf(e, Hosted) \in Nat /\ SumOf(c, Hosted) \in Nat
      BY <3>0, SumIsNat
    <3> QED
      BY <3>1, <3>2, <3>3, TotalIsSum
  <2>13. R!Total(e) <= Budget
    BY <1>3, <2>3, <2>10, <2>12, <2>9, TotalIsSum, SumIsNat DEF RoomNames, R!Wanted
  <2>14. overlooked' \/ R!Total(Loads') <= Budget
    <3> SUFFICES ASSUME ~ overlooked PROVE R!Total(Loads') <= Budget
      BY <1>1
    <3>1. \A m \in Hosted : Loads'[m] <= e[m]
      BY <2>3, <2>7, <2>9, <2>11
    <3>2. R!Total(Loads') <= R!Total(e) /\ R!Total(Loads') \in Nat /\ R!Total(e) \in Nat
      BY <2>7, <2>9, <3>1, TotalIsSum, SumsGrow, SumIsNat DEF RoomNames
    <3> QED
      BY <2>13, <3>2 DEF RoomNames
  <2>15. (R!Total(Loads))' = R!Total(Loads')
    BY DEF R!Total, R!FoldSet, R!MapThenFoldSet
  <2> QED
    BY <2>4, <2>5, <2>6, <2>14, <2>15 DEF RoomInv
<1> QED
  BY <1>2, <1>3

LEMMA RoomRestarts ==
  ASSUME RoomNames, RoomInv, R!HostRestarts
  PROVE  RoomInv'
<1> DEFINE u(n) == IF under[n] = R!Idle \/ under[n].at \in {"begun", "ended"} THEN under[n]
                   ELSE [under[n] EXCEPT !.at = IF under[n].kind = "remove" THEN "sent" ELSE "ended"]
<1>1. /\ \A n \in Hosted : under'[n] = u(n) /\ booting'[n] = 0
      /\ under' = [n \in Hosted |-> u(n)] /\ booting' = [n \in Hosted |-> 0]
      /\ UNCHANGED <<listed, vmNow, overlooked>> /\ admission' = "free"
  BY DEF R!HostRestarts, R!Nowhere
<1>2. ASSUME NEW n \in Hosted
      PROVE  /\ u(n) \in RoomSteps \cup {R!Idle}
             /\ (u(n) = R!Idle <=> under[n] = R!Idle)
             /\ under[n] # R!Idle => /\ u(n).kind = under[n].kind /\ u(n).to = under[n].to
                                     /\ u(n).at \in {"begun", "sent", "ended"}
                                     /\ u(n).at = "ended" \/ under[n].at \notin {"up", "ended"} \/ under[n].kind = "remove"
  <2>1. CASE under[n] = R!Idle \/ under[n].at \in {"begun", "ended"}
    BY <2>1, RoomOf
  <2>2. CASE ~ (under[n] = R!Idle \/ under[n].at \in {"begun", "ended"})
    <3>1. PICK a \in {"sent", "ended"} : a = IF under[n].kind = "remove" THEN "sent" ELSE "ended"
      OBVIOUS
    <3>2. u(n) = [under[n] EXCEPT !.at = a]
      BY <2>2, <3>1
    <3> HIDE DEF u
    <3>3. u(n) \in RoomSteps /\ u(n).at = a /\ u(n).kind = under[n].kind /\ u(n).to = under[n].to
      BY <2>2, <3>2, RoomOf DEF RoomSteps
    <3>4. u(n) # R!Idle
      BY <2>2, <3>3, RoomOf DEF R!Idle
    <3> QED
      BY <2>2, <3>1, <3>3, <3>4, RoomOf
  <2> QED
    BY <2>1, <2>2
<1> HIDE DEF u
<1>3. RoomTypes'
  <2>1. under' \in [Hosted -> RoomSteps \cup {R!Idle}] /\ booting' \in [Hosted -> Nat]
    BY <1>1, <1>2
  <2> QED
    BY <1>1, <2>1, RoomFacts DEF RoomTypes
<1>4. \A m \in Hosted : (RoomFits(under[m], listed[m], vmNow[m], booting[m]))'
  <2>1. ASSUME NEW m \in Hosted PROVE RoomFits(u(m), listed[m], vmNow[m], 0)
    BY <1>2, RoomOf DEF RoomFits
  <2>2. \A m \in Hosted : RoomFits(under'[m], listed[m], vmNow[m], booting'[m])
    BY <1>1, <2>1
  <2> QED
    BY <1>1, <2>2 DEF RoomFits, R!NoVm, R!NoRow, R!Idle
<1>5. PermitIsHeld' /\ CountsAll'
  BY <1>1, <1>2 DEF PermitIsHeld, CountsAll, RoomNames
<1>6. Loads' \in [Hosted -> Nat] /\ \A m \in Hosted : Loads'[m] <= Loads[m]
  <2>1. \A m \in Hosted : Loads'[m] = Load(vmNow[m], 0)
    BY <1>1 DEF Loads
  <2>2. \A m \in Hosted : Load(vmNow[m], 0) <= Loads[m] /\ Load(vmNow[m], 0) \in Nat
    BY RoomOf DEF Load, RoomFits
  <2>3. Loads' = [m \in Hosted |-> Loads'[m]]
    BY DEF Loads
  <2> QED
    BY <2>1, <2>2, <2>3
<1>7. overlooked' \/ R!Total(Loads') <= Budget
  <2> SUFFICES ASSUME ~ overlooked PROVE R!Total(Loads') <= Budget
    BY <1>1
  <2>1. R!Total(Loads) <= Budget
    BY DEF RoomInv
  <2>2. R!Total(Loads') <= R!Total(Loads) /\ R!Total(Loads') \in Nat
    BY <1>6, RoomFacts, TotalIsSum, SumsGrow, SumIsNat DEF RoomNames
  <2> QED
    BY <2>1, <2>2, RoomFacts DEF RoomNames
<1>8. (R!Total(Loads))' = R!Total(Loads')
  BY DEF R!Total, R!FoldSet, R!MapThenFoldSet
<1> QED
  BY <1>3, <1>4, <1>5, <1>7, <1>8 DEF RoomInv

LEMMA RoomBegins ==
  ASSUME RoomNames, R!RoomInit
  PROVE  RoomInv
<1>1. /\ listed = [n \in Hosted |-> R!NoRow] /\ vmNow = [n \in Hosted |-> R!NoVm]
      /\ under = [n \in Hosted |-> R!Idle] /\ booting = [n \in Hosted |-> 0]
      /\ admission = "free" /\ overlooked = FALSE
  BY DEF R!RoomInit, R!Nowhere
<1>2. R!NoRow \in RoomRows /\ R!NoVm \in RoomVms
  BY DEF R!NoRow, R!NoVm, RoomRows, RoomVms, RoomNames
<1>3. RoomTypes
  BY <1>1, <1>2 DEF RoomTypes
<1>4. \A n \in Hosted : RoomFits(under[n], listed[n], vmNow[n], booting[n])
  BY <1>1 DEF RoomFits, R!NoRow, R!NoVm
<1>5. PermitIsHeld /\ CountsAll
  BY <1>1 DEF PermitIsHeld, CountsAll, RoomNames
<1>6. Loads = [n \in Hosted |-> 0]
  BY <1>1 DEF Loads, Load, R!NoVm
<1>7. R!Total(Loads) <= Budget
  <2>1. PICK g : /\ SumOf(Loads, Hosted) = g[Hosted] /\ g \in [SUBSET Hosted -> Nat] /\ g[{}] = 0
                 /\ \A s \in SUBSET Hosted : s # {} => g[s] = g[s \ {Picked(s)}] + Loads[Picked(s)]
    <3>1. Loads \in [Hosted -> Nat] /\ IsFiniteSet(Hosted)
      BY <1>6 DEF RoomNames
    <3> QED
      BY <3>1, SumsAre
  <2>2. ASSUME NEW r \in SUBSET Hosted, g[r] # 0 PROVE FALSE
    <3> DEFINE Q == {s \in SUBSET Hosted : g[s] # 0}
    <3>1. PICK s \in Q : Cardinality(s) \in Nat /\ \A t \in Q : Cardinality(s) <= Cardinality(t)
      BY <2>2, LeastSet DEF RoomNames
    <3>2. s \in SUBSET Hosted /\ s # {} /\ g[s] # 0
      BY <2>1, <3>1
    <3>3. s \ {Picked(s)} \notin Q /\ s \ {Picked(s)} \in SUBSET Hosted /\ Picked(s) \in Hosted
      BY <3>1, <3>2, PickedIs DEF RoomNames
    <3> QED
      BY <1>6, <2>1, <3>2, <3>3
  <2> QED
    BY <2>1, <2>2, TotalIsSum DEF RoomNames
<1> QED
  BY <1>3, <1>4, <1>5, <1>7 DEF RoomInv

\* Of Rooms (apps/host/src/operations.ts, usage.ts): on a host of any RAM and any number of machines,
\* what runs fits the budget, whatever is admitted side by side, grown, interrupted or lost in a
\* restart, but for a boot that no count of the host's could see.
THEOREM RoomIsKept ==
  ASSUME RoomNames
  PROVE  PartsSpec => []RoomKept
<1>1. PartsInit => RoomInv
  BY RoomBegins DEF PartsInit
<1>2. ASSUME RoomInv, R!RoomNext PROVE RoomInv'
  <2>1. ASSUME NEW n \in Hosted,
               \/ \E kind \in {"make", "start", "stop", "pause", "resize", "remove"}, to \in R!Sizes : R!Begins(n, kind, to)
               \/ R!Sends(n) \/ R!Ran(n) \/ R!Hears(n)
        PROVE  RoomInv'
    BY <1>2, <2>1, RoomIsAsked
  <2>2. ASSUME NEW n \in Hosted,
               R!MakeAsks(n) \/ R!StartSees(n) \/ R!StopSees(n) \/ R!ResizeSees(n) \/ R!PlainSees(n)
        PROVE  RoomInv'
    BY <1>2, <2>2, RoomSees
  <2>3. ASSUME NEW n \in Hosted, R!Boots(n) \/ R!Resizes(n) \/ R!StopResumes(n) \/ R!Leaves(n) \/ R!VmStops(n)
        PROVE  RoomInv'
    BY <1>2, <2>3, RoomActs
  <2>4. ASSUME NEW n \in Hosted, R!AdmitBegins(n) \/ R!Admits(n) \/ R!StepEnds(n)
        PROVE  RoomInv'
    BY <1>2, <2>4, RoomAdmissionBegins, RoomAdmits, RoomEnds
  <2> QED
    BY <1>2, <2>1, <2>2, <2>3, <2>4, RoomRestarts DEF R!RoomNext
<1>3. ASSUME RoomInv, UNCHANGED roomVars PROVE RoomInv'
  <2>1. UNCHANGED <<listed, vmNow, under, booting, admission, overlooked>>
    BY <1>3 DEF roomVars
  <2>2. RoomTypes' /\ PermitIsHeld' /\ CountsAll' /\ Loads' = Loads
    BY <1>3, <2>1 DEF RoomInv, RoomTypes, PermitIsHeld, CountsAll, Loads
  <2>3. \A m \in Hosted : (RoomFits(under[m], listed[m], vmNow[m], booting[m]))'
    BY <1>3, <2>1 DEF RoomInv, RoomFits
  <2>4. (R!Total(Loads))' = R!Total(Loads')
    BY DEF R!Total, R!FoldSet, R!MapThenFoldSet
  <2> QED
    BY <1>3, <2>1, <2>2, <2>3, <2>4 DEF RoomInv
<1>4. RoomInv /\ [PartsNext]_allVars => RoomInv'
  BY <1>2, <1>3 DEF PartsNext, allVars, roomVars
<1>5. ASSUME RoomInv PROVE RoomKept
  <2> DEFINE f == [n \in Hosted |-> IF vmNow[n].state = "running" THEN vmNow[n].ram ELSE 0]
  <2>1. f \in [Hosted -> Nat] /\ \A n \in Hosted : f[n] <= Loads[n]
    BY <1>5, RoomOf DEF Load, RoomFits
  <2> HIDE DEF f
  <2>2. R!Total(f) <= R!Total(Loads) /\ R!Total(f) \in Nat
    BY <1>5, <2>1, RoomFacts, TotalIsSum, SumsGrow, SumIsNat DEF RoomNames
  <2>3. overlooked \/ R!Total(f) <= Budget
    BY <1>5, <2>2, RoomFacts DEF RoomInv, RoomNames
  <2> QED
    BY <2>3 DEF f, RoomKept, R!RoomKept
<1> QED
  BY <1>1, <1>4, <1>5, PTL DEF PartsSpec, allVars

--------------------------------------------------------------------------------
(* Smolvm. *)

VmNames == S!Natives \cup S!Bases \cup S!Freezers
VmStates == {"missing", "created", "running", "pausing", "unreachable", "frozen", "stopped"}
VmRecs == [state : VmStates, parent : S!Bases \cup {S!None}]
JobRecs == [do : {"park", "retire", "settle", "builds", "discard", "restore", "delete"},
            on : S!Bases \cup {S!None},
            at : {"begin", "clear", "retire", "create", "boot", "freeze", "thaw", "unstore",
                  "branch", "relook", "grow"}]
MadeStates == {"none", "making", "made", "raced", "failed", "broken", "deleting", "deleted", "discarding"}

SmolTypes ==
  /\ rec \in [VmNames -> VmRecs] /\ stored \in Nat
  /\ host \in [boot : Nat, version : Nat, unclean : BOOLEAN] /\ host.version # 0
  /\ host.boot > 0 /\ faults \in Nat /\ host.boot + faults <= MaxFaults + 1
  /\ jobs \in [S!Actors -> Seq(JobRecs)] /\ lock \in [S!Bases -> S!Actors \cup {S!None}]
  /\ made \in [S!Natives \cup {S!Copy} -> MadeStates]

\* The jobs of a queue, and the job an actor is at.
Queued(q) == {q[i] : i \in 1..Len(q)}
Does(a, do) == jobs[a] # <<>> /\ Head(jobs[a]).do = do
Is(a, do, at) == Does(a, do) /\ Head(jobs[a]).at = at
Locks(j) == j.do \in {"park", "retire", "discard"} /\ j.at # "begin"

\* What branches: machines from bases, and each base's freezer from it.
Branches ==
  /\ \A n \in VmNames : rec[n].state = "missing" => rec[n].parent = S!None
  /\ \A b \in S!Bases : /\ rec[b].parent = S!None
                        /\ S!Present(S!FreezerOf(b)) => rec[S!FreezerOf(b)].parent = b

\* What an actor's jobs are: only the first is begun, and those of the build's own base are on it.
Does4(a) == IF a \in S!Natives THEN {"restore", "delete", "retire"}
            ELSE IF a = S!Copy THEN {"park", "discard"}
            ELSE IF a = S!Settling THEN {"settle", "builds", "retire", "park"} ELSE {"park"}
QueueFits(a) ==
  /\ \A j \in Queued(jobs[a]) : /\ j.do \in Does4(a)
                                /\ j.do \in {"park", "restore", "discard"} => j.on = S!BaseOf
                                /\ j.do = "retire" => j.on \in S!Bases
  /\ jobs[a] # <<>> => \A j \in Queued(Tail(jobs[a])) : j.at = "begin" /\ j.do \in {"park", "retire", "builds"}
  /\ Does(a, "restore") => Tail(jobs[a]) = <<>>

LockIsHeld ==
  \A b \in S!Bases, a \in S!Actors :
    lock[b] = a <=> jobs[a] # <<>> /\ Locks(Head(jobs[a])) /\ Head(jobs[a]).on = b

\* A park that began is of a copy captured here; restores are of a copy the host keeps.
CopyIsKept ==
  /\ \A a \in S!Actors : Does(a, "park") /\ Locks(Head(jobs[a])) => S!CapturedHere
  /\ made[S!Copy] \in {"none", "made", "discarding"}
  /\ made[S!Copy] = "none" => stored = 0
  /\ made[S!Copy] = "made" => stored # 0
  /\ Does(S!Copy, "discard") => made[S!Copy] = "discarding"
  /\ \A m \in S!Natives : Does(m, "restore") => made[S!Copy] = "made"

\* A machine's name is free until its restore takes it, and a delete knows what it branched from.
MachineFits(m) ==
  /\ made[m] = "none" => jobs[m] = <<>> /\ ~ S!Present(m)
  /\ Does(m, "restore") => /\ Head(jobs[m]).at \in {"begin", "branch", "create"} => ~ S!Present(m)
                           /\ Head(jobs[m]).at \in {"relook", "boot"} => rec[m].parent = S!None
  /\ Does(m, "delete") => Head(jobs[m]).on = rec[m].parent
  /\ made[m] # "failed"

\* Why a base, or a freezer, that is there may go yet, or may stay.
SettleDue == Does(S!Settling, "settle")
RetireDue(b) == \E a \in S!Actors : \E j \in Queued(jobs[a]) : j.do = "retire" /\ j.on = b
ClearDue(b) == \E a \in S!Actors : \E j \in Queued(jobs[a]) : j.do = "retire" /\ j.on = b /\ j.at \in {"begin", "clear"}
DiscardDue(b) == Is(S!Copy, "discard", "retire") /\ b = S!BaseOf
Kept(b) == \E m \in S!Natives : rec[m].parent = b
ParkDue == \/ \E j \in Queued(jobs[S!Settling]) : j.do = "builds"
           \/ \E a \in S!Actors : \E j \in Queued(jobs[a]) : j.do = "park" /\ j.at = "begin"
Thaws(b) == \E a \in S!Actors : Does(a, "park") /\ Head(jobs[a]).at \in {"clear", "thaw"} /\ b = S!BaseOf

BaseMayStay(b) == SettleDue \/ RetireDue(b) \/ S!Wanted(b) \/ DiscardDue(b) \/ Kept(b)
FreezerMayStay(b) ==
  \/ SettleDue \/ DiscardDue(b) \/ Thaws(b)
  \/ S!Wanted(b) /\ ParkDue
  \/ ~ S!Wanted(b) /\ ClearDue(b)

BasesCovered == \A b \in S!Bases : S!Present(b) => host.unclean \/ BaseMayStay(b)
FreezersCovered == \A b \in S!Bases : S!Present(S!FreezerOf(b)) => host.unclean \/ FreezerMayStay(b)
Cleared == \A a \in S!Actors : Is(a, "retire", "retire") => ~ S!Present(S!FreezerOf(Head(jobs[a]).on))

SmolInv ==
  /\ SmolTypes /\ Branches /\ \A a \in S!Actors : QueueFits(a)
  /\ LockIsHeld /\ CopyIsKept /\ \A m \in S!Natives : MachineFits(m)
  /\ BasesCovered /\ FreezersCovered /\ Cleared

LEMMA SmolNames ==
  /\ \A b \in S!Bases : S!FreezerOf(b) \in S!Freezers /\ b \in VmNames /\ S!FreezerOf(b) \in VmNames
                        /\ b \notin S!Natives /\ S!FreezerOf(b) \notin S!Natives /\ S!FreezerOf(b) \notin S!Bases
  /\ \A b, c \in S!Bases : S!FreezerOf(b) = S!FreezerOf(c) => b = c
  /\ \A n \in S!Freezers : \E b \in S!Bases : n = S!FreezerOf(b)
  /\ \A m \in S!Natives : m \in VmNames /\ m \notin S!Bases /\ m \notin S!Freezers /\ m \in S!Actors
                          /\ m # S!Copy /\ m # S!Settling /\ m # S!Parks
  /\ S!None \notin S!Bases /\ S!None \notin S!Actors /\ S!None \notin S!Natives
  /\ S!Copy \in S!Actors /\ S!Settling \in S!Actors /\ S!Parks \in S!Actors
  /\ S!Copy \notin S!Natives /\ S!Settling \notin S!Natives /\ S!Parks \notin S!Natives
  /\ S!Copy # S!Settling /\ S!Copy # S!Parks /\ S!Settling # S!Parks
  /\ \A n \in VmNames : n \in S!Natives \/ n \in S!Bases \/ n \in S!Freezers
  /\ \A a \in S!Actors : a \in S!Natives \/ a = S!Copy \/ a = S!Settling \/ a = S!Parks
<1>1. \A x, y, z, w : <<x, y>> = <<z, w>> => x = z /\ y = w
  OBVIOUS
<1>2. \A x, y : <<x, y>>[1] = x /\ <<x, y>>[2] = y
  OBVIOUS
<1>3. "base" # "machine" /\ "base" # "freezer" /\ "machine" # "freezer"
  OBVIOUS
<1> DEFINE I == 1..MaxFaults + 1
           J == 1..MaxMachines
<1>4. /\ \A b \in S!Bases : b[2] \in I /\ b = <<"base", b[2]>>
      /\ \A n \in S!Freezers : n[2] \in I /\ n = <<"freezer", n[2]>>
      /\ \A m \in S!Natives : m[2] \in J /\ m = <<"machine", m[2]>>
      /\ \A i \in I : <<"base", i>> \in S!Bases /\ <<"freezer", i>> \in S!Freezers
  BY DEF S!Bases, S!Freezers, S!Natives
<1> HIDE DEF I, J
<1>5. \A b \in S!Bases : S!FreezerOf(b) \in S!Freezers /\ S!FreezerOf(b) \notin S!Natives /\ S!FreezerOf(b) \notin S!Bases
  BY <1>1, <1>3, <1>4 DEF S!FreezerOf
<1>6. \A b, c \in S!Bases : S!FreezerOf(b) = S!FreezerOf(c) => b = c
  BY <1>1, <1>4 DEF S!FreezerOf
<1>7. \A n \in S!Freezers : \E b \in S!Bases : n = S!FreezerOf(b)
  <2> SUFFICES ASSUME NEW n \in S!Freezers PROVE \E b \in S!Bases : n = S!FreezerOf(b)
    OBVIOUS
  <2>1. <<"base", n[2]>> \in S!Bases /\ S!FreezerOf(<<"base", n[2]>>) = n
    BY <1>4, <1>2 DEF S!FreezerOf
  <2> QED
    BY <2>1
<1>8. \A m \in S!Natives : m \notin S!Bases /\ m \notin S!Freezers /\ m # S!Copy /\ m # S!Settling /\ m # S!Parks
  BY <1>1, <1>3, <1>4 DEF S!Copy, S!Settling, S!Parks
<1>9. S!None \notin S!Bases /\ S!None \notin S!Actors /\ S!None \notin S!Natives
  BY <1>1, <1>4 DEF S!None, S!Actors, S!Copy, S!Settling, S!Parks
<1>10. S!Copy # S!Settling /\ S!Copy # S!Parks /\ S!Settling # S!Parks
  BY <1>1 DEF S!Copy, S!Settling, S!Parks
<1> QED
  BY <1>5, <1>6, <1>7, <1>8, <1>9, <1>10, <1>4, <1>1, <1>3 DEF VmNames, S!Actors

\* The base of the host's boot is one of the bases, as each boot took a fault.
LEMMA SmolBaseOf ==
  ASSUME SmolTypes
  PROVE  S!BaseOf \in S!Bases
<1>1. MaxFaults \in Nat
  BY BuildsAssumption
<1> QED
  BY <1>1 DEF SmolTypes, S!BaseOf, S!Bases

--------------------------------------------------------------------------------
(* Queues of jobs. *)

LEMMA QueueIs ==
  ASSUME NEW q \in Seq(JobRecs)
  PROVE  /\ \A j \in Queued(q) : j \in JobRecs
         /\ q = <<>> => Queued(q) = {}
         /\ q # <<>> => /\ Head(q) \in JobRecs /\ Tail(q) \in Seq(JobRecs)
                        /\ Head(q) \in Queued(q) /\ Queued(Tail(q)) \subseteq Queued(q)
                        /\ Queued(q) = {Head(q)} \cup Queued(Tail(q))
<1>1. \A j \in Queued(q) : j \in JobRecs
  BY DEF Queued
<1>2. q = <<>> => Queued(q) = {}
  BY DEF Queued
<1>3. ASSUME q # <<>>
      PROVE  /\ Head(q) \in JobRecs /\ Tail(q) \in Seq(JobRecs) /\ Head(q) \in Queued(q)
             /\ Queued(Tail(q)) \subseteq Queued(q) /\ Queued(q) = {Head(q)} \cup Queued(Tail(q))
  <2>1. Head(q) \in JobRecs /\ Tail(q) \in Seq(JobRecs) /\ Len(q) \in Nat /\ Len(q) > 0 /\ Len(Tail(q)) = Len(q) - 1
    BY <1>3
  <2>2. Head(q) = q[1] /\ \A i \in 1..Len(q) - 1 : Tail(q)[i] = q[i + 1]
    BY <1>3
  <2>3. Head(q) \in Queued(q)
    BY <2>1, <2>2 DEF Queued
  <2>4. \A j \in Queued(Tail(q)) : j \in Queued(q)
    BY <2>1, <2>2 DEF Queued
  <2>5. \A j \in Queued(q) : j = Head(q) \/ j \in Queued(Tail(q))
    <3> SUFFICES ASSUME NEW j \in Queued(q) PROVE j = Head(q) \/ j \in Queued(Tail(q))
      OBVIOUS
    <3>1. PICK i \in 1..Len(q) : j = q[i]
      BY DEF Queued
    <3>2. CASE i = 1
      BY <3>1, <3>2, <2>2
    <3>3. CASE i # 1
      <4>1. i - 1 \in 1..Len(Tail(q)) /\ Tail(q)[i - 1] = q[i]
        BY <3>3, <2>1, <2>2
      <4> QED
        BY <4>1, <3>1 DEF Queued
    <3> QED
      BY <3>2, <3>3
  <2> QED
    BY <2>1, <2>3, <2>4, <2>5
<1> QED
  BY <1>1, <1>2, <1>3

LEMMA QueueJoins ==
  ASSUME NEW p \in Seq(JobRecs), NEW q \in Seq(JobRecs)
  PROVE  p \o q \in Seq(JobRecs) /\ Queued(p \o q) = Queued(p) \cup Queued(q)
<1>1. /\ p \o q \in Seq(JobRecs) /\ Len(p) \in Nat /\ Len(q) \in Nat /\ Len(p \o q) = Len(p) + Len(q)
      /\ \A i \in 1..Len(p) + Len(q) : (p \o q)[i] = IF i <= Len(p) THEN p[i] ELSE q[i - Len(p)]
  OBVIOUS
<1>2. \A j \in Queued(p \o q) : j \in Queued(p) \/ j \in Queued(q)
  <2> SUFFICES ASSUME NEW j \in Queued(p \o q) PROVE j \in Queued(p) \/ j \in Queued(q)
    OBVIOUS
  <2>1. PICK i \in 1..Len(p) + Len(q) : j = (p \o q)[i]
    BY <1>1 DEF Queued
  <2>2. (i \in 1..Len(p) /\ j = p[i]) \/ (i - Len(p) \in 1..Len(q) /\ j = q[i - Len(p)])
    BY <1>1, <2>1
  <2> QED
    BY <2>2 DEF Queued
<1>3. \A j \in Queued(p) : j \in Queued(p \o q)
  <2> SUFFICES ASSUME NEW j \in Queued(p) PROVE j \in Queued(p \o q)
    OBVIOUS
  <2>1. PICK i \in 1..Len(p) : j = p[i]
    BY DEF Queued
  <2>2. i \in 1..Len(p \o q) /\ (p \o q)[i] = j
    BY <1>1, <2>1
  <2> QED
    BY <2>2 DEF Queued
<1>4. \A j \in Queued(q) : j \in Queued(p \o q)
  <2> SUFFICES ASSUME NEW j \in Queued(q) PROVE j \in Queued(p \o q)
    OBVIOUS
  <2>1. PICK i \in 1..Len(q) : j = q[i]
    BY DEF Queued
  <2>2. Len(p) + i \in 1..Len(p \o q) /\ (p \o q)[Len(p) + i] = j
    BY <1>1, <2>1
  <2> QED
    BY <2>2 DEF Queued
<1> QED
  BY <1>1, <1>2, <1>3, <1>4

LEMMA QueueOfOne ==
  ASSUME NEW j \in JobRecs, NEW q \in Seq(JobRecs)
  PROVE  /\ <<j>> \in Seq(JobRecs) /\ <<j>> # <<>> /\ Queued(<<j>>) = {j} /\ Head(<<j>>) = j /\ Tail(<<j>>) = <<>>
         /\ <<j>> \o q \in Seq(JobRecs) /\ <<j>> \o q # <<>> /\ Head(<<j>> \o q) = j /\ Tail(<<j>> \o q) = q
         /\ Queued(<<j>> \o q) = {j} \cup Queued(q)
<1>1. <<j>> \in Seq(JobRecs) /\ <<j>> # <<>> /\ Head(<<j>>) = j /\ Tail(<<j>>) = <<>> /\ Len(<<j>>) = 1 /\ <<j>>[1] = j
  OBVIOUS
<1>2. Queued(<<j>>) = {j}
  BY <1>1 DEF Queued
<1>3. <<j>> \o q \in Seq(JobRecs) /\ <<j>> \o q # <<>> /\ Head(<<j>> \o q) = j
  OBVIOUS
<1>4. Tail(<<j>> \o q) = q
  OBVIOUS
<1> QED
  BY <1>1, <1>2, <1>3, <1>4, QueueJoins

LEMMA SetOrder ==
  ASSUME NEW Q \in SUBSET JobRecs, IsFiniteSet(Q)
  PROVE  S!SetToSeq(Q) \in Seq(JobRecs) /\ Queued(S!SetToSeq(Q)) = Q
<1> DEFINE n == Cardinality(Q)
           f == S!SetToSeq(Q)
<1>1. n \in Nat /\ Bijection(1..n, Q) # {}
  BY FS_CardinalityType DEF ExistsBijection
<1>2. \E g \in [1..n -> Q] : \A i, j \in DOMAIN g : g[i] = g[j] => i = j
  BY <1>1 DEF Bijection, Injection, IsInjective
<1>3. f = CHOOSE g \in [1..n -> Q] : \A i, j \in DOMAIN g : g[i] = g[j] => i = j
  BY DEF S!SetToSeq, S!IsInjective, S!Cardinality, Cardinality
<1>4. f \in [1..n -> Q] /\ \A i, j \in DOMAIN f : f[i] = f[j] => i = j
  <2> HIDE DEF n, f
  <2> QED
    BY <1>2, <1>3, Zenon
<1>5. IsFiniteSet(1..n) /\ Cardinality(1..n) = n
  BY <1>1, FS_Interval
<1>6. f \in Injection(1..n, Q)
  BY <1>4 DEF Injection, IsInjective
<1>7. f \in Surjection(1..n, Q)
  <2> HIDE DEF f
  <2> QED
    BY <1>5, <1>6, FS_Injection
<1>8. f \in Seq(Q) /\ Len(f) = n
  <2> HIDE DEF f, n
  <2> QED
    BY <1>1, <1>4
<1>9. f \in Seq(JobRecs)
  <2> HIDE DEF f, n
  <2> QED
    BY <1>8, <1>4
<1>10. \A j \in Q : \E i \in 1..n : f[i] = j
  <2> HIDE DEF f, n
  <2> QED
    BY <1>7 DEF Surjection
<1>11. \A i \in 1..n : f[i] \in Q
  <2> HIDE DEF f, n
  <2> QED
    BY <1>4
<1> QED
  <2> HIDE DEF f, n
  <2>1. f \in Seq(JobRecs) /\ Queued(f) = Q
    BY <1>8, <1>9, <1>10, <1>11 DEF Queued
  <2> QED
    BY <2>1 DEF f

LEMMA RetiresAll ==
  ASSUME NEW U \in SUBSET S!Bases
  PROVE  S!RetireAll(U) \in Seq(JobRecs) /\ Queued(S!RetireAll(U)) = {S!Job("retire", b) : b \in U}
<1>1. MaxFaults \in Nat
  BY BuildsAssumption
<1> DEFINE I == 1..MaxFaults + 1
           e == [i \in I |-> <<"base", i>>]
           Q == {S!Job("retire", b) : b \in U}
           f == [b \in U |-> S!Job("retire", b)]
<1>2. IsFiniteSet(I)
  BY <1>1, FS_Interval
<1>3. e \in Surjection(I, S!Bases)
  <2>1. \A b \in S!Bases : b[2] \in I /\ b = <<"base", b[2]>>
    BY DEF S!Bases
  <2>2. \A i \in I : <<"base", i>> \in S!Bases
    BY DEF S!Bases
  <2> HIDE DEF I
  <2> QED
    BY <2>1, <2>2 DEF Surjection
<1>4. IsFiniteSet(S!Bases)
  <2> HIDE DEF e, I
  <2> QED
    BY <1>2, <1>3, FS_Surjection
<1>5. IsFiniteSet(U)
  BY <1>4, FS_Subset
<1>6. f \in Surjection(U, Q)
  BY DEF Surjection
<1>7. IsFiniteSet(Q)
  <2> HIDE DEF f, Q
  <2> QED
    BY <1>5, <1>6, FS_Surjection
<1>8. Q \in SUBSET JobRecs
  BY DEF JobRecs, S!Job
<1>9. S!RetireAll(U) = S!SetToSeq(Q)
  BY DEF S!RetireAll
<1> HIDE DEF Q, f
<1>10. S!RetireAll(U) \in Seq(JobRecs) /\ Queued(S!RetireAll(U)) = Q
  BY <1>7, <1>8, <1>9, SetOrder
<1> QED
  BY <1>10 DEF Q

--------------------------------------------------------------------------------
(* How an actor's queue moves. *)

Stages == {"begin", "clear", "retire", "create", "boot", "freeze", "thaw", "unstore", "branch", "relook", "grow"}

\* What a move of a's queue leaves as it was: other queues, and all its own jobs but the first.
JobsMove(a) ==
  /\ jobs' \in [S!Actors -> Seq(JobRecs)] /\ lock' \in [S!Bases -> S!Actors \cup {S!None}]
  /\ (\A c \in S!Actors : QueueFits(c))' /\ LockIsHeld'
  /\ \A c \in S!Actors : c # a => jobs'[c] = jobs[c]
  /\ \A j \in Queued(jobs[a]) : j \in Queued(jobs'[a]) \/ (jobs[a] # <<>> /\ j = Head(jobs[a]))

\* The job an actor is at comes to another stage, with the locks held as before.
LEMMA GoesMove ==
  ASSUME SmolInv, NEW a \in S!Actors, NEW stage \in Stages, jobs[a] # <<>>, S!Goes(a, stage),
         UNCHANGED host,
         \/ UNCHANGED lock /\ (Locks(Head(jobs[a])) <=> Locks([Head(jobs[a]) EXCEPT !.at = stage]))
         \/ /\ S!Takes(a, Head(jobs[a]).on) /\ Head(jobs[a]).on \in S!Bases
            /\ ~ Locks(Head(jobs[a])) /\ Locks([Head(jobs[a]) EXCEPT !.at = stage])
  PROVE  /\ JobsMove(a) /\ jobs'[a] # <<>>
         /\ Head(jobs'[a]) = [Head(jobs[a]) EXCEPT !.at = stage] /\ Head(jobs'[a]) \in Queued(jobs'[a])
<1> DEFINE h == Head(jobs[a])
           k == [h EXCEPT !.at = stage]
           t == Tail(jobs[a])
<1>1. jobs \in [S!Actors -> Seq(JobRecs)] /\ lock \in [S!Bases -> S!Actors \cup {S!None}]
  BY DEF SmolInv, SmolTypes
<1>2. h \in JobRecs /\ t \in Seq(JobRecs) /\ h \in Queued(jobs[a]) /\ Queued(jobs[a]) = {h} \cup Queued(t)
  BY <1>1, QueueIs
<1>3. k \in JobRecs /\ k.do = h.do /\ k.on = h.on /\ k.at = stage
  <2> HIDE DEF h
  <2> QED
    BY <1>2 DEF JobRecs, Stages
<1>4. jobs' = [jobs EXCEPT ![a] = <<k>> \o t]
  BY <1>1 DEF S!Goes
<1>5. QueueFits(a) /\ \A c \in S!Actors : QueueFits(c)
  BY DEF SmolInv
<1>6. UNCHANGED S!BaseOf
  BY DEF S!BaseOf
<1>7. \A b \in S!Bases, c \in S!Actors : lock[b] = c <=> jobs[c] # <<>> /\ Locks(Head(jobs[c])) /\ Head(jobs[c]).on = b
  BY DEF SmolInv, LockIsHeld
<1>8. \/ UNCHANGED lock /\ (Locks(h) <=> Locks(k))
      \/ S!Takes(a, h.on) /\ h.on \in S!Bases /\ ~ Locks(h) /\ Locks(k)
  OBVIOUS
<1> HIDE DEF h, k, t
<1>9. /\ <<k>> \o t \in Seq(JobRecs) /\ <<k>> \o t # <<>> /\ Head(<<k>> \o t) = k /\ Tail(<<k>> \o t) = t
      /\ Queued(<<k>> \o t) = {k} \cup Queued(t)
  BY <1>2, <1>3, QueueOfOne
<1>10. /\ jobs' \in [S!Actors -> Seq(JobRecs)] /\ jobs'[a] = <<k>> \o t
       /\ \A c \in S!Actors : c # a => jobs'[c] = jobs[c]
  BY <1>1, <1>4, <1>9
<1>11. \A c \in S!Actors : QueueFits(c)'
  <2> SUFFICES ASSUME NEW c \in S!Actors PROVE QueueFits(c)'
    OBVIOUS
  <2>1. CASE c # a
    BY <2>1, <1>5, <1>6, <1>10 DEF QueueFits, Does
  <2>2. CASE c = a
    <3>1. \A j \in Queued(t) : j \in Queued(jobs[a])
      BY <1>2
    <3>2. t = Tail(jobs[a]) /\ h = Head(jobs[a])
      BY DEF t, h
    <3>3. h.do = "restore" => t = <<>>
      BY <3>2, <1>5 DEF QueueFits, Does
    <3>4. Does(a, "restore")' => Tail(jobs'[a]) = <<>>
      BY <3>3, <1>3, <1>9, <1>10 DEF Does
    <3>5. \A j \in Queued(t) : j.at = "begin" /\ j.do \in {"park", "retire", "builds"}
      BY <3>2, <1>5 DEF QueueFits
    <3>6. \A j \in Queued(jobs'[a]) : /\ j.do \in Does4(a)
                                      /\ j.do \in {"park", "restore", "discard"} => j.on = S!BaseOf
                                      /\ j.do = "retire" => j.on \in S!Bases
      BY <3>1, <1>2, <1>3, <1>5, <1>9, <1>10 DEF QueueFits
    <3>7. Tail(jobs'[a]) = t /\ Does4(a)' = Does4(a)
      BY <1>9, <1>10 DEF Does4
    <3> QED
      BY <2>2, <3>4, <3>5, <3>6, <3>7, <1>6 DEF QueueFits
  <2> QED
    BY <2>1, <2>2
<1>12. LockIsHeld' /\ lock' \in [S!Bases -> S!Actors \cup {S!None}]
  <2>0. h = Head(jobs[a])
    BY DEF h
  <2>1. CASE UNCHANGED lock /\ (Locks(h) <=> Locks(k))
    <3>1. ASSUME NEW b \in S!Bases, NEW c \in S!Actors
          PROVE  lock[b] = c <=> jobs'[c] # <<>> /\ Locks(Head(jobs'[c])) /\ Head(jobs'[c]).on = b
      <4>1. CASE c = a
        BY <4>1, <2>0, <2>1, <1>3, <1>7, <1>9, <1>10
      <4>2. CASE c # a
        BY <4>2, <1>7, <1>10
      <4> QED
        BY <4>1, <4>2
    <3>2. lock' = lock
      BY <2>1
    <3>3. LockIsHeld'
      BY <3>1, <3>2 DEF LockIsHeld
    <3> QED
      BY <3>2, <3>3, <1>1
  <2>2. CASE S!Takes(a, h.on) /\ h.on \in S!Bases /\ ~ Locks(h) /\ Locks(k)
    <3>1. lock[h.on] = S!None /\ lock' = [lock EXCEPT ![h.on] = a]
      BY <2>2 DEF S!Takes
    <3>2. /\ lock' \in [S!Bases -> S!Actors \cup {S!None}] /\ lock'[h.on] = a
          /\ \A b \in S!Bases : b # h.on => lock'[b] = lock[b]
      BY <3>1, <1>1, <2>2
    <3>3. \A c \in S!Actors : ~ (jobs[c] # <<>> /\ Locks(Head(jobs[c])) /\ Head(jobs[c]).on = h.on)
      BY <3>1, <1>7, <2>2, SmolNames
    <3>4. ASSUME NEW b \in S!Bases, NEW c \in S!Actors
          PROVE  lock'[b] = c <=> jobs'[c] # <<>> /\ Locks(Head(jobs'[c])) /\ Head(jobs'[c]).on = b
      <4>1. CASE b = h.on
        BY <4>1, <2>2, <3>2, <3>3, <1>3, <1>9, <1>10
      <4>2. CASE b # h.on
        BY <4>2, <2>0, <2>2, <3>2, <1>7, <1>3, <1>9, <1>10
      <4> QED
        BY <4>1, <4>2
    <3> QED
      BY <3>2, <3>4 DEF LockIsHeld
  <2> QED
    BY <1>8, <2>1, <2>2
<1>13. \A j \in Queued(jobs[a]) : j \in Queued(jobs'[a]) \/ j = h
  BY <1>2, <1>9, <1>10
<1>14. jobs'[a] # <<>> /\ Head(jobs'[a]) = k /\ k \in Queued(jobs'[a])
  BY <1>9, <1>10
<1> QED
  BY <1>10, <1>11, <1>12, <1>13, <1>14 DEF JobsMove, h, k

\* It ends, and others follow it.
LEMMA FollowsMove ==
  ASSUME SmolInv, NEW a \in S!Actors, NEW next \in Seq(JobRecs), jobs[a] # <<>>, S!Follows(a, next),
         host'.boot = host.boot,
         \A j \in Queued(next) : /\ j.at = "begin" /\ j.do \in Does4(a) /\ j.do \in {"park", "retire", "builds"}
                                 /\ j.do = "park" => j.on = S!BaseOf
                                 /\ j.do = "retire" => j.on \in S!Bases
  PROVE  /\ JobsMove(a) /\ \A j \in Queued(next) : j \in Queued(jobs'[a])
         /\ jobs'[a] # <<>> => Head(jobs'[a]).at = "begin" /\ Head(jobs'[a]).do \in {"park", "retire", "builds"}
<1> DEFINE t == Tail(jobs[a])
<1>1. jobs \in [S!Actors -> Seq(JobRecs)] /\ lock \in [S!Bases -> S!Actors \cup {S!None}]
  BY DEF SmolInv, SmolTypes
<1>2. t \in Seq(JobRecs) /\ Queued(jobs[a]) = {Head(jobs[a])} \cup Queued(t)
  BY <1>1, QueueIs
<1>3. jobs' = [jobs EXCEPT ![a] = next \o t] /\ lock' = [b \in S!Bases |-> IF lock[b] = a THEN S!None ELSE lock[b]]
  BY <1>1 DEF S!Follows
<1>4. \A c \in S!Actors : QueueFits(c)
  BY DEF SmolInv
<1>5. UNCHANGED S!BaseOf
  BY DEF S!BaseOf
<1>6. \A b \in S!Bases, c \in S!Actors : lock[b] = c <=> jobs[c] # <<>> /\ Locks(Head(jobs[c])) /\ Head(jobs[c]).on = b
  BY DEF SmolInv, LockIsHeld
<1>7. \A j \in Queued(t) : /\ j \in Queued(jobs[a]) /\ j.at = "begin" /\ j.do \in {"park", "retire", "builds"}
                           /\ j.do \in Does4(a) /\ (j.do \in {"park", "restore", "discard"} => j.on = S!BaseOf)
                           /\ j.do = "retire" => j.on \in S!Bases
  BY <1>2, <1>4 DEF QueueFits, Does
<1> HIDE DEF t
<1>8. next \o t \in Seq(JobRecs) /\ Queued(next \o t) = Queued(next) \cup Queued(t)
  BY <1>2, QueueJoins
<1>9. /\ jobs' \in [S!Actors -> Seq(JobRecs)] /\ jobs'[a] = next \o t
      /\ \A c \in S!Actors : c # a => jobs'[c] = jobs[c]
  BY <1>1, <1>3, <1>8
<1>10. \A j \in Queued(jobs'[a]) : /\ j.at = "begin" /\ j.do \in {"park", "retire", "builds"} /\ j.do \in Does4(a)
                                   /\ j.do \in {"park", "restore", "discard"} => j.on = S!BaseOf
                                   /\ j.do = "retire" => j.on \in S!Bases
  BY <1>7, <1>8, <1>9
<1>11. jobs'[a] # <<>> => Head(jobs'[a]) \in Queued(jobs'[a]) /\ Queued(Tail(jobs'[a])) \subseteq Queued(jobs'[a])
  BY <1>9, QueueIs
<1>12. \A c \in S!Actors : QueueFits(c)'
  <2> SUFFICES ASSUME NEW c \in S!Actors PROVE QueueFits(c)'
    OBVIOUS
  <2>1. CASE c # a
    BY <2>1, <1>4, <1>5, <1>9 DEF QueueFits, Does
  <2>2. CASE c = a
    <3>1. Does4(a)' = Does4(a)
      BY DEF Does4
    <3> QED
      BY <2>2, <3>1, <1>5, <1>10, <1>11 DEF QueueFits, Does
  <2> QED
    BY <2>1, <2>2
<1>13. lock' \in [S!Bases -> S!Actors \cup {S!None}] /\ \A b \in S!Bases : lock'[b] = IF lock[b] = a THEN S!None ELSE lock[b]
  BY <1>1, <1>3
<1>14. jobs'[a] # <<>> => ~ Locks(Head(jobs'[a]))
  BY <1>10, <1>11 DEF Locks
<1>15. LockIsHeld'
  <2> SUFFICES ASSUME NEW b \in S!Bases, NEW c \in S!Actors
               PROVE  lock'[b] = c <=> jobs'[c] # <<>> /\ Locks(Head(jobs'[c])) /\ Head(jobs'[c]).on = b
    BY DEF LockIsHeld
  <2>1. CASE c = a
    BY <2>1, <1>13, <1>14, SmolNames
  <2>2. CASE c # a
    <3>1. lock'[b] = c <=> lock[b] = c
      <4>1. c # S!None
        BY SmolNames
      <4> QED
        BY <4>1, <2>2, <1>13
    <3>2. jobs'[c] = jobs[c]
      BY <2>2, <1>9
    <3> QED
      BY <3>1, <3>2, <1>6
  <2> QED
    BY <2>1, <2>2
<1>16. /\ \A j \in Queued(jobs[a]) : j \in Queued(jobs'[a]) \/ j = Head(jobs[a])
       /\ \A j \in Queued(next) : j \in Queued(jobs'[a])
  BY <1>2, <1>8, <1>9
<1> QED
  BY <1>9, <1>10, <1>11, <1>12, <1>13, <1>15, <1>16 DEF JobsMove

\* An idle actor begins a job.
LEMMA StartsMove ==
  ASSUME SmolInv, NEW a \in S!Actors, NEW j \in JobRecs, jobs[a] = <<>>,
         jobs' = [jobs EXCEPT ![a] = <<j>>], UNCHANGED <<host, lock>>,
         j.at = "begin", j.do \in Does4(a), j.do # "retire",
         j.do \in {"park", "restore", "discard"} => j.on = S!BaseOf
  PROVE  JobsMove(a) /\ jobs'[a] = <<j>> /\ jobs'[a] # <<>> /\ Head(jobs'[a]) = j /\ j \in Queued(jobs'[a])
<1>1. jobs \in [S!Actors -> Seq(JobRecs)] /\ lock \in [S!Bases -> S!Actors \cup {S!None}]
  BY DEF SmolInv, SmolTypes
<1>2. /\ <<j>> \in Seq(JobRecs) /\ <<j>> # <<>> /\ Queued(<<j>>) = {j} /\ Head(<<j>>) = j /\ Tail(<<j>>) = <<>>
  <2>1. <<>> \in Seq(JobRecs)
    OBVIOUS
  <2> QED
    BY <2>1, QueueOfOne
<1>3. Queued(<<>>) = {}
  BY DEF Queued
<1>4. /\ jobs' \in [S!Actors -> Seq(JobRecs)] /\ jobs'[a] = <<j>>
      /\ \A c \in S!Actors : c # a => jobs'[c] = jobs[c]
  BY <1>1, <1>2
<1>5. UNCHANGED S!BaseOf
  BY DEF S!BaseOf
<1>6. \A c \in S!Actors : QueueFits(c)'
  <2> SUFFICES ASSUME NEW c \in S!Actors PROVE QueueFits(c)'
    OBVIOUS
  <2>0. \A d \in S!Actors : QueueFits(d)
    BY DEF SmolInv
  <2>1. CASE c # a
    BY <2>0, <2>1, <1>4, <1>5 DEF QueueFits, Does
  <2>2. CASE c = a
    BY <2>2, <1>2, <1>3, <1>4, <1>5 DEF QueueFits, Does
  <2> QED
    BY <2>1, <2>2
<1>7. LockIsHeld'
  <2>1. \A b \in S!Bases, c \in S!Actors : lock[b] = c <=> jobs[c] # <<>> /\ Locks(Head(jobs[c])) /\ Head(jobs[c]).on = b
    BY DEF SmolInv, LockIsHeld
  <2>2. ~ Locks(j)
    BY DEF Locks
  <2> QED
    BY <2>1, <2>2, <1>2, <1>4 DEF LockIsHeld
<1>8. Queued(jobs[a]) = {}
  BY <1>3
<1> QED
  BY <1>1, <1>2, <1>4, <1>6, <1>7, <1>8 DEF JobsMove

\* What a move of a's queue leaves due: all that was, but for its first job, and what it brought.
LEMMA DuesMove ==
  ASSUME SmolInv, NEW a \in S!Actors, JobsMove(a), host'.boot = host.boot
  PROVE  /\ SettleDue => SettleDue' \/ (a = S!Settling /\ jobs[a] # <<>> /\ Head(jobs[a]).do = "settle")
         /\ \A b \in S!Bases :
              /\ RetireDue(b) => RetireDue(b)' \/ (jobs[a] # <<>> /\ Head(jobs[a]).do = "retire" /\ Head(jobs[a]).on = b)
              /\ ClearDue(b) => ClearDue(b)' \/ /\ jobs[a] # <<>> /\ Head(jobs[a]).do = "retire" /\ Head(jobs[a]).on = b
                                                /\ Head(jobs[a]).at \in {"begin", "clear"}
              /\ DiscardDue(b) => DiscardDue(b)' \/ /\ a = S!Copy /\ jobs[a] # <<>>
                                                    /\ Head(jobs[a]).do = "discard" /\ Head(jobs[a]).at = "retire"
              /\ Thaws(b) => Thaws(b)' \/ (jobs[a] # <<>> /\ Head(jobs[a]).do = "park" /\ Head(jobs[a]).at \in {"clear", "thaw"})
         /\ ParkDue => ParkDue' \/ /\ jobs[a] # <<>>
                                   /\ \/ a = S!Settling /\ Head(jobs[a]).do = "builds"
                                      \/ Head(jobs[a]).do = "park" /\ Head(jobs[a]).at = "begin"
         /\ \A j \in Queued(jobs'[a]) :
              /\ j.do = "retire" => RetireDue(j.on)' /\ (j.at \in {"begin", "clear"} => ClearDue(j.on)')
              /\ j.do = "park" /\ j.at = "begin" => ParkDue'
              /\ a = S!Settling /\ j.do = "builds" => ParkDue'
<1> DEFINE h == Head(jobs[a])
           X == jobs[a] # <<>>
<1>1. UNCHANGED S!BaseOf
  BY DEF S!BaseOf
<1>2. /\ \A c \in S!Actors : c # a => jobs'[c] = jobs[c]
      /\ \A j \in Queued(jobs[a]) : j \in Queued(jobs'[a]) \/ (X /\ j = h)
  BY DEF JobsMove
<1>3. S!Settling \in S!Actors /\ S!Copy \in S!Actors
  BY SmolNames
<1>4. SettleDue => SettleDue' \/ (a = S!Settling /\ X /\ h.do = "settle")
  BY <1>2, <1>3 DEF SettleDue, Does
<1> HIDE DEF h, X
<1>5. ASSUME NEW b \in S!Bases
      PROVE  /\ RetireDue(b) => RetireDue(b)' \/ (X /\ h.do = "retire" /\ h.on = b)
             /\ ClearDue(b) => ClearDue(b)' \/ (X /\ h.do = "retire" /\ h.on = b /\ h.at \in {"begin", "clear"})
  <2>1. ASSUME RetireDue(b), ~ (X /\ h.do = "retire" /\ h.on = b) PROVE RetireDue(b)'
    <3>1. PICK c \in S!Actors : \E j \in Queued(jobs[c]) : j.do = "retire" /\ j.on = b
      BY <2>1 DEF RetireDue
    <3>2. PICK j \in Queued(jobs[c]) : j.do = "retire" /\ j.on = b
      BY <3>1
    <3>3. j \in Queued(jobs'[c])
      BY <3>2, <2>1, <1>2
    <3> QED
      BY <3>2, <3>3 DEF RetireDue
  <2>2. ASSUME ClearDue(b), ~ (X /\ h.do = "retire" /\ h.on = b /\ h.at \in {"begin", "clear"}) PROVE ClearDue(b)'
    <3>1. PICK c \in S!Actors : \E j \in Queued(jobs[c]) : j.do = "retire" /\ j.on = b /\ j.at \in {"begin", "clear"}
      BY <2>2 DEF ClearDue
    <3>2. PICK j \in Queued(jobs[c]) : j.do = "retire" /\ j.on = b /\ j.at \in {"begin", "clear"}
      BY <3>1
    <3>3. j \in Queued(jobs'[c])
      BY <3>2, <2>2, <1>2
    <3> QED
      BY <3>2, <3>3 DEF ClearDue
  <2> QED
    BY <2>1, <2>2
<1>6. ASSUME NEW b \in S!Bases
      PROVE  /\ DiscardDue(b) => DiscardDue(b)' \/ (a = S!Copy /\ X /\ h.do = "discard" /\ h.at = "retire")
             /\ Thaws(b) => Thaws(b)' \/ (X /\ h.do = "park" /\ h.at \in {"clear", "thaw"})
  <2>1. ASSUME DiscardDue(b), ~ (a = S!Copy /\ X /\ h.do = "discard" /\ h.at = "retire") PROVE DiscardDue(b)'
    BY <2>1, <1>1, <1>2, <1>3 DEF DiscardDue, Is, Does, h, X
  <2>2. ASSUME Thaws(b), ~ (X /\ h.do = "park" /\ h.at \in {"clear", "thaw"}) PROVE Thaws(b)'
    <3>1. PICK c \in S!Actors : Does(c, "park") /\ Head(jobs[c]).at \in {"clear", "thaw"} /\ b = S!BaseOf
      BY <2>2 DEF Thaws
    <3>2. c # a
      BY <3>1, <2>2 DEF Does, h, X
    <3> QED
      BY <3>1, <3>2, <1>1, <1>2 DEF Thaws, Does
  <2> QED
    BY <2>1, <2>2
<1>7. ASSUME ParkDue, ~ (X /\ ((a = S!Settling /\ h.do = "builds") \/ (h.do = "park" /\ h.at = "begin"))) PROVE ParkDue'
  <2>1. CASE \E j \in Queued(jobs[S!Settling]) : j.do = "builds"
    <3>1. PICK j \in Queued(jobs[S!Settling]) : j.do = "builds"
      BY <2>1
    <3>2. j \in Queued(jobs'[S!Settling])
      <4>1. CASE a = S!Settling
        <5>1. j \in Queued(jobs[a]) /\ j.do = "builds"
          BY <4>1, <3>1
        <5>2. ~ (X /\ j = h)
          BY <5>1, <4>1, <1>7
        <5>3. j \in Queued(jobs'[a])
          BY <5>1, <5>2, <1>2
        <5> QED
          BY <5>3, <4>1
      <4>2. CASE a # S!Settling
        BY <4>2, <3>1, <1>2, <1>3
      <4> QED
        BY <4>1, <4>2
    <3> QED
      BY <3>1, <3>2 DEF ParkDue
  <2>2. CASE \E c \in S!Actors : \E j \in Queued(jobs[c]) : j.do = "park" /\ j.at = "begin"
    <3>1. PICK c \in S!Actors : \E j \in Queued(jobs[c]) : j.do = "park" /\ j.at = "begin"
      BY <2>2
    <3>2. PICK j \in Queued(jobs[c]) : j.do = "park" /\ j.at = "begin"
      BY <3>1
    <3>3. j \in Queued(jobs'[c])
      BY <3>2, <1>2, <1>7
    <3> QED
      BY <3>2, <3>3 DEF ParkDue
  <2> QED
    BY <2>1, <2>2, <1>7 DEF ParkDue
<1>8. ASSUME NEW j \in Queued(jobs'[a])
      PROVE  /\ j.do = "retire" => RetireDue(j.on)' /\ (j.at \in {"begin", "clear"} => ClearDue(j.on)')
             /\ j.do = "park" /\ j.at = "begin" => ParkDue'
             /\ a = S!Settling /\ j.do = "builds" => ParkDue'
  BY DEF RetireDue, ClearDue, ParkDue
<1> QED
  BY <1>4, <1>5, <1>6, <1>7, <1>8 DEF h, X

\* The covers that a move of a's queue leaves.
LEMMA BaseStays ==
  ASSUME SmolInv, NEW a \in S!Actors, JobsMove(a), host'.boot = host.boot, host.unclean => host'.unclean,
         NEW b \in S!Bases, S!Present(b), S!Wanted(b) => S!Wanted(b)', Kept(b) => Kept(b)',
         jobs[a] # <<>> => /\ ~ (a = S!Settling /\ Head(jobs[a]).do = "settle")
                           /\ ~ (Head(jobs[a]).do = "retire" /\ Head(jobs[a]).on = b)
                           /\ ~ (a = S!Copy /\ Head(jobs[a]).do = "discard" /\ Head(jobs[a]).at = "retire")
  PROVE  host'.unclean \/ BaseMayStay(b)'
<1>1. host.unclean \/ BaseMayStay(b)
  BY DEF SmolInv, BasesCovered
<1> QED
  BY <1>1, DuesMove DEF BaseMayStay

LEMMA FreezerStays ==
  ASSUME SmolInv, NEW a \in S!Actors, JobsMove(a), host'.boot = host.boot, host.unclean => host'.unclean,
         NEW b \in S!Bases, S!Present(S!FreezerOf(b)), S!Wanted(b) <=> S!Wanted(b)',
         jobs[a] # <<>> => /\ ~ (a = S!Settling /\ Head(jobs[a]).do = "settle")
                           /\ Head(jobs[a]).do = "retire" /\ Head(jobs[a]).on = b /\ Head(jobs[a]).at \in {"begin", "clear"} => S!Wanted(b)
                           /\ ~ (a = S!Copy /\ Head(jobs[a]).do = "discard" /\ Head(jobs[a]).at = "retire")
                           /\ ~ (Head(jobs[a]).do = "park" /\ Head(jobs[a]).at \in {"clear", "thaw"})
                           /\ Head(jobs[a]).do = "park" /\ Head(jobs[a]).at = "begin" => ~ S!Wanted(b)
                           /\ a = S!Settling /\ Head(jobs[a]).do = "builds" => ~ S!Wanted(b)
  PROVE  host'.unclean \/ FreezerMayStay(b)'
<1>1. host.unclean \/ FreezerMayStay(b)
  BY DEF SmolInv, FreezersCovered
<1> QED
  BY <1>1, DuesMove DEF FreezerMayStay

\* One name comes to be as v says.
RecSets(n, v) == rec' = [rec EXCEPT ![n] = v]

LEMMA RecMoves ==
  ASSUME SmolInv, NEW n \in VmNames, NEW v \in VmRecs, RecSets(n, v),
         v.state = "missing" => v.parent = S!None,
         n \in S!Bases => v.parent = S!None,
         n \in S!Freezers /\ v.state # "missing" => v.parent \in S!Bases /\ n = S!FreezerOf(v.parent)
  PROVE  /\ rec' \in [VmNames -> VmRecs] /\ rec'[n] = v /\ \A k \in VmNames : k # n => rec'[k] = rec[k]
         /\ Branches' /\ (S!Present(n)' <=> v.state # "missing") /\ \A k \in VmNames : k # n => (S!Present(k)' <=> S!Present(k))
         /\ \A b \in S!Bases : Kept(b) => Kept(b)' \/ (n \in S!Natives /\ rec[n].parent = b /\ v.parent # b)
<1>1. rec \in [VmNames -> VmRecs] /\ Branches
  BY DEF SmolInv, SmolTypes
<1>2. rec' \in [VmNames -> VmRecs] /\ rec'[n] = v /\ \A k \in VmNames : k # n => rec'[k] = rec[k]
  BY <1>1 DEF RecSets
<1>3. \A k \in VmNames : rec'[k].state = "missing" => rec'[k].parent = S!None
  BY <1>1, <1>2 DEF Branches
<1>4. ASSUME NEW b \in S!Bases PROVE rec'[b].parent = S!None
  BY <1>1, <1>2, SmolNames DEF Branches
<1>5. ASSUME NEW b \in S!Bases, rec'[S!FreezerOf(b)].state # "missing" PROVE rec'[S!FreezerOf(b)].parent = b
  <2>1. CASE S!FreezerOf(b) = n
    BY <2>1, <1>2, <1>5, SmolNames
  <2>2. CASE S!FreezerOf(b) # n
    BY <2>2, <1>1, <1>2, <1>5, SmolNames DEF Branches, S!Present
  <2> QED
    BY <2>1, <2>2
<1>6. Branches'
  BY <1>3, <1>4, <1>5 DEF Branches, S!Present
<1>7. (S!Present(n)' <=> v.state # "missing") /\ \A k \in VmNames : k # n => (S!Present(k)' <=> S!Present(k))
  BY <1>2 DEF S!Present
<1>8. ASSUME NEW b \in S!Bases, Kept(b), ~ (n \in S!Natives /\ rec[n].parent = b /\ v.parent # b) PROVE Kept(b)'
  <2>1. PICK m \in S!Natives : rec[m].parent = b
    BY <1>8 DEF Kept
  <2>2. rec'[m].parent = b
    BY <2>1, <1>2, <1>8, SmolNames
  <2> QED
    BY <2>2 DEF Kept
<1> QED
  BY <1>2, <1>6, <1>7, <1>8

--------------------------------------------------------------------------------
(* Parking keeps the invariant. *)

\* What an actor's first job is known to be.
LEMMA FirstJob ==
  ASSUME SmolInv, NEW a \in S!Actors, jobs[a] # <<>>
  PROVE  /\ Head(jobs[a]) \in JobRecs /\ Head(jobs[a]).do \in Does4(a)
         /\ Head(jobs[a]).do \in {"park", "restore", "discard"} => Head(jobs[a]).on = S!BaseOf
         /\ Head(jobs[a]).do = "retire" => Head(jobs[a]).on \in S!Bases
         /\ S!BaseOf \in S!Bases /\ (Head(jobs[a]).do = "restore" => Tail(jobs[a]) = <<>>)
         /\ Locks(Head(jobs[a])) => \A c \in S!Actors : c # a /\ jobs[c] # <<>> /\ Locks(Head(jobs[c])) /\ Head(jobs[a]).on \in S!Bases
                                      => Head(jobs[c]).on # Head(jobs[a]).on
<1>1. jobs[a] \in Seq(JobRecs) /\ S!BaseOf \in S!Bases
  BY SmolBaseOf DEF SmolInv, SmolTypes
<1>2. Head(jobs[a]) \in JobRecs /\ Head(jobs[a]) \in Queued(jobs[a])
  BY <1>1, QueueIs
<1>3. QueueFits(a) /\ LockIsHeld
  BY DEF SmolInv
<1> QED
  BY <1>1, <1>2, <1>3 DEF QueueFits, LockIsHeld, Does

\* Nothing of a machine moves.
LEMMA MachinesStay ==
  ASSUME SmolInv, NEW a \in S!Actors, JobsMove(a), \A m \in S!Natives : made'[m] = made[m], a \in S!Natives => jobs[a] # <<>>,
         \A m \in S!Natives : rec'[m].parent = rec[m].parent /\ (S!Present(m)' <=> S!Present(m)),
         jobs'[a] # <<>> => Head(jobs'[a]).do \notin {"restore", "delete"}
  PROVE  (\A m \in S!Natives : MachineFits(m))'
<1> SUFFICES ASSUME NEW m \in S!Natives PROVE MachineFits(m)'
  OBVIOUS
<1>1. MachineFits(m) /\ m \in S!Actors
  BY SmolNames DEF SmolInv
<1>2. CASE m # a
  <2>1. jobs'[m] = jobs[m]
    BY <1>1, <1>2 DEF JobsMove
  <2> QED
    BY <2>1, <1>1 DEF MachineFits, Does
<1>3. CASE m = a
  <2>1. made[m] = "none" => jobs'[m] = <<>>
    BY <1>1, <1>3 DEF MachineFits
  <2> QED
    BY <1>1, <1>3, <2>1 DEF MachineFits, Does
<1> QED
  BY <1>2, <1>3

LEMMA CopyStays ==
  ASSUME SmolInv, NEW a \in S!Actors, JobsMove(a), stored' = stored, host'.version = host.version, made'[S!Copy] = made[S!Copy],
         jobs'[a] # <<>> => /\ Head(jobs'[a]).do = "park" /\ Locks(Head(jobs'[a])) => S!CapturedHere
                            /\ a = S!Copy /\ Head(jobs'[a]).do = "discard" => made[S!Copy] = "discarding"
                            /\ Head(jobs'[a]).do = "restore" => made[S!Copy] = "made"
  PROVE  CopyIsKept'
<1>1. CopyIsKept /\ \A c \in S!Actors : c # a => jobs'[c] = jobs[c]
  BY DEF SmolInv, JobsMove
<1>2. S!CapturedHere' <=> S!CapturedHere
  BY DEF S!CapturedHere
<1>3. ASSUME NEW c \in S!Actors, Does(c, "park")', Locks(Head(jobs'[c])) PROVE S!CapturedHere'
  <2>1. CASE c = a
    BY <2>1, <1>2, <1>3 DEF Does
  <2>2. CASE c # a
    BY <2>2, <1>1, <1>2, <1>3 DEF Does, CopyIsKept
  <2> QED
    BY <2>1, <2>2
<1>4. ASSUME Does(S!Copy, "discard")' PROVE made[S!Copy] = "discarding"
  <2>1. CASE S!Copy = a
    BY <2>1, <1>4 DEF Does
  <2>2. CASE S!Copy # a
    BY <2>2, <1>1, <1>4, SmolNames DEF Does, CopyIsKept
  <2> QED
    BY <2>1, <2>2
<1>5. ASSUME NEW m \in S!Natives, Does(m, "restore")' PROVE made[S!Copy] = "made"
  <2>1. CASE m = a
    BY <2>1, <1>5 DEF Does
  <2>2. CASE m # a
    BY <2>2, <1>1, <1>5, SmolNames DEF Does, CopyIsKept
  <2> QED
    BY <2>1, <2>2
<1>6. \A c \in S!Actors : Does(c, "park")' /\ Locks(Head(jobs'[c])) => S!CapturedHere'
  BY <1>3
<1>7. \A m \in S!Natives : Does(m, "restore")' => made'[S!Copy] = "made"
  BY <1>5
<1>8. Does(S!Copy, "discard")' => made'[S!Copy] = "discarding"
  BY <1>4
<1>9. /\ made'[S!Copy] \in {"none", "made", "discarding"}
      /\ made'[S!Copy] = "none" => stored' = 0
      /\ made'[S!Copy] = "made" => stored' # 0
  BY <1>1 DEF CopyIsKept
<1> QED
  BY <1>6, <1>7, <1>8, <1>9 DEF CopyIsKept

LEMMA ClearedStays ==
  ASSUME SmolInv, NEW a \in S!Actors, JobsMove(a),
         \A b \in S!Bases : S!Present(S!FreezerOf(b))' =>
           \/ S!Present(S!FreezerOf(b))
           \/ \E c \in S!Actors : lock[b] = c /\ ~ (Head(jobs[c]).do = "retire"),
         jobs'[a] # <<>> /\ Head(jobs'[a]).do = "retire" /\ Head(jobs'[a]).at = "retire"
           => rec'[S!FreezerOf(Head(jobs'[a]).on)].state = "missing"
  PROVE  Cleared'
<1> SUFFICES ASSUME NEW c \in S!Actors, Is(c, "retire", "retire")'
             PROVE  rec'[S!FreezerOf(Head(jobs'[c]).on)].state = "missing"
  BY DEF Cleared, S!Present, S!FreezerOf
<1>1. CASE c = a
  BY <1>1 DEF Is, Does
<1>2. CASE c # a
  <2>1. jobs'[c] = jobs[c] /\ Is(c, "retire", "retire")
    BY <1>2 DEF Is, Does, JobsMove
  <2>2. ~ S!Present(S!FreezerOf(Head(jobs[c]).on)) /\ Head(jobs[c]).on \in S!Bases
    BY <2>1, FirstJob DEF SmolInv, Cleared, Is, Does
  <2>3. lock[Head(jobs[c]).on] = c /\ Head(jobs[c]).do = "retire"
    BY <2>1, <2>2 DEF SmolInv, LockIsHeld, Locks, Is, Does
  <2>4. ASSUME NEW d \in S!Bases, d = Head(jobs[c]).on PROVE rec'[S!FreezerOf(d)].state = "missing"
    <3>1. ~ S!Present(S!FreezerOf(d))
      BY <2>2, <2>4
    <3>2. ~ \E e \in S!Actors : lock[d] = e /\ ~ (Head(jobs[e]).do = "retire")
      BY <2>3, <2>4
    <3>3. ~ S!Present(S!FreezerOf(d))'
      BY <3>1, <3>2
    <3> QED
      BY <3>3 DEF S!Present
  <2> QED
    BY <2>1, <2>2, <2>4
<1> QED
  BY <1>1, <1>2

\* A step of a park that began: its base is wanted, and its own.
LEMMA ParkMoves ==
  ASSUME SmolInv, NEW a \in S!Actors, jobs[a] # <<>>, Head(jobs[a]).do = "park", Head(jobs[a]).at # "begin",
         JobsMove(a), UNCHANGED <<stored, host, made, faults>>, rec' \in [VmNames -> VmRecs], Branches',
         \A m \in S!Natives : rec'[m] = rec[m],
         \A b \in S!Bases : b # S!BaseOf => /\ S!Present(b)' => S!Present(b)
                                            /\ S!Present(S!FreezerOf(b))' => S!Present(S!FreezerOf(b)),
         S!Present(S!FreezerOf(S!BaseOf))' =>
           \/ S!Present(S!FreezerOf(S!BaseOf)) /\ Head(jobs[a]).at \notin {"clear", "thaw"}
           \/ jobs'[a] # <<>> /\ Head(jobs'[a]).do = "park" /\ Head(jobs'[a]).at = "thaw",
         jobs'[a] # <<>> => \/ Head(jobs'[a]).do = "park" /\ Head(jobs'[a]).at # "begin"
                            \/ Head(jobs'[a]).do \in {"park", "retire", "builds"} /\ Head(jobs'[a]).at = "begin"
  PROVE  SmolInv'
<1> DEFINE h == Head(jobs[a])
<1>1. /\ h \in JobRecs /\ h.on = S!BaseOf /\ S!BaseOf \in S!Bases /\ Locks(h) /\ lock[S!BaseOf] = a
      /\ h.do = "park" /\ h.at # "begin" /\ S!CapturedHere
  <2>1. h \in JobRecs /\ h.on = S!BaseOf /\ S!BaseOf \in S!Bases
    BY FirstJob
  <2>2. Locks(h)
    BY DEF Locks
  <2>3. lock[S!BaseOf] = a /\ S!CapturedHere
    BY <2>1, <2>2 DEF SmolInv, LockIsHeld, CopyIsKept, Does
  <2> QED
    BY <2>1, <2>2, <2>3
<1>2. UNCHANGED S!BaseOf /\ (S!CapturedHere' <=> S!CapturedHere) /\ \A b : S!Wanted(b)' <=> S!Wanted(b)
  BY DEF S!BaseOf, S!CapturedHere, S!Wanted
<1>3. S!Wanted(S!BaseOf) /\ \A b : b # S!BaseOf => ~ S!Wanted(b)
  BY <1>1 DEF S!Wanted
<1>4. CopyIsKept'
  BY <1>1, CopyStays, Zenon
<1>5. Cleared'
  <2>1. \A b \in S!Bases : S!Present(S!FreezerOf(b))' =>
          S!Present(S!FreezerOf(b)) \/ \E c \in S!Actors : lock[b] = c /\ ~ (Head(jobs[c]).do = "retire")
    BY <1>1
  <2> QED
    BY <2>1, ClearedStays
<1>6. (\A m \in S!Natives : MachineFits(m))'
  <2>1. \A m \in S!Natives : rec'[m].parent = rec[m].parent /\ (S!Present(m)' <=> S!Present(m))
    BY DEF S!Present
  <2> QED
    BY <2>1, MachinesStay
<1>7. ASSUME NEW b \in S!Bases, S!Present(b)' PROVE host'.unclean \/ BaseMayStay(b)'
  <2>1. CASE b = S!BaseOf
    BY <2>1, <1>2, <1>3 DEF BaseMayStay
  <2>2. CASE b # S!BaseOf
    <3>1. Kept(b) => Kept(b)'
      BY DEF Kept
    <3>2. S!Present(b)
      BY <2>2, <1>7
    <3> QED
      BY <3>1, <3>2, <1>1, <1>2, BaseStays
  <2> QED
    BY <2>1, <2>2
<1>8. ASSUME NEW b \in S!Bases, S!Present(S!FreezerOf(b))' PROVE host'.unclean \/ FreezerMayStay(b)'
  <2>1. CASE b = S!BaseOf /\ jobs'[a] # <<>> /\ Head(jobs'[a]).do = "park" /\ Head(jobs'[a]).at = "thaw"
    <3>1. Thaws(b)'
      BY <2>1, <1>2 DEF Thaws, Does
    <3> QED
      BY <3>1 DEF FreezerMayStay
  <2>2. CASE S!Present(S!FreezerOf(b)) /\ b = S!BaseOf /\ h.at \notin {"clear", "thaw"}
    BY <2>2, <1>1, <1>2, FreezerStays
  <2>3. CASE b # S!BaseOf
    <3>1. host.unclean \/ FreezerMayStay(b)
      BY <2>3, <1>8 DEF SmolInv, FreezersCovered
    <3>2. SettleDue => SettleDue'
      BY <1>1, DuesMove
    <3>3. ClearDue(b) => ClearDue(b)'
      BY <1>1, DuesMove
    <3>4. ~ DiscardDue(b) /\ ~ Thaws(b) /\ ~ S!Wanted(b) /\ ~ S!Wanted(b)'
      BY <2>3, <1>2, <1>3 DEF DiscardDue, Thaws
    <3> QED
      BY <3>1, <3>2, <3>3, <3>4 DEF FreezerMayStay
  <2> QED
    BY <2>1, <2>2, <2>3, <1>2, <1>8
<1> QED
  BY <1>4, <1>5, <1>6, <1>7, <1>8 DEF SmolInv, SmolTypes, JobsMove, BasesCovered, FreezersCovered

LEMMA ParkBeginsHolds ==
  ASSUME SmolInv, NEW a \in S!Actors, S!ParkBegins(a)
  PROVE  SmolInv'
<1> DEFINE h == Head(jobs[a])
<1>1. jobs[a] # <<>> /\ h.do = "park" /\ h.at = "begin" /\ UNCHANGED <<rec, stored, host, made, faults>>
  BY DEF S!ParkBegins, S!At
<1>2. h \in JobRecs /\ h.on = S!BaseOf /\ S!BaseOf \in S!Bases
  BY <1>1, FirstJob
<1>3. UNCHANGED S!BaseOf /\ (S!CapturedHere' <=> S!CapturedHere) /\ \A b : S!Wanted(b)' <=> S!Wanted(b)
  BY <1>1 DEF S!BaseOf, S!CapturedHere, S!Wanted
<1>4. \/ /\ S!CapturedHere /\ JobsMove(a) /\ jobs'[a] # <<>> /\ Head(jobs'[a]).do = "park" /\ Head(jobs'[a]).at = "clear"
      \/ /\ ~ S!CapturedHere /\ JobsMove(a)
         /\ jobs'[a] # <<>> => Head(jobs'[a]).at = "begin" /\ Head(jobs'[a]).do \in {"park", "retire", "builds"}
  <2>1. CASE S!CapturedHere
    <3>1. S!Takes(a, h.on) /\ S!Goes(a, "clear")
      BY <2>1 DEF S!ParkBegins, S!On
    <3>2. [h EXCEPT !.at = "clear"].do = "park" /\ [h EXCEPT !.at = "clear"].at = "clear"
      <4> HIDE DEF h
      <4> QED
        BY <1>1, <1>2 DEF JobRecs
    <3>3. ~ Locks(h) /\ Locks([h EXCEPT !.at = "clear"])
      BY <1>1, <3>2 DEF Locks
    <3>4. "clear" \in Stages
      BY DEF Stages
    <3>5. JobsMove(a) /\ jobs'[a] # <<>> /\ Head(jobs'[a]) = [h EXCEPT !.at = "clear"]
      BY <1>1, <1>2, <3>1, <3>3, <3>4, GoesMove
    <3> QED
      BY <2>1, <3>2, <3>5
  <2>2. CASE ~ S!CapturedHere
    <3>1. S!Follows(a, <<>>)
      BY <2>2 DEF S!ParkBegins, S!Ends
    <3>2. <<>> \in Seq(JobRecs) /\ Queued(<<>>) = {}
      BY DEF Queued
    <3> QED
      BY <1>1, <2>2, <3>1, <3>2, FollowsMove
  <2> QED
    BY <2>1, <2>2
<1>5. JobsMove(a) /\ (jobs'[a] # <<>> => Head(jobs'[a]).do \in {"park", "retire", "builds"}
                                         /\ (Head(jobs'[a]).at = "begin" \/ (Head(jobs'[a]).do = "park" /\ S!CapturedHere)))
  BY <1>4
<1>6. CopyIsKept'
  <2>1. jobs'[a] # <<>> => /\ Head(jobs'[a]).do = "park" /\ Locks(Head(jobs'[a])) => S!CapturedHere
                           /\ Head(jobs'[a]).do # "discard" /\ Head(jobs'[a]).do # "restore"
    BY <1>5 DEF Locks
  <2> QED
    BY <2>1, <1>1, <1>5, CopyStays
<1>7. Cleared'
  <2>1. \A b \in S!Bases : S!Present(S!FreezerOf(b))' => S!Present(S!FreezerOf(b))
    BY <1>1 DEF S!Present
  <2>2. ~ (jobs'[a] # <<>> /\ Head(jobs'[a]).do = "retire" /\ Head(jobs'[a]).at = "retire")
    BY <1>5
  <2> QED
    BY <2>1, <2>2, <1>5, ClearedStays
<1>8. (\A m \in S!Natives : MachineFits(m))'
  <2>1. \A m \in S!Natives : rec'[m].parent = rec[m].parent /\ (S!Present(m)' <=> S!Present(m))
    BY <1>1 DEF S!Present
  <2> QED
    BY <2>1, <1>1, <1>5, MachinesStay
<1>9. ASSUME NEW b \in S!Bases, S!Present(b)' PROVE host'.unclean \/ BaseMayStay(b)'
  <2>1. (Kept(b) => Kept(b)') /\ S!Present(b)
    BY <1>1, <1>9 DEF Kept, S!Present
  <2> QED
    BY <2>1, <1>1, <1>3, <1>5, BaseStays
<1>10. ASSUME NEW b \in S!Bases, S!Present(S!FreezerOf(b))' PROVE host'.unclean \/ FreezerMayStay(b)'
  <2>1. S!Present(S!FreezerOf(b))
    BY <1>1, <1>10 DEF S!Present
  <2>2. CASE ~ S!Wanted(b)
    BY <2>1, <2>2, <1>1, <1>3, <1>5, FreezerStays
  <2>3. CASE S!Wanted(b)
    <3>1. b = S!BaseOf /\ S!CapturedHere
      BY <2>3 DEF S!Wanted
    <3>2. Thaws(b)'
      BY <3>1, <1>3, <1>4 DEF Thaws, Does
    <3> QED
      BY <3>2 DEF FreezerMayStay
  <2> QED
    BY <2>2, <2>3
<1>11. Branches'
  BY <1>1 DEF SmolInv, Branches, S!Present
<1> QED
  BY <1>1, <1>5, <1>6, <1>7, <1>8, <1>9, <1>10, <1>11 DEF SmolInv, SmolTypes, JobsMove, BasesCovered, FreezersCovered

LEMMA GoesOn ==
  ASSUME SmolInv, NEW a \in S!Actors, jobs[a] # <<>>, NEW stage \in Stages, stage # "begin", S!Goes(a, stage),
         UNCHANGED <<host, lock>>, Head(jobs[a]).at # "begin" \/ Head(jobs[a]).do \notin {"park", "retire", "discard"}
  PROVE  /\ JobsMove(a) /\ jobs'[a] # <<>> /\ Head(jobs'[a]).do = Head(jobs[a]).do /\ Head(jobs'[a]) \in Queued(jobs'[a])
         /\ Head(jobs'[a]).on = Head(jobs[a]).on /\ Head(jobs'[a]).at = stage
<1> DEFINE h == Head(jobs[a])
           k == [h EXCEPT !.at = stage]
<1>1. h \in JobRecs
  BY FirstJob
<1>2. k.do = h.do /\ k.on = h.on /\ k.at = stage
  <2> HIDE DEF h
  <2> QED
    BY <1>1 DEF JobRecs
<1>3. Locks(h) <=> Locks(k)
  <2> HIDE DEF k
  <2> QED
    BY <1>2 DEF Locks
<1>4. JobsMove(a) /\ jobs'[a] # <<>> /\ Head(jobs'[a]) = k /\ k \in Queued(jobs'[a])
  BY <1>3, GoesMove
<1> HIDE DEF k
<1> QED
  BY <1>2, <1>4

LEMMA TakesOn ==
  ASSUME SmolInv, NEW a \in S!Actors, jobs[a] # <<>>, NEW stage \in Stages, stage # "begin", S!Goes(a, stage),
         UNCHANGED host, S!Takes(a, Head(jobs[a]).on), Head(jobs[a]).on \in S!Bases,
         Head(jobs[a]).at = "begin", Head(jobs[a]).do \in {"park", "retire", "discard"}
  PROVE  /\ JobsMove(a) /\ jobs'[a] # <<>> /\ Head(jobs'[a]).do = Head(jobs[a]).do /\ Head(jobs'[a]) \in Queued(jobs'[a])
         /\ Head(jobs'[a]).on = Head(jobs[a]).on /\ Head(jobs'[a]).at = stage
<1> DEFINE h == Head(jobs[a])
           k == [h EXCEPT !.at = stage]
<1>1. h \in JobRecs
  BY FirstJob
<1>2. k.do = h.do /\ k.on = h.on /\ k.at = stage
  <2> HIDE DEF h
  <2> QED
    BY <1>1 DEF JobRecs
<1>3. ~ Locks(h) /\ Locks(k)
  <2> HIDE DEF k
  <2> QED
    BY <1>2 DEF Locks
<1>4. JobsMove(a) /\ jobs'[a] # <<>> /\ Head(jobs'[a]) = k /\ k \in Queued(jobs'[a])
  BY <1>3, GoesMove
<1> HIDE DEF k
<1> QED
  BY <1>2, <1>4

LEMMA EndsOn ==
  ASSUME SmolInv, NEW a \in S!Actors, jobs[a] # <<>>, S!Ends(a), host'.boot = host.boot
  PROVE  /\ JobsMove(a)
         /\ jobs'[a] # <<>> => Head(jobs'[a]).at = "begin" /\ Head(jobs'[a]).do \in {"park", "retire", "builds"}
<1>1. S!Follows(a, <<>>)
  BY DEF S!Ends
<1>2. <<>> \in Seq(JobRecs) /\ Queued(<<>>) = {}
  BY DEF Queued
<1> QED
  BY <1>1, <1>2, FollowsMove

LEMMA MissingIs ==
  S!Missing \in VmRecs /\ S!Missing.state = "missing" /\ S!Missing.parent = S!None
BY DEF S!Missing, VmRecs, VmStates

\* A name is removed.
LEMMA Removed1 ==
  ASSUME SmolInv, NEW n \in VmNames, S!Removes(n)
  PROVE  /\ rec' \in [VmNames -> VmRecs] /\ rec'[n] = S!Missing /\ \A k \in VmNames : k # n => rec'[k] = rec[k]
         /\ Branches' /\ ~ S!Present(n)' /\ \A k \in VmNames : S!Present(k)' => S!Present(k)
         /\ \A b \in S!Bases : Kept(b) => Kept(b)' \/ (n \in S!Natives /\ rec[n].parent = b)
<1>1. RecSets(n, S!Missing)
  BY DEF RecSets, S!Removes
<1> QED
  BY <1>1, MissingIs, RecMoves

LEMMA ParkingHolds ==
  ASSUME SmolInv, NEW a \in S!Actors, S!Parking(a)
  PROVE  SmolInv'
<1> DEFINE h == Head(jobs[a])
           f == S!FreezerOf(S!BaseOf)
           Fits == rec' \in [VmNames -> VmRecs] /\ Branches' /\ \A m \in S!Natives : rec'[m] = rec[m]
           Then == jobs'[a] # <<>> => \/ Head(jobs'[a]).do = "park" /\ Head(jobs'[a]).at # "begin"
                                      \/ Head(jobs'[a]).do \in {"park", "retire", "builds"} /\ Head(jobs'[a]).at = "begin"
<1>0. S!BaseOf \in S!Bases /\ f \in VmNames /\ f \in S!Freezers /\ f \notin S!Bases /\ f \notin S!Natives /\ S!BaseOf \in VmNames
  BY SmolNames, SmolBaseOf DEF SmolInv
<1>00. \A b \in S!Bases : S!FreezerOf(b) # S!BaseOf /\ (b # S!BaseOf => S!FreezerOf(b) # f) /\ b # f
  BY <1>0, SmolNames
<1>000. \A n, s : rec' = [rec EXCEPT ![n] = s] <=> RecSets(n, s)
  BY DEF RecSets
<1>r. rec \in [VmNames -> VmRecs] /\ Branches
  BY DEF SmolInv, SmolTypes
<1>n. \A b \in S!Bases : b \in VmNames /\ S!FreezerOf(b) \in VmNames
  BY SmolNames
<1>m. \A m \in S!Natives : m \in VmNames /\ m # f /\ m # S!BaseOf
  BY <1>0, SmolNames
<1>1. CASE S!ParkBegins(a)
  BY <1>1, ParkBeginsHolds
<1>2. ASSUME jobs[a] # <<>>, h.do = "park", h.at # "begin", UNCHANGED <<stored, host, made, faults>>, JobsMove(a), Then,
             rec' \in [VmNames -> VmRecs], Branches', \A n \in VmNames : n # f /\ n # S!BaseOf => rec'[n] = rec[n],
             rec'[f].state = "missing" \/ (rec'[f] = rec[f] /\ h.at \notin {"clear", "thaw"})
               \/ (jobs'[a] # <<>> /\ Head(jobs'[a]).do = "park" /\ Head(jobs'[a]).at = "thaw")
      PROVE  SmolInv'
  <2>1. UNCHANGED S!BaseOf
    BY <1>2 DEF S!BaseOf
  <2>2. \A m \in S!Natives : rec'[m] = rec[m]
    BY <1>2, <1>m
  <2>3. ASSUME NEW b \in S!Bases, b # S!BaseOf
        PROVE  /\ S!Present(b)' => S!Present(b)
               /\ S!Present(S!FreezerOf(b))' => S!Present(S!FreezerOf(b))
    BY <2>3, <1>2, <1>00, <1>n DEF S!Present
  <2>4. S!Present(S!FreezerOf(S!BaseOf))' =>
           \/ S!Present(S!FreezerOf(S!BaseOf)) /\ Head(jobs[a]).at \notin {"clear", "thaw"}
           \/ jobs'[a] # <<>> /\ Head(jobs'[a]).do = "park" /\ Head(jobs'[a]).at = "thaw"
    BY <2>1, <1>2 DEF S!Present
  <2> QED
    BY <2>1, <2>2, <2>3, <2>4, <1>2, ParkMoves
<1> HIDE DEF Fits, Then, f
<1>h. jobs[a] # <<>> /\ h.do = "park" => h.on = S!BaseOf
  BY FirstJob
<1>s. {"clear", "retire", "create", "boot", "freeze", "thaw"} \subseteq Stages
  BY DEF Stages
<1>3. CASE S!ParkClears(a)
  <2>1. jobs[a] # <<>> /\ h.do = "park" /\ h.at = "clear" /\ UNCHANGED <<stored, host, made, faults>>
    BY <1>3 DEF S!ParkClears, S!At
  <2>2. S!Removes(f)
    BY <2>1, <1>3, <1>h DEF S!ParkClears, S!On, f
  <2>3. JobsMove(a) /\ Then
    <3>1. CASE S!Ends(a)
      BY <3>1, <2>1, EndsOn DEF Then
    <3>2. CASE \E stage \in {"freeze", "retire", "create"} : S!Goes(a, stage) /\ UNCHANGED lock
      BY <3>2, <1>s, <2>1, GoesOn DEF Then
    <3> QED
      BY <3>1, <3>2, <1>3 DEF S!ParkClears
  <2>4. /\ rec' \in [VmNames -> VmRecs] /\ rec'[f] = S!Missing /\ Branches'
        /\ \A k \in VmNames : k # f => rec'[k] = rec[k]
    BY <2>2, <1>0, Removed1
  <2> QED
    BY <2>1, <2>3, <2>4, <1>2, MissingIs
<1>4. CASE S!ParkRetires(a)
  <2>1. jobs[a] # <<>> /\ h.do = "park" /\ h.at = "retire" /\ UNCHANGED <<stored, host, made, faults>> /\ h.on = S!BaseOf
    BY <1>4, <1>h DEF S!ParkRetires, S!At
  <2>2. CASE UNCHANGED rec /\ S!Ends(a)
    <3>1. JobsMove(a) /\ Then
      BY <2>2, <2>1, EndsOn DEF Then
    <3>2. Branches'
      BY <2>2, <1>r DEF Branches, S!Present
    <3> QED
      BY <2>1, <2>2, <3>1, <3>2, <1>2, <1>r
  <2>3. CASE S!Removes(S!BaseOf) /\ S!Goes(a, "create") /\ UNCHANGED lock
    <3>1. JobsMove(a) /\ Then
      BY <2>3, <2>1, <1>s, GoesOn DEF Then
    <3>2. rec' \in [VmNames -> VmRecs] /\ Branches' /\ \A k \in VmNames : k # S!BaseOf => rec'[k] = rec[k]
      BY <2>3, <1>0, Removed1
    <3> QED
      BY <2>1, <3>1, <3>2, <1>0, <1>2
  <2> QED
    BY <2>1, <2>2, <2>3, <1>4 DEF S!ParkRetires, S!On
<1>5. ASSUME jobs[a] # <<>>, h.do = "park", h.at \in {"create", "boot"}, UNCHANGED <<stored, host, made, faults, lock>>,
             NEW state \in {"created", "running"}, S!Puts(h.on, state, S!None),
             NEW stage \in {"boot", "freeze"}, S!Goes(a, stage)
      PROVE  SmolInv'
  <2>1. JobsMove(a) /\ Then
    BY <1>5, <1>s, GoesOn DEF Then
  <2>2. RecSets(S!BaseOf, [state |-> state, parent |-> S!None]) /\ [state |-> state, parent |-> S!None] \in VmRecs
    BY <1>5, <1>h DEF RecSets, S!Puts, VmRecs, VmStates
  <2>3. rec' \in [VmNames -> VmRecs] /\ Branches' /\ \A k \in VmNames : k # S!BaseOf => rec'[k] = rec[k]
    <3>1. S!BaseOf \notin S!Freezers
      BY <1>0, SmolNames
    <3> QED
      BY <2>2, <3>1, <1>0, RecMoves
  <2> QED
    BY <2>1, <2>3, <1>0, <1>2, <1>5
<1>6. CASE S!ParkCreates(a)
  BY <1>5, <1>6 DEF S!ParkCreates, S!At, S!On
<1>7. CASE S!ParkBoots(a)
  BY <1>5, <1>7 DEF S!ParkBoots, S!At, S!On
<1>8. CASE S!ParkFreezes(a)
  <2>1. jobs[a] # <<>> /\ h.do = "park" /\ h.at = "freeze" /\ UNCHANGED <<stored, host, made, faults>> /\ h.on = S!BaseOf
    BY <1>8, <1>h DEF S!ParkFreezes, S!At
  <2>2. CASE UNCHANGED rec /\ S!Ends(a)
    <3>1. JobsMove(a) /\ Then
      BY <2>2, <2>1, EndsOn DEF Then
    <3>2. Branches'
      BY <2>2, <1>r DEF Branches, S!Present
    <3> QED
      BY <2>1, <2>2, <3>1, <3>2, <1>2, <1>r
  <2>3. CASE /\ rec' = [rec EXCEPT ![S!BaseOf].state = "frozen", ![f] = [state |-> "running", parent |-> S!BaseOf]]
             /\ S!Goes(a, "thaw") /\ UNCHANGED lock /\ rec[S!BaseOf].state \in {"running", "frozen"}
    <3>1. JobsMove(a) /\ Then /\ jobs'[a] # <<>> /\ Head(jobs'[a]).do = "park" /\ Head(jobs'[a]).at = "thaw"
      BY <2>3, <2>1, <1>s, GoesOn DEF Then
    <3>2. [state |-> "running", parent |-> S!BaseOf] \in VmRecs /\ [rec[S!BaseOf] EXCEPT !.state = "frozen"] \in VmRecs
      BY <1>0, <1>r DEF VmRecs, VmStates
    <3>3. /\ rec' \in [VmNames -> VmRecs] /\ rec'[f] = [state |-> "running", parent |-> S!BaseOf]
          /\ rec'[S!BaseOf] = [rec[S!BaseOf] EXCEPT !.state = "frozen"]
          /\ \A k \in VmNames : k # S!BaseOf /\ k # f => rec'[k] = rec[k]
      BY <2>3, <3>2, <1>0, <1>00, <1>r
    <3>4. rec[S!BaseOf].parent = S!None /\ rec'[S!BaseOf].parent = S!None /\ rec'[S!BaseOf].state = "frozen"
      BY <3>3, <1>0, <1>r DEF Branches, VmRecs
    <3>5. \A k \in VmNames : rec'[k].state = "missing" => rec'[k].parent = S!None
      <4> SUFFICES ASSUME NEW k \in VmNames, rec'[k].state = "missing" PROVE rec'[k].parent = S!None
        OBVIOUS
      <4>1. CASE k = f
        BY <4>1, <3>3
      <4>2. CASE k # f /\ k # S!BaseOf
        BY <4>2, <3>3, <1>r DEF Branches
      <4> QED
        BY <4>1, <4>2, <3>4
    <3>6. ASSUME NEW b \in S!Bases PROVE rec'[b].parent = S!None /\ (rec'[S!FreezerOf(b)].state # "missing" => rec'[S!FreezerOf(b)].parent = b)
      <4>1. CASE b = S!BaseOf
        BY <4>1, <3>3, <3>4 DEF f
      <4>2. CASE b # S!BaseOf
        <5>1. rec'[b] = rec[b] /\ rec'[S!FreezerOf(b)] = rec[S!FreezerOf(b)]
          BY <4>2, <3>3, <1>00, <1>n
        <5> QED
          BY <5>1, <1>r DEF Branches, S!Present
      <4> QED
        BY <4>1, <4>2
    <3>7. Branches'
      BY <3>5, <3>6 DEF Branches, S!Present
    <3> QED
      BY <2>1, <3>1, <3>3, <3>7, <1>2
  <2> QED
    BY <2>1, <2>2, <2>3, <1>8 DEF S!ParkFreezes, S!On, f
<1>9. CASE S!ParkThaws(a)
  <2>1. jobs[a] # <<>> /\ h.do = "park" /\ h.at = "thaw" /\ UNCHANGED <<stored, host, made, faults>> /\ S!Ends(a)
    BY <1>9 DEF S!ParkThaws, S!At
  <2>2. S!Removes(f)
    BY <2>1, <1>9, <1>h DEF S!ParkThaws, S!On, f
  <2>3. JobsMove(a) /\ Then
    BY <2>1, EndsOn DEF Then
  <2>4. /\ rec' \in [VmNames -> VmRecs] /\ rec'[f] = S!Missing /\ Branches'
        /\ \A k \in VmNames : k # f => rec'[k] = rec[k]
    BY <2>2, <1>0, Removed1
  <2> QED
    BY <2>1, <2>3, <2>4, <1>2, MissingIs
<1> QED
  BY <1>1, <1>3, <1>4, <1>6, <1>7, <1>8, <1>9 DEF S!Parking

--------------------------------------------------------------------------------
(* Retiring and settling keep the invariant. *)

LEMMA RetireMoves ==
  ASSUME SmolInv, NEW a \in S!Actors, NEW b0 \in S!Bases, jobs[a] # <<>>, Head(jobs[a]).do = "retire", Head(jobs[a]).on = b0,
         JobsMove(a), UNCHANGED <<stored, host, made, faults>>, rec' \in [VmNames -> VmRecs], Branches',
         \A m \in S!Natives : rec'[m] = rec[m],
         \A b \in S!Bases : (S!Present(b)' => S!Present(b)) /\ (S!Present(S!FreezerOf(b))' => S!Present(S!FreezerOf(b))),
         S!Present(b0)' => RetireDue(b0)' \/ S!Wanted(b0) \/ Kept(b0),
         S!Present(S!FreezerOf(b0))' => ClearDue(b0)' \/ S!Wanted(b0) \/ Head(jobs[a]).at = "retire",
         jobs'[a] # <<>> => /\ Head(jobs'[a]).do \in {"park", "retire", "builds"}
                            /\ Head(jobs'[a]).do = "park" => Head(jobs'[a]).at = "begin"
                            /\ Head(jobs'[a]).do = "retire" /\ Head(jobs'[a]).at = "retire"
                                 => rec'[S!FreezerOf(Head(jobs'[a]).on)].state = "missing"
  PROVE  SmolInv'
<1> DEFINE h == Head(jobs[a])
<1>1. UNCHANGED S!BaseOf /\ (S!CapturedHere' <=> S!CapturedHere) /\ \A b : S!Wanted(b)' <=> S!Wanted(b)
  BY DEF S!BaseOf, S!CapturedHere, S!Wanted
<1>2. CopyIsKept'
  <2>1. jobs'[a] # <<>> => /\ Head(jobs'[a]).do = "park" /\ Locks(Head(jobs'[a])) => S!CapturedHere
                           /\ Head(jobs'[a]).do # "discard" /\ Head(jobs'[a]).do # "restore"
    BY DEF Locks
  <2> QED
    BY <2>1, CopyStays
<1>3. Cleared'
  BY ClearedStays
<1>4. (\A m \in S!Natives : MachineFits(m))'
  <2>1. \A m \in S!Natives : rec'[m].parent = rec[m].parent /\ (S!Present(m)' <=> S!Present(m))
    BY DEF S!Present
  <2> QED
    BY <2>1, MachinesStay
<1>5. \A b \in S!Bases : Kept(b) => Kept(b)'
  BY DEF Kept
<1>6. ASSUME NEW b \in S!Bases, S!Present(b)' PROVE host'.unclean \/ BaseMayStay(b)'
  <2>1. CASE b = b0
    BY <2>1, <1>1, <1>5, <1>6 DEF BaseMayStay
  <2>2. CASE b # b0
    BY <2>2, <1>1, <1>5, <1>6, BaseStays
  <2> QED
    BY <2>1, <2>2
<1>7. ASSUME NEW b \in S!Bases, S!Present(S!FreezerOf(b))' PROVE host'.unclean \/ FreezerMayStay(b)'
  <2>1. CASE b = b0 /\ ClearDue(b0)' /\ ~ S!Wanted(b0)
    BY <2>1, <1>1 DEF FreezerMayStay
  <2>2. CASE b # b0 \/ S!Wanted(b0) \/ h.at = "retire"
    BY <2>2, <1>1, <1>7, FreezerStays
  <2> QED
    BY <2>1, <2>2, <1>7
<1> QED
  BY <1>2, <1>3, <1>4, <1>6, <1>7 DEF SmolInv, SmolTypes, JobsMove, BasesCovered, FreezersCovered

LEMMA RetiringHolds ==
  ASSUME SmolInv, NEW a \in S!Actors, S!Retiring(a)
  PROVE  SmolInv'
<1> DEFINE h == Head(jobs[a])
<1>1. jobs[a] # <<>> /\ h.do = "retire" /\ UNCHANGED <<stored, host, made, faults>>
  BY DEF S!Retiring, S!RetireBegins, S!RetireClears, S!Retires, S!At
<1>2. h.on \in S!Bases /\ h.on \in VmNames /\ S!FreezerOf(h.on) \in VmNames
  BY <1>1, FirstJob, SmolNames
<1>3. PICK b0 \in S!Bases : b0 = h.on
  BY <1>2
<1>4. \A b \in S!Bases : b \in VmNames /\ S!FreezerOf(b) \in VmNames /\ S!FreezerOf(b) \notin S!Bases /\ S!FreezerOf(b) \notin S!Natives
                         /\ b \notin S!Natives
  BY SmolNames
<1>5. \A m \in S!Natives : m \in VmNames /\ m \notin S!Bases /\ m \notin S!Freezers
  BY SmolNames
<1>6. rec \in [VmNames -> VmRecs] /\ Branches
  BY DEF SmolInv, SmolTypes
<1>7. UNCHANGED rec =>
        /\ rec' \in [VmNames -> VmRecs] /\ Branches' /\ \A m \in S!Natives : rec'[m] = rec[m]
        /\ \A b \in S!Bases : (S!Present(b)' => S!Present(b)) /\ (S!Present(S!FreezerOf(b))' => S!Present(S!FreezerOf(b)))
  BY <1>6 DEF Branches, S!Present
<1>8. "clear" \in Stages /\ "retire" \in Stages
  BY DEF Stages
<1> HIDE DEF h
<1>h. h = Head(jobs[a])
  BY DEF h
<1>9. CASE S!RetireBegins(a) /\ S!Stale(b0)
  <2>1. h.at = "begin" /\ S!Takes(a, h.on) /\ S!Goes(a, "clear") /\ UNCHANGED rec
    BY <1>3, <1>9 DEF S!RetireBegins, S!At, S!On, h
  <2>2. /\ JobsMove(a) /\ jobs'[a] # <<>> /\ Head(jobs'[a]).do = "retire" /\ Head(jobs'[a]) \in Queued(jobs'[a])
        /\ Head(jobs'[a]).on = b0 /\ Head(jobs'[a]).at = "clear"
    BY <2>1, <1>1, <1>2, <1>3, <1>8, <1>h, TakesOn
  <2>3. RetireDue(b0)' /\ ClearDue(b0)'
    BY <2>2 DEF RetireDue, ClearDue
  <2> QED
    BY <2>1, <2>2, <2>3, <1>1, <1>3, <1>7, <1>h, RetireMoves
<1>10. CASE S!RetireBegins(a) /\ ~ S!Stale(b0)
  <2>1. h.at = "begin" /\ S!Ends(a) /\ UNCHANGED rec
    BY <1>3, <1>10 DEF S!RetireBegins, S!At, S!On, h
  <2>2. S!Wanted(b0)
    BY <1>10 DEF S!Stale, S!Wanted
  <2>3. /\ JobsMove(a)
        /\ jobs'[a] # <<>> => Head(jobs'[a]).at = "begin" /\ Head(jobs'[a]).do \in {"park", "retire", "builds"}
    BY <2>1, <1>1, <1>h, EndsOn
  <2> QED
    BY <2>1, <2>2, <2>3, <1>1, <1>3, <1>7, <1>h, RetireMoves
<1>11. CASE S!RetireClears(a)
  <2>1. h.at = "clear" /\ S!Goes(a, "retire") /\ UNCHANGED lock /\ S!Removes(S!FreezerOf(b0))
    BY <1>3, <1>11 DEF S!RetireClears, S!At, S!On, h
  <2>2. /\ JobsMove(a) /\ jobs'[a] # <<>> /\ Head(jobs'[a]).do = "retire" /\ Head(jobs'[a]) \in Queued(jobs'[a])
        /\ Head(jobs'[a]).on = b0 /\ Head(jobs'[a]).at = "retire"
    BY <2>1, <1>1, <1>2, <1>3, <1>8, <1>h, GoesOn
  <2>3. RetireDue(b0)'
    BY <2>2 DEF RetireDue
  <2>4. /\ rec' \in [VmNames -> VmRecs] /\ rec'[S!FreezerOf(b0)] = S!Missing /\ Branches' /\ ~ S!Present(S!FreezerOf(b0))'
        /\ \A k \in VmNames : S!Present(k)' => S!Present(k)
        /\ \A k \in VmNames : k # S!FreezerOf(b0) => rec'[k] = rec[k]
    BY <2>1, <1>4, Removed1
  <2>5. \A m \in S!Natives : rec'[m] = rec[m]
    BY <2>4, <1>4, <1>5
  <2>6. \A b \in S!Bases : (S!Present(b)' => S!Present(b)) /\ (S!Present(S!FreezerOf(b))' => S!Present(S!FreezerOf(b)))
    BY <2>4, <1>4
  <2> QED
    BY <2>1, <2>2, <2>3, <2>4, <2>5, <2>6, <1>1, <1>3, <1>h, MissingIs, RetireMoves
<1>12. CASE S!Retires(a)
  <2>1. h.at = "retire" /\ S!Ends(a) /\ IF S!Pinned(b0) THEN UNCHANGED rec ELSE S!Removes(b0)
    BY <1>3, <1>12 DEF S!Retires, S!At, S!On, h
  <2>2. /\ JobsMove(a)
        /\ jobs'[a] # <<>> => Head(jobs'[a]).at = "begin" /\ Head(jobs'[a]).do \in {"park", "retire", "builds"}
    BY <2>1, <1>1, <1>h, EndsOn
  <2>3. CASE S!Pinned(b0) /\ UNCHANGED rec
    <3>1. PICK n \in VmNames : S!Present(n) /\ rec[n].parent = b0
      BY <2>3, <1>6 DEF S!Pinned
    <3>2. ~ S!Present(S!FreezerOf(b0))
      BY <2>1, <1>1, <1>3, <1>h DEF SmolInv, Cleared, Is, Does
    <3>3. n \in S!Natives
      <4>1. n \notin S!Bases
        BY <3>1, <1>6, SmolNames DEF Branches
      <4>2. n \notin S!Freezers
        BY <3>1, <3>2, <1>6, SmolNames DEF Branches
      <4> QED
        BY <3>1, <4>1, <4>2, SmolNames
    <3>4. Kept(b0)
      BY <3>1, <3>3 DEF Kept
    <3> QED
      BY <2>1, <2>2, <2>3, <3>4, <1>1, <1>3, <1>7, <1>h, RetireMoves
  <2>4. CASE S!Removes(b0)
    <3>1. /\ rec' \in [VmNames -> VmRecs] /\ Branches' /\ ~ S!Present(b0)'
          /\ \A k \in VmNames : S!Present(k)' => S!Present(k)
          /\ \A k \in VmNames : k # b0 => rec'[k] = rec[k]
      BY <2>4, <1>4, Removed1
    <3>2. \A m \in S!Natives : rec'[m] = rec[m]
      BY <3>1, <1>4, <1>5
    <3>3. \A b \in S!Bases : (S!Present(b)' => S!Present(b)) /\ (S!Present(S!FreezerOf(b))' => S!Present(S!FreezerOf(b)))
      BY <3>1, <1>4
    <3> QED
      BY <2>1, <2>2, <3>1, <3>2, <3>3, <1>1, <1>3, <1>h, RetireMoves
  <2> QED
    BY <2>1, <2>3, <2>4
<1> QED
  BY <1>9, <1>10, <1>11, <1>12 DEF S!Retiring

LEMMA SettleListsHolds ==
  ASSUME SmolInv, S!SettleLists
  PROVE  SmolInv'
<1> DEFINE a == S!Settling
           U == S!ListedBases
           next == Append(S!RetireAll(U), S!Job("builds", S!None))
<1>1. /\ jobs[a] # <<>> /\ Head(jobs[a]).do = "settle" /\ S!Follows(a, next)
      /\ UNCHANGED <<rec, stored, host, made, faults>> /\ a \in S!Actors
  BY SmolNames DEF S!SettleLists, S!At
<1>2. U \in SUBSET S!Bases
  BY DEF S!ListedBases
<1>3. S!RetireAll(U) \in Seq(JobRecs) /\ Queued(S!RetireAll(U)) = {S!Job("retire", b) : b \in U}
  <2> HIDE DEF U
  <2> QED
    BY <1>2, RetiresAll
<1>4. S!Job("builds", S!None) \in JobRecs
  BY DEF S!Job, JobRecs
<1>5. /\ next \in Seq(JobRecs)
      /\ Queued(next) = {S!Job("retire", b) : b \in U} \cup {S!Job("builds", S!None)}
  <2> DEFINE r == S!RetireAll(U)
             j == S!Job("builds", S!None)
  <2> HIDE DEF U, r, j
  <2>1. r \in Seq(JobRecs) /\ j \in JobRecs
    BY <1>3, <1>4 DEF r, j
  <2>2. Append(r, j) = r \o <<j>> /\ <<j>> \in Seq(JobRecs) /\ Queued(<<j>>) = {j}
    BY <2>1, QueueOfOne
  <2>3. Append(r, j) \in Seq(JobRecs) /\ Queued(Append(r, j)) = Queued(r) \cup {j}
    BY <2>1, <2>2, QueueJoins
  <2> QED
    BY <2>3, <1>3 DEF r, j
<1> HIDE DEF U, next
<1>6. \A j \in Queued(next) : /\ j.at = "begin" /\ j.do \in {"retire", "builds"}
                              /\ j.do = "retire" => j.on \in S!Bases
  BY <1>2, <1>5 DEF S!Job
<1>7. Does4(a) = {"settle", "builds", "retire", "park"}
  BY SmolNames DEF Does4
<1>8. /\ JobsMove(a) /\ \A j \in Queued(next) : j \in Queued(jobs'[a])
      /\ jobs'[a] # <<>> => Head(jobs'[a]).at = "begin" /\ Head(jobs'[a]).do \in {"park", "retire", "builds"}
  BY <1>1, <1>5, <1>6, <1>7, FollowsMove
<1>9. UNCHANGED S!BaseOf /\ (S!CapturedHere' <=> S!CapturedHere) /\ \A b : S!Wanted(b)' <=> S!Wanted(b)
  BY <1>1 DEF S!BaseOf, S!CapturedHere, S!Wanted
<1>10. CopyIsKept'
  <2>1. jobs'[a] # <<>> => ~ Locks(Head(jobs'[a])) /\ Head(jobs'[a]).do \notin {"discard", "restore"}
    BY <1>8 DEF Locks
  <2> QED
    BY <2>1, <1>1, <1>8, CopyStays
<1>11. Cleared'
  <2>1. \A b \in S!Bases : S!Present(S!FreezerOf(b))' => S!Present(S!FreezerOf(b))
    BY <1>1 DEF S!Present
  <2> QED
    BY <2>1, <1>1, <1>8, ClearedStays
<1>12. (\A m \in S!Natives : MachineFits(m))'
  <2>1. \A m \in S!Natives : rec'[m].parent = rec[m].parent /\ (S!Present(m)' <=> S!Present(m))
    BY <1>1 DEF S!Present
  <2> QED
    BY <2>1, <1>1, <1>8, MachinesStay
<1>13. /\ \A b \in U : RetireDue(b)' /\ ClearDue(b)'
       /\ ParkDue'
  <2>1. \A b \in U : S!Job("retire", b) \in Queued(jobs'[a])
    BY <1>5, <1>8
  <2>2. S!Job("builds", S!None) \in Queued(jobs'[a])
    BY <1>5, <1>8
  <2>3. \A b : S!Job("retire", b).do = "retire" /\ S!Job("retire", b).on = b /\ S!Job("retire", b).at = "begin"
    BY DEF S!Job
  <2>4. S!Job("builds", S!None).do = "builds"
    BY DEF S!Job
  <2> QED
    BY <2>1, <2>2, <2>3, <2>4, <1>1 DEF RetireDue, ClearDue, ParkDue
<1>14. \A b \in S!Bases : S!Present(b)' \/ S!Present(S!FreezerOf(b))' => b \in U
  BY <1>1 DEF U, S!ListedBases, S!Present
<1>15. BasesCovered'
  BY <1>13, <1>14 DEF BasesCovered, BaseMayStay
<1>16. FreezersCovered'
  BY <1>13, <1>14 DEF FreezersCovered, FreezerMayStay
<1>17. Branches'
  BY <1>1 DEF SmolInv, Branches, S!Present
<1> QED
  BY <1>1, <1>8, <1>10, <1>11, <1>12, <1>15, <1>16, <1>17 DEF SmolInv, SmolTypes, JobsMove

LEMMA SettleParksHolds ==
  ASSUME SmolInv, S!SettleParks
  PROVE  SmolInv'
<1> DEFINE a == S!Settling
           j == S!Job("park", S!BaseOf)
<1>1. /\ jobs[a] # <<>> /\ Head(jobs[a]).do = "builds" /\ UNCHANGED <<rec, stored, host, made, faults>> /\ a \in S!Actors
      /\ S!Follows(a, IF stored # 0 THEN <<j>> ELSE <<>>)
  BY SmolNames DEF S!SettleParks, S!At
<1>2. S!BaseOf \in S!Bases
  BY SmolBaseOf DEF SmolInv
<1>3. j \in JobRecs /\ j.do = "park" /\ j.at = "begin" /\ j.on = S!BaseOf
  BY <1>2 DEF S!Job, JobRecs
<1>4. PICK next \in Seq(JobRecs) : /\ S!Follows(a, next) /\ Queued(next) \subseteq {j}
                                   /\ stored # 0 => Queued(next) = {j}
  <2>1. <<j>> \in Seq(JobRecs) /\ Queued(<<j>>) = {j}
    <3> HIDE DEF j
    <3>1. <<>> \in Seq(JobRecs)
      OBVIOUS
    <3> QED
      BY <1>3, <3>1, QueueOfOne
  <2>2. <<>> \in Seq(JobRecs) /\ Queued(<<>>) = {}
    BY DEF Queued
  <2> QED
    BY <1>1, <2>1, <2>2
<1> HIDE DEF j
<1>7. Does4(a) = {"settle", "builds", "retire", "park"}
  BY SmolNames DEF Does4
<1>8. /\ JobsMove(a) /\ \A i \in Queued(next) : i \in Queued(jobs'[a])
      /\ jobs'[a] # <<>> => Head(jobs'[a]).at = "begin" /\ Head(jobs'[a]).do \in {"park", "retire", "builds"}
  BY <1>1, <1>3, <1>4, <1>7, FollowsMove
<1>9. UNCHANGED S!BaseOf /\ (S!CapturedHere' <=> S!CapturedHere) /\ \A b : S!Wanted(b)' <=> S!Wanted(b)
  BY <1>1 DEF S!BaseOf, S!CapturedHere, S!Wanted
<1>10. CopyIsKept'
  <2>1. jobs'[a] # <<>> => ~ Locks(Head(jobs'[a])) /\ Head(jobs'[a]).do \notin {"discard", "restore"}
    BY <1>8 DEF Locks
  <2> QED
    BY <2>1, <1>1, <1>8, CopyStays
<1>11. Cleared'
  <2>1. \A b \in S!Bases : S!Present(S!FreezerOf(b))' => S!Present(S!FreezerOf(b))
    BY <1>1 DEF S!Present
  <2> QED
    BY <2>1, <1>1, <1>8, ClearedStays
<1>12. (\A m \in S!Natives : MachineFits(m))'
  <2>1. \A m \in S!Natives : rec'[m].parent = rec[m].parent /\ (S!Present(m)' <=> S!Present(m))
    BY <1>1 DEF S!Present
  <2> QED
    BY <2>1, <1>1, <1>8, MachinesStay
<1>13. stored # 0 => ParkDue'
  BY <1>1, <1>3, <1>4, <1>8 DEF ParkDue
<1>14. ASSUME NEW b \in S!Bases, S!Present(b)' PROVE host'.unclean \/ BaseMayStay(b)'
  <2>1. S!Present(b) /\ (Kept(b) => Kept(b)')
    BY <1>1, <1>14 DEF S!Present, Kept
  <2> QED
    BY <2>1, <1>1, <1>8, <1>9, BaseStays
<1>15. ASSUME NEW b \in S!Bases, S!Present(S!FreezerOf(b))' PROVE host'.unclean \/ FreezerMayStay(b)'
  <2>1. S!Present(S!FreezerOf(b))
    BY <1>1, <1>15 DEF S!Present
  <2>2. CASE S!Wanted(b)
    <3>1. S!Wanted(b)' /\ ParkDue'
      BY <2>2, <1>9, <1>13 DEF S!Wanted, S!CapturedHere
    <3> QED
      BY <3>1 DEF FreezerMayStay
  <2>3. CASE ~ S!Wanted(b)
    BY <2>1, <2>3, <1>1, <1>8, <1>9, FreezerStays
  <2> QED
    BY <2>2, <2>3
<1>17. Branches'
  BY <1>1 DEF SmolInv, Branches, S!Present
<1> QED
  BY <1>1, <1>8, <1>10, <1>11, <1>12, <1>14, <1>15, <1>17 DEF SmolInv, SmolTypes, JobsMove, BasesCovered, FreezersCovered

--------------------------------------------------------------------------------
(* The build's copy keeps the invariant. *)

LEMMA StillVms ==
  ASSUME SmolInv, UNCHANGED rec
  PROVE  /\ rec' \in [VmNames -> VmRecs] /\ Branches' /\ \A b : Kept(b)' <=> Kept(b)
         /\ \A n : S!Present(n)' <=> S!Present(n)
BY DEF SmolInv, SmolTypes, Branches, S!Present, Kept

LEMMA FetchHolds ==
  ASSUME SmolInv, NEW v \in S!Versions, S!Fetch(v)
  PROVE  SmolInv'
<1> DEFINE a == S!Copy
           j == S!Job("park", S!BaseOf)
<1>1. /\ jobs[a] = <<>> /\ made[a] = "none" /\ stored' = v /\ made' = [made EXCEPT ![a] = "made"]
      /\ jobs' = [jobs EXCEPT ![a] = <<j>>] /\ UNCHANGED <<rec, host, lock, faults>> /\ a \in S!Actors
  BY SmolNames DEF S!Fetch
<1>2. S!BaseOf \in S!Bases
  BY SmolBaseOf DEF SmolInv
<1>3. j \in JobRecs /\ j.do = "park" /\ j.at = "begin" /\ j.on = S!BaseOf
  BY <1>2 DEF S!Job, JobRecs
<1>4. Does4(a) = {"park", "discard"}
  BY SmolNames DEF Does4
<1> HIDE DEF j
<1>5. JobsMove(a) /\ jobs'[a] # <<>> /\ Head(jobs'[a]) = j /\ j \in Queued(jobs'[a])
  BY <1>1, <1>3, <1>4, StartsMove
<1>6. stored = 0 /\ ~ S!CapturedHere /\ v \in Nat /\ v # 0
  BY <1>1 DEF SmolInv, CopyIsKept, S!CapturedHere, S!Versions
<1>7. \A b : ~ S!Wanted(b)
  BY <1>6 DEF S!Wanted
<1>8. UNCHANGED S!BaseOf
  BY <1>1 DEF S!BaseOf
<1>9. made' \in [S!Natives \cup {a} -> MadeStates] /\ made'[a] = "made" /\ \A m \in S!Natives : made'[m] = made[m]
  <2>1. made \in [S!Natives \cup {a} -> MadeStates] /\ "made" \in MadeStates
    BY DEF SmolInv, SmolTypes, MadeStates
  <2> QED
    BY <1>1, <2>1, SmolNames
<1>10. CopyIsKept'
  <2>1. \A c \in S!Actors : ~ (Does(c, "park")' /\ Locks(Head(jobs'[c])))
    <3> SUFFICES ASSUME NEW c \in S!Actors, Does(c, "park")', Locks(Head(jobs'[c])) PROVE FALSE
      OBVIOUS
    <3>1. CASE c = a
      BY <3>1, <1>3, <1>5 DEF Locks
    <3>2. CASE c # a
      BY <3>2, <1>5, <1>6 DEF SmolInv, CopyIsKept, JobsMove, Does
    <3> QED
      BY <3>1, <3>2
  <2>2. ~ Does(a, "discard")'
    BY <1>3, <1>5 DEF Does
  <2> QED
    BY <2>1, <2>2, <1>1, <1>6, <1>9 DEF CopyIsKept
<1>11. Cleared'
  <2>1. \A b \in S!Bases : S!Present(S!FreezerOf(b))' => S!Present(S!FreezerOf(b))
    BY <1>1 DEF S!Present
  <2> QED
    BY <2>1, <1>1, <1>3, <1>5, ClearedStays
<1>12. (\A m \in S!Natives : MachineFits(m))'
  <2>1. \A m \in S!Natives : rec'[m].parent = rec[m].parent /\ (S!Present(m)' <=> S!Present(m))
    BY <1>1 DEF S!Present
  <2>2. a \notin S!Natives
    BY SmolNames
  <2> QED
    BY <2>1, <2>2, <1>1, <1>3, <1>5, <1>9, MachinesStay
<1>13. ParkDue'
  BY <1>1, <1>3, <1>5 DEF ParkDue
<1>14. ASSUME NEW b \in S!Bases, S!Present(b)' PROVE host'.unclean \/ BaseMayStay(b)'
  <2>1. S!Present(b) /\ (Kept(b) => Kept(b)')
    BY <1>1, <1>14 DEF S!Present, Kept
  <2> QED
    BY <2>1, <1>1, <1>5, <1>7, BaseStays
<1>15. ASSUME NEW b \in S!Bases, S!Present(S!FreezerOf(b))' PROVE host'.unclean \/ FreezerMayStay(b)'
  <2>1. S!Present(S!FreezerOf(b))
    BY <1>1, <1>15 DEF S!Present
  <2>2. CASE S!Wanted(b)'
    BY <2>2, <1>13 DEF FreezerMayStay
  <2>3. CASE ~ S!Wanted(b)'
    BY <2>1, <2>3, <1>1, <1>5, <1>7, FreezerStays
  <2> QED
    BY <2>2, <2>3
<1> QED
  BY <1>1, <1>5, <1>6, <1>9, <1>10, <1>11, <1>12, <1>14, <1>15, StillVms
     DEF SmolInv, SmolTypes, JobsMove, BasesCovered, FreezersCovered

LEMMA DiscardHolds ==
  ASSUME SmolInv, S!Discard
  PROVE  SmolInv'
<1> DEFINE a == S!Copy
           j == S!Job("discard", S!BaseOf)
<1>1. /\ jobs[a] = <<>> /\ made[a] \in {"made", "discarding"} /\ made' = [made EXCEPT ![a] = "discarding"]
      /\ jobs' = [jobs EXCEPT ![a] = <<j>>] /\ UNCHANGED <<rec, stored, host, lock, faults>> /\ a \in S!Actors
      /\ \A m \in S!Natives : ~ Does(m, "restore")
  BY SmolNames DEF S!Discard, S!Restoring, Does
<1>2. S!BaseOf \in S!Bases
  BY SmolBaseOf DEF SmolInv
<1>3. j \in JobRecs /\ j.do = "discard" /\ j.at = "begin" /\ j.on = S!BaseOf
  BY <1>2 DEF S!Job, JobRecs
<1>4. Does4(a) = {"park", "discard"}
  BY SmolNames DEF Does4
<1> HIDE DEF j
<1>5. JobsMove(a) /\ jobs'[a] # <<>> /\ Head(jobs'[a]) = j /\ j \in Queued(jobs'[a])
  BY <1>1, <1>3, <1>4, StartsMove
<1>8. UNCHANGED S!BaseOf /\ (S!CapturedHere' <=> S!CapturedHere) /\ \A b : S!Wanted(b)' <=> S!Wanted(b)
  BY <1>1 DEF S!BaseOf, S!CapturedHere, S!Wanted
<1>9. made' \in [S!Natives \cup {a} -> MadeStates] /\ made'[a] = "discarding" /\ \A m \in S!Natives : made'[m] = made[m]
  <2>1. made \in [S!Natives \cup {a} -> MadeStates] /\ "discarding" \in MadeStates
    BY DEF SmolInv, SmolTypes, MadeStates
  <2> QED
    BY <1>1, <2>1, SmolNames
<1>10. CopyIsKept'
  <2>1. ASSUME NEW c \in S!Actors, Does(c, "park")', Locks(Head(jobs'[c])) PROVE S!CapturedHere'
    <3>1. CASE c = a
      BY <3>1, <2>1, <1>3, <1>5 DEF Does
    <3>2. CASE c # a
      BY <3>2, <2>1, <1>5, <1>8 DEF SmolInv, CopyIsKept, JobsMove, Does
    <3> QED
      BY <3>1, <3>2
  <2>2. ASSUME NEW m \in S!Natives PROVE ~ Does(m, "restore")'
    <3>1. m \in S!Actors /\ m # a
      BY SmolNames
    <3> QED
      BY <3>1, <1>1, <1>5 DEF JobsMove, Does
  <2> QED
    BY <2>1, <2>2, <1>1, <1>9 DEF CopyIsKept
<1>11. Cleared'
  <2>1. \A b \in S!Bases : S!Present(S!FreezerOf(b))' => S!Present(S!FreezerOf(b))
    BY <1>1 DEF S!Present
  <2> QED
    BY <2>1, <1>1, <1>3, <1>5, ClearedStays
<1>12. (\A m \in S!Natives : MachineFits(m))'
  <2>1. \A m \in S!Natives : rec'[m].parent = rec[m].parent /\ (S!Present(m)' <=> S!Present(m))
    BY <1>1 DEF S!Present
  <2>2. a \notin S!Natives
    BY SmolNames
  <2> QED
    BY <2>1, <2>2, <1>1, <1>3, <1>5, <1>9, MachinesStay
<1>14. ASSUME NEW b \in S!Bases, S!Present(b)' PROVE host'.unclean \/ BaseMayStay(b)'
  <2>1. S!Present(b) /\ (Kept(b) => Kept(b)')
    BY <1>1, <1>14 DEF S!Present, Kept
  <2> QED
    BY <2>1, <1>1, <1>5, <1>8, BaseStays
<1>15. ASSUME NEW b \in S!Bases, S!Present(S!FreezerOf(b))' PROVE host'.unclean \/ FreezerMayStay(b)'
  <2>1. S!Present(S!FreezerOf(b))
    BY <1>1, <1>15 DEF S!Present
  <2> QED
    BY <2>1, <1>1, <1>5, <1>8, FreezerStays
<1> QED
  BY <1>1, <1>5, <1>9, <1>10, <1>11, <1>12, <1>14, <1>15, StillVms
     DEF SmolInv, SmolTypes, JobsMove, BasesCovered, FreezersCovered

LEMMA DiscardTakesHolds ==
  ASSUME SmolInv, S!DiscardTakes
  PROVE  SmolInv'
<1> DEFINE a == S!Copy
<1>1. /\ jobs[a] # <<>> /\ Head(jobs[a]).do = "discard" /\ Head(jobs[a]).at = "begin"
      /\ UNCHANGED <<rec, stored, host, made, faults>> /\ a \in S!Actors
      /\ S!Takes(a, Head(jobs[a]).on) /\ S!Goes(a, "unstore")
  BY SmolNames DEF S!DiscardTakes, S!At, S!On
<1>2. Head(jobs[a]).on \in S!Bases /\ made[a] = "discarding"
  BY <1>1, FirstJob DEF SmolInv, CopyIsKept, Does
<1>3. "unstore" \in Stages
  BY DEF Stages
<1>5. JobsMove(a) /\ jobs'[a] # <<>> /\ Head(jobs'[a]).do = "discard" /\ Head(jobs'[a]).at = "unstore"
  BY <1>1, <1>2, <1>3, TakesOn
<1>8. UNCHANGED S!BaseOf /\ (S!CapturedHere' <=> S!CapturedHere) /\ \A b : S!Wanted(b)' <=> S!Wanted(b)
  BY <1>1 DEF S!BaseOf, S!CapturedHere, S!Wanted
<1>10. CopyIsKept'
  BY <1>1, <1>2, <1>5, CopyStays
<1>11. Cleared'
  <2>1. \A b \in S!Bases : S!Present(S!FreezerOf(b))' => S!Present(S!FreezerOf(b))
    BY <1>1 DEF S!Present
  <2> QED
    BY <2>1, <1>1, <1>5, ClearedStays
<1>12. (\A m \in S!Natives : MachineFits(m))'
  <2>1. \A m \in S!Natives : rec'[m].parent = rec[m].parent /\ (S!Present(m)' <=> S!Present(m))
    BY <1>1 DEF S!Present
  <2> QED
    BY <2>1, <1>1, <1>5, MachinesStay
<1>14. ASSUME NEW b \in S!Bases, S!Present(b)' PROVE host'.unclean \/ BaseMayStay(b)'
  <2>1. S!Present(b) /\ (Kept(b) => Kept(b)')
    BY <1>1, <1>14 DEF S!Present, Kept
  <2> QED
    BY <2>1, <1>1, <1>5, <1>8, BaseStays
<1>15. ASSUME NEW b \in S!Bases, S!Present(S!FreezerOf(b))' PROVE host'.unclean \/ FreezerMayStay(b)'
  <2>1. S!Present(S!FreezerOf(b))
    BY <1>1, <1>15 DEF S!Present
  <2> QED
    BY <2>1, <1>1, <1>5, <1>8, FreezerStays
<1> QED
  BY <1>1, <1>5, <1>10, <1>11, <1>12, <1>14, <1>15, StillVms
     DEF SmolInv, SmolTypes, JobsMove, BasesCovered, FreezersCovered

LEMMA DiscardUnstoresHolds ==
  ASSUME SmolInv, S!DiscardUnstores
  PROVE  SmolInv'
<1> DEFINE a == S!Copy
<1>1. /\ jobs[a] # <<>> /\ Head(jobs[a]).do = "discard" /\ Head(jobs[a]).at = "unstore"
      /\ UNCHANGED <<rec, host, made, faults, lock>> /\ a \in S!Actors
      /\ stored' = 0 /\ S!Goes(a, "retire")
  BY SmolNames DEF S!DiscardUnstores, S!At
<1>2. Head(jobs[a]).on = S!BaseOf /\ S!BaseOf \in S!Bases /\ made[a] = "discarding" /\ Locks(Head(jobs[a]))
  BY <1>1, FirstJob DEF SmolInv, CopyIsKept, Does, Locks
<1>3. "retire" \in Stages
  BY DEF Stages
<1>5. JobsMove(a) /\ jobs'[a] # <<>> /\ Head(jobs'[a]).do = "discard" /\ Head(jobs'[a]).at = "retire"
  BY <1>1, <1>2, <1>3, GoesOn
<1>8. UNCHANGED S!BaseOf /\ ~ S!CapturedHere' /\ \A b : ~ S!Wanted(b)'
  BY <1>1 DEF S!BaseOf, S!CapturedHere, S!Wanted
<1>9. ASSUME NEW c \in S!Actors, Does(c, "park"), Locks(Head(jobs[c])) PROVE FALSE
  <2>1. Head(jobs[c]).on = S!BaseOf /\ c # a
    BY <1>1, <1>9, FirstJob DEF Does
  <2> QED
    BY <2>1, <1>1, <1>2, <1>9, FirstJob DEF Does
<1>10. CopyIsKept'
  <2>1. ASSUME NEW c \in S!Actors, Does(c, "park")', Locks(Head(jobs'[c])) PROVE FALSE
    <3>1. CASE c = a
      BY <3>1, <2>1, <1>5 DEF Does
    <3>2. CASE c # a
      BY <3>2, <2>1, <1>5, <1>9 DEF JobsMove, Does
    <3> QED
      BY <3>1, <3>2
  <2>2. ASSUME NEW m \in S!Natives PROVE ~ Does(m, "restore")'
    <3>1. m \in S!Actors /\ m # a
      BY SmolNames
    <3> QED
      BY <3>1, <1>2, <1>5 DEF SmolInv, CopyIsKept, JobsMove, Does
  <2> QED
    BY <2>1, <2>2, <1>1, <1>2 DEF CopyIsKept
<1>11. Cleared'
  <2>1. \A b \in S!Bases : S!Present(S!FreezerOf(b))' => S!Present(S!FreezerOf(b))
    BY <1>1 DEF S!Present
  <2> QED
    BY <2>1, <1>1, <1>5, ClearedStays
<1>12. (\A m \in S!Natives : MachineFits(m))'
  <2>1. \A m \in S!Natives : rec'[m].parent = rec[m].parent /\ (S!Present(m)' <=> S!Present(m))
    BY <1>1 DEF S!Present
  <2> QED
    BY <2>1, <1>1, <1>5, MachinesStay
<1>13. DiscardDue(S!BaseOf)'
  BY <1>5 DEF DiscardDue, Is, Does
<1>14. ASSUME NEW b \in S!Bases, S!Present(b)' PROVE host'.unclean \/ BaseMayStay(b)'
  <2>1. S!Present(b) /\ (Kept(b) => Kept(b)')
    BY <1>1, <1>14 DEF S!Present, Kept
  <2>2. CASE b = S!BaseOf
    BY <2>2, <1>8, <1>13 DEF BaseMayStay
  <2>3. CASE b # S!BaseOf
    <3>1. ~ S!Wanted(b)
      BY <2>3 DEF S!Wanted
    <3> QED
      BY <2>1, <3>1, <1>1, <1>5, BaseStays
  <2> QED
    BY <2>2, <2>3
<1>15. ASSUME NEW b \in S!Bases, S!Present(S!FreezerOf(b))' PROVE host'.unclean \/ FreezerMayStay(b)'
  <2>1. S!Present(S!FreezerOf(b))
    BY <1>1, <1>15 DEF S!Present
  <2>2. CASE b = S!BaseOf
    BY <2>2, <1>8, <1>13 DEF FreezerMayStay
  <2>3. CASE b # S!BaseOf
    <3>1. ~ S!Wanted(b)
      BY <2>3 DEF S!Wanted
    <3> QED
      BY <2>1, <3>1, <1>1, <1>5, <1>8, FreezerStays
  <2> QED
    BY <2>2, <2>3
<1> QED
  BY <1>1, <1>5, <1>10, <1>11, <1>12, <1>14, <1>15, StillVms
     DEF SmolInv, SmolTypes, JobsMove, BasesCovered, FreezersCovered

LEMMA DiscardRetiresHolds ==
  ASSUME SmolInv, S!DiscardRetires
  PROVE  SmolInv'
<1> DEFINE a == S!Copy
<1>1. /\ jobs[a] # <<>> /\ Head(jobs[a]).do = "discard" /\ Head(jobs[a]).at = "retire"
      /\ UNCHANGED <<stored, made, faults>> /\ a \in S!Actors /\ S!Ends(a)
  BY SmolNames DEF S!DiscardRetires, S!At
<1>2. Head(jobs[a]).on = S!BaseOf /\ S!BaseOf \in S!Bases
  BY <1>1, FirstJob
<1>3. /\ IF S!Pinned(S!BaseOf) THEN UNCHANGED rec ELSE S!Removes(S!BaseOf)
      /\ host' = [host EXCEPT !.unclean = @ \/ S!Present(S!FreezerOf(S!BaseOf))]
  BY <1>2 DEF S!DiscardRetires, S!On
<1>4. /\ host' \in [boot : Nat, version : Nat, unclean : BOOLEAN] /\ host'.boot = host.boot /\ host'.version = host.version
      /\ (host.unclean => host'.unclean) /\ (S!Present(S!FreezerOf(S!BaseOf)) => host'.unclean)
  <2> DEFINE p == S!Present(S!FreezerOf(S!BaseOf))
  <2>1. host \in [boot : Nat, version : Nat, unclean : BOOLEAN] /\ p \in BOOLEAN
    BY DEF SmolInv, SmolTypes, S!Present
  <2> HIDE DEF p
  <2>2. host' = [host EXCEPT !.unclean = @ \/ p]
    BY <1>3 DEF p
  <2>3. host' \in [boot : Nat, version : Nat, unclean : BOOLEAN] /\ host'.boot = host.boot /\ host'.version = host.version
        /\ host'.unclean = (host.unclean \/ p)
    BY <2>1, <2>2
  <2>4. (host.unclean => host'.unclean) /\ (p => host'.unclean)
    BY <2>3, Zenon
  <2> QED
    BY <2>3, <2>4 DEF p
<1>5. /\ JobsMove(a)
      /\ jobs'[a] # <<>> => Head(jobs'[a]).at = "begin" /\ Head(jobs'[a]).do \in {"park", "retire", "builds"}
  BY <1>1, <1>4, EndsOn
<1>6. /\ rec' \in [VmNames -> VmRecs] /\ Branches' /\ \A m \in S!Natives : rec'[m] = rec[m]
      /\ \A b \in S!Bases : (S!Present(b)' => S!Present(b)) /\ (S!Present(S!FreezerOf(b))' => S!Present(S!FreezerOf(b)))
  <2>1. CASE UNCHANGED rec
    BY <2>1, StillVms
  <2>2. CASE S!Removes(S!BaseOf)
    BY <2>2, <1>2, Removed1, SmolNames
  <2> QED
    BY <2>1, <2>2, <1>3
<1>7. S!Present(S!BaseOf)' => host'.unclean \/ Kept(S!BaseOf)
  <2>1. CASE S!Removes(S!BaseOf)
    <3>1. UNCHANGED S!BaseOf
      BY <1>4 DEF S!BaseOf
    <3>2. S!BaseOf \in VmNames
      BY <1>2, SmolNames
    <3>3. rec'[S!BaseOf] = S!Missing
      BY <2>1, <3>2, <1>2, Removed1
    <3> QED
      BY <3>1, <3>3, MissingIs DEF S!Present
  <2>2. CASE S!Pinned(S!BaseOf)
    <3>1. PICK n \in VmNames : S!Present(n) /\ rec[n].parent = S!BaseOf
      BY <2>2 DEF SmolInv, SmolTypes, S!Pinned
    <3>2. n \notin S!Bases
      BY <3>1, <1>2, SmolNames DEF SmolInv, Branches
    <3>3. n \in S!Freezers => n = S!FreezerOf(S!BaseOf)
      BY <3>1, SmolNames DEF SmolInv, Branches
    <3> QED
      BY <3>1, <3>2, <3>3, <1>4, SmolNames DEF Kept
  <2> QED
    BY <2>1, <2>2, <1>3
<1>8. UNCHANGED S!BaseOf /\ (S!CapturedHere' <=> S!CapturedHere) /\ \A b : S!Wanted(b)' <=> S!Wanted(b)
  BY <1>1, <1>4 DEF S!BaseOf, S!CapturedHere, S!Wanted
<1>10. CopyIsKept'
  <2>1. jobs'[a] # <<>> => ~ Locks(Head(jobs'[a])) /\ Head(jobs'[a]).do \notin {"discard", "restore"}
    BY <1>5 DEF Locks
  <2> QED
    BY <2>1, <1>1, <1>4, <1>5, CopyStays
<1>11. Cleared'
  BY <1>1, <1>5, <1>6, ClearedStays
<1>12. (\A m \in S!Natives : MachineFits(m))'
  <2>1. \A m \in S!Natives : rec'[m].parent = rec[m].parent /\ (S!Present(m)' <=> S!Present(m))
    BY <1>6 DEF S!Present
  <2> QED
    BY <2>1, <1>1, <1>5, MachinesStay
<1>13. \A b : Kept(b) => Kept(b)'
  BY <1>6 DEF Kept
<1>14. ASSUME NEW b \in S!Bases, S!Present(b)' PROVE host'.unclean \/ BaseMayStay(b)'
  <2>1. CASE b = S!BaseOf
    <3>1. S!Present(S!BaseOf)'
      BY <2>1, <1>8, <1>14 DEF S!Present
    <3> QED
      BY <3>1, <2>1, <1>7, <1>13 DEF BaseMayStay
  <2>2. CASE b # S!BaseOf
    <3>1. host.unclean \/ BaseMayStay(b)
      BY <1>6, <1>14 DEF SmolInv, BasesCovered
    <3>2. ~ DiscardDue(b)
      BY <2>2 DEF DiscardDue
    <3>3. (SettleDue => SettleDue') /\ (RetireDue(b) => RetireDue(b)')
      BY <1>1, <1>4, <1>5, DuesMove
    <3> QED
      BY <3>1, <3>2, <3>3, <1>4, <1>8, <1>13 DEF BaseMayStay
  <2> QED
    BY <2>1, <2>2
<1>15. ASSUME NEW b \in S!Bases, S!Present(S!FreezerOf(b))' PROVE host'.unclean \/ FreezerMayStay(b)'
  <2>1. S!Present(S!FreezerOf(b))
    BY <1>6, <1>15
  <2>2. CASE b = S!BaseOf
    BY <2>1, <2>2, <1>4
  <2>3. CASE b # S!BaseOf
    <3>1. host.unclean \/ FreezerMayStay(b)
      BY <2>1 DEF SmolInv, FreezersCovered
    <3>2. ~ DiscardDue(b) /\ ~ S!Wanted(b) /\ ~ S!Wanted(b)' /\ ~ Thaws(b)
      BY <2>3, <1>8 DEF DiscardDue, S!Wanted, Thaws
    <3>3. (SettleDue => SettleDue') /\ (ClearDue(b) => ClearDue(b)')
      BY <1>1, <1>4, <1>5, DuesMove
    <3> QED
      BY <3>1, <3>2, <3>3, <1>4 DEF FreezerMayStay
  <2> QED
    BY <2>2, <2>3
<1> QED
  BY <1>1, <1>4, <1>5, <1>6, <1>10, <1>11, <1>12, <1>14, <1>15
     DEF SmolInv, SmolTypes, JobsMove, BasesCovered, FreezersCovered

--------------------------------------------------------------------------------
(* Machines keep the invariant. *)

LEMMA MachineMoves ==
  ASSUME SmolInv, NEW m \in S!Natives, JobsMove(m), UNCHANGED <<stored, host>>, faults' = faults \/ (faults' \in Nat /\ faults' < faults),
         NEW status \in MadeStates, made' = [made EXCEPT ![m] = status], rec' \in [VmNames -> VmRecs], Branches',
         \A k \in VmNames : k # m => rec'[k].parent = rec[k].parent /\ (S!Present(k)' <=> S!Present(k)),
         jobs[m] # <<>> => Head(jobs[m]).do \in {"restore", "delete"},
         jobs'[m] # <<>> => \/ Head(jobs'[m]).do = "restore" /\ made[S!Copy] = "made"
                            \/ Head(jobs'[m]).do \in {"park", "retire", "builds", "delete"} /\ Head(jobs'[m]).at = "begin",
         MachineFits(m)',
         \A b \in S!Bases : rec[m].parent = b => rec'[m].parent = b \/ RetireDue(b)'
  PROVE  SmolInv'
<1>0. m \in S!Actors /\ m # S!Copy /\ m # S!Settling /\ m \in VmNames
  BY SmolNames
<1>1. UNCHANGED S!BaseOf /\ (S!CapturedHere' <=> S!CapturedHere) /\ \A b : S!Wanted(b)' <=> S!Wanted(b)
  BY DEF S!BaseOf, S!CapturedHere, S!Wanted
<1>2. /\ made' \in [S!Natives \cup {S!Copy} -> MadeStates] /\ made'[S!Copy] = made[S!Copy]
      /\ \A n \in S!Natives : n # m => made'[n] = made[n]
  <2>1. made \in [S!Natives \cup {S!Copy} -> MadeStates]
    BY DEF SmolInv, SmolTypes
  <2> QED
    BY <2>1, <1>0
<1>3. CopyIsKept'
  <2>1. jobs'[m] # <<>> => /\ Head(jobs'[m]).do = "park" /\ Locks(Head(jobs'[m])) => S!CapturedHere
                           /\ Head(jobs'[m]).do # "discard" /\ (Head(jobs'[m]).do = "restore" => made[S!Copy] = "made")
    BY DEF Locks
  <2> QED
    BY <2>1, <1>0, <1>2, CopyStays
<1>4. \A b \in S!Bases : (S!Present(b)' => S!Present(b)) /\ (S!Present(S!FreezerOf(b))' => S!Present(S!FreezerOf(b)))
  BY SmolNames
<1>5. Cleared'
  BY <1>0, <1>4, ClearedStays
<1>6. (\A n \in S!Natives : MachineFits(n))'
  <2> SUFFICES ASSUME NEW n \in S!Natives, n # m PROVE MachineFits(n)'
    OBVIOUS
  <2>1. MachineFits(n) /\ jobs'[n] = jobs[n] /\ n \in VmNames
    BY SmolNames DEF SmolInv, JobsMove
  <2>2. made'[n] = made[n] /\ rec'[n].parent = rec[n].parent /\ (S!Present(n)' <=> S!Present(n))
    BY <2>1, <1>2
  <2> QED
    BY <2>1, <2>2 DEF MachineFits, Does
<1>7. ASSUME NEW b \in S!Bases, S!Present(b)' PROVE host'.unclean \/ BaseMayStay(b)'
  <2>1. CASE rec[m].parent = b /\ rec'[m].parent # b
    BY <2>1 DEF BaseMayStay
  <2>2. CASE ~ (rec[m].parent = b /\ rec'[m].parent # b)
    <3>1. Kept(b) => Kept(b)'
      <4> SUFFICES ASSUME Kept(b) PROVE Kept(b)'
        OBVIOUS
      <4>1. PICK n \in S!Natives : rec[n].parent = b
        BY DEF Kept
      <4>2. rec'[n].parent = b
        BY <4>1, <2>2, SmolNames
      <4> QED
        BY <4>2 DEF Kept
    <3>2. jobs[m] # <<>> => /\ ~ (m = S!Settling /\ Head(jobs[m]).do = "settle")
                            /\ ~ (Head(jobs[m]).do = "retire" /\ Head(jobs[m]).on = b)
                            /\ ~ (m = S!Copy /\ Head(jobs[m]).do = "discard" /\ Head(jobs[m]).at = "retire")
      BY <1>0
    <3> QED
      BY <3>1, <3>2, <1>0, <1>1, <1>4, <1>7, BaseStays
  <2> QED
    BY <2>1, <2>2
<1>8. ASSUME NEW b \in S!Bases, S!Present(S!FreezerOf(b))' PROVE host'.unclean \/ FreezerMayStay(b)'
  BY <1>0, <1>1, <1>4, <1>8, FreezerStays
<1>9. SmolTypes'
  <2>1. faults' \in Nat /\ host'.boot + faults' <= MaxFaults + 1
    BY BuildsAssumption DEF SmolInv, SmolTypes
  <2> QED
    BY <2>1, <1>2 DEF SmolInv, SmolTypes, JobsMove
<1> QED
  BY <1>3, <1>5, <1>6, <1>7, <1>8, <1>9 DEF SmolInv, JobsMove, BasesCovered, FreezersCovered

\* A machine's VM is made as v says, or removed.
LEMMA VmMoves ==
  ASSUME SmolInv, NEW m \in S!Natives, NEW v \in VmRecs, RecSets(m, v), v.state = "missing" => v.parent = S!None
  PROVE  /\ rec' \in [VmNames -> VmRecs] /\ Branches' /\ rec'[m] = v /\ (S!Present(m)' <=> v.state # "missing")
         /\ \A k \in VmNames : k # m => rec'[k].parent = rec[k].parent /\ (S!Present(k)' <=> S!Present(k))
<1>1. m \in VmNames /\ m \notin S!Bases /\ m \notin S!Freezers
  BY SmolNames
<1> QED
  BY <1>1, RecMoves

LEMMA MachineFacts ==
  ASSUME SmolInv, NEW m \in S!Natives
  PROVE  /\ m \in S!Actors /\ m \in VmNames /\ MachineFits(m) /\ rec[m] \in VmRecs /\ made[m] \in MadeStates
         /\ (~ S!Present(m) => rec[m].parent = S!None) /\ Does4(m) = {"restore", "delete", "retire"}
         /\ m # S!Copy /\ m # S!Parks
         /\ made' = made => made' = [made EXCEPT ![m] = made[m]]
         /\ Does(m, "restore") => made[S!Copy] = "made" /\ stored # 0 /\ made[m] # "none"
<1>1. m \in S!Actors /\ m \in VmNames /\ m # S!Copy /\ m # S!Parks
  BY SmolNames
<1>2. made \in [S!Natives \cup {S!Copy} -> MadeStates] /\ rec \in [VmNames -> VmRecs] /\ MachineFits(m) /\ CopyIsKept /\ Branches
  BY DEF SmolInv, SmolTypes
<1>3. Does(m, "restore") => made[S!Copy] = "made" /\ stored # 0 /\ made[m] # "none"
  BY <1>2 DEF CopyIsKept, MachineFits, Does
<1>4. ~ S!Present(m) => rec[m].parent = S!None
  BY <1>1, <1>2 DEF Branches, S!Present
<1> QED
  BY <1>1, <1>2, <1>3, <1>4 DEF Does4

LEMMA RestoreHolds ==
  ASSUME SmolInv, NEW m \in S!Natives, S!Restore(m)
  PROVE  SmolInv'
<1> DEFINE j == S!Job("restore", S!BaseOf)
<1>1. /\ jobs[m] = <<>> /\ made[m] = "none" /\ made[S!Copy] = "made" /\ made' = [made EXCEPT ![m] = "making"]
      /\ jobs' = [jobs EXCEPT ![m] = <<j>>] /\ UNCHANGED <<rec, stored, host, lock, faults>>
  BY DEF S!Restore
<1>2. S!BaseOf \in S!Bases
  BY SmolBaseOf DEF SmolInv
<1>3. j \in JobRecs /\ j.do = "restore" /\ j.at = "begin" /\ j.on = S!BaseOf
  BY <1>2 DEF S!Job, JobRecs
<1> HIDE DEF j
<1>4. JobsMove(m) /\ jobs'[m] # <<>> /\ Head(jobs'[m]) = j
  BY <1>1, <1>3, MachineFacts, StartsMove
<1>5. ~ S!Present(m)
  BY <1>1, MachineFacts DEF MachineFits
<1>6. made'[m] = "making" /\ "making" \in MadeStates
  BY <1>1 DEF SmolInv, SmolTypes, MadeStates
<1>7. MachineFits(m)'
  BY <1>3, <1>4, <1>5, <1>6, <1>1, StillVms DEF MachineFits, Does
<1>8. \A b \in S!Bases : rec[m].parent = b => rec'[m].parent = b
  BY <1>1
<1>9. \A k \in VmNames : rec'[k].parent = rec[k].parent /\ (S!Present(k)' <=> S!Present(k))
  BY <1>1, StillVms
<1> QED
  BY <1>1, <1>3, <1>4, <1>6, <1>7, <1>8, <1>9, StillVms, MachineMoves

LEMMA RestoringHolds ==
  ASSUME SmolInv, NEW m \in S!Natives,
         S!RestoreLooks(m) \/ S!RestoreBranches(m) \/ S!RestoreRelooks(m) \/ S!RestoreCreates(m) \/ S!RestoreBoots(m)
  PROVE  SmolInv'
<1> DEFINE h == Head(jobs[m])
<1>0. jobs[m] # <<>> /\ h.do = "restore" /\ UNCHANGED <<stored, host, faults>> /\ Does(m, "restore")
  BY DEF S!RestoreLooks, S!RestoreBranches, S!RestoreRelooks, S!RestoreCreates, S!RestoreBoots, S!At, Does
<1>1. /\ m \in S!Actors /\ m \in VmNames /\ MachineFits(m) /\ rec[m] \in VmRecs /\ made[S!Copy] = "made" /\ stored # 0
      /\ made[m] # "none" /\ made[m] # "failed" /\ made[m] \in MadeStates /\ (~ S!Present(m) => rec[m].parent = S!None)
      /\ made' = made => made' = [made EXCEPT ![m] = made[m]]
  BY <1>0, MachineFacts DEF MachineFits
<1>2. h.on = S!BaseOf /\ S!BaseOf \in S!Bases
  BY <1>0, <1>1, FirstJob
<1>3. {"branch", "create", "grow", "relook", "boot"} \subseteq Stages
  BY DEF Stages
<1>4. /\ h.at \in {"begin", "branch", "create"} => ~ S!Present(m)
      /\ h.at \in {"relook", "boot"} => rec[m].parent = S!None
  BY <1>0, <1>1 DEF MachineFits
<1> HIDE DEF h
<1>h. h = Head(jobs[m])
  BY DEF h
<1>6. ASSUME NEW stage \in {"branch", "create", "grow", "relook", "boot"}, S!Goes(m, stage), UNCHANGED <<lock, made>>,
             rec' \in [VmNames -> VmRecs], Branches',
             \A k \in VmNames : k # m => rec'[k].parent = rec[k].parent /\ (S!Present(k)' <=> S!Present(k)),
             stage \in {"branch", "create"} => ~ S!Present(m)', stage \in {"relook", "boot"} => rec'[m].parent = S!None,
             rec[m].parent = S!None
      PROVE  SmolInv'
  <2>1. JobsMove(m) /\ jobs'[m] # <<>> /\ Head(jobs'[m]).do = "restore" /\ Head(jobs'[m]).at = stage
    BY <1>0, <1>1, <1>3, <1>6, <1>h, GoesOn
  <2>2. MachineFits(m)'
    BY <2>1, <1>1, <1>6 DEF MachineFits, Does
  <2>3. \A b \in S!Bases : rec[m].parent # b
    BY <1>6, SmolNames
  <2> QED
    BY <2>1, <2>2, <2>3, <1>0, <1>1, <1>6, <1>h, MachineMoves
<1>7. CASE S!RestoreLooks(m)
  <2>1. h.at = "begin" /\ UNCHANGED <<rec, lock, made>> /\ \E stage \in {"branch", "create"} : S!Goes(m, stage)
    BY <1>7 DEF S!RestoreLooks, S!At, h
  <2> QED
    BY <2>1, <1>1, <1>4, <1>6, StillVms
<1>8. CASE S!RestoreBranches(m)
  <2>1. h.at = "branch" /\ UNCHANGED <<lock, made>> /\ ~ S!Present(m) /\ rec[m].parent = S!None
    BY <1>1, <1>4, <1>8 DEF S!RestoreBranches, S!At, h
  <2>2. CASE /\ rec' = [rec EXCEPT ![S!BaseOf].state = "frozen", ![m] = [state |-> "running", parent |-> S!BaseOf]]
             /\ rec[S!BaseOf].state \in {"running", "frozen"} /\ S!Goes(m, "grow")
    <3> DEFINE v == [state |-> "running", parent |-> S!BaseOf]
               w == [rec[S!BaseOf] EXCEPT !.state = "frozen"]
    <3>1. rec \in [VmNames -> VmRecs] /\ Branches
      BY DEF SmolInv, SmolTypes
    <3>2. S!BaseOf \in VmNames /\ m # S!BaseOf
      BY <1>2, SmolNames
    <3>3. v \in VmRecs /\ v.state = "running" /\ w \in VmRecs /\ w.state = "frozen" /\ w.parent = rec[S!BaseOf].parent
      BY <1>2, <3>1, <3>2 DEF VmRecs, VmStates
    <3>4. rec' = [rec EXCEPT ![S!BaseOf] = w, ![m] = v]
      BY <2>2, <3>1, <3>2
    <3> HIDE DEF v, w
    <3>5. /\ rec' \in [VmNames -> VmRecs] /\ rec'[m] = v /\ rec'[S!BaseOf] = w
          /\ \A k \in VmNames : k # m /\ k # S!BaseOf => rec'[k] = rec[k]
      BY <3>1, <3>2, <3>3, <3>4, <1>1
    <3>6. \A k \in VmNames : k # m => rec'[k].parent = rec[k].parent /\ (S!Present(k)' <=> S!Present(k))
      <4> SUFFICES ASSUME NEW k \in VmNames, k # m PROVE rec'[k].parent = rec[k].parent /\ (S!Present(k)' <=> S!Present(k))
        OBVIOUS
      <4>1. CASE k = S!BaseOf
        <5>1. rec'[k].state = "frozen" /\ rec[k].state # "missing" /\ rec'[k].parent = rec[k].parent
          BY <4>1, <3>3, <3>5, <2>2
        <5> QED
          BY <5>1 DEF S!Present
      <4>2. CASE k # S!BaseOf
        BY <4>2, <3>5 DEF S!Present
      <4> QED
        BY <4>1, <4>2
    <3>7. \A k \in VmNames : rec'[k].state = "missing" => rec'[k].parent = S!None
      BY <3>1, <3>3, <3>5, <3>6 DEF Branches, S!Present
    <3>8. ASSUME NEW b \in S!Bases PROVE rec'[b].parent = S!None /\ (rec'[S!FreezerOf(b)].state # "missing" => rec'[S!FreezerOf(b)].parent = b)
      <4>1. b \in VmNames /\ S!FreezerOf(b) \in VmNames /\ b # m /\ S!FreezerOf(b) # m
        BY SmolNames
      <4> QED
        BY <4>1, <3>1, <3>6 DEF Branches, S!Present
    <3>9. Branches'
      BY <3>7, <3>8 DEF Branches, S!Present
    <3> QED
      BY <2>1, <2>2, <3>5, <3>6, <3>9, <1>6
  <2>3. ASSUME NEW piece \in {"missing", "created"}, S!Puts(m, piece, S!None), S!Goes(m, "relook")
        PROVE  SmolInv'
    <3>1. [state |-> piece, parent |-> S!None] \in VmRecs /\ RecSets(m, [state |-> piece, parent |-> S!None])
      BY <2>3 DEF VmRecs, VmStates, RecSets, S!Puts
    <3>2. /\ rec' \in [VmNames -> VmRecs] /\ Branches' /\ rec'[m] = [state |-> piece, parent |-> S!None]
          /\ \A k \in VmNames : k # m => rec'[k].parent = rec[k].parent /\ (S!Present(k)' <=> S!Present(k))
      BY <3>1, VmMoves
    <3> QED
      BY <2>1, <2>3, <3>2, <1>6
  <2> QED
    BY <2>2, <2>3, <1>2, <1>8, <1>h DEF S!RestoreBranches, S!On
<1>9. CASE S!RestoreRelooks(m)
  <2>1. h.at = "relook" /\ rec[m].parent = S!None
    BY <1>4, <1>9 DEF S!RestoreRelooks, S!At, h
  <2>2. CASE made' = [made EXCEPT ![m] = "raced"] /\ S!Ends(m) /\ UNCHANGED rec
    <3>1. /\ JobsMove(m)
          /\ jobs'[m] # <<>> => Head(jobs'[m]).at = "begin" /\ Head(jobs'[m]).do \in {"park", "retire", "builds"}
      BY <2>2, <1>0, <1>1, <1>h, EndsOn
    <3>2. made'[m] = "raced" /\ "raced" \in MadeStates
      BY <2>2 DEF SmolInv, SmolTypes, MadeStates
    <3>3. MachineFits(m)'
      BY <3>1, <3>2 DEF MachineFits, Does
    <3>4. \A b \in S!Bases : rec[m].parent # b
      BY <2>1, SmolNames
    <3>5. \A k \in VmNames : rec'[k].parent = rec[k].parent /\ (S!Present(k)' <=> S!Present(k))
      BY <2>2, StillVms
    <3> QED
      BY <2>2, <3>1, <3>2, <3>3, <3>4, <3>5, <1>0, <1>h, StillVms, MachineMoves
  <2>3. CASE S!Removes(m) /\ S!Goes(m, "create") /\ UNCHANGED <<lock, made>>
    <3>1. RecSets(m, S!Missing)
      BY <2>3 DEF RecSets, S!Removes
    <3>2. /\ rec' \in [VmNames -> VmRecs] /\ Branches' /\ ~ S!Present(m)'
          /\ \A k \in VmNames : k # m => rec'[k].parent = rec[k].parent /\ (S!Present(k)' <=> S!Present(k))
      BY <3>1, MissingIs, VmMoves
    <3> QED
      BY <2>1, <2>3, <3>2, <1>6
  <2> QED
    BY <2>2, <2>3, <1>9 DEF S!RestoreRelooks
<1>10. CASE S!RestoreCreates(m)
  <2>1. h.at = "create" /\ ~ S!Present(m) /\ rec[m].parent = S!None
    BY <1>1, <1>4, <1>10 DEF S!RestoreCreates, S!At, h
  <2>2. S!Puts(m, "created", S!None) /\ S!Goes(m, "boot") /\ UNCHANGED <<lock, made>>
    BY <2>1, <1>1, <1>10 DEF S!RestoreCreates
  <2>3. [state |-> "created", parent |-> S!None] \in VmRecs /\ RecSets(m, [state |-> "created", parent |-> S!None])
    BY <2>2 DEF VmRecs, VmStates, RecSets, S!Puts
  <2>4. /\ rec' \in [VmNames -> VmRecs] /\ Branches' /\ rec'[m] = [state |-> "created", parent |-> S!None]
        /\ \A k \in VmNames : k # m => rec'[k].parent = rec[k].parent /\ (S!Present(k)' <=> S!Present(k))
    BY <2>3, VmMoves
  <2> QED
    BY <2>1, <2>2, <2>4, <1>6
<1>11. CASE S!RestoreBoots(m)
  <2>1. h.at = "boot" /\ rec[m].parent = S!None /\ S!Puts(m, "running", S!None) /\ S!Goes(m, "grow") /\ UNCHANGED <<lock, made>>
    BY <1>4, <1>11 DEF S!RestoreBoots, S!At, h
  <2>3. [state |-> "running", parent |-> S!None] \in VmRecs /\ RecSets(m, [state |-> "running", parent |-> S!None])
    BY <2>1 DEF VmRecs, VmStates, RecSets, S!Puts
  <2>4. /\ rec' \in [VmNames -> VmRecs] /\ Branches' /\ rec'[m] = [state |-> "running", parent |-> S!None]
        /\ \A k \in VmNames : k # m => rec'[k].parent = rec[k].parent /\ (S!Present(k)' <=> S!Present(k))
    BY <2>3, VmMoves
  <2> QED
    BY <2>1, <2>4, <1>6
<1> QED
  BY <1>7, <1>8, <1>9, <1>10, <1>11

LEMMA RestoreEndsHolds ==
  ASSUME SmolInv, NEW m \in S!Natives, S!RestoreEnds(m)
  PROVE  SmolInv'
<1> DEFINE p == S!Parks
           q == jobs[p]
           j == S!Job("park", S!BaseOf)
<1>1. /\ jobs[m] # <<>> /\ Head(jobs[m]).do = "restore" /\ made' = [made EXCEPT ![m] = "made"]
      /\ UNCHANGED <<rec, stored, host, lock, faults>>
  BY DEF S!RestoreEnds, S!At
<1>2. m \in S!Actors /\ p \in S!Actors /\ m # p /\ m # S!Copy /\ p # S!Copy /\ p # S!Settling /\ m # S!Settling /\ p \notin S!Natives
  BY SmolNames
<1>3. Head(jobs[m]).on = S!BaseOf /\ S!BaseOf \in S!Bases /\ Tail(jobs[m]) = <<>> /\ Queued(jobs[m]) = {Head(jobs[m])}
  <2>1. Head(jobs[m]).on = S!BaseOf /\ S!BaseOf \in S!Bases /\ Tail(jobs[m]) = <<>>
    BY <1>1, <1>2, FirstJob
  <2>2. jobs[m] \in Seq(JobRecs) /\ Queued(<<>>) = {}
    BY <1>2 DEF SmolInv, SmolTypes, Queued
  <2> QED
    BY <2>1, <2>2, <1>1, QueueIs
<1>4. jobs' = [jobs EXCEPT ![m] = <<>>, ![p] = Append(q, j)]
  BY <1>3, <1>2 DEF S!RestoreEnds, S!On
<1>5. j \in JobRecs /\ j.do = "park" /\ j.at = "begin" /\ j.on = S!BaseOf
  BY <1>3 DEF S!Job, JobRecs
<1>6. jobs \in [S!Actors -> Seq(JobRecs)] /\ q \in Seq(JobRecs)
  BY <1>2 DEF SmolInv, SmolTypes
<1> HIDE DEF j
<1>7. /\ Append(q, j) \in Seq(JobRecs) /\ Append(q, j) # <<>> /\ Queued(Append(q, j)) = Queued(q) \cup {j}
      /\ Head(Append(q, j)) = IF q = <<>> THEN j ELSE Head(q)
      /\ \A i \in Queued(Tail(Append(q, j))) : i = j \/ (q # <<>> /\ i \in Queued(Tail(q)))
  <2> HIDE DEF q
  <2>1. Append(q, j) \in Seq(JobRecs) /\ Append(q, j) # <<>> /\ Append(q, j) = q \o <<j>>
    BY <1>5, <1>6
  <2>2. <<j>> \in Seq(JobRecs) /\ Queued(<<j>>) = {j}
    BY <1>5, <1>6, QueueOfOne
  <2>3. Queued(Append(q, j)) = Queued(q) \cup {j}
    BY <2>1, <2>2, <1>6, QueueJoins
  <2>4. CASE q = <<>>
    <3>1. Append(q, j) = <<j>> /\ Head(<<j>>) = j /\ Tail(<<j>>) = <<>>
      BY <2>4
    <3> QED
      BY <3>1, <2>1, <2>3, <2>4 DEF Queued
  <2>5. CASE q # <<>>
    <3>1. Head(Append(q, j)) = Head(q) /\ Tail(Append(q, j)) = Append(Tail(q), j) /\ Tail(q) \in Seq(JobRecs)
      BY <2>5, <1>5, <1>6
    <3>2. Append(Tail(q), j) = Tail(q) \o <<j>>
      BY <3>1, <1>5
    <3>3. Queued(Append(Tail(q), j)) = Queued(Tail(q)) \cup {j}
      BY <3>1, <3>2, <2>2, QueueJoins
    <3>4. \A i \in Queued(Tail(Append(q, j))) : i = j \/ i \in Queued(Tail(q))
      <4>1. Queued(Tail(Append(q, j))) = Queued(Append(Tail(q), j))
        BY <3>1
      <4>2. Queued(Tail(Append(q, j))) = Queued(Tail(q)) \cup {j}
        BY <4>1, <3>3
      <4> QED
        BY ONLY <4>2
    <3>5. Head(Append(q, j)) = IF q = <<>> THEN j ELSE Head(q)
      BY <3>1, <2>5
    <3> QED
      BY <3>4, <3>5, <2>1, <2>3, <2>5
  <2> QED
    BY <2>4, <2>5
<1>8. /\ jobs' \in [S!Actors -> Seq(JobRecs)] /\ jobs'[m] = <<>> /\ jobs'[p] = Append(q, j)
      /\ \A c \in S!Actors : c # m /\ c # p => jobs'[c] = jobs[c]
  <2>1. <<>> \in Seq(JobRecs)
    OBVIOUS
  <2> HIDE DEF q
  <2> QED
    BY <2>1, <1>2, <1>4, <1>6, <1>7
<1>9. UNCHANGED S!BaseOf /\ (S!CapturedHere' <=> S!CapturedHere) /\ \A b : S!Wanted(b)' <=> S!Wanted(b)
  BY <1>1 DEF S!BaseOf, S!CapturedHere, S!Wanted
<1>10. \A c \in S!Actors : QueueFits(c)'
  <2> SUFFICES ASSUME NEW c \in S!Actors PROVE QueueFits(c)'
    OBVIOUS
  <2>0. QueueFits(c)
    BY DEF SmolInv
  <2>1. CASE c = m
    BY <2>1, <1>8 DEF QueueFits, Queued, Does
  <2>2. CASE c = p
    <3>1. Does4(p) = {"park"}
      BY <1>2 DEF Does4
    <3>2. Head(jobs'[p]).do = "park"
      <4>1. q # <<>> => Head(q).do = "park"
        BY <1>2, <3>1, FirstJob
      <4> QED
        BY <4>1, <1>5, <1>7, <1>8
    <3> HIDE DEF p, q
    <3>3. \A i \in Queued(jobs'[p]) : i = j \/ i \in Queued(q)
      BY <1>7, <1>8
    <3>4. \A i \in Queued(Tail(jobs'[p])) : i = j \/ (q # <<>> /\ i \in Queued(Tail(q)))
      BY <1>7, <1>8
    <3> QED
      BY <2>0, <2>2, <3>1, <3>2, <3>3, <3>4, <1>5, <1>9 DEF QueueFits, Does, q
  <2>3. CASE c # m /\ c # p
    BY <2>0, <2>3, <1>8, <1>9 DEF QueueFits, Does
  <2> QED
    BY <2>1, <2>2, <2>3
<1>11. LockIsHeld'
  <2> SUFFICES ASSUME NEW b \in S!Bases, NEW c \in S!Actors
               PROVE  lock[b] = c <=> jobs'[c] # <<>> /\ Locks(Head(jobs'[c])) /\ Head(jobs'[c]).on = b
    BY <1>1 DEF LockIsHeld
  <2>0. lock[b] = c <=> jobs[c] # <<>> /\ Locks(Head(jobs[c])) /\ Head(jobs[c]).on = b
    BY DEF SmolInv, LockIsHeld
  <2>1. CASE c = m
    BY <2>0, <2>1, <1>1, <1>8 DEF Locks
  <2>2. CASE c = p /\ q = <<>>
    BY <2>0, <2>2, <1>5, <1>7, <1>8 DEF Locks
  <2>3. CASE (c = p /\ q # <<>>) \/ (c # m /\ c # p)
    BY <2>0, <2>3, <1>7, <1>8
  <2> QED
    BY <2>1, <2>2, <2>3
<1>12. \A c \in S!Actors : c # m => jobs'[c] = jobs[c] \/ (c = p /\ jobs'[c] # <<>> /\ (Head(jobs'[c]) = j \/ (jobs[c] # <<>> /\ Head(jobs'[c]) = Head(jobs[c]))))
  BY <1>7, <1>8
<1>13. made' \in [S!Natives \cup {S!Copy} -> MadeStates] /\ made'[m] = "made" /\ \A n \in S!Natives \cup {S!Copy} : n # m => made'[n] = made[n]
  <2>1. made \in [S!Natives \cup {S!Copy} -> MadeStates] /\ "made" \in MadeStates
    BY DEF SmolInv, SmolTypes, MadeStates
  <2> QED
    BY <1>1, <2>1
<1>14. CopyIsKept'
  <2>1. ASSUME NEW c \in S!Actors, Does(c, "park")', Locks(Head(jobs'[c])) PROVE S!CapturedHere
    <3>1. c # m
      BY <2>1, <1>8 DEF Does
    <3>2. Head(jobs'[c]) # j
      BY <2>1, <1>5 DEF Locks
    <3>3. jobs[c] # <<>> /\ Head(jobs[c]) = Head(jobs'[c])
      BY <3>1, <3>2, <2>1, <1>12 DEF Does
    <3> QED
      BY <3>3, <2>1 DEF Does, SmolInv, CopyIsKept
  <2>2. ASSUME NEW n \in S!Natives, Does(n, "restore")' PROVE made[S!Copy] = "made"
    <3>1. n # m /\ n # p /\ n \in S!Actors
      BY <2>2, <1>8, SmolNames DEF Does
    <3> QED
      BY <3>1, <2>2, <1>8 DEF Does, SmolInv, CopyIsKept
  <2>3. Does(S!Copy, "discard")' => Does(S!Copy, "discard")
    BY <1>2, <1>8, SmolNames DEF Does
  <2>4. CopyIsKept /\ made'[S!Copy] = made[S!Copy]
    BY <1>2, <1>13 DEF SmolInv
  <2> QED
    BY <2>1, <2>2, <2>3, <2>4, <1>1, <1>9 DEF CopyIsKept
<1>15. \A n \in S!Natives : MachineFits(n)'
  <2> SUFFICES ASSUME NEW n \in S!Natives PROVE MachineFits(n)'
    OBVIOUS
  <2>1. CASE n = m
    BY <2>1, <1>8, <1>13 DEF MachineFits, Does
  <2>2. CASE n # m
    <3>1. MachineFits(n) /\ jobs'[n] = jobs[n] /\ made'[n] = made[n]
      BY <2>2, <1>2, <1>8, <1>13, SmolNames DEF SmolInv
    <3> QED
      BY <3>1, <1>1, StillVms DEF MachineFits, Does
  <2> QED
    BY <2>1, <2>2
<1>16. Cleared'
  <2> SUFFICES ASSUME NEW c \in S!Actors, Is(c, "retire", "retire")'
               PROVE  rec'[S!FreezerOf(Head(jobs'[c]).on)].state = "missing"
    BY DEF Cleared, S!Present, S!FreezerOf
  <2>1. c # m /\ Head(jobs'[c]) # j
    BY <1>5, <1>8 DEF Is, Does
  <2>2. jobs[c] # <<>> /\ Head(jobs[c]) = Head(jobs'[c])
    BY <2>1, <1>12 DEF Is, Does
  <2>3. ~ S!Present(S!FreezerOf(Head(jobs[c]).on))
    BY <2>2 DEF SmolInv, Cleared, Is, Does
  <2> QED
    BY <2>2, <2>3, <1>1 DEF S!Present, S!FreezerOf
<1>17. \A c \in S!Actors : \A i \in Queued(jobs[c]) : i.do # "restore" => i \in Queued(jobs'[c])
  <2> SUFFICES ASSUME NEW c \in S!Actors, NEW i \in Queued(jobs[c]), i.do # "restore" PROVE i \in Queued(jobs'[c])
    OBVIOUS
  <2>1. CASE c = m
    BY <2>1, <1>1, <1>3
  <2>2. CASE c # m
    BY <2>2, <1>7, <1>8
  <2> QED
    BY <2>1, <2>2
<1>18. ParkDue'
  <2>1. j \in Queued(jobs'[p])
    BY <1>7, <1>8
  <2> QED
    BY <2>1, <1>2, <1>5 DEF ParkDue
<1>19. ASSUME NEW b \in S!Bases
       PROVE  /\ (SettleDue => SettleDue') /\ (RetireDue(b) => RetireDue(b)') /\ (ClearDue(b) => ClearDue(b)')
              /\ (DiscardDue(b) => DiscardDue(b)') /\ (Thaws(b) => Thaws(b)')
  <2>1. SettleDue => SettleDue'
    BY <1>2, <1>8, SmolNames DEF SettleDue, Does
  <2>2. RetireDue(b) => RetireDue(b)'
    <3> SUFFICES ASSUME RetireDue(b) PROVE RetireDue(b)'
      OBVIOUS
    <3>1. PICK c \in S!Actors : \E i \in Queued(jobs[c]) : i.do = "retire" /\ i.on = b
      BY DEF RetireDue
    <3>2. PICK i \in Queued(jobs[c]) : i.do = "retire" /\ i.on = b
      BY <3>1
    <3> QED
      BY <3>2, <1>17 DEF RetireDue
  <2>3. ClearDue(b) => ClearDue(b)'
    <3> SUFFICES ASSUME ClearDue(b) PROVE ClearDue(b)'
      OBVIOUS
    <3>1. PICK c \in S!Actors : \E i \in Queued(jobs[c]) : i.do = "retire" /\ i.on = b /\ i.at \in {"begin", "clear"}
      BY DEF ClearDue
    <3>2. PICK i \in Queued(jobs[c]) : i.do = "retire" /\ i.on = b /\ i.at \in {"begin", "clear"}
      BY <3>1
    <3> QED
      BY <3>2, <1>17 DEF ClearDue
  <2>4. DiscardDue(b) => DiscardDue(b)'
    BY <1>2, <1>8, <1>9, SmolNames DEF DiscardDue, Is, Does
  <2>5. Thaws(b) => Thaws(b)'
    <3> SUFFICES ASSUME Thaws(b) PROVE Thaws(b)'
      OBVIOUS
    <3>1. PICK c \in S!Actors : Does(c, "park") /\ Head(jobs[c]).at \in {"clear", "thaw"} /\ b = S!BaseOf
      BY DEF Thaws
    <3>2. c # m
      BY <3>1, <1>1 DEF Does
    <3>3. Does(c, "park")' /\ Head(jobs'[c]) = Head(jobs[c])
      BY <3>1, <3>2, <1>7, <1>8 DEF Does
    <3> QED
      BY <3>1, <3>3, <1>9 DEF Thaws
  <2> QED
    BY <2>1, <2>2, <2>3, <2>4, <2>5
<1>20. ASSUME NEW b \in S!Bases, S!Present(b)' PROVE host'.unclean \/ BaseMayStay(b)'
  <2>1. host.unclean \/ BaseMayStay(b)
    BY <1>1, <1>20, StillVms DEF SmolInv, BasesCovered
  <2> QED
    BY <2>1, <1>1, <1>9, <1>19, StillVms DEF BaseMayStay
<1>21. ASSUME NEW b \in S!Bases, S!Present(S!FreezerOf(b))' PROVE host'.unclean \/ FreezerMayStay(b)'
  <2>1. host.unclean \/ FreezerMayStay(b)
    BY <1>1, <1>21, StillVms DEF SmolInv, FreezersCovered
  <2> QED
    BY <2>1, <1>1, <1>9, <1>18, <1>19 DEF FreezerMayStay
<1> QED
  BY <1>1, <1>8, <1>10, <1>11, <1>13, <1>14, <1>15, <1>16, <1>20, <1>21, StillVms
     DEF SmolInv, SmolTypes, BasesCovered, FreezersCovered

LEMMA DeleteHolds ==
  ASSUME SmolInv, NEW m \in S!Natives, S!Delete(m)
  PROVE  SmolInv'
<1> DEFINE j == S!Job("delete", rec[m].parent)
<1>1. /\ jobs[m] = <<>> /\ made' = [made EXCEPT ![m] = "deleting"] /\ jobs' = [jobs EXCEPT ![m] = <<j>>]
      /\ UNCHANGED <<rec, stored, host, lock, faults>>
  BY DEF S!Delete
<1>2. /\ m \in S!Actors /\ m \in VmNames /\ rec[m] \in VmRecs /\ Does4(m) = {"restore", "delete", "retire"}
  BY MachineFacts
<1>3. j \in JobRecs /\ j.do = "delete" /\ j.at = "begin" /\ j.on = rec[m].parent
  BY <1>2 DEF S!Job, JobRecs, VmRecs
<1> HIDE DEF j
<1>4. JobsMove(m) /\ jobs'[m] # <<>> /\ Head(jobs'[m]) = j
  BY <1>1, <1>2, <1>3, StartsMove
<1>5. made'[m] = "deleting" /\ "deleting" \in MadeStates
  BY <1>1 DEF SmolInv, SmolTypes, MadeStates
<1>6. MachineFits(m)'
  BY <1>1, <1>3, <1>4, <1>5 DEF MachineFits, Does
<1>7. \A k \in VmNames : rec'[k].parent = rec[k].parent /\ (S!Present(k)' <=> S!Present(k))
  BY <1>1, StillVms
<1> QED
  BY <1>1, <1>3, <1>4, <1>5, <1>6, <1>7, StillVms, MachineMoves

LEMMA DeleteRemovesHolds ==
  ASSUME SmolInv, NEW m \in S!Natives, S!DeleteRemoves(m)
  PROVE  SmolInv'
<1> DEFINE h == Head(jobs[m])
           U == S!ListedBases
           next == IF ~ S!Present(m) THEN S!RetireAll(U)
                   ELSE IF h.on \in S!Bases THEN <<S!Job("retire", h.on)>> ELSE <<>>
<1>1. /\ jobs[m] # <<>> /\ h.do = "delete" /\ h.at = "begin" /\ made' = [made EXCEPT ![m] = "deleted"]
      /\ UNCHANGED <<stored, host, faults>> /\ S!Removes(m) /\ S!Follows(m, next)
  BY DEF S!DeleteRemoves, S!At, S!On
<1>2. /\ m \in S!Actors /\ m \in VmNames /\ Does4(m) = {"restore", "delete", "retire"} /\ h.on = rec[m].parent
      /\ (~ S!Present(m) => rec[m].parent = S!None)
  BY <1>1, MachineFacts DEF MachineFits, Does
<1>3. U \in SUBSET S!Bases
  BY DEF S!ListedBases
<1>4. \A b \in S!Bases : /\ S!Job("retire", b) \in JobRecs /\ S!Job("retire", b).do = "retire"
                         /\ S!Job("retire", b).on = b /\ S!Job("retire", b).at = "begin"
  BY DEF S!Job, JobRecs
<1>5. /\ next \in Seq(JobRecs)
      /\ \A j \in Queued(next) : \E b \in S!Bases : j = S!Job("retire", b)
      /\ S!Present(m) /\ h.on \in S!Bases => S!Job("retire", h.on) \in Queued(next)
  <2>1. CASE ~ S!Present(m)
    <3>1. next = S!RetireAll(U)
      BY <2>1
    <3> HIDE DEF next, U
    <3> QED
      BY <2>1, <3>1, <1>3, RetiresAll
  <2>2. CASE S!Present(m) /\ h.on \in S!Bases
    <3>1. next = <<S!Job("retire", h.on)>>
      BY <2>2
    <3> HIDE DEF next, h
    <3>2. <<>> \in Seq(JobRecs)
      OBVIOUS
    <3>3. next \in Seq(JobRecs) /\ Queued(next) = {S!Job("retire", h.on)}
      BY <3>1, <3>2, <2>2, <1>4, QueueOfOne
    <3> QED
      BY <2>2, <3>3
  <2>3. CASE S!Present(m) /\ h.on \notin S!Bases
    <3>1. next = <<>> /\ <<>> \in Seq(JobRecs) /\ Queued(<<>>) = {}
      BY <2>3 DEF Queued
    <3> HIDE DEF next
    <3> QED
      BY <2>3, <3>1
  <2> QED
    BY <2>1, <2>2, <2>3
<1> HIDE DEF next, U
<1>6. \A j \in Queued(next) : j.do = "retire" /\ j.at = "begin" /\ j.on \in S!Bases
  BY <1>4, <1>5
<1>7. /\ JobsMove(m) /\ \A j \in Queued(next) : j \in Queued(jobs'[m])
      /\ jobs'[m] # <<>> => Head(jobs'[m]).at = "begin" /\ Head(jobs'[m]).do \in {"park", "retire", "builds"}
  BY <1>1, <1>2, <1>5, <1>6, FollowsMove
<1>8. RecSets(m, S!Missing)
  BY <1>1 DEF RecSets, S!Removes
<1>9. /\ rec' \in [VmNames -> VmRecs] /\ Branches'
      /\ \A k \in VmNames : k # m => rec'[k].parent = rec[k].parent /\ (S!Present(k)' <=> S!Present(k))
  BY <1>8, MissingIs, VmMoves
<1>10. made'[m] = "deleted" /\ "deleted" \in MadeStates
  BY <1>1 DEF SmolInv, SmolTypes, MadeStates
<1>11. MachineFits(m)'
  BY <1>7, <1>10 DEF MachineFits, Does
<1>12. ASSUME NEW b \in S!Bases, rec[m].parent = b PROVE RetireDue(b)'
  <2>1. S!Present(m) /\ h.on = b
    BY <1>2, <1>12, SmolNames
  <2>2. S!Job("retire", b) \in Queued(jobs'[m])
    BY <2>1, <1>5, <1>7
  <2> QED
    BY <2>2, <1>2, <1>4 DEF RetireDue
<1> QED
  BY <1>1, <1>7, <1>9, <1>10, <1>11, <1>12, MachineMoves

--------------------------------------------------------------------------------
(* Faults keep the invariant. *)

\* A fault is one less.
LEMMA FaultsStay ==
  ASSUME SmolInv, S!Fault
  PROVE  /\ faults' \in Nat /\ faults' < faults /\ faults' + 1 = faults
         /\ host.boot + faults' <= MaxFaults + 1 /\ host.boot + 1 + faults' <= MaxFaults + 1
<1>1. faults \in Nat /\ host.boot \in Nat /\ host.boot + faults <= MaxFaults + 1 /\ MaxFaults \in Nat
  BY BuildsAssumption DEF SmolInv, SmolTypes
<1>2. faults > 0 /\ faults' = faults - 1
  BY DEF S!Fault
<1> QED
  BY <1>1, <1>2

LEMMA CommandFailsHolds ==
  ASSUME SmolInv, NEW a \in S!Actors, S!CommandFails(a)
  PROVE  SmolInv'
<1> DEFINE h == Head(jobs[a])
<1>1. jobs[a] # <<>> /\ S!Ends(a) /\ S!Fault /\ UNCHANGED <<rec, stored>>
  BY DEF S!CommandFails
<1>2. h.do \in Does4(a)
  BY <1>1, FirstJob
<1>3. CASE h.do = "restore"
  <2>1. a \in S!Natives
    BY <1>2, <1>3 DEF Does4
  <2>2. made' = [made EXCEPT ![a] = "broken"] /\ UNCHANGED host
    BY <1>3 DEF S!CommandFails
  <2>3. JobsMove(a) /\ (jobs'[a] # <<>> => Head(jobs'[a]).at = "begin" /\ Head(jobs'[a]).do \in {"park", "retire", "builds"})
    BY <1>1, <2>2, EndsOn
  <2>4. "broken" \in MadeStates /\ made'[a] = "broken"
    BY <2>1, <2>2 DEF SmolInv, SmolTypes, MadeStates
  <2>5. MachineFits(a)'
    BY <2>3, <2>4 DEF MachineFits, Does
  <2>6. \A k \in VmNames : rec'[k].parent = rec[k].parent /\ (S!Present(k)' <=> S!Present(k))
    BY <1>1, StillVms
  <2>7. \A b \in S!Bases : rec[a].parent = b => rec'[a].parent = b
    BY <1>1
  <2> QED
    BY <1>1, <1>3, <2>1, <2>2, <2>3, <2>4, <2>5, <2>6, <2>7, StillVms, FaultsStay, MachineMoves
<1>4. CASE h.do # "restore"
  <2>1. host' = [host EXCEPT !.unclean = TRUE] /\ UNCHANGED made
    BY <1>4 DEF S!CommandFails
  <2>2. /\ host' \in [boot : Nat, version : Nat, unclean : BOOLEAN] /\ host'.boot = host.boot
        /\ host'.version = host.version /\ host'.unclean
    BY <2>1 DEF SmolInv, SmolTypes
  <2>3. JobsMove(a) /\ (jobs'[a] # <<>> => Head(jobs'[a]).at = "begin" /\ Head(jobs'[a]).do \in {"park", "retire", "builds"})
    BY <1>1, <2>2, EndsOn
  <2>4. SmolTypes'
    BY <1>1, <2>1, <2>2, <2>3, FaultsStay DEF SmolInv, SmolTypes, JobsMove
  <2>5. CopyIsKept'
    BY <1>1, <2>1, <2>2, <2>3, CopyStays DEF Locks
  <2>6. (\A m \in S!Natives : MachineFits(m))'
    BY <1>1, <2>1, <2>3, StillVms, MachinesStay
  <2>7. Cleared'
    BY <1>1, <2>3, StillVms, ClearedStays
  <2>8. BasesCovered' /\ FreezersCovered'
    BY <2>2 DEF BasesCovered, FreezersCovered
  <2> QED
    BY <1>1, <2>3, <2>4, <2>5, <2>6, <2>7, <2>8, StillVms DEF SmolInv, JobsMove
<1> QED
  BY <1>3, <1>4

\* VMs that die keep what they branched from.
LEMMA VmsDie ==
  ASSUME SmolInv, rec' \in [VmNames -> VmRecs],
         \A k \in VmNames : rec'[k].parent = rec[k].parent /\ (rec'[k].state = "missing" <=> rec[k].state = "missing")
  PROVE  /\ Branches' /\ \A b : Kept(b)' <=> Kept(b)
         /\ \A k \in VmNames : S!Present(k)' <=> S!Present(k)
<1>1. \A k \in VmNames : S!Present(k)' <=> S!Present(k)
  BY DEF S!Present
<1>2. \A b : Kept(b)' <=> Kept(b)
  BY SmolNames DEF Kept
<1>3. \A b \in S!Bases : b \in VmNames /\ S!FreezerOf(b) \in VmNames
  BY SmolNames
<1>4. Branches
  BY DEF SmolInv
<1>5. ASSUME NEW b \in S!Bases
      PROVE  rec'[b].parent = S!None /\ (rec'[S!FreezerOf(b)].state # "missing" => rec'[S!FreezerOf(b)].parent = b)
  BY <1>3, <1>4 DEF Branches, S!Present
<1>6. Branches'
  BY <1>4, <1>5 DEF Branches, S!Present
<1> QED
  BY <1>1, <1>2, <1>6

LEMMA DiesHolds ==
  ASSUME SmolInv, NEW n \in DOMAIN rec, S!Dies(n)
  PROVE  SmolInv'
<1>1. /\ rec[n].state # "missing" /\ rec' = [rec EXCEPT ![n].state = "stopped"] /\ S!Fault
      /\ UNCHANGED <<stored, host, jobs, lock, made>>
  BY DEF S!Dies, S!Alive
<1>2. rec \in [VmNames -> VmRecs] /\ n \in VmNames
  BY DEF SmolInv, SmolTypes
<1>3. [rec[n] EXCEPT !.state = "stopped"] \in VmRecs /\ [rec[n] EXCEPT !.state = "stopped"].parent = rec[n].parent
      /\ [rec[n] EXCEPT !.state = "stopped"].state = "stopped"
  BY <1>2 DEF VmRecs, VmStates
<1>4. /\ rec' \in [VmNames -> VmRecs] /\ rec'[n] = [rec[n] EXCEPT !.state = "stopped"]
      /\ \A k \in VmNames : k # n => rec'[k] = rec[k]
  BY <1>1, <1>2, <1>3
<1>5. \A k \in VmNames : rec'[k].parent = rec[k].parent /\ (rec'[k].state = "missing" <=> rec[k].state = "missing")
  BY <1>1, <1>3, <1>4
<1>6. /\ Branches' /\ (\A b : Kept(b)' <=> Kept(b)) /\ \A k \in VmNames : S!Present(k)' <=> S!Present(k)
  BY <1>4, <1>5, VmsDie
<1>7. UNCHANGED S!BaseOf /\ (S!CapturedHere' <=> S!CapturedHere) /\ \A b : S!Wanted(b)' <=> S!Wanted(b)
  BY <1>1 DEF S!BaseOf, S!CapturedHere, S!Wanted
<1>8. SmolTypes'
  BY <1>1, <1>4, FaultsStay DEF SmolInv, SmolTypes
<1>9. \A c \in S!Actors : QueueFits(c)'
  BY <1>1, <1>7 DEF SmolInv, QueueFits, Does
<1>10. LockIsHeld' /\ CopyIsKept'
  BY <1>1, <1>7 DEF SmolInv, LockIsHeld, CopyIsKept, Does
<1>11. ASSUME NEW m \in S!Natives PROVE MachineFits(m)'
  <2>1. MachineFits(m) /\ m \in VmNames
    BY SmolNames DEF SmolInv
  <2> QED
    BY <2>1, <1>1, <1>5, <1>6 DEF MachineFits, Does
<1>12. /\ SettleDue' <=> SettleDue
       /\ ParkDue' <=> ParkDue
       /\ \A b : /\ RetireDue(b)' <=> RetireDue(b)
                 /\ ClearDue(b)' <=> ClearDue(b)
                 /\ DiscardDue(b)' <=> DiscardDue(b)
                 /\ Thaws(b)' <=> Thaws(b)
  BY <1>1, <1>7 DEF SettleDue, ParkDue, RetireDue, ClearDue, DiscardDue, Thaws, Does, Is
<1>13. ASSUME NEW b \in S!Bases, S!Present(b)' PROVE host'.unclean \/ BaseMayStay(b)'
  <2>1. host.unclean \/ BaseMayStay(b)
    BY <1>6, <1>13, SmolNames DEF SmolInv, BasesCovered
  <2> QED
    BY <2>1, <1>1, <1>6, <1>7, <1>12 DEF BaseMayStay
<1>14. ASSUME NEW b \in S!Bases, S!Present(S!FreezerOf(b))' PROVE host'.unclean \/ FreezerMayStay(b)'
  <2>1. S!Present(S!FreezerOf(b))
    <3>1. S!FreezerOf(b) \in VmNames
      BY SmolNames
    <3> QED
      BY <3>1, <1>5, <1>14 DEF S!Present, S!FreezerOf
  <2>2. host.unclean \/ FreezerMayStay(b)
    BY <2>1 DEF SmolInv, FreezersCovered
  <2> QED
    BY <2>2, <1>1, <1>7, <1>12 DEF FreezerMayStay
<1>15. Cleared'
  <2> SUFFICES ASSUME NEW c \in S!Actors, Is(c, "retire", "retire")'
               PROVE  rec'[S!FreezerOf(Head(jobs'[c]).on)].state = "missing"
    BY DEF Cleared, S!Present, S!FreezerOf
  <2>1. Is(c, "retire", "retire") /\ Head(jobs'[c]) = Head(jobs[c])
    BY <1>1 DEF Is, Does
  <2>2. Head(jobs[c]).on \in S!Bases
    BY <2>1, FirstJob DEF Is, Does
  <2>3. rec[S!FreezerOf(Head(jobs[c]).on)].state = "missing"
    BY <2>1 DEF SmolInv, Cleared, S!Present
  <2> QED
    BY <2>1, <2>2, <2>3, <1>5, SmolNames
<1> QED
  BY <1>6, <1>8, <1>9, <1>10, <1>11, <1>13, <1>14, <1>15 DEF SmolInv, BasesCovered, FreezersCovered

\* A start of the host's process: what it was at is lost, and the settling covers what is left.
LEMMA StartedHolds ==
  ASSUME SmolInv, NEW turn \in Nat, NEW version \in Nat, version # 0, turn > 0, S!Started(turn, version), UNCHANGED stored,
         faults' \in Nat, turn + faults' <= MaxFaults + 1, rec' \in [VmNames -> VmRecs],
         \A k \in VmNames : rec'[k].parent = rec[k].parent /\ (rec'[k].state = "missing" <=> rec[k].state = "missing")
  PROVE  SmolInv'
<1> DEFINE j == S!Job("settle", S!None)
<1>1. /\ host' = [boot |-> turn, version |-> version, unclean |-> FALSE] /\ lock' = [b \in S!Bases |-> S!None]
      /\ jobs' = [a \in S!Actors |-> IF a = S!Settling THEN <<j>> ELSE <<>>]
      /\ made' = [m \in DOMAIN made |-> IF made[m] = "making" THEN "broken" ELSE made[m]]
  BY DEF S!Started
<1>2. j \in JobRecs /\ j.do = "settle" /\ j.at = "begin" /\ j.on = S!None
  BY DEF S!Job, JobRecs
<1> HIDE DEF j
<1>3. <<j>> \in Seq(JobRecs) /\ <<j>> # <<>> /\ Queued(<<j>>) = {j} /\ Head(<<j>>) = j /\ Tail(<<j>>) = <<>> /\ Queued(<<>>) = {}
      /\ <<>> \in Seq(JobRecs)
  <2>1. <<>> \in Seq(JobRecs)
    OBVIOUS
  <2>2. Queued(<<>>) = {}
    BY DEF Queued
  <2> QED
    BY <2>1, <2>2, <1>2, QueueOfOne
<1>4. /\ jobs' \in [S!Actors -> Seq(JobRecs)] /\ jobs'[S!Settling] = <<j>>
      /\ \A a \in S!Actors : a # S!Settling => jobs'[a] = <<>>
  <2>1. S!Settling \in S!Actors
    BY SmolNames
  <2> QED
    BY <2>1, <1>1, <1>3
<1>5. lock' \in [S!Bases -> S!Actors \cup {S!None}] /\ \A b \in S!Bases : lock'[b] = S!None
  BY <1>1
<1>6. made \in [S!Natives \cup {S!Copy} -> MadeStates]
  BY DEF SmolInv, SmolTypes
<1>7. /\ made' \in [S!Natives \cup {S!Copy} -> MadeStates]
      /\ \A m \in S!Natives \cup {S!Copy} : made'[m] = IF made[m] = "making" THEN "broken" ELSE made[m]
  BY <1>1, <1>6 DEF MadeStates
<1>8. /\ Branches' /\ \A k \in VmNames : S!Present(k)' <=> S!Present(k)
  BY VmsDie
<1>9. /\ host' \in [boot : Nat, version : Nat, unclean : BOOLEAN] /\ host'.boot = turn /\ host'.version = version
  BY <1>1
<1>10. SmolTypes'
  <2>1. stored' \in Nat
    BY DEF SmolInv, SmolTypes
  <2> QED
    BY <2>1, <1>4, <1>5, <1>7, <1>9 DEF SmolTypes
<1>11. \A a \in S!Actors : QueueFits(a)'
  <2> SUFFICES ASSUME NEW a \in S!Actors PROVE QueueFits(a)'
    OBVIOUS
  <2>1. CASE a = S!Settling
    <3>1. "settle" \in Does4(S!Settling)
      BY SmolNames DEF Does4
    <3>2. /\ jobs'[a] = <<j>> /\ Queued(jobs'[a]) = {j} /\ Head(jobs'[a]) = j /\ Tail(jobs'[a]) = <<>>
      BY <2>1, <1>3, <1>4
    <3>3. \A i \in Queued(jobs'[a]) : i.do \in Does4(a) /\ i.do = "settle"
      BY <3>1, <3>2, <2>1, <1>2
    <3>4. Does4(a)' = Does4(a)
      BY DEF Does4
    <3> QED
      BY <3>2, <3>3, <3>4, <1>3 DEF QueueFits
  <2>2. CASE a # S!Settling
    BY <2>2, <1>3, <1>4 DEF QueueFits, Does
  <2> QED
    BY <2>1, <2>2
<1>12. \A a \in S!Actors : jobs'[a] # <<>> => a = S!Settling /\ Head(jobs'[a]) = j
  BY <1>3, <1>4
<1>13. LockIsHeld'
  <2>1. \A b \in S!Bases, a \in S!Actors : lock'[b] # a
    BY <1>5, SmolNames
  <2>2. ~ Locks(j)
    BY <1>2 DEF Locks
  <2> QED
    BY <2>1, <2>2, <1>12 DEF LockIsHeld
<1>14. \A a \in S!Actors, do \in {"park", "discard", "restore", "delete", "retire"} : ~ Does(a, do)'
  BY <1>2, <1>12 DEF Does
<1>15. CopyIsKept'
  <2>1. CopyIsKept /\ S!Copy \in S!Actors
    BY SmolNames DEF SmolInv
  <2>2. made'[S!Copy] = made[S!Copy]
    BY <2>1, <1>7 DEF CopyIsKept
  <2>3. \A m \in S!Natives : m \in S!Actors
    BY SmolNames
  <2> QED
    BY <2>1, <2>2, <2>3, <1>14 DEF CopyIsKept
<1>16. \A m \in S!Natives : MachineFits(m)'
  <2> SUFFICES ASSUME NEW m \in S!Natives PROVE MachineFits(m)'
    OBVIOUS
  <2>1. MachineFits(m) /\ m \in VmNames /\ m \in S!Actors /\ m # S!Settling
    BY SmolNames DEF SmolInv
  <2>2. jobs'[m] = <<>> /\ (made'[m] = "none" => made[m] = "none") /\ (made'[m] = "failed" => made[m] = "failed")
    BY <2>1, <1>4, <1>7
  <2> QED
    BY <2>1, <2>2, <1>8, <1>14 DEF MachineFits
<1>17. BasesCovered' /\ FreezersCovered'
  <2>1. SettleDue'
    BY <1>2, <1>3, <1>4 DEF SettleDue, Does
  <2> QED
    BY <2>1 DEF BasesCovered, FreezersCovered, BaseMayStay, FreezerMayStay
<1>18. Cleared'
  BY <1>14 DEF Cleared, Is
<1> QED
  BY <1>8, <1>10, <1>11, <1>13, <1>15, <1>16, <1>17, <1>18 DEF SmolInv

LEMMA RestartHolds ==
  ASSUME SmolInv, NEW version \in S!Versions, S!Restart(version)
  PROVE  SmolInv'
<1>1. version \in Nat /\ version # 0
  BY DEF S!Versions
<1>2. host.boot \in Nat /\ host.boot > 0 /\ rec \in [VmNames -> VmRecs]
  BY DEF SmolInv, SmolTypes
<1>3. S!Started(host.boot, version) /\ S!Fault /\ UNCHANGED <<rec, stored>>
  BY DEF S!Restart
<1> QED
  BY <1>1, <1>2, <1>3, FaultsStay, StartedHolds

LEMMA RebootHolds ==
  ASSUME SmolInv, S!Reboot
  PROVE  SmolInv'
<1>1. /\ host.boot \in Nat /\ host.boot > 0 /\ host.version \in Nat /\ host.version # 0 /\ rec \in [VmNames -> VmRecs]
  BY DEF SmolInv, SmolTypes
<1>2. S!Started(host.boot + 1, host.version) /\ S!Fault /\ UNCHANGED stored
  BY DEF S!Reboot
<1>3. rec' = [n \in VmNames |-> IF rec[n].state \in S!Alive THEN [rec[n] EXCEPT !.state = "stopped"] ELSE rec[n]]
  BY <1>1 DEF S!Reboot
<1>4. \A n \in VmNames : /\ [rec[n] EXCEPT !.state = "stopped"] \in VmRecs
                         /\ [rec[n] EXCEPT !.state = "stopped"].parent = rec[n].parent
                         /\ [rec[n] EXCEPT !.state = "stopped"].state = "stopped"
  BY <1>1 DEF VmRecs, VmStates
<1>5. rec' \in [VmNames -> VmRecs]
  BY <1>1, <1>3, <1>4
<1>6. \A k \in VmNames : rec'[k].parent = rec[k].parent /\ (rec'[k].state = "missing" <=> rec[k].state = "missing")
  BY <1>3, <1>4 DEF S!Alive
<1>7. host.boot + 1 \in Nat /\ host.boot + 1 > 0
  BY <1>1
<1> QED
  BY <1>1, <1>2, <1>5, <1>6, <1>7, FaultsStay, StartedHolds

LEMMA SmolBegins ==
  ASSUME S!SmolvmInit
  PROVE  SmolInv
<1>1. /\ rec = [n \in VmNames |-> S!Missing] /\ stored = 0 /\ host = [boot |-> 1, version |-> 1, unclean |-> FALSE]
      /\ jobs = [a \in S!Actors |-> <<>>] /\ lock = [b \in S!Bases |-> S!None]
      /\ made = [m \in S!Natives \cup {S!Copy} |-> "none"] /\ faults = MaxFaults
  BY DEF S!SmolvmInit, VmNames
<1>2. MaxFaults \in Nat
  BY BuildsAssumption
<1>3. /\ host \in [boot : Nat, version : Nat, unclean : BOOLEAN] /\ host.boot = 1 /\ host.version = 1
  BY <1>1
<1>4. <<>> \in Seq(JobRecs) /\ Queued(<<>>) = {}
  BY DEF Queued
<1>5. jobs \in [S!Actors -> Seq(JobRecs)] /\ \A a \in S!Actors : jobs[a] = <<>>
  BY <1>1, <1>4
<1>6. rec \in [VmNames -> VmRecs] /\ \A n \in VmNames : rec[n] = S!Missing
  BY <1>1, MissingIs
<1>7. made \in [S!Natives \cup {S!Copy} -> MadeStates] /\ \A m \in S!Natives \cup {S!Copy} : made[m] = "none"
  BY <1>1 DEF MadeStates
<1>8. SmolTypes
  BY <1>1, <1>2, <1>3, <1>5, <1>6, <1>7 DEF SmolTypes
<1>9. \A n \in VmNames : ~ S!Present(n) /\ rec[n].parent = S!None
  BY <1>6, MissingIs DEF S!Present
<1>10. \A b \in S!Bases : b \in VmNames /\ S!FreezerOf(b) \in VmNames
  BY SmolNames
<1>11. Branches
  BY <1>9, <1>10 DEF Branches
<1>12. \A a \in S!Actors : QueueFits(a)
  BY <1>4, <1>5 DEF QueueFits, Does
<1>13. LockIsHeld
  BY <1>1, <1>5, SmolNames DEF LockIsHeld
<1>14. CopyIsKept
  BY <1>1, <1>5, <1>7, SmolNames DEF CopyIsKept, Does
<1>15. \A m \in S!Natives : MachineFits(m)
  BY <1>5, <1>7, <1>9, SmolNames DEF MachineFits, Does
<1>16. BasesCovered /\ FreezersCovered
  BY <1>9, <1>10 DEF BasesCovered, FreezersCovered
<1>17. Cleared
  BY <1>5 DEF Cleared, Is, Does
<1> QED
  BY <1>8, <1>11, <1>12, <1>13, <1>14, <1>15, <1>16, <1>17 DEF SmolInv

LEMMA SmolStaysInv ==
  ASSUME SmolInv, UNCHANGED smolvmVars
  PROVE  SmolInv'
<1>1. UNCHANGED <<rec, stored, host, jobs, lock, made, faults>>
  BY DEF smolvmVars
<1>2. UNCHANGED S!BaseOf /\ (S!CapturedHere' <=> S!CapturedHere) /\ (\A b : S!Wanted(b)' <=> S!Wanted(b))
  BY <1>1 DEF S!BaseOf, S!CapturedHere, S!Wanted
<1>3. SmolTypes' /\ LockIsHeld' /\ CopyIsKept'
  BY <1>1, <1>2 DEF SmolInv, SmolTypes, LockIsHeld, CopyIsKept, Does
<1>4. (\A a \in S!Actors : QueueFits(a)') /\ \A m \in S!Natives : MachineFits(m)'
  BY <1>1, <1>2, StillVms DEF SmolInv, QueueFits, MachineFits, Does
<1>5. Cleared'
  BY <1>1, StillVms DEF SmolInv, Cleared, Is, Does
<1>6. /\ SettleDue' <=> SettleDue
      /\ ParkDue' <=> ParkDue
      /\ \A b : /\ RetireDue(b)' <=> RetireDue(b)
                /\ ClearDue(b)' <=> ClearDue(b)
                /\ DiscardDue(b)' <=> DiscardDue(b)
                /\ Thaws(b)' <=> Thaws(b)
  BY <1>1, <1>2 DEF SettleDue, ParkDue, RetireDue, ClearDue, DiscardDue, Thaws, Does, Is
<1>7. BasesCovered' /\ FreezersCovered'
  BY <1>1, <1>2, <1>6, StillVms DEF SmolInv, BasesCovered, FreezersCovered, BaseMayStay, FreezerMayStay
<1> QED
  BY <1>3, <1>4, <1>5, <1>7, <1>1, StillVms DEF SmolInv

LEMMA SmolStepsOn ==
  ASSUME SmolInv, S!SmolvmNext
  PROVE  SmolInv'
<1>1. ASSUME NEW a \in {S!Copy, S!Settling, S!Parks}, S!Parking(a) PROVE SmolInv'
  BY <1>1, SmolNames, ParkingHolds
<1>2. ASSUME NEW a \in S!Natives \cup {S!Settling}, S!Retiring(a) PROVE SmolInv'
  BY <1>2, SmolNames, RetiringHolds
<1>3. CASE S!SettleLists \/ S!SettleParks
  BY <1>3, SettleListsHolds, SettleParksHolds
<1>4. CASE S!Discard \/ S!DiscardTakes \/ S!DiscardUnstores \/ S!DiscardRetires
  BY <1>4, DiscardHolds, DiscardTakesHolds, DiscardUnstoresHolds, DiscardRetiresHolds
<1>5. ASSUME NEW m \in S!Natives, S!Restores(m) \/ S!Delete(m) \/ S!DeleteRemoves(m) PROVE SmolInv'
  BY <1>5, RestoreHolds, RestoringHolds, RestoreEndsHolds, DeleteHolds, DeleteRemovesHolds DEF S!Restores
<1>6. ASSUME NEW a \in S!Actors, S!CommandFails(a) PROVE SmolInv'
  BY <1>6, CommandFailsHolds
<1>7. ASSUME NEW n \in DOMAIN rec, S!Dies(n) PROVE SmolInv'
  BY <1>7, DiesHolds
<1>8. ASSUME NEW v \in S!Versions, S!Fetch(v) \/ S!Restart(v) PROVE SmolInv'
  BY <1>8, FetchHolds, RestartHolds
<1>9. CASE S!Reboot
  BY <1>9, RebootHolds
<1> QED
  BY <1>1, <1>2, <1>3, <1>4, <1>5, <1>6, <1>7, <1>8, <1>9 DEF S!SmolvmNext

\* With nothing queued, what is left is a base that is wanted or kept.
LEMMA QuietIsClean ==
  ASSUME SmolInv
  PROVE  BasesGo
<1> SUFFICES ASSUME S!Quiet, ~ host.unclean, NEW n \in S!Bases \cup S!Freezers, S!Present(n)
             PROVE  n \in S!Bases /\ (S!Wanted(n) \/ S!Pinned(n))
  BY DEF BasesGo, S!BasesGo
<1>1. \A a \in S!Actors : jobs[a] = <<>> /\ Queued(jobs[a]) = {}
  BY DEF S!Quiet, Queued
<1>2. /\ ~ SettleDue /\ ~ ParkDue
      /\ \A b : ~ RetireDue(b) /\ ~ ClearDue(b) /\ ~ DiscardDue(b) /\ ~ Thaws(b)
  BY <1>1, SmolNames DEF SettleDue, ParkDue, RetireDue, ClearDue, DiscardDue, Thaws, Does, Is
<1>3. \A b \in S!Bases : ~ S!Present(S!FreezerOf(b))
  BY <1>2 DEF SmolInv, FreezersCovered, FreezerMayStay
<1>4. n \in S!Bases
  BY <1>3, SmolNames
<1>5. S!Wanted(n) \/ Kept(n)
  BY <1>2, <1>4 DEF SmolInv, BasesCovered, BaseMayStay
<1>6. Kept(n) => S!Pinned(n)
  <2> SUFFICES ASSUME Kept(n) PROVE S!Pinned(n)
    OBVIOUS
  <2>1. PICK m \in S!Natives : rec[m].parent = n
    BY DEF Kept
  <2>2. m \in VmNames /\ n # S!None
    BY <1>4, SmolNames
  <2>3. S!Present(m) /\ DOMAIN rec = VmNames
    BY <2>1, <2>2 DEF SmolInv, SmolTypes, Branches, S!Present
  <2> QED
    BY <2>1, <2>2, <2>3 DEF S!Pinned
<1> QED
  BY <1>4, <1>5, <1>6

LEMMA SmolIsSpecified ==
  /\ PartsInit => SmolInv
  /\ SmolInv /\ [PartsNext]_allVars => SmolInv'
<1>1. PartsInit => SmolInv
  BY SmolBegins DEF PartsInit
<1>2. SmolInv /\ [PartsNext]_allVars => SmolInv'
  <2> SUFFICES ASSUME SmolInv, [PartsNext]_allVars PROVE SmolInv'
    OBVIOUS
  <2>1. CASE S!SmolvmNext
    BY <2>1, SmolStepsOn
  <2>2. CASE UNCHANGED smolvmVars
    BY <2>2, SmolStaysInv
  <2> QED
    BY <2>1, <2>2 DEF PartsNext, allVars, smolvmVars
<1> QED
  BY <1>1, <1>2

\* Of Smolvm (apps/host/src/platform/smolvm.ts, parking and retiring): in any order of parks,
\* restores, deletes and starts, with any number of machines and of faults, once nothing runs no
\* freezer is left, and a base left is wanted or keeps a branch, unless, since the host's process
\* started, a command failed outside a restore or a delete of the build's copy met a freezer.
THEOREM BasesDoGo == PartsSpec => []BasesGo
<1>1. SmolInv => BasesGo
  BY QuietIsClean
<1> QED
  BY <1>1, SmolIsSpecified, PTL DEF PartsSpec, allVars

\* Of Smolvm (`restore`): whatever becomes of the base a restore looked at, and of the part a branch
\* left, no restore fails whose own commands don't.
THEOREM RestoresWork == PartsSpec => []RestoreWorks
<1>1. SmolInv => RestoreWorks
  BY DEF SmolInv, MachineFits, RestoreWorks, S!RestoreWorks
<1> QED
  BY <1>1, SmolIsSpecified, PTL DEF PartsSpec, allVars
================================================================================
