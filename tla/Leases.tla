--------------------------------- MODULE Leases ---------------------------------
(***************************************************************************)
(* What the leases of operations promise: a reader-writer lock over names, *)
(* whose takers take all they want at once or nothing.  A name is held by  *)
(* one that owns it, or by any number that share it.  `held` is a set of   *)
(* [by, on, mode].                                                         *)
(***************************************************************************)
CONSTANTS Taker, Name

VARIABLE held

Lease == [by : Taker, on : Name, mode : {"share", "own"}]

Conflicting(l, m) == l.on = m.on /\ l.by # m.by /\ "own" \in {l.mode, m.mode}

\* No owner beside another holder of what it owns.
Exclusive == \A l, m \in held : ~Conflicting(l, m)

Init == held = {}

Take(by) ==
  /\ \A l \in held : l.by # by
  /\ \E wanted \in SUBSET {l \in Lease : l.by = by} :
       /\ \A l \in wanted, m \in held : ~Conflicting(l, m)
       /\ held' = held \cup wanted

Drop(by) == held' = {l \in held : l.by # by}

Next == \E by \in Taker : Take(by) \/ Drop(by)

Spec == Init /\ [][Next]_held
================================================================================
