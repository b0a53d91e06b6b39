-------------------------------- MODULE Sandboxes -------------------------------
(***************************************************************************)
(* The sandbox agent's provider: sandboxes that are machines, each reached *)
(* through an ssh tunnel on a local port that is its URL                   *)
(* (packages/rivet-sandbox-agent/src/sandboxes.ts, tunnel.ts).  Calls come *)
(* at any time, those on one sandbox one after another; machines stop and  *)
(* boot again without it, tunnels die, other programs take ports.          *)
(*                                                                         *)
(* A machine is its state and the boot it runs.  What the control plane    *)
(* does for a start, a stop or a delete is one step here: Clients has the  *)
(* wait of a call.  A program that takes the very port between ssh's check *)
(* and its own bind is left out.                                           *)
(***************************************************************************)
EXTENDS Naturals, FiniteSets

CONSTANTS
  Boxes,       \* the sandboxes' IDs, their machines made
  UrlPorts,    \* local ports
  Users,       \* callers of the provider
  MaxUses,     \* bound: calls
  MaxMishaps   \* bound: stops and boots by others, tunnels that die, ports taken, failed calls

VARIABLES
  machine,     \* each machine: "running", "stopped" or "gone", and its boot
  known,       \* the provider's map: a sandbox's port, 0 for none, and the tunnel it holds
  sshs,        \* the ssh processes: whose, to which boot, on which port, listening or not
  foreign,     \* ports other programs listen on
  lock,        \* each sandbox's lock: who holds it, or "free"
  doing,       \* each caller's call
  ensured,     \* sandboxes whose last call was an ensureServer that returned
  calm,        \* sandboxes that nothing happened to since an ensureServer started or checked them
  uses, mishaps

boxVars == <<machine, known, sshs, foreign, lock, doing, ensured, calm, uses, mishaps>>

NoTunnel == [boot |-> 0, port |-> 0]
Free == [at |-> "free"]

Kinds == {"url", "ensure", "reconnect", "pause", "destroy", "close"}

\* Where a call of each kind begins.
FirstOf(kind) ==
  CASE kind \in {"url", "ensure"} -> "open"
    [] kind = "reconnect" -> "starting"
    [] OTHER -> "closing"

ProcessOf(i, boot, port, listens) == [id |-> i, boot |-> boot, port |-> port, listens |-> listens]

\* The ssh processes of a held tunnel; `running` of it is whether there is one.
Processes(i) ==
  {s \in sshs: s.id = i /\ s.boot = known[i].tunnel.boot /\ s.port = known[i].tunnel.port}

Listened == foreign \cup {s.port: s \in {t \in sshs: t.listens}}

--------------------------------------------------------------------------------
(* Calls and their lock. *)

On(u, at) == doing[u].at = at
Steps(u, at) == doing' = [doing EXCEPT ![u].at = at]

\* `locked`: a call begins once its sandbox's lock is free; one that waits has done nothing.
Calls(u, i, kind) ==
  /\ doing[u] = Free /\ lock[i] = "free" /\ uses > 0
  /\ uses' = uses - 1
  /\ lock' = [lock EXCEPT ![i] = u]
  /\ doing' = [doing EXCEPT ![u] = [at |-> FirstOf(kind), id |-> i, kind |-> kind,
                                    again |-> FALSE, boot |-> 0]]
  /\ ensured' = ensured \ {i} /\ calm' = calm \ {i}
  /\ UNCHANGED <<machine, known, sshs, foreign, mishaps>>

\* A call answers, or fails: its lock is let go.
Returns(u) ==
  /\ doing' = [doing EXCEPT ![u] = Free]
  /\ lock' = [lock EXCEPT ![doing[u].id] = "free"]

\* What a failure of `opened` comes to: an ensureServer that has not started the machine yet goes
\* on to do so, unless the failure is this computer's own.
Fails(u, local) ==
  IF doing[u].kind = "ensure" /\ ~doing[u].again /\ ~local
    THEN Steps(u, "starting") /\ UNCHANGED lock
    ELSE Returns(u)

\* `closed`: the tunnel is let go and its process has exited.
Closes(i) ==
  /\ known' = [known EXCEPT ![i].tunnel = NoTunnel]
  /\ sshs' = sshs \ Processes(i)

--------------------------------------------------------------------------------
(* `opened`. *)

OpenLooks(u) ==
  /\ On(u, "open")
  /\ LET i == doing[u].id IN
       IF Processes(i) # {}
         THEN Steps(u, "opened") /\ UNCHANGED <<known, sshs>>
         ELSE Steps(u, "reading") /\ Closes(i)
  /\ UNCHANGED <<machine, foreign, lock, ensured, calm, uses, mishaps>>

\* The machine is read; only a running one has an endpoint.
OpenReads(u) ==
  /\ On(u, "reading")
  /\ LET i == doing[u].id IN
       IF machine[i].state = "running"
         THEN doing' = [doing EXCEPT ![u].at = "picking", ![u].boot = machine[i].boot] /\ UNCHANGED lock
         ELSE Fails(u, FALSE)
  /\ UNCHANGED <<machine, known, sshs, foreign, ensured, calm, uses, mishaps>>

\* Mutant of Takable: a port another sandbox's URL names may be taken.
TakableByAny(i) == UrlPorts \ Listened

\* `freePort`, repeated while it gives a port that is another sandbox's.
Takable(i) == UrlPorts \ (Listened \cup {known[j].port: j \in Boxes \ {i}})

\* `urlPortOf`: a sandbox keeps its port, so that its URL stays.
OpenPicks(u) ==
  /\ On(u, "picking")
  /\ LET i == doing[u].id IN
       \E p \in IF known[i].port # 0 THEN {known[i].port} ELSE Takable(i):
         known' = [known EXCEPT ![i].port = p]
  /\ Steps(u, "spawning")
  /\ UNCHANGED <<machine, sshs, foreign, lock, ensured, calm, uses, mishaps>>

OpenSpawns(u) ==
  /\ On(u, "spawning")
  /\ LET i == doing[u].id IN
       IF known[i].port \in Listened
         THEN Fails(u, TRUE) /\ UNCHANGED sshs
         ELSE /\ sshs' = sshs \cup {ProcessOf(i, doing[u].boot, known[i].port, FALSE)}
              /\ Steps(u, "listening") /\ UNCHANGED lock
  /\ UNCHANGED <<machine, known, foreign, ensured, calm, uses, mishaps>>

\* ssh logs in and binds the port; one that can do neither exits.
SshListens(s) ==
  /\ s \in sshs /\ ~s.listens
  /\ sshs' = (sshs \ {s}) \cup
             IF machine[s.id] = [state |-> "running", boot |-> s.boot] /\ s.port \notin Listened
               THEN {[s EXCEPT !.listens = TRUE]} ELSE {}
  /\ UNCHANGED <<machine, known, foreign, lock, doing, ensured, calm, uses, mishaps>>

\* The race of `open`: something listens on the port, or its ssh ended.
OpenListens(u) ==
  /\ On(u, "listening")
  /\ LET i == doing[u].id
         p == known[i].port IN
       \/ /\ p \in Listened
          /\ known' = [known EXCEPT ![i].tunnel = [boot |-> doing[u].boot, port |-> p]]
          /\ Steps(u, "opened") /\ UNCHANGED lock
       \/ /\ ~\E s \in sshs: s.id = i /\ s.boot = doing[u].boot
          /\ Fails(u, FALSE) /\ UNCHANGED known
  /\ UNCHANGED <<machine, sshs, foreign, ensured, calm, uses, mishaps>>

\* `opened`, step by step: what it answers is that the sandbox holds a tunnel that listened.
Opens(u) == OpenLooks(u) \/ OpenReads(u) \/ OpenPicks(u) \/ OpenSpawns(u) \/ OpenListens(u)

--------------------------------------------------------------------------------
(* The rest of each call. *)

UrlAnswers(u) ==
  /\ On(u, "opened") /\ doing[u].kind = "url"
  /\ Returns(u)
  /\ UNCHANGED <<machine, known, sshs, foreign, ensured, calm, uses, mishaps>>

\* The agent answers through the tunnel.
Healthy(i) ==
  \E s \in Processes(i): s.listens /\ machine[i] = [state |-> "running", boot |-> s.boot]

\* `ensureServer`: answered by a healthy agent, or by the tunnel opened after its start.
EnsureAnswers(u) ==
  /\ On(u, "opened") /\ doing[u].kind = "ensure"
  /\ doing[u].again \/ Healthy(doing[u].id)
  /\ ensured' = ensured \cup {doing[u].id}
  /\ calm' = IF doing[u].again THEN calm ELSE calm \cup {doing[u].id}
  /\ Returns(u)
  /\ UNCHANGED <<machine, known, sshs, foreign, uses, mishaps>>

\* The agent does not answer: its machine is another boot's, or it is slow.
EnsureUnhealthy(u) ==
  /\ On(u, "opened") /\ doing[u].kind = "ensure" /\ ~doing[u].again
  /\ Steps(u, "starting")
  /\ UNCHANGED <<machine, known, sshs, foreign, lock, ensured, calm, uses, mishaps>>

\* `startMachine`: one that is gone fails the call.
Starts(u) ==
  /\ On(u, "starting")
  /\ LET i == doing[u].id IN
       IF machine[i].state = "gone" THEN Returns(u) /\ UNCHANGED machine
       ELSE /\ machine' = [machine EXCEPT ![i].state = "running",
                             ![i].boot = @ + (IF machine[i].state = "running" THEN 0 ELSE 1)]
            /\ Steps(u, "closing") /\ UNCHANGED lock
  /\ calm' = calm \cup {doing[u].id}
  /\ UNCHANGED <<known, sshs, foreign, ensured, uses, mishaps>>

\* What follows a close: a start's opens again or returns, the others ask of the machine.
AfterClose(u) ==
  CASE doing[u].kind = "ensure" ->
         doing' = [doing EXCEPT ![u].at = "open", ![u].again = TRUE] /\ UNCHANGED lock
    [] doing[u].kind \in {"reconnect", "close"} -> Returns(u)
    [] OTHER -> Steps(u, "asking") /\ UNCHANGED lock

Shuts(u) ==
  /\ On(u, "closing")
  /\ Closes(doing[u].id)
  /\ AfterClose(u)
  /\ UNCHANGED <<machine, foreign, ensured, calm, uses, mishaps>>

\* `pause` stops the machine, `destroy` deletes it and forgets its port.
Asks(u) ==
  /\ On(u, "asking")
  /\ LET i == doing[u].id IN
       IF doing[u].kind = "destroy"
         THEN /\ machine' = [machine EXCEPT ![i].state = "gone"]
              /\ known' = [known EXCEPT ![i].port = 0]
         ELSE /\ machine' = [machine EXCEPT ![i].state = IF @ = "running" THEN "stopped" ELSE @]
              /\ UNCHANGED known
  /\ Returns(u)
  /\ UNCHANGED <<sshs, foreign, ensured, calm, uses, mishaps>>

--------------------------------------------------------------------------------
(* The world. *)

Mishap == mishaps > 0 /\ mishaps' = mishaps - 1

\* The control plane does not answer a call, or refuses it.
AskFails(u) ==
  /\ doing[u].at \in {"reading", "starting", "asking"}
  /\ Mishap
  /\ IF On(u, "reading") THEN Fails(u, FALSE) ELSE Returns(u)
  /\ UNCHANGED <<machine, known, sshs, foreign, ensured, calm, uses>>

\* Someone else stops the machine, starts it, or deletes it.
Changes(i, state) ==
  /\ machine[i].state # "gone" /\ Mishap
  /\ machine' = [machine EXCEPT ![i].state = state,
                                ![i].boot = @ + (IF state = "running" THEN 1 ELSE 0)]
  /\ calm' = calm \ {i}
  /\ UNCHANGED <<known, sshs, foreign, lock, doing, ensured, uses>>

SshDies(s) ==
  /\ s \in sshs /\ Mishap
  /\ sshs' = sshs \ {s}
  /\ calm' = calm \ {s.id}
  /\ UNCHANGED <<machine, known, foreign, lock, doing, ensured, uses>>

PortTaken(p) ==
  /\ p \notin Listened /\ (\A s \in sshs: s.port # p) /\ Mishap
  /\ foreign' = foreign \cup {p}
  /\ UNCHANGED <<machine, known, sshs, lock, doing, ensured, calm, uses>>

BoxInit ==
  /\ machine = [i \in Boxes |-> [state |-> "running", boot |-> 1]]
  /\ known = [i \in Boxes |-> [port |-> 0, tunnel |-> NoTunnel]]
  /\ sshs = {} /\ foreign = {}
  /\ lock = [i \in Boxes |-> "free"]
  /\ doing = [u \in Users |-> Free]
  /\ ensured = {} /\ calm = {}
  /\ uses = MaxUses /\ mishaps = MaxMishaps

BoxNext ==
  \/ \E u \in Users:
       \/ \E i \in Boxes, kind \in Kinds: Calls(u, i, kind)
       \/ Opens(u)
       \/ UrlAnswers(u) \/ EnsureAnswers(u) \/ EnsureUnhealthy(u)
       \/ Starts(u) \/ Shuts(u) \/ Asks(u) \/ AskFails(u)
  \/ \E s \in sshs: SshListens(s) \/ SshDies(s)
  \/ \E i \in Boxes: \E state \in {"running", "stopped", "gone"}: Changes(i, state)
  \/ \E p \in UrlPorts: PortTaken(p)

BoxSpec == BoxInit /\ [][BoxNext]_boxVars

\* A sandbox's URL, once ensureServer returned, leads to its own machine's present boot: through a
\* tunnel that listens on the port the URL names, whatever other calls, machines and ports did
\* before, and for as long as nothing happened to the sandbox since it was started or checked.
UrlsLead ==
  \A i \in ensured \cap calm:
    \E s \in Processes(i):
      /\ s.listens /\ s.port = known[i].port
      /\ machine[i] = [state |-> "running", boot |-> s.boot]
================================================================================
