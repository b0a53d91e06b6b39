-------------------------------- MODULE Lifecycle --------------------------------
(***************************************************************************)
(* What the control plane promises of one machine name, abstracted from    *)
(* rows, operations, hosts and calls: the stage the name is in, and        *)
(* whether any host has a body of it, a VM or work that could make one.    *)
(* MachineLife implements it under the mapping Stage, Body.                *)
(***************************************************************************)

VARIABLES
  stage,  \* "absent", "coming", "here", "leaving" or "failed"
  body    \* whether any host has something of it

vars == <<stage, body>>

Init == stage = "absent" /\ body = FALSE

\* A name is given only when nothing of its last bearer is left anywhere.
Create == /\ stage \in {"absent", "failed"} /\ ~body
          /\ stage' = "coming" /\ UNCHANGED body

\* A create succeeds, or fails once what it began is gone again.
Arrive == stage = "coming" /\ stage' = "here" /\ UNCHANGED body

Fail == stage = "coming" /\ ~body /\ stage' = "failed" /\ UNCHANGED body

\* A delete holds from any stage, and there is no way back from it.
Leave == stage \in {"coming", "here"} /\ stage' = "leaving" /\ UNCHANGED body

\* The name is free once a delete removed the body, or a failed create is dropped.
Free == /\ stage \in {"leaving", "failed"} /\ ~body
        /\ stage' = "absent" /\ UNCHANGED body

\* Hosts work on a body only while its name is in use.
Change == /\ stage \in {"coming", "here", "leaving"}
          /\ body' \in BOOLEAN /\ UNCHANGED stage

Next == Create \/ Arrive \/ Fail \/ Leave \/ Free \/ Change

Spec == Init /\ [][Next]_vars
================================================================================
