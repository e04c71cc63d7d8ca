----------------------------- MODULE GlContract -----------------------------
(***************************************************************************)
(* What GlApp promises to main.cpp: an object that is created, whose run() *)
(* is started once on a thread of its own, that is asked to resume, pause  *)
(* or close, whose run() may end at any time and does end once close was   *)
(* requested, and that is freed only when run() is over.  GlLoop           *)
(* implements it; FireboltApp is built from its actions.                   *)
(***************************************************************************)
VARIABLES
  mode,   \* the last mode requested: target_lifecycle_state
  phase   \* "null" (no GlApp), "ready" (created), "running", "exited"

vars == <<mode, phase>>

Modes  == {"Bootstrapping", "Paused", "Active", "Closing"}
Phases == {"null", "ready", "running", "exited"}

TypeOK == mode \in Modes /\ phase \in Phases

Init == mode = "Bootstrapping" /\ phase \in {"null", "running"}

Create  == /\ phase = "null"
           /\ phase' = "ready" /\ mode' = "Bootstrapping"

Start   == phase = "ready" /\ phase' = "running" /\ UNCHANGED mode

Request(m) == phase # "null" /\ mode' = m /\ UNCHANGED phase

Exit    == phase = "running" /\ phase' = "exited" /\ UNCHANGED mode

Free    == /\ mode = "Closing" /\ phase \in {"ready", "exited"}
           /\ phase' = "null" /\ UNCHANGED mode

Next == \/ Create \/ Start \/ Exit \/ Free
        \/ \E m \in Modes \ {"Bootstrapping"} : mode # "Closing" /\ Request(m)

Fairness == WF_vars(mode = "Closing" /\ Exit) /\ WF_vars(mode = "Closing" /\ Free)

Safety == Init /\ [][Next]_vars

Spec == Safety /\ Fairness
=============================================================================
