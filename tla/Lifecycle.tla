------------------------------ MODULE Lifecycle ------------------------------
(***************************************************************************)
(* What a scenario's runner promises to whoever drives it: the figures     *)
(* grow in RUNNING and while a Stop drains, and at no other time; DONE is  *)
(* entered with every outcome counted, and announced once; a parked run    *)
(* can be continued with its figures kept or be reset.  Workers, buffers,  *)
(* goroutines and locks do not appear.                                     *)
(***************************************************************************)
EXTENDS Integers

VARIABLES
  phase,    \* the lifecycle state; STOPPING is STOPPED before Stop has returned
  pending,  \* requests and failed steps whose outcome is not counted yet
  counted,  \* outcomes in the figures
  owed      \* completed runs whose end is not announced yet

lifeVars == <<phase, pending, counted, owed>>

\* SCRIPT_ERROR: the scenario was refused when it was read; only Reset leads on.
Init == phase \in {"IDLE", "SCRIPT_ERROR"} /\ pending = 0 /\ counted = 0 /\ owed = 0

Launch ==
  /\ phase \in {"IDLE", "STOPPED"}
  /\ phase' = "RUNNING"
  /\ UNCHANGED <<pending, counted, owed>>

Request ==
  /\ phase \in {"RUNNING", "STOPPING"}
  /\ pending' = pending + 1
  /\ UNCHANGED <<phase, counted, owed>>

Outcome ==
  /\ pending > 0
  /\ pending' = pending - 1
  /\ counted' = counted + 1
  /\ UNCHANGED <<phase, owed>>

\* A failed step whose outcome finds the buffer full.
Lost ==
  /\ phase \in {"RUNNING", "STOPPING"}
  /\ counted' = counted + 1
  /\ UNCHANGED <<phase, pending, owed>>

Stop ==
  /\ phase = "RUNNING"
  /\ phase' = "STOPPING"
  /\ UNCHANGED <<pending, counted, owed>>

Park ==
  /\ phase = "STOPPING"
  /\ pending = 0
  /\ phase' = "STOPPED"
  /\ UNCHANGED <<pending, counted, owed>>

Complete ==
  /\ phase = "RUNNING"
  /\ pending = 0
  /\ phase' = "DONE"
  /\ owed' = owed + 1
  /\ UNCHANGED <<pending, counted>>

Announce ==
  /\ owed > 0
  /\ owed' = owed - 1
  /\ UNCHANGED <<phase, pending, counted>>

Reset ==
  /\ phase \in {"IDLE", "STOPPED", "DONE", "SCRIPT_ERROR"}
  /\ pending = 0
  /\ phase' = "IDLE"
  /\ counted' = 0
  /\ UNCHANGED <<pending, owed>>

Next ==
  \/ Launch \/ Request \/ Outcome \/ Lost \/ Stop \/ Park \/ Complete \/ Announce
  \/ Reset

Spec == Init /\ [][Next]_lifeVars
=============================================================================
