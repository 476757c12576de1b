---------------------------- MODULE GracefulStop ----------------------------
(***************************************************************************)
(* What ListenAndServe promises about stopping (server.go, its comment and *)
(* the error it returns), with no signals, channels, listeners or drains:  *)
(* a service that was asked to stop stops; it may report a clean stop only *)
(* when no request is left running, and nothing runs after a clean stop.   *)
(***************************************************************************)
CONSTANT Requests

VARIABLES
  phase,      \* "serving", "stopping", "clean" or "failed"
  running     \* the requests being processed

vars == <<phase, running>>

TypeOK ==
  /\ phase \in {"serving", "stopping", "clean", "failed"}
  /\ running \subseteq Requests

Init == phase = "serving" /\ running = {}

\* Requests already on their way are still served while the service stops.
Arrive(r) ==
  /\ phase # "clean"
  /\ r \notin running
  /\ running' = running \cup {r}
  /\ UNCHANGED phase

Finish(r) ==
  /\ r \in running
  /\ running' = running \ {r}
  /\ UNCHANGED phase

AskToStop ==
  /\ phase = "serving"
  /\ phase' = "stopping"
  /\ UNCHANGED running

StopClean ==
  /\ phase = "stopping"
  /\ running = {}
  /\ phase' = "clean"
  /\ UNCHANGED running

\* An error is reported: the service broke, or it gave up on its requests.
StopFailed ==
  /\ phase \in {"serving", "stopping"}
  /\ phase' = "failed"
  /\ UNCHANGED running

Next ==
  \/ AskToStop \/ StopClean \/ StopFailed
  \/ \E r \in Requests : Arrive(r) \/ Finish(r)

Safety == Init /\ [][Next]_vars

\* A stop that was asked for comes to an end, whatever the requests do.
Spec == Safety /\ (phase = "stopping" ~> phase \in {"clean", "failed"})
=============================================================================
