------------------------------ MODULE StopOnce ------------------------------
(***************************************************************************)
(* What Close promises its callers, with no mention of contexts, channels  *)
(* or sync.Once: a background worker runs until somebody asks it to stop;  *)
(* any number of callers may ask, at any time and concurrently; a caller   *)
(* gets control back only once the worker has really stopped, and every    *)
(* caller does get it back.                                                *)
(***************************************************************************)
CONSTANT Callers    \* the goroutines that may call Close

VARIABLES
  running,          \* is the background worker still running?
  caller            \* progress of each caller: "idle", "waiting", "released"

vars == <<running, caller>>

TypeOK ==
  /\ running \in BOOLEAN
  /\ caller \in [Callers -> {"idle", "waiting", "released"}]

Init ==
  /\ running = TRUE
  /\ caller = [c \in Callers |-> "idle"]

Ask(c) ==
  /\ caller[c] = "idle"
  /\ caller' = [caller EXCEPT ![c] = "waiting"]
  /\ UNCHANGED running

\* The worker never stops on its own account: somebody must be asking.
Stop ==
  /\ running
  /\ \E c \in Callers : caller[c] = "waiting"
  /\ running' = FALSE
  /\ UNCHANGED caller

Release(c) ==
  /\ ~running
  /\ caller[c] = "waiting"
  /\ caller' = [caller EXCEPT ![c] = "released"]
  /\ UNCHANGED running

Next ==
  \/ Stop
  \/ \E c \in Callers : Ask(c) \/ Release(c)

\* What may happen, and what must.
Safety == Init /\ [][Next]_vars
Progress == WF_vars(Stop) /\ \A c \in Callers : WF_vars(Release(c))
=============================================================================
