---------------------------- MODULE RunLifecycle ----------------------------
(***************************************************************************)
(* What a run promises to the rest of the platform, with nothing said      *)
(* about leases, fences, jobs or processes.  A run is ready to be worked   *)
(* on, is worked on by one worker, waits for its user, or is over.  A      *)
(* worker that stopped reporting has expired, and only an expired worker   *)
(* may be replaced.  RunLease is shown to implement this.                  *)
(***************************************************************************)
CONSTANTS Workers, None

VARIABLES
  phase,    \* "ready", "working", "asking", "handover", or how it ended
  worker,   \* who works on it, None outside "working"
  expired   \* the worker's time is up

lifecycle == <<phase, worker, expired>>

Over == {"completed", "failed", "cancelled"}

Init == phase = "ready" /\ worker = None /\ expired = FALSE

Leave(next) == phase' = next /\ worker' = None /\ expired' = FALSE

\* A worker takes a run nobody works on.  It may take one that waits, too: a
\* message sent meanwhile wakes it.
Start(w) ==
  /\ phase \in {"ready", "asking", "handover"}
  /\ phase' = "working" /\ worker' = w /\ expired' = FALSE

Expire == phase = "working" /\ expired' = TRUE /\ UNCHANGED <<phase, worker>>

Renew == phase = "working" /\ expired' = FALSE /\ UNCHANGED <<phase, worker>>

Replace(w) == phase = "working" /\ expired /\ worker' = w /\ expired' = FALSE
                /\ UNCHANGED phase

\* The worker gives the run back, asks, hands the screen over, or ends it.
Yield ==
  /\ phase = "working"
  /\ \E next \in {"ready", "asking", "handover", "completed", "failed"} : Leave(next)

\* The user answers the question or gives the screen back.
Resume == phase \in {"asking", "handover"} /\ Leave("ready")

Cancel == phase \notin Over /\ Leave("cancelled")

Next ==
  \/ \E w \in Workers : Start(w) \/ Replace(w)
  \/ Expire \/ Renew \/ Yield \/ Resume \/ Cancel

Spec == Init /\ [][Next]_lifecycle
=============================================================================
