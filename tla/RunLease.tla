------------------------------- MODULE RunLease -------------------------------
(***************************************************************************)
(* One run of a bot, from the queue to its end: the row of the runs table, *)
(* the keyed background job that continues it, the executions of           *)
(* continueRun that race for the row, and the user who answers, takes the  *)
(* screen, gives it back, or stops the run or its computer.                *)
(*                                                                         *)
(* A slot is a place where a worker process can run one job; two slots of  *)
(* one process share the leaseOwner they write (the process id).  Every    *)
(* write to the row is one conditional UPDATE, so it is one step; between  *)
(* two steps of an execution anything else may happen.                     *)
(*                                                                         *)
(* Left out: attempts, tasks, messages and events, which are written in    *)
(* the same transactions as the status they report and guard nothing here; *)
(* the two takeover checkpoints ("takeover", "takeover-skipped") are one.  *)
(* Of the computer only its two leases are here, the bot's execution lease *)
(* (hold) and the user's control lease: whether it is on, suspended,       *)
(* reserved or used by other bots is the environment's choice.             *)
(***************************************************************************)
EXTENDS Naturals, FiniteSets

CONSTANTS
  Slots,      \* places where a job can run
  Workers,    \* lease owners
  WorkerOf,   \* the process each slot belongs to
  Computer,   \* "team" or "dedicated": the bot's computer mode
  Removable,  \* the bot may be archived, or taken out of its group, meanwhile
  None,
  MaxTurns,    \* bound on requeues and pauses
  MaxRequests, \* bound on takeovers under way at once
  MaxFaults    \* bound on crashes, lost heartbeats, failed database calls, and
               \* stops and rivals of the computer

ASSUME SlotsAssumption == WorkerOf \in [Slots -> Workers]
ASSUME NoneAssumption ==
  None \notin Workers /\ None \notin Slots /\ None \notin {"choice", "takeover"}
ASSUME ComputerAssumption == Computer \in {"team", "dedicated"}
ASSUME RemovableAssumption == Removable \in BOOLEAN
ASSUME BoundsAssumption == {MaxTurns, MaxRequests, MaxFaults} \subseteq Nat

VARIABLES
  row,      \* the run: status, leaseOwner, leaseFence, leaseExpiresAt, checkpoint
  exec,     \* per slot, the execution of continueRun in progress
  job,      \* a run.continue job with this run's key is pending
  ask,      \* the unanswered ask block: "none", "plain" or "choice"
  hold,     \* the bot's execution lease on its team computer, see Holds
  control,  \* the computer's control lease, see Controls
  pending,  \* requests that have read the computer and have still to write it
  promised, \* history: what the last pause for the screen relies on still stands
  listed,   \* the run is on a list of active runs about to be cancelled
  turns, faults

screenVars == <<control, pending, promised>>
computerVars == <<hold, screenVars>>
vars == <<row, exec, job, ask, computerVars, listed, turns, faults>>

Waiting == {"waiting_input", "waiting_takeover"}
Terminal == {"completed", "failed", "cancelled"}
ActiveStatuses == {"queued", "leased", "running"} \cup Waiting
Statuses == ActiveStatuses \cup Terminal
Checkpoints == {None, "choice", "takeover"}

Rows == [status : Statuses, owner : Workers \cup {None}, fence : Nat,
         lease : {"none", "live", "lapsed"}, checkpoint : Checkpoints]

\* held: the turn runs while the user has the screen, desktop tools gated.
\* seen and checkpoint: the status and checkpoint read before the claim; after
\* the claim, checkpoint is the takeover note the turn will be told.
Execs == [pc : {"idle", "read", "claimed", "started", "setup", "gated", "turn", "pausing"},
          fence : Nat, seen : ActiveStatuses \cup {None}, checkpoint : Checkpoints,
          held : BOOLEAN]

\* The execution lease of the bot: the run or the rival (another run of the bot,
\* or a boot by hand) its row names, the slot that renews it, and whether it is
\* still in force.  An expired lease stays as a row; none is ever made for a
\* dedicated computer.
Holds == [of : {"none", "run", "rival"}, by : Slots \cup {None}, live : BOOLEAN]

NoHold == [of |-> "none", by |-> None, live |-> FALSE]

\* Who has the screen: nobody, the user for this bot, with the lease in force or
\* run out, or for another bot ("foreign").  bound: the lease, or the request
\* for it, names this run (controlRunId).
Controls == [holder : {"none", "ours", "lapsed", "foreign"}, bound : BOOLEAN]

NoControl == [holder |-> "none", bound |-> FALSE]

\* A takeover that will bind the run or will not, one for a teaching session,
\* and a stop of the computer.
Requests == {"binding", "unbinding", "teaching", "stopping"}

Idle == [pc |-> "idle", fence |-> 0, seen |-> None, checkpoint |-> None, held |-> FALSE]

Spend(counter, max) == counter < max /\ counter' = counter + 1

-----------------------------------------------------------------------------
(* The conditions of the conditional updates.                              *)

takeoverCheckpointOf(c) == IF c = "takeover" THEN c ELSE None

Matches(s) == row.owner = WorkerOf[s] /\ row.fence = exec[s].fence

\* Mutants: the lease check of every later write without the status, and
\* without the owner.
AnyStatusFenced(s) == Matches(s)
FenceOnlyFenced(s) == row.status = "running" /\ row.fence = exec[s].fence

Fenced(s) == row.status = "running" /\ Matches(s)

Owns(s) == row.status \in {"leased", "running"} /\ Matches(s)

\* Mutant: a claim that does not wait for the lease to run out.
UnexpiredClaimable(s) ==
  /\ row.status = exec[s].seen /\ row.checkpoint = exec[s].checkpoint
  /\ row.status \in ActiveStatuses

Claimable(s) ==
  /\ row.status = exec[s].seen
  /\ row.checkpoint = exec[s].checkpoint
  /\ \/ row.status \in {"queued"} \cup Waiting
     \/ row.status \in {"leased", "running"} /\ row.lease = "lapsed"

Released(r) == [r EXCEPT !.owner = None, !.lease = "none"]

\* An execution that ends gives the computer up, unless its lease went before.
LetGo(s) == IF hold.by = s THEN [hold EXCEPT !.by = None, !.live = FALSE] ELSE hold

HasComputer(s) == Computer = "dedicated" \/ hold.by = s

-----------------------------------------------------------------------------
(* Jobs.                                                                   *)

\* An enqueue after a commit; the caller logs a failure and goes on.
EnqueueOrLose == job' \in {TRUE, job}

\* Mutant: only a completed run counts as over.
CompletedIsTerminal(status) == status = "completed"

isTerminal(status) == status \in Terminal

\* The job starts and reads the row.  A job of a run that is over does nothing.
StartJob(s) ==
  /\ job /\ exec[s].pc = "idle"
  /\ job' = FALSE
  /\ exec' = IF isTerminal(row.status) THEN exec
             ELSE [exec EXCEPT ![s] =
               [pc |-> "read", fence |-> row.fence + 1, seen |-> row.status,
                checkpoint |-> row.checkpoint,
                held |-> row.status = "waiting_takeover" /\ row.checkpoint # "takeover"]]
  /\ UNCHANGED <<row, ask, computerVars, turns, faults, listed>>

\* Mutant: only queued runs are restored.
ReconcileQueued ==
  /\ row.status = "queued" /\ ~job /\ job' = TRUE
  /\ UNCHANGED <<row, exec, ask, computerVars, turns, faults, listed>>

\* The reconciler restores the job of a queued run and of an abandoned one.
Reconcile ==
  /\ \/ row.status = "queued"
     \/ row.status \in {"leased", "running"} /\ row.lease = "lapsed"
  /\ ~job
  /\ job' = TRUE
  /\ UNCHANGED <<row, exec, ask, computerVars, turns, faults, listed>>

-----------------------------------------------------------------------------
(* continueRun up to the turn.                                             *)

Claim(s) ==
  /\ exec[s].pc = "read" /\ Claimable(s)
  /\ row' = [status |-> "leased", owner |-> WorkerOf[s], fence |-> exec[s].fence,
             lease |-> "live", checkpoint |-> None]
  /\ exec' = [exec EXCEPT ![s].pc = "claimed", ![s].seen = None,
                          ![s].checkpoint = takeoverCheckpointOf(@)]
  /\ UNCHANGED <<job, ask, computerVars, turns, faults, listed>>

LoseClaim(s) ==
  /\ exec[s].pc = "read" /\ ~Claimable(s)
  /\ exec' = [exec EXCEPT ![s] = Idle]
  /\ UNCHANGED <<row, job, ask, computerVars, turns, faults, listed>>

Begin(s) ==
  /\ exec[s].pc = "claimed" /\ row.status = "leased" /\ Matches(s)
  /\ row' = [row EXCEPT !.status = "running"]
  /\ exec' = [exec EXCEPT ![s].pc = "started"]
  /\ UNCHANGED <<job, ask, computerVars, turns, faults, listed>>

\* The row moved on since the claim.  If it is queued or waiting again the
\* transition assertion throws and the job is retried.
BeginLost(s) ==
  /\ exec[s].pc = "claimed" /\ ~(row.status = "leased" /\ Matches(s))
  /\ job' = IF row.status \in {"queued"} \cup Waiting THEN TRUE ELSE job
  /\ exec' = [exec EXCEPT ![s] = Idle]
  /\ UNCHANGED <<row, ask, computerVars, turns, faults, listed>>

\* The execution lease is free, or the run's own and kept for its resumption.
Acquirable(s) ==
  \/ ~hold.live
  \/ hold.of = "run" /\ (exec[s].held \/ exec[s].checkpoint = "takeover")

\* The computer is acquired (a dedicated one needs no lease): the attempt opens.
Attach(s) ==
  /\ exec[s].pc = "started"
  /\ exec' = [exec EXCEPT ![s].pc = "setup"]
  /\ IF Computer = "team"
     THEN Acquirable(s) /\ hold' = [of |-> "run", by |-> s, live |-> TRUE]
     ELSE UNCHANGED hold
  /\ UNCHANGED <<row, job, ask, screenVars, turns, faults, listed>>

\* Tools are chosen: a release that arrived since the claim ends the hold.
GateTools(s) ==
  /\ exec[s].pc = "setup"
  /\ LET released == exec[s].held /\ row.checkpoint = "takeover"
     IN  exec' = [exec EXCEPT ![s].pc = "gated",
                              ![s].held = @ /\ ~released,
                              ![s].checkpoint = IF released THEN "takeover" ELSE @]
  /\ UNCHANGED <<row, job, ask, computerVars, turns, faults, listed>>

EnterTurn(s) ==
  /\ exec[s].pc = "gated"
  /\ ~(exec[s].held /\ row.checkpoint = "takeover")
  /\ exec' = [exec EXCEPT ![s].pc = "turn"]
  /\ UNCHANGED <<row, job, ask, computerVars, turns, faults, listed>>

-----------------------------------------------------------------------------
(* Giving the run back: writeComputerRunRequeue and its callers.           *)

\* Mutant: a requeue that forgets a release stamped on the row meanwhile.
ForgetfulRequeued(note, held) ==
  [Released(row) EXCEPT !.status = IF held /\ note = None THEN "waiting_takeover" ELSE "queued",
                        !.checkpoint = note]

Requeued(note, held) ==
  IF row.checkpoint = "takeover"
  THEN [Released(row) EXCEPT !.status = "queued"]
  ELSE [Released(row) EXCEPT
          !.status = IF held /\ note = None THEN "waiting_takeover" ELSE "queued",
          !.checkpoint = note]

GiveBack(s, note, held) ==
  /\ IF Fenced(s)
     THEN row' = Requeued(note, held) /\ EnqueueOrLose
     ELSE UNCHANGED <<row, job>>
  /\ exec' = [exec EXCEPT ![s] = Idle]
  /\ hold' = LetGo(s)
  /\ UNCHANGED <<ask, screenVars>>

\* The computer is switching, busy, or its setup failed.
Requeue(s) ==
  /\ exec[s].pc \in {"started", "setup", "gated"}
  /\ GiveBack(s, exec[s].checkpoint, exec[s].held)
  /\ Spend(turns, MaxTurns) /\ UNCHANGED <<faults, listed>>

\* A held turn that finds the release restarts with its tools.  Before the
\* turn starts the row is read once more; during it, about once a second.
NoticeRelease(s) ==
  /\ exec[s].pc \in {"gated", "turn"} /\ exec[s].held /\ row.checkpoint = "takeover"
  /\ exec[s].pc = "turn" => Matches(s)
  /\ GiveBack(s, "takeover", FALSE)
  /\ UNCHANGED <<turns, faults, listed>>

-----------------------------------------------------------------------------
(* The turn.                                                               *)

Heartbeat(s) ==
  /\ exec[s].pc \in {"setup", "gated", "turn"} /\ Fenced(s)
  /\ row' = [row EXCEPT !.lease = "live"]
  /\ UNCHANGED <<exec, job, ask, computerVars, turns, faults, listed>>

\* A heartbeat or the once-a-second check finds the row, or the computer, gone:
\* the turn is aborted and leaves the row as it is.
NoticeLoss(s) ==
  /\ exec[s].pc = "turn" /\ ~(Fenced(s) /\ HasComputer(s))
  /\ exec' = [exec EXCEPT ![s] = Idle]
  /\ hold' = LetGo(s)
  /\ UNCHANGED <<row, job, ask, screenVars, turns, faults, listed>>

\* Every way a turn ends is an update under the lease; without it the
\* execution returns and leaves the row to its new owner.
EndTurn(s, next) ==
  /\ exec[s].pc = "turn"
  /\ exec' = [exec EXCEPT ![s] = Idle]
  /\ hold' = LetGo(s)
  /\ IF Fenced(s) THEN row' = next ELSE UNCHANGED row

PauseForInput(s, offersChoice) ==
  /\ EndTurn(s, [Released(row) EXCEPT !.status = "waiting_input",
                                      !.checkpoint = IF offersChoice THEN "choice" ELSE @])
  /\ ask' = IF Fenced(s) THEN (IF offersChoice THEN "choice" ELSE "plain") ELSE ask
  /\ Spend(turns, MaxTurns)
  /\ UNCHANGED <<job, screenVars, faults, listed>>

\* The computer is held for the run for a day before the run is paused; a lease
\* lost by then fails the turn (Finalize).
HoldComputer(s) ==
  /\ exec[s].pc = "turn" /\ HasComputer(s)
  /\ exec' = [exec EXCEPT ![s].pc = "pausing"]
  /\ Spend(turns, MaxTurns)
  /\ UNCHANGED <<row, job, ask, computerVars, faults, listed>>

\* Mutant: a user who already has the screen is not bound to the run.
UnboundControlAfterPause ==
  IF control.holder = "none" THEN {[holder |-> "none", bound |-> TRUE]} ELSE {control}

\* The bot's own user lease is kept and bound to the run, another bot's lease
\* is left alone; without a lease, or if it has run out, the run's request is.
ControlAfterPause ==
  LET request == [holder |-> "none", bound |-> TRUE]
  IN  CASE control.holder = "ours" -> {[control EXCEPT !.bound = TRUE]}
        [] control.holder = "foreign" -> {control, request}
        [] control.holder \in {"none", "lapsed"} -> {request}

\* The lease is kept for the run that waits, if it is still the execution's own.
KeptFor(s) == IF hold.by = s THEN [hold EXCEPT !.by = None] ELSE hold

\* From here on a release is promised to resume the run, unless a takeover that
\* was decided before the pause has yet to be written.
PauseForTakeover(s) ==
  /\ exec[s].pc = "pausing"
  /\ exec' = [exec EXCEPT ![s] = Idle]
  /\ IF Fenced(s)
     THEN /\ row' = [Released(row) EXCEPT !.status = "waiting_takeover", !.checkpoint = None]
          /\ control' \in ControlAfterPause
          /\ hold' = KeptFor(s)
          /\ promised' = (hold.by = s /\ pending \cap {"unbinding", "teaching"} = {})
     ELSE hold' = LetGo(s) /\ UNCHANGED <<row, control, promised>>
  /\ UNCHANGED <<job, ask, pending, turns, faults, listed>>

\* The transaction of the pause fails: the turn goes on to fail.
PauseFails(s) ==
  /\ exec[s].pc = "pausing"
  /\ exec' = [exec EXCEPT ![s].pc = "turn"]
  /\ Spend(faults, MaxFaults)
  /\ UNCHANGED <<row, job, ask, computerVars, turns, listed>>

\* The database fails while a failed turn is being recorded: the run goes
\* back as if its setup had failed.
FinalizeFails(s) ==
  /\ exec[s].pc = "turn"
  /\ GiveBack(s, exec[s].checkpoint, exec[s].held)
  /\ Spend(faults, MaxFaults) /\ UNCHANGED <<turns, listed>>

Finalize(s, outcome) ==
  /\ EndTurn(s, [Released(row) EXCEPT !.status = outcome])
  /\ UNCHANGED <<job, ask, screenVars, turns, faults, listed>>

-----------------------------------------------------------------------------
(* The user.                                                               *)

\* A choice clears the checkpoint that held the offered actions.
Answer ==
  /\ row.status = "waiting_input" /\ ask # "none"
  /\ row' = [row EXCEPT !.status = "queued",
                        !.checkpoint = IF ask = "choice" THEN None ELSE @]
  /\ ask' = "none"
  /\ EnqueueOrLose
  /\ UNCHANGED <<exec, computerVars, turns, faults, listed>>

\* A message sent while the run waits for the screen wakes it without ending
\* the wait; a message to a queued run refreshes its job.
Steer ==
  /\ row.status \in {"queued", "waiting_takeover"} /\ ~job
  /\ job' = TRUE
  /\ UNCHANGED <<row, exec, ask, computerVars, turns, faults, listed>>

\* Stop keeps the lease columns; clearing the conversation empties them and
\* deletes the ask.
Stop ==
  /\ row.status \in ActiveStatuses
  /\ row' = [row EXCEPT !.status = "cancelled"]
  /\ UNCHANGED <<exec, job, ask, computerVars, turns, faults, listed>>

Clear ==
  /\ row.status \in ActiveStatuses
  /\ row' = [Released(row) EXCEPT !.status = "cancelled"]
  /\ ask' = "none"
  /\ UNCHANGED <<exec, job, computerVars, turns, faults, listed>>

\* Archiving the bot lists its active runs first and cancels the listed ones
\* later, whatever has become of them.
ListForRemoval ==
  /\ Removable /\ ~listed /\ row.status \in ActiveStatuses
  /\ listed' = TRUE
  /\ UNCHANGED <<row, exec, job, ask, computerVars, turns, faults>>

CancelListed ==
  /\ Removable /\ listed
  /\ row' = [row EXCEPT !.status = "cancelled"]
  /\ listed' = FALSE
  /\ UNCHANGED <<exec, job, ask, computerVars, turns, faults>>

-----------------------------------------------------------------------------
(* The screen: the user's requests and the control lease.                  *)

Waits == hold.of = "run" /\ (row.status = "waiting_takeover" \/ control.bound)

\* The takeover of a screen nobody has reads the execution lease and the run it
\* names.  A lease in force, or of a run that works, blocks it; a run that waits,
\* or is bound to the request, gives way and will be named by the lease.  Whether
\* the run of an expired rival is over is not known here.
ReadForTakeover ==
  /\ control.holder = "none" /\ Cardinality(pending \ {"stopping"}) < MaxRequests
  /\ \/ Waits /\ pending' = pending \cup {"binding"}
     \/ /\ ~Waits /\ ~hold.live /\ (hold.of = "run" => row.status \in Terminal)
        /\ pending' = pending \cup {"unbinding"}
  /\ UNCHANGED <<row, exec, job, ask, hold, control, promised, turns, faults, listed>>

\* A lease the bot's user already has is bound to the run that waits by now.
Rebound == [control EXCEPT !.bound = @ \/ (hold.of = "run" /\ row.status = "waiting_takeover")]

RetakeControl ==
  /\ control.holder = "ours" /\ control' = Rebound
  /\ UNCHANGED <<row, exec, job, ask, hold, pending, promised, turns, faults, listed>>

\* The grant looks at the control lease alone; what was read before may no longer
\* hold.  It takes effect if nobody has the screen, and is refused if another
\* bot's user has it, or a lease that has run out is not cleared yet.
GrantTakeover(request) ==
  /\ request \in pending \cap {"binding", "unbinding"}
  /\ pending' = pending \ {request}
  /\ control' = CASE control.holder = "none" ->
                       [holder |-> "ours", bound |-> request = "binding"]
                 [] control.holder = "ours" -> Rebound
                 [] OTHER -> control
  /\ UNCHANGED <<row, exec, job, ask, hold, promised, turns, faults, listed>>

\* The expiry of the user's lease could not be scheduled: the takeover fails and
\* takes its grant back.  How long the scheduling takes is not known here.
UndoGrant ==
  /\ control.holder = "ours" /\ control' = NoControl
  /\ Spend(faults, MaxFaults)
  /\ UNCHANGED <<row, exec, job, ask, hold, pending, promised, turns, listed>>

\* A teaching session cancels the runs of its bot before it takes the screen; one
\* that had done so before this run was sent has yet to write its grant, which
\* leaves the binding alone.
GrantTeaching ==
  /\ "teaching" \in pending /\ pending' = pending \ {"teaching"}
  /\ control' = IF control.holder = "foreign" THEN control
                ELSE [control EXCEPT !.holder = "ours"]
  /\ UNCHANGED <<row, exec, job, ask, hold, promised, turns, faults, listed>>

\* The bots of a team computer share one control lease: taking the screen for
\* another bot ends the lease, or the request, of this one; taking it back ends
\* the other's.
TakeElsewhere ==
  /\ Computer = "team" /\ control.holder \in {"none", "ours"}
  /\ control' = [holder |-> "foreign", bound |-> FALSE]
  /\ UNCHANGED <<row, exec, job, ask, hold, pending, promised, turns, faults, listed>>

LeaveElsewhere ==
  /\ control.holder = "foreign" /\ control' = NoControl
  /\ UNCHANGED <<row, exec, job, ask, hold, pending, promised, turns, faults, listed>>

LapseControl ==
  /\ control.holder = "ours" /\ control' = [control EXCEPT !.holder = "lapsed"]
  /\ UNCHANGED <<row, exec, job, ask, hold, pending, promised, turns, faults, listed>>

\* Released, skipped or expired.  A run bound to the screen is queued with the
\* note; a steered one that already runs gets the note without losing its lease.
ReleaseControl ==
  /\ control.holder \in {"ours", "lapsed"}
  /\ control' = NoControl
  /\ CASE control.bound /\ row.status = "waiting_takeover" ->
            row' = [row EXCEPT !.status = "queued", !.checkpoint = "takeover"] /\ EnqueueOrLose
       [] control.bound /\ row.status \in {"leased", "running"} ->
            row' = [row EXCEPT !.checkpoint = "takeover"] /\ EnqueueOrLose
       [] OTHER -> UNCHANGED <<row, job>>
  /\ UNCHANGED <<exec, ask, hold, pending, promised, turns, faults, listed>>

\* The computer is suspended or provisioned anew, or a run of another bot asks
\* for the screen, while no user's lease is in force: the request is forgotten,
\* and so is a lease that has run out.
ForgetControl ==
  /\ control.holder = "lapsed" \/ control = [holder |-> "none", bound |-> TRUE]
  /\ control' = NoControl
  /\ UNCHANGED <<row, exec, job, ask, hold, pending, promised, turns, faults, listed>>

-----------------------------------------------------------------------------
(* The computer: its execution lease and its stop.                         *)

\* Stopping the computer refuses only for other bots.  The bot's execution lease
\* is deleted first, under whatever run has it.
StopComputer ==
  /\ "stopping" \notin pending /\ pending' = pending \cup {"stopping"}
  /\ hold' = NoHold /\ promised' = FALSE
  /\ Spend(faults, MaxFaults)
  /\ UNCHANGED <<row, exec, job, ask, control, turns, listed>>

\* The sandbox has stopped, and the control lease is cleared whoever has it; or
\* stopping failed.
ComputerStopped ==
  /\ "stopping" \in pending /\ pending' = pending \ {"stopping"}
  /\ control' \in {NoControl, control} /\ promised' = FALSE
  /\ UNCHANGED <<row, exec, job, ask, hold, turns, faults, listed>>

\* Another run of the bot, or a boot by hand, takes over a lease that has expired
\* (or makes one), pauses for the screen in its turn, and lets go.
RivalAcquires ==
  /\ Computer = "team" /\ ~hold.live
  /\ hold' = [of |-> "rival", by |-> None, live |-> TRUE] /\ promised' = FALSE
  /\ Spend(faults, MaxFaults)
  /\ UNCHANGED <<row, exec, job, ask, control, pending, turns, listed>>

RivalPauses ==
  /\ hold.of = "rival" /\ hold.live /\ control.holder # "foreign"
  /\ control' = [holder |-> IF control.holder = "ours" THEN "ours" ELSE "none", bound |-> FALSE]
  /\ UNCHANGED <<row, exec, job, ask, hold, pending, promised, turns, faults, listed>>

\* A rival lets go; a lease nobody renews any more, its worker dead or its run
\* waiting for a day or torn down, expires.
HoldEnds ==
  /\ hold.live /\ hold.by = None
  /\ hold' = [hold EXCEPT !.live = FALSE]
  /\ UNCHANGED <<row, exec, job, ask, screenVars, turns, faults, listed>>

-----------------------------------------------------------------------------
(* Faults.                                                                 *)

\* A process dies with all its executions.  A durable queue hands their job
\* out again; the in-memory queue has lost it.
Crash(w) ==
  /\ \E s \in Slots : WorkerOf[s] = w /\ exec[s].pc # "idle"
  /\ exec' = [s \in Slots |-> IF WorkerOf[s] = w THEN Idle ELSE exec[s]]
  /\ hold' = IF \E s \in Slots : hold.by = s /\ WorkerOf[s] = w
             THEN [hold EXCEPT !.by = None] ELSE hold
  /\ EnqueueOrLose
  /\ Spend(faults, MaxFaults)
  /\ UNCHANGED <<row, ask, screenVars, turns, listed>>

\* An execution gives up and leaves the row as it is: the database failed
\* under it before the attempt opened, or its heartbeat did in the turn.
\* Releasing the computer may fail with it.  A failed job is retried.
Abandon(s) ==
  /\ exec[s].pc \in {"claimed", "started", "turn"}
  /\ exec' = [exec EXCEPT ![s] = Idle]
  /\ hold' \in {LetGo(s), KeptFor(s)}
  /\ EnqueueOrLose
  /\ Spend(faults, MaxFaults)
  /\ UNCHANGED <<row, ask, screenVars, turns, listed>>

Expired == row.status \in {"leased", "running"} /\ row.lease = "live"
             /\ row' = [row EXCEPT !.lease = "lapsed"]

\* Five minutes pass while the owner is too slow to renew.
LapseUnderOwner ==
  /\ Expired /\ \E s \in Slots : exec[s].pc \notin {"idle", "read"} /\ Owns(s)
  /\ Spend(faults, MaxFaults)
  /\ UNCHANGED <<exec, job, ask, computerVars, turns, listed>>

LapseAbandoned ==
  /\ Expired /\ \A s \in Slots : exec[s].pc \in {"idle", "read"} \/ ~Owns(s)
  /\ UNCHANGED <<exec, job, ask, computerVars, turns, faults, listed>>

\* The computer's lease runs out under an execution in the same way, but not
\* once it is held for a day.
HoldLapsesUnderOwner ==
  /\ \E s \in Slots : hold.by = s /\ exec[s].pc # "pausing"
  /\ hold' = [hold EXCEPT !.by = None, !.live = FALSE]
  /\ Spend(faults, MaxFaults)
  /\ UNCHANGED <<row, exec, job, ask, screenVars, turns, listed>>

-----------------------------------------------------------------------------
Init ==
  /\ row = [status |-> "queued", owner |-> None, fence |-> 0, lease |-> "none",
            checkpoint |-> None]
  /\ exec = [s \in Slots |-> Idle]
  /\ job \in BOOLEAN            \* the send's enqueue may have failed
  /\ ask = "none"
  /\ \/ hold = NoHold
     \/ Computer = "team" /\ hold \in [of : {"rival"}, by : {None}, live : BOOLEAN]
  /\ \/ control \in [holder : {"none", "ours"}, bound : {FALSE}]
     \/ Computer = "team" /\ control = [holder |-> "foreign", bound |-> FALSE]
  /\ pending \in SUBSET {"teaching"} /\ promised = FALSE
  /\ listed = FALSE /\ turns = 0 /\ faults = 0

EndsTurn(s) ==
  \/ \E choice \in BOOLEAN : PauseForInput(s, choice)
  \/ PauseForTakeover(s)
  \/ \E outcome \in {"completed", "failed"} : Finalize(s, outcome)

\* An execution that is not disturbed goes on to the end of its turn.
Advance(s) ==
  \/ Claim(s) \/ LoseClaim(s) \/ Begin(s) \/ BeginLost(s) \/ Attach(s) \/ GateTools(s)
  \/ EnterTurn(s) \/ NoticeRelease(s) \/ HoldComputer(s) \/ EndsTurn(s)

User == Answer \/ Steer \/ Stop \/ Clear \/ ListForRemoval \/ CancelListed

Screen ==
  \/ ReadForTakeover \/ RetakeControl \/ (\E request \in Requests : GrantTakeover(request))
  \/ UndoGrant \/ GrantTeaching \/ TakeElsewhere \/ LeaveElsewhere \/ LapseControl
  \/ ForgetControl

Machine ==
  \/ StopComputer \/ ComputerStopped \/ RivalAcquires \/ RivalPauses \/ HoldEnds
  \/ HoldLapsesUnderOwner

Next ==
  \/ \E s \in Slots : StartJob(s) \/ Advance(s) \/ Requeue(s) \/ Heartbeat(s)
                        \/ NoticeLoss(s) \/ FinalizeFails(s) \/ PauseFails(s) \/ Abandon(s)
  \/ \E w \in Workers : Crash(w)
  \/ Reconcile \/ User \/ ReleaseControl \/ Screen \/ Machine
  \/ LapseUnderOwner \/ LapseAbandoned

Spec == Init /\ [][Next]_vars

\* The reconciler ticks, free slots take pending jobs, executions go on,
\* turns end (every provider call and tool has a timeout), rivals let go of the
\* computer, and time passes.
Fairness ==
  /\ WF_vars(Reconcile) /\ WF_vars(LapseAbandoned) /\ WF_vars(HoldEnds)
  /\ \A s \in Slots : WF_vars(Advance(s)) /\ WF_vars(StartJob(s))

FairSpec == Spec /\ Fairness

-----------------------------------------------------------------------------
(* Properties.                                                             *)

\* The shape of every variable.
TypeOK ==
  /\ row \in Rows
  /\ exec \in [Slots -> Execs]
  /\ job \in BOOLEAN
  /\ ask \in {"none", "plain", "choice"}
  /\ hold \in Holds /\ control \in Controls
  /\ pending \subseteq Requests /\ promised \in BOOLEAN
  /\ listed \in BOOLEAN
  /\ turns \in 0..MaxTurns
  /\ faults \in 0..MaxFaults

\* What the claim and the reconciler rely on when they look at the row alone:
\* a leased or running run has an owner and a deadline (without one it would
\* never be reclaimed), a run that waits or is queued has neither, offered
\* choices are on the row only while their question is open, and a run
\* waiting for the screen carries no note that the screen was given back.
LeaseShape ==
  /\ row.status \in {"leased", "running"} => row.owner \in Workers /\ row.lease # "none"
  /\ row.status \in {"queued"} \cup Waiting => row.owner = None /\ row.lease = "none"
  /\ row.checkpoint = "choice" /\ row.status \notin Terminal =>
       row.status = "waiting_input" /\ ask = "choice"
  /\ row.status = "waiting_takeover" => row.checkpoint = None

\* An ended run is never rewritten: a turn that was stopped while it worked
\* cannot complete, fail, pause or requeue the run afterwards, although Stop
\* leaves its owner and fence in the row.
TerminalFinal == [][row.status \in Terminal => row' = row]_vars

\* While its lease is live, an execution loses the row only by its own doing
\* or to the user's stop: no other execution, however late its claim or its
\* last write, takes the row from it.
LeaseRespected ==
  [][\A s \in Slots :
       exec[s].pc \notin {"idle", "read"} /\ Owns(s) /\ row.lease = "live" =>
         Owns(s)' \/ exec'[s].pc = "idle" \/ row'.status = "cancelled"]_vars

\* Somebody still knows that the user gave the screen back: the row, or the
\* execution that owns it and will tell its turn.
Noted ==
  \/ row.checkpoint = "takeover"
  \/ \E s \in Slots : exec[s].pc \notin {"idle", "read"} /\ Owns(s)
                        /\ exec[s].checkpoint = "takeover"

\* "I'm done" is not claimed away, overwritten by a requeue or lost between
\* two executions: it stays known until the run ends or a turn that owns the
\* row pauses again.  Only a fault, the loss of a lapsed lease, or the computer's
\* stop under the turn that was told forgets it.
ReleaseKept ==
  [][Noted =>
       \/ Noted' \/ row'.status \in Terminal
       \/ \E s \in Slots : exec[s].pc \in {"turn", "pausing"} /\ Owns(s)
                             /\ row'.status \in Waiting
       \/ \E s \in Slots : exec[s].pc = "turn" /\ Owns(s) /\ ~HasComputer(s)
       \/ faults' # faults \/ row.lease = "lapsed"]_vars

\* A question with offered choices waits for the user's selection: the run
\* leaves the question only when it is answered or cancelled.
SelectionAwaited ==
  [][row.status = "waiting_input" /\ ask = "choice" =>
       row'.status \in {"waiting_input", "queued", "cancelled"}]_vars

\* While the user has the screen of this run, its turn works with the desktop
\* tools gated: the control lease is exclusive.
HeldGate ==
  \A s \in Slots :
    control.holder = "ours" /\ control.bound /\ exec[s].pc = "turn" /\ Fenced(s) => exec[s].held

\* Giving the screen back resumes the run that waits for it, however the screen
\* was taken, taken elsewhere, taken back or left, and however often the run was
\* woken and requeued since it paused; unless since then the computer was
\* stopped, a rival took the execution lease, or a takeover decided before the
\* pause was written after it (promised).  A takeover that fails and takes its
\* grant back, a fault, gives nothing back to the run.
ReleaseResumes ==
  [][(/\ promised /\ promised' /\ row.status = "waiting_takeover" /\ faults' = faults
      /\ control.holder = "ours" /\ control'.holder = "none") => row'.status = "queued"]_vars

\* Reclaiming an expired run raises its fence, so that the writes of the
\* execution it replaces can be told from its own.
FenceRises ==
  [][row.lease = "lapsed" /\ row'.lease = "live" /\ row'.status = "leased" =>
       row'.fence > row.fence]_vars

\* No run is left behind: whatever crashes, whichever enqueue is lost, a
\* queued, leased or running run comes to wait for its user or to an end.
Progress ==
  row.status \in {"queued", "leased", "running"}
    ~> row.status \in Waiting \cup Terminal

-----------------------------------------------------------------------------
(* The lifecycle this implements.                                          *)

Working == row.status \in {"leased", "running"}

Phase ==
  CASE row.status = "queued" -> "ready"
    [] Working -> "working"
    [] row.status = "waiting_input" -> "asking"
    [] row.status = "waiting_takeover" -> "handover"
    [] OTHER -> row.status

Lifecycle == INSTANCE RunLifecycle WITH
  phase <- Phase,
  worker <- IF Working THEN row.owner ELSE None,
  expired <- Working /\ row.lease = "lapsed"

\* Seen from outside, a run is worked on by one worker at a time, who is
\* replaced only after expiring, and it waits, resumes and ends as promised.
LifecycleSpec == Lifecycle!Spec
=============================================================================
