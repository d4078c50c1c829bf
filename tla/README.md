# A verification of the agent platform

TLA+ modules, TLC configurations and TLAPS proofs for the platform in this
repository: bots that work for users in conversations, on computers of their
own or shared ones, driven by runs that are queued, leased, paused, resumed and
stopped, and a policy protocol that decides what bots may tell each other.

Paths below are relative to the repository. `packages/adapters/src` is written
`adapters`, `packages/db/src` is `db`, `packages/core/src` is `core`, and
`apps/api/src` is `api`.

1. Inventory
2. What the modules say and how they correspond to the code
3. Runs: what is checked, bounds, fairness
4. Proofs
5. Disagreements between the code and what it promises
6. Simplifications, and what is not modelled
7. Plan

## 1. Inventory

The server is two kinds of process. API processes serve the users' commands;
worker processes take background jobs from a queue. They share one Postgres
database and nothing else: what one knows of the other is what a row says, and
what keeps two of them from doing the same thing is the condition of an
`UPDATE`, a row lock, or a unique key. Everything that is hard here comes from
that: an execution reads a row, works for minutes, and writes an outcome that
may have been overtaken.

### Parts, state, operations

| Part | State it keeps | Operations | Interacts with |
| --- | --- | --- | --- |
| **Policy protocol** `core/policy/protocol.ts`, `datalog.ts` | artifacts; one store of facts per principal (Carries, DerivedFrom, Received, Knows) | `createSource`, `computeArtifact`, `deliverArtifact`, `deliveryNotice` | called by the native policy run and by `core/policy/nova.ts`; pure, state in, state out |
| **Run execution** `adapters/executor.ts`, `core/run-state.ts`, `adapters/takeover-resume.ts`, `db/cancel-runs.ts` | the `Run` row: status, lease owner, fence, expiry, checkpoint; in memory, the execution of `continueRun` | claim, begin, heartbeat, gate the tools, run the turn, requeue, pause, complete, fail | job queue, computer leases, thread commits |
| **Thread commits** `db/events.ts`, `db/messages.ts` | messages, thread events, `SteeringMessage` rows, asks, tasks | send, answer, claim steering, pause, release, finalize, continue, clear | run execution, API commands; all under the lock of the thread's row |
| **Thread commands** `api/thread-target.ts`, `api/router.ts` | none of their own | send, stop, clear, take and release the screen, edit the queue | thread commits, job queue |
| **Job queue and reconciler** `adapters/job-reconciler.ts`, `adapter-kit/background-jobs.ts`, `adapters/background-job-handlers.ts` | pending jobs, keyed per run | enqueue (one pending job per key), deliver, retry; every 30 s a scan for rows whose job was lost | every part that enqueues after a commit |
| **Computer leases and lifecycle** `adapters/computer-lifecycle.ts`, `computer-control.ts`, `computer-idle.ts`, `computer-update.ts` | execution lease, control lease (user or bot, expiry, the run it is bound to), lifecycle state of the computer | claim, release, extend, expire, hibernate, wake, update | run execution, API commands, supervisor |
| **External effects and approvals** `adapters/approval-effect.ts`, `core/approval-effect-key.ts`, `adapters/auto-review.ts` | approval rows and effect rows with a key | request, decide, claim the effect, perform, record | run execution, connectors |
| **Messaging and team chat** `adapters/messaging-delivery.ts`, `db/messaging.ts`, `api/messaging-inbound.ts`, `api/team-chat-bridge.ts` | outbox rows with lease and attempts; inbound event keys | mirror, deliver, retry, deduplicate | thread commits, job queue |
| **Routines and wake-ups** `adapters/wakeup.ts`, `core/cron.ts`, `adapters/schedule-tools.ts` | next fire time, the run a firing made | claim a firing, make a run, restore on failure | job queue, run execution |
| **Bot messages, child bots, handoff** `adapters/bot-messages.ts`, `child-bots.ts`, `group-handoff.ts` | bot message rows, outcomes, archive flags | send, deliver the outcome, archive | run execution |
| **Native policy runs** `adapters/native-policy.ts`, `api/native-policy.ts`, `api/policy-sessions.ts` | the session's policy state, versioned and locked | load, work on a copy, commit under the run's fence | policy protocol, run execution |
| **Policy reasoning** `core/policy/reasoning/` | none (pure) | tensor programs over the same facts | policy protocol |
| **History compaction** `adapters/history-compaction.ts` | summaries with the generation they belong to | compact, discard after a clear | thread commits |
| **Realtime follow** `adapters/realtime.ts`, `core/thread-subscription.ts`, `core/events.ts` | the last event sequence a client has | follow, replay, reduce | thread events |
| **Sandbox supervisor** `infra/sandboxes/supervisor/src` | screens in use, owners of home directories | claim, release, adopt | computer lifecycle |
| **Updater** `infra/updater/src`, `api/server-update.ts` | the update in progress, the version to roll back to | start, verify, commit, roll back | deployment |
| **Cloud agents, teaching, OAuth** `adapters/cloud-agent-poll.ts`, `teaching-session.ts`, `mcp-oauth.ts`, `pi-oauth.ts` | remote job ids, recordings, tokens | poll, record, refresh | external providers |
| **Clients** `apps/web`, `apps/mobile`, `apps/desktop`, `apps/www` | what is on the screen | | API |
| **Providers, connectors, sandboxes, memory** `adapters/pi-runtime.ts`, `composio-connector.ts`, `box-sandbox.ts`, `builtin-tools.ts` | connections | calls to external services | run execution |

### What is hard, and what correctness means

- **Policy protocol.** Nothing runs concurrently; the difficulty is in long
  legal sequences. Three components of one project may arrive one by one,
  forwarded by others, or folded into artifacts others derived. Correct means:
  no principal but the Board ever knows three components of a project, whatever
  the route; no label is lost on the way; a refusal leaves nothing behind.
- **Run execution.** Several executions race for one row, and an execution that
  lost may still be writing. Processes die, heartbeats stall, enqueues after a
  commit fail, jobs are delivered twice, and a user stops, answers, or hands
  over the screen at any moment. Correct means: one owner at a time; an
  execution that lost writes nothing; an ended run stays ended; what the user
  did ("I'm done with the screen") is not overwritten; no run is left behind.
- **Thread commits.** A message may arrive between a turn's last look and its
  end. Correct means: every message reaches a turn, none reaches two completed
  turns, one turn at a time, failures are not retried for ever, and Stop
  discards what waits.
- **Job queue and reconciler.** Enqueues are not in the transaction that makes
  them necessary. Correct means: every state that needs a job gets one again.
- **Computer leases.** A user, a run and an idle timer want the same computer;
  leases expire while releases, extensions and grants are in flight. Correct
  means: one provisioner at a time, no sandbox stopped under a turn, none left
  running that no row names, and a reservation that lasts as long as its update.
- **Effects and approvals.** An execution dies between performing an effect and
  recording it. Correct means: at most once per key, never without approval.
- **Messaging.** Deliveries are retried, and drains run at once over lists that
  are stale by the time a row is sent. Correct means: nothing that is known to
  have been sent is sent again, no row is abandoned, the cap of messages without
  an answer holds, and an invite goes out only while it is wanted.
- **Bot messages and outcomes.** A turn may be carried out twice, and the worker
  that ended a run may die before it tells the asker. Correct means: one outcome
  per request, sooner or later; chains of messages that end; one next owner of a
  stage.
- **Native policy runs.** State read before a long turn is committed after it.
  Correct means: the commit is refused if the lease or the session moved on.
- **Others.** A compaction that ends after a clear must not bring old text back
  (compaction); no gap and no repetition across a reconnect (follow); a home
  has one owner (supervisor); an interrupted update ends in one version
  (updater).

`PROJECT.json` lists the hazards, each at its line, with the property that
would catch it going wrong. Section 6 lists the ones that no property covers.

Where each part is modelled: the policy protocol in `PolicyProtocol`, and the
sessions that use it in `NativePolicy`; run execution in `RunLease` with
`RunLifecycle`; thread commits and thread commands in `ThreadTurns` and
`RunLease`; the job queue and the reconciler's scans in `RunLease` (runs) and
`BotOutcomes` (outcomes); computers in `ComputerLease`; effects and approvals in
`EffectLedger`; the outbox in `MessagingOutbox`; bot messages, child bots and
hand-overs in `BotOutcomes`. The other parts are not modelled (section 6).

## 2. What the modules say and how they correspond to the code

| Module | What it is |
| --- | --- |
| `PolicyProtocol` | the policy protocol, every operation that changes its state |
| `MCPolicyProtocol` | its instance for TLC |
| `PolicyProtocolProofs` | its theorems |
| `RunLifecycle` | abstract: what a run promises, with no lease, fence, job or process |
| `RunLease` | one run in detail: row, executions, job, screen, user, faults |
| `MCRunLease` | its instances for TLC |
| `RunLeaseProofs` | its theorems, among them that it implements `RunLifecycle` |
| `ThreadTurns` | the runs of one bot in one conversation and the messages sent to it |
| `MCThreadTurns` | its instances for TLC |
| `ThreadTurnsProofs` | its theorems |
| `ComputerLease`, `MCComputerLease`, `ComputerLeaseProofs` | one computer: its row, its sandboxes, everyone who moves it |
| `EffectLedger`, `MCEffectLedger`, `EffectLedgerProofs` | the external effects of one run, with approvals and replays |
| `BotOutcomes`, `MCBotOutcomes`, `BotOutcomesProofs` | bots that give each other work, and the return of its outcome |
| `MessagingOutbox`, `MCMessagingOutbox`, `MessagingOutboxProofs` | the outbox of messages to an owner's chat, and the invite to connect two bots |
| `NativePolicy`, `MCNativePolicy`, `NativePolicyProofs` | a policy session carried out by runs; composes `PolicyProtocol` (`P == INSTANCE PolicyProtocol`) with the lease of its runs |

How they fit together: `RunLease` is a run in full detail; `ThreadTurns`,
`EffectLedger`, `BotOutcomes`, `ComputerLease` and `NativePolicy` take a run at
the grain of `RunLifecycle` (queued, worked on by an execution that may have
lost it, waiting, over), which `RunLease` is shown to implement, and model what
is at risk beside the run's own row. `MessagingOutbox` starts where a run has
spoken.

Definitions whose comment begins with "Mutant" are not part of the system: each
is a plausible mistake in the definition that follows it, kept to show that the
properties notice it.

### PolicyProtocol

`artifacts` is `state.artifacts`; `local[p]` is principal `p`'s store, one field
per Datalog predicate. One action per exported function:

| Action | Code (`core/policy/protocol.ts`) |
| --- | --- |
| `CreateSource` | `createSource`, 66-79: trusted labels, stored with the Board, rules not run |
| `ComputeArtifact` | `computeArtifact`, 80-113: everything the owner can read is an input and a dependency; the closure gives the labels |
| `DeliverArtifact` | `deliverArtifact`, 114-157: evaluate with the incoming facts, refuse or copy |
| `DeliveryNotice` | `deliveryNotice`, 158-163: an artifact without labels, rules not run |

`R1`, `R2`, `New` and `R3` are the clauses of `APP2_RULES` (`datalog.ts`
125-184), as set expressions. `Close` applies R1 and then R2 once, where the
evaluator loops to a fixpoint; `StoresClosed`, checked and proved, is what
makes one round enough.

### RunLease

One run of a bot. The variables:

- `row` – the columns of `Run` that decide: status, lease owner, fence, whether
  the lease is live, and the checkpoint (`None`, `choice` for offered choices,
  `takeover` for the note that the screen was given back).
- `exec[s]` – what slot `s` of a worker has in memory: where in `continueRun` it
  is, the fence it computed, the status and checkpoint it read, whether its
  desktop tools are gated (`heldForTakeover`), and the note it will tell its turn.
- `job` – a `run.continue` job with this run's key is pending.
- `ask` – the open question of the conversation.
- `hold` – the row of the bot's execution lease on its team computer: whom it names
  (this run, or a rival: another run of the bot or a boot by hand), which slot
  renews it, and whether it is in force. An expired one stays as a row.
- `control` – the user's control lease: held by nobody, by the user for this bot (in
  force or run out), or for another bot; and whether it names this run.
- `pending` – requests that have read the computer and have still to write it: a
  takeover that will name the run or will not, a grant for teaching, a stop.
- `listed` – the run is on a list of active runs somebody is about to cancel.
- `turns`, `faults` – counters of bounded choices.
- `promised` – a history variable: a release of the screen is still bound to resume
  the run, as it was when the run last paused for the screen. The pause sets it, if
  the execution has its lease and no request decided earlier has yet to be written
  that would drop the binding; a stop of the computer or a rival that takes the
  execution lease clears it. It guards no action.

Each write to the row in the code is one conditional `UPDATE` or one
transaction, so it is one step; everything between two writes is not atomic,
and between any two steps of an execution anything else may happen.

| Actions | Code |
| --- | --- |
| `StartJob` | `continueRun` reads the row and plans (executor.ts 1082-1089, takeover-resume.ts 36-57); nothing for a run that is over |
| `Claim`, `LoseClaim` | the conditional claim (1090-1112) |
| `Begin`, `BeginLost` | leased to running (1114-1127); the assertion throws and the job is retried |
| `Attach`, `GateTools`, `EnterTurn` | computer, attempt, tool choice, last look before the turn |
| `Requeue`, `NoticeRelease`, `GiveBack`, `Requeued` | `writeComputerRunRequeue` (4633-4690) and its callers |
| `Heartbeat`, `NoticeLoss` | `renewRunLease` (4461) and the poll during the turn (3762-3788) |
| `PauseForInput`, `PauseForTakeover`, `Finalize`, `FinalizeFails` | `db/events.ts` 731-905 and 1003-1065 |
| `HoldComputer`, `PauseFails` | the computer held for a day before the pause (executor.ts 3894-3909), and a pause whose transaction fails |
| `Answer`, `Steer`, `Stop`, `Clear` | the user's commands (`db/events.ts`, `api/thread-target.ts`) |
| `ReadForTakeover`, `GrantTakeover`, `UndoGrant`, `RetakeControl` | `computer.takeover` (router.ts 1882-2031): the read that decides the binding, the grant that does not repeat it, the grant taken back when its expiry cannot be scheduled, and a user who has the screen already |
| `GrantTeaching` | a teaching session takes the screen (taught-skills.ts 192-235) and leaves the binding as it is |
| `TakeElsewhere`, `LeaveElsewhere` | the screen taken for another bot, and left again |
| `ReleaseControl`, `LapseControl`, `ForgetControl` | release, skip and expiry (`finalizeComputerControlRelease`); a request, or a lease that has run out, cleared with the computer's sleep or a new boot |
| `StopComputer`, `ComputerStopped` | `computer.stop` (router.ts 1714-1772): the execution lease deleted, then the control lease cleared, with the run left as it is |
| `RivalAcquires`, `RivalPauses`, `HoldEnds`, `HoldLapsesUnderOwner` | another run of the bot, or a boot by hand, on the same execution lease; its end, and its expiry |
| `ListForRemoval`, `CancelListed` | `archiveBot` (child-bots.ts 267-286): listed in one step, cancelled by id in a later one |
| `Reconcile` | the reconciler's scan of runs (job-reconciler.ts 168-187) |
| `Crash`, `Abandon`, `LapseUnderOwner`, `LapseAbandoned` | faults, and five minutes going by |

Of the computer the module has its two leases and nothing else: whether it is on,
asleep, reserved or in use by other bots is left to the environment, so a requeue
for a busy computer or a request forgotten in its sleep may come at any time.

Two slots may belong to one process, and then write the same lease owner
(`WorkerOf`): the code names the owner after the process, not the execution.

### RunLifecycle

A run is ready, worked on by one worker, asking, handed over, or over. Only a
worker that has expired may be replaced, and nothing leads out of an end.
`RunLease` implements it under the mapping

- `phase` ← the status, with leased and running both "working";
- `worker` ← the lease owner while working;
- `expired` ← the lease has run out while working.

### ThreadTurns

One bot in one conversation, at the grain of `RunLifecycle`: a run is queued,
starting, in its turn, waiting or over, and how executions race for it is
`RunLease`'s business. Every action is one transaction under the lock of the
thread's row, except the moves of a single run, which touch only that run.

| Variable, action | Code |
| --- | --- |
| `steering` | `SteeringMessage` rows: message, the run it is attached to, `claimedAt` |
| `runs[r].seen` | `seenSteeringIds` of the latest execution (in memory: empty again after a restart) |
| `SendMessage`, `FollowUp` | `sendThreadMessage` (thread-target.ts 648-775), `sendUserMessage` (db/events.ts 366-446): answer, steer or start |
| `StartBeside`, `FireRoutine` | bot messages, the team chat bridge and routines start runs beside others |
| `EnterTurn`, `NextBoundary`, `ClaimSteering` | `claimSteering` (db/events.ts 461-511), at the start of a turn and at every boundary (pi-runtime.ts 215, 271) |
| `Complete`, `Fail`, `Continued` | `finalizeRunOnce` and `createSteeringContinuation` (db/events.ts 1032-1203) |
| `Stop` | `stopThreadRuns` (thread-target.ts 990-1046); `clearThread` does the same to runs and rows |
| `Withdraw`, `UndoRoutine` | what started a run takes it back (team-chat-bridge.ts 1062, executor.ts 1036) |
| `Restart`, `Wake`, `Pause`, `Resume` | what `RunLease` shows in detail |

`stopped` is a history variable: the newest message when the user last stopped
everything.

### ComputerLease

One computer. The code keeps no lock: every move is a compare-and-set on the
row's state, its sandbox, its reservation and its `updatedAt`, and minutes may
pass between two of them.

| Variable, action | Code |
| --- | --- |
| `computer` | the row of `Computer`: state, sandbox (`ref`), reservation (`maintenance`), control of the screen, the bots that use it |
| `computer.old`, `job[w].mine` | `updatedAt`: whether the row's stamp is old enough for a claim to count as abandoned, and whether it is still the stamp this worker read or wrote |
| `leases`, `runs` | `ComputerExecutionLease` and the active run of each bot |
| `boxes` | the provider's sandboxes (external) |
| `job` | what each worker process is doing: a turn, a manual boot, sleep, stop, a replacement (reset or update) and its step |
| `StartTurn`, `Take`, `Validate`, `FinishTurn` | `continueRun` with `acquireComputerExecutionLease` and its release (computer-lifecycle.ts 439-569) |
| `Observe`, `Await`, `Claim`, `Provide`, `Activate`, `Undo`, `Record` | `provisionComputer` (145-380): look, wait for a settled state, claim, call the provider, activate, roll back |
| `Look`, `Seize`, `Recheck`, `Clear`, `Vacate`, `GiveUp` | `replaceComputer` (594-753) |
| `StartSleep`, `Doze`, `Saving`, `Halt`, `Rest` | `sleepComputerIfIdle` (computer-idle.ts 195-329) |
| `StartStop`, `Shut`, `Shutting`, `Halting`, `Halted` | the stop handler (router.ts 1714-1781) |
| `QueueUpdate`, `PerformUpdate`, `FinishUpdate`, `Interrupt`, `ReleaseInterrupted` | updates under a reservation (computer-update.ts, router.ts 1839-1869) |
| `Grant`, `Lapse`, `EndControl`, `HandOver`, `Return` | the user's control of the screen |
| `NewRun`, `Cancel`, `ExpireRun`, `ExpireLease`, `GrowOld`, `Crash` | what happens meanwhile |

`adrift` is a history variable: sandboxes the row lost track of in one of the
ways the property grants.

### EffectLedger

| Variable, action | Code |
| --- | --- |
| `effects`, `order` | the rows of `ExternalEffect`, by key, in the order they were made |
| key | run, tool, arguments, and how many identical calls the execution made before (`toolEffectIdempotencyKeyWithOccurrence`) |
| `exec[s]` | an execution of the run: its step in a call, its counts of identical calls, its queue of approved calls to replay |
| `run.owner` | the lease; an execution that lost it goes on until it asks for approval or ends its turn |
| `Plan`, `Call`, `Review` | `applyTool` (executor.ts 1842-2143): the replay check, the gate, the key, `recordEffect`, the judge |
| `ClaimApproved`, `ClaimIntended`, `PassUnclaimed`, `Perform`, `Finish` | claim, carry out, record (2145-2284, 3490; approval-effect.ts 416-456) |
| `SettleUncertain`, `ReturnOutcome` | a row that is executing or settled when it is met again (approval-effect.ts 352-414) |
| `RequestApproval`, `ReadAnswer`, `CommitAnswer` | the card, and the answer's transaction, whose read and write are two steps (db/events.ts 538-636) |
| `StartTurn`, `Leave`, `EndTurn`, `Stop` | claim, lost lease or crash, the end with its assertion, the user's stop |

`performed`, `allowed` and `overwrote` are history: what was done outside, what
the user approved, and the rows an answer wrote although they had moved on.

### BotOutcomes

| Variable, action | Code |
| --- | --- |
| `runs` | runs of the bots and the message that made each (kind, sender, intent, hop) |
| `lineup` | the ended runs whose outcome is not returned, in the order of the reconciler's scan (`updatedAt`) |
| `turns` | executions, of which a run may have two after a lost lease |
| `outs`, `rec` | the returns in progress: of the workers that ended the runs, and of the reconciler |
| `MessageBot`, `Replayed` | `messageBot` with its delivery keys (bot-messages.ts 93-300) |
| `HandOff` | `handoffToGroupBot` (group-handoff.ts 27-172) |
| `EndTurn`, `WorkerSends`, `WorkerMarks`, `WorkerDies` | the end of a run and the return of its outcome (executor.ts 4164-4194) |
| `Scan`, `RecSends`, `RecMarks`, `RecBumps`, `RecDies` | the reconciler's return of what a worker left (job-reconciler.ts 243-299) |
| `StartArchive`, `Archive` | archiving a bot, listed and committed in two steps (child-bots.ts 267-312) |
| `ClaimAgain`, `Leave`, `Abort`, `Stop` | lost leases and the user |

The asker is looked for among the bots that are not archived before the delivery
key is (bot-messages.ts 104-112, 178-183): an outcome that was delivered before its
asker was archived is never marked, and comes back in the reconciler's scan.

### MessagingOutbox

| Variable, action | Code |
| --- | --- |
| `rows` | `MessagingOutbound`: status, attempts, due (`nextAttemptAt`), provider handle |
| `connection`, `cycle`, `lock` | the row that connects two bots, the invite of its current cycle, and the drain that has locked it (`FOR UPDATE`) |
| `drains` | concurrent drains: the list each read, and where it is in the loop |
| `counter` | `outboundSinceInbound` |
| `Mirror`, `Connect`, `Answer`, `Revoke`, `Inbound`, `Webhook` | what makes, answers and removes rows |
| `List`, `Claim`, `Hold`, `Send`, `Record`, `Count`, `WriteFails`, `Retry` | `drainPendingMessagingOutbound` (messaging-delivery.ts 329-438) |
| `OpenInvite`, `SendInvite`, `RecordInviteFails` | `sendConnectInvite` (284-327) |
| `Crash` | a drain that dies; its transaction is rolled back |

A send has three outcomes, as for the code: accepted, refused, or accepted with
the answer lost. `log` is history: how often the provider was called, and how
often a message is known to have been accepted.

### NativePolicy

`artifacts`, `local` and `sends` are the copy of the session's state in the turn
that holds its lock; `saved` is what is committed. `P` is `PolicyProtocol` over
that copy, so the same operators decide every delivery. A run records which run's
commit woke it (`by`; 0 for the turns the session starts with), so that what a
turn leaves behind, deliveries and wakes alike, can be told from the others'.

| Action | Code (`adapters/native-policy.ts`) |
| --- | --- |
| `Start`, `CreateSource`, `GiveReason`, `GiveTask`, `CommitStart` | `startNativePolicy` and the first phase of `advanceNova` (79-101, 275-278; core/policy/nova.ts 43-61) |
| `Claim`, `ClaimAgain`, `Stop` | the run's row (executor.ts 1089-1110, thread-target.ts 990) |
| `Begin` | the lock, the check that the run is still this execution's, and the copy (320-407): whom the bot may write to, whether it generates at all |
| `Compose`, `Deliver`, `DeliverNotice` | the tool: compute an artifact, deliver it, and on a refusal leave a notice (115-260) |
| `Commit`, `CommitRefused` | the fenced commit with the runs it wakes (469-501) |
| `TurnFails`, `Crash`, `RecordFailure` | rollback, and the failure written in a transaction of its own (502-525) |

## 3. Runs: what is checked, bounds, fairness

| Run | Instance | States | Shows |
| --- | --- | --- | --- |
| `policy_protocol` | Board and two principals; a project of three components, one source each; one computed artifact; one notice | 191,993 | `TypeOK`, `Separation`, `ReadsWithinKnows`, `LabelsPropagate`, `StoresClosed` |
| `run_lease_safety` | two processes of one slot, team computer, 2 pauses or requeues, one takeover under way at a time, 1 fault (a crash, a lapse, a failed call, a stop or a rival of the computer) | 3,639,163 | `TypeOK`, `TerminalFinal`, `LeaseRespected`, `ReleaseKept`, `ReleaseResumes`, and the refinement `LifecycleSpec` |
| `run_lease_live` | one process of two slots, team computer, 1 pause or requeue, 1 fault, no takeovers, the bot may be archived | 1,395,048 | `Progress` |
| `thread_turns` | three messages, the second from a channel; one routine, one restart; runs start beside others and are taken back | 381,477 | `RowsOwned`, `OneActive`, `SourceOnce`, `StopDiscards`, `Heard` |
| `computer_lease` | two workers, two bots, four sandboxes, three operations begun, one update, one crash, cancellation or grant | 3,513,900 | `ReservationShape`, `NoneAdrift`, `SoleProvisioner`, `SandboxKept` |
| `effect_ledger` | two executions; two calls that must be asked for, one the judge decides, one that needs nothing; two rows of the ledger, identical calls | 1,110,875 | `AtMostOnce`, `Consent`, `LedgerTrue` |
| `bot_outcomes` | two bots in a group chat, both may be archived; three runs begun, two hops, one stop, archiving, repeated turn or dying reconciler | 1,465,168 | `ToldOnce`, `MarkedWhenTold`, `ChainsEnd`, `OneOwner`, `Answered` |
| `messaging_outbox` | two drains, one reply, two invites, cap 1, two attempts, one crash | 1,671,909 | `TypeOK`, `DeliveredOnce`, `SendsBounded`, `CapMargin`, `InviteWhilePending`, `Settled` |
| `native_policy` | three departments, eight computed artifacts, two notices, two stops, lapses, failures or crashes | 1,813,030 | `TypeOK`, `AllOrNothing`, `AskedOnce`, `ReportIncomplete`, `Concluded` |
| `computer_reserved`, `effect_replayed`, `outbox_invite` | the instance of their module, or a smaller one with the behaviour | | a counterexample each, section 5 |

Every property of a passing run has a mutant in `PROJECT.json`: a definition of
the model changed the way a mistake in the code would change it, under which
the same run finds that property violated. The type invariants of
`ThreadTurns`, `ComputerLease`, `EffectLedger` and `BotOutcomes`, and
`StoresGrow` and `LeaseShape`, are stated in the modules and hold on these
instances, but no listed run repeats them: an `INVARIANT TypeOK` (or
`PROPERTY StoresGrow`) line in the `.cfg` checks them.

**Why the bounds are enough.** *Policy protocol*: the rules speak of three
components, of a receiver and of what it already knows, so three components,
two restricted principals (one to gather labels and forward them, one to
refuse) and one artifact that mixes them reach every clause of R3 and the
laundering route; the theorems remove the bound. *RunLease*: a race needs two
executions; two turns let a run pause, be woken and be requeued; one fault lets an
owner lapse while a successor claims, or the computer be stopped or lost to a rival
while the run waits; one takeover at a time is read before a pause and written
after it, and is followed by others. The fence is bounded by these, as every
new claim of a working run needs a fault and every other one a turn. Whether the user
has the screen, and who had it before, has no bearing on `Progress`, but for the
grants and releases of the initial lease; its run leaves takeovers out. Two faults
together, as an owner that lapses and a successor that crashes, are left to the
theorems, for safety.
*ThreadTurns*: three messages are the run's source, a row it was told or not,
and one that arrives after; the message from a channel makes the claim leave
rows behind; a restart lets a told message be told again and then lost with its
turn. *ComputerLease*: a race for the row needs two workers; three operations
let a third find what the first two left, one sandbox for each and one more for
a replacement; the fourth operation of a late rollback (`RollsBackLate`) is left to
the theorem. *EffectLedger*: two executions are the one that lost the run and
the one that replays its turn; two rows and two identical calls reach the
occurrence numbers; two requests that must be asked for keep more than one
approval to replay. *BotOutcomes*: two hops are an answer and the answer to it;
three runs are a chain, or two askers of one bot. *MessagingOutbox*: with cap 1
the second of two drains passes the cap while the first has not counted; two
attempts are one retry and exhaustion, and how often two drains send a message
then, three times, is the bound itself (it was also found exact, by its invariant
alone, for up to five attempts of two drains and three of three); two cycles are an invite and the one that
replaces it. *NativePolicy*: three departments are the three components the
policy separates; an undisturbed audit computes seven artifacts, so eight leave
room for one that a repeated turn writes again.

**Deadlock** is not checked where a system stops legitimately: the run is over,
every id is stored, the messages or operations of the instance are used up. That
nothing stops too early is what `Progress`, `Heard`, `Answered`, `Settled` and
`Concluded` say. An effect ledger that is done has its run over, or its rows used
up: its runs are about what may not happen, and claim nothing of progress.

**Fairness.** `RunLease` assumes weak fairness of the reconciler (it ticks every
30 s), of a free slot taking a pending job, of each execution going on (its
calls to providers, tools and the computer have timeouts, so a turn ends), and
of time (an abandoned lease of the run runs out, and so does one of the computer
that nobody renews: rivals let go, or expire). It assumes none of the user, of a
requeue, of a heartbeat, or of an enqueue succeeding: `EnqueueOrLose` may lose
every one. `ThreadTurns` assumes that a run which is not waiting for its user is
worked on to the end of its turn, which is `Progress` of `RunLease`; no fairness
of boundaries inside a turn, since a turn may end without another one.
`BotOutcomes` assumes only the reconciler's return of outcomes, which one
process or another carries on; nothing of the worker that ended a run.
`MessagingOutbox` assumes that some drain goes on while one can (a drain is
started by the mirror, the reconciler and the retry) and that the due time of
some row comes; not that the provider ever accepts.

**Temporal properties, in words.** `Progress`: a queued, leased or running run
comes to wait for its user or to an end, whatever crashes and whichever enqueue
is lost. `Heard`: a steering row is told to a turn, or discarded, or settled by
the failure of the run made for it, unless the bot waits for its user or what
started the run took it back. `Answered`: there always comes a moment when no
asker waits for the outcome of a run that has ended, however many outcomes that
cannot be delivered are ahead of it in the reconciler's batch. `Settled`: there
always comes a moment when no row is pending, unless the cap holds them.
`NativePolicy` states no fairness: `Concluded` is an invariant about the states
in which nothing is left to do.

## 4. Proofs

TLAPS checks the modules named `...Proofs` completely, for every value of the
constants that satisfies the assumptions stated with them. `PROJECT.json` lists
their theorems; each is preceded by the sentence it proves.

**PolicyProtocol.** Assumes only that the Board is a principal and that sources
have sets of labels. `Separation` is not inductive: it says nothing of what a
stored artifact carries in a store that has it only as a dependency. The
invariant `IInv` adds that
- a store's artifacts exist, and everything received is held (`HoldsStored`);
- a store's Carries facts of an artifact it holds are exactly that artifact's
  labels, and there are none of artifacts it does not hold (`CarriesExact`);
- its dependency facts relate artifacts it holds to inputs of theirs it holds
  too (`DerivedExact`);
- it knows exactly the labels of what it has received (`KnowsExact`), which
  covers all that it can read, its own artifacts included (`ReadsWithinKnows`).

From these, `Close` changes nothing (so the one round of the model and the loop
of the code agree), the rules see every label of an incoming message, and R3
refuses whenever three components would be known: `TypeCorrect`, `AlwaysClosed`,
`NoLaundering` and `SeparationHolds`. `GrowthHolds` proves `StoresGrow` of
every step. The number of principals, projects, components and artifacts is
arbitrary.

**RunLease.** The invariant `Inv` is the types of the run's variables (`RunTypes`),
`LeaseShape` and `NotesCarried` (an execution carries no checkpoint but the
takeover note once it has claimed); `Leases` adds the types of the computer's
(`ComputerTypes`) and `Promise`. Both hold for any number of slots, processes, turns, requests
and faults: `TypeCorrect`, `LeaseShapeHolds`, `LeasesHold`.

- `EndIsFinal`: no step rewrites an ended run. Hypothesis `~Removable`, because
  archiving a bot does (section 5).
- `LiveLeaseExclusive`: a live lease is lost only by its holder's own step or a
  cancellation. Hypothesis `OwnProcesses`: no two slots share a process. Two
  slots of one process write the same owner, and fences repeat (section 5), so
  without it the code does not promise this.
- `ReleaseIsKept`: a release of the screen stays known until the run ends, pauses
  again or loses its lease, or the computer is lost under the turn that was told. The invariant `Stages` adds that only the execution
  that has just claimed the row finds it `leased`, so that nothing but its own next
  step can clear the row's note, and that an open question with choices is on the
  row. Hypothesis `OwnProcesses`, as before.
- `ReleaseResumesRun`: while `promised` stands, giving the screen back queues the run
  that waits for it. `Promise` says why: a slot renews the execution lease only when
  it names the run, and while the pause is relied on it names it still, no grant
  is under way that would drop the binding, and a user who has the screen has it
  bound to the run, unless the run is over. A step is `Harmless` if it makes no
  promise, renames no lease, adds no request and takes no binding from a user who
  keeps the screen; the pause, the takeover and its grant, the stop and the rivals
  are done one by one. No hypothesis on the computer is needed: on a dedicated one
  there is no execution lease and so never a promise (section 5).
- `Refinement`: `Spec` implements `RunLifecycle`, under `~Removable` for the
  same reason as `EndIsFinal`.

**ThreadTurns.** `OneTurnAtATime`, `NothingStranded`, `OneRunForAMessage` and
`StoppedForGood`, for any number of messages, restarts, routines and runs
beside. The invariant joins the four properties with the shape of the variables
and one fact none of them states (`Sources`): the row a run was made for is that
run's, and is claimed while its turn runs. It is what makes a continuation's
source new: a row without a run, or a row of the run that just ended, is never
the source of another one.

**EffectLedger.** `CarriedOutOnce`, `RowsTellTruth` and `DoneWithConsent`, for
any number of executions, requests, tools and repetitions. At most once is not a
fact about rows alone: the invariant counts, for every key, the executions that
hold its claim (from the claim to the record) together with the times it was
carried out, and shows the sum is at most one while the row is executing and as
the row says otherwise (`Counted`). Consent adds that a row is approved, and an
approved call claimed, only for keys the user approved (`Allowing`).

**MessagingOutbox.** `DeliversOnce`, `CapKept`, `InvitesWhilePending`,
`SendsAreBounded` and `TypeCorrect`, for any number of drains, messages, attempts, invites and
crashes, and any cap. The invariant `Kept` says that a drain that is at a row is
the only one, and that the row is not pending meanwhile, though other drains
have it on their stale lists: a row returns to pending only from its holder.
`Told` adds what the holder knows of the message. For the cap, `Margin` counts
the drains that passed it and have not counted yet: together with the counter
they never exceed the cap by more than the other drains, since the last one to
pass saw a counter below the cap. The theorems about finite sets do the
counting; they need the assumption that the drains are finitely many.

How often a message is sent is the least obvious of these. A drain that fails
writes back the attempts it had listed, plus one, whatever others counted in the
meantime; so the row's attempts go down as well as up, and the maximum times the
number of drains is not a bound: two drains of four attempts send a message nine
times, and more (the bound this module first stated). What only moves on is the
spread: for every number of attempts, how many drains know of no more than
that (`SpreadOf`, over their lists and the row they are at). Spreads are ordered by
the first number at which they differ (`Before`, a descent proved with a least
witness); no step moves the spread back, and the listing that must precede every
retry moves it on. So a message is sent at most once for every spread there is
(`Bounded`, `Passed`), and n drains have choose(attempts + n - 1, n) of them.

**BotOutcomes.** `ToldOnceHolds`, `MarkedWhenToldHolds`, `OneOwnerHolds` and
`ChainsEndHolds`, for
any number of bots, runs, hops, repeated turns and reconcilers that die. What
makes the first inductive is that an outcome answers a run that has ended, was
asked for something and reported nothing (`OutcomesEnd`): runs that have ended
never run again, so no report follows the outcome, and the step that delivers
sees whatever was sent before. For the marks, whoever is about to mark a run has
found or made what tells the asker (`MarksTrue`), and nothing sent is ever unsent.
For the chains, every run carries the hop after its asker's, and a message keeps to
the limit (`HopsTrue`). That the depth, a recursive function over the runs, is the
hop is an induction over the numbers of runs; it is done with the least run for
which it fails (`DepthIsHop`), which the library's facts about well-founded
relations provide, as the provers cannot use its induction theorems.

**ComputerLease.** `ReservationHolds`, `SoleProvisionerHolds`, `NoneAdriftHolds`,
`SandboxKeptHolds` and `TypeCorrect`, for any number of workers, bots, sandboxes,
updates, crashes and operations. The second and the fourth need the hypothesis `~Slow`: a claim does not run out while its holder
lives, which the code arranges with a window of five minutes and the heartbeat of
the holder's run lease (computer-lifecycle.ts 37-45, 110-117), and cannot enforce. The invariant adds `Alone` to the shapes:
while the row is booting, the claim of a worker that is still at work is not
old, and no other worker that could go on to claim has read it. Whoever holds
the claim wrote the row last, so that every earlier reading is void, and a later
one goes on only past an old claim. A step writes the row and voids the other
readings (`Loud`), moves one worker (`Quiet`), or neither (`Still`); each of
the actions is shown to be one of the three.

`NoneAdriftHolds` follows the sandboxes. `Accounted` adds to it, for every worker,
what it remembers of the sandbox it found (`Traced`): that one is still the row's,
or not running for good, or was replaced behind its back. A step is `Careful` if the
row and every worker that lets go of a sandbox leave it in the row, in another
worker's hand, adrift or no longer running; each action is. That a sandbox which is gone stays
gone when a late boot rolls back is needed here (`RolledBack`).

`SandboxKeptHolds` follows the turns (`KInv`). Under `~Slow` one worker at most has
the row claimed in order to sleep, stop or replace the computer (`Stamps`). When it
comes to stop or destroy the sandbox (`Clearing`), and whenever the row is stopped,
suspended or in error, no turn that owns its run and its lease is at work (`Kept`): it
has looked for one after its claim, and a turn begins to work only at a computer
that is running or that it booted itself. Every turn at work has the sandbox that
the row names, and what the provider has just made for a boot nobody else names
(`Known`), so a boot that rolls back stops none of those either - unless it was
waking a computer that slept and came too late, the one case the property excepts
(`RollsBackLate`, section 5).

**NativePolicy.** `CommitsAtOnce`, `WritesOnce`, `ReportsIncomplete` and
`TypeCorrect`, for any number of departments, outputs, notices and events. The
invariant relates the copy to what is committed: the copy differs only by
deliveries of the turn's own run (`CopyAhead`), which the committing step
completes; whom the turn may still write to, and what it knows of refusals, is
computed from the committed deliveries and stays true under the lock
(`RecipientsFresh`, `NoticesTrue`). `CommitsAtOnce` says of a run that did not
complete that nothing it sent is stored and that it woke nobody.

`AuditConcludes`: when nothing is left to do, the audit was reported, unless a run
was stopped, failed, died or was left idle. Hypothesis: at least three departments
(`Triple`), which the code has; with two, nothing would be withheld and the
auditor would wait for a notice for ever. `Facts` says what can be known: no
department has labels but its own and the auditor's, whose store covers all it
carries and never three components. So R3 refuses an answer only to an auditor
that knows two components, and one that is let through teaches it its
department's (`HeardReady`, from `Weighed` and `Noticed`): an auditor that has
heard all departments has a refusal, its notice, and two labels, which is what the
code asks of one that may report. `Duties` says who owes the next step: a
department that was asked and has not answered, or the auditor when all it asked
have answered, has a run that is not over or left one idle. A commit keeps it
because whom a turn wrote to is woken with it (`WakesTrue`), and because an auditor
that wrote to a department wrote to one that has not answered yet (`AskedOnce`
again).

**Only model-checked.** Liveness (`Progress`, `Heard`, `Answered`, `Settled`):
fairness and ENABLED are beyond this prover. And that the policy's theorems hold
of the sessions' composition too, where the prover does not accept the lemmas of an
instanced module (`Facts` proves anew what the audit needs of them). The modules declare no RECURSIVE operator. The library's induction
theorems are out of the provers' reach, as they take an operator for a parameter;
over numbers a least counterexample replaces them (`DepthIsHop`).

## 5. Disagreements between the code and what it promises

Three are runs that end in a counterexample to a sentence of the code's own
comments, assertions or tests.

1. **A boot that waits claims a computer that was reserved meanwhile**
   (`computer_reserved`, `ReservationRespected`, computer-lifecycle.ts 204). The
   reservation is compared with the caller's before the wait; the claim after it
   compares the row with the reservation just read. The update then fails. A
   test says that an update "blocks competing maintenance and boots"
   (computer-recovery.test.ts 83).
2. **An approved call is forgotten** (`effect_replayed`, `AllReplayed`,
   executor.ts 1993). Occurrence numbers restart at 0 in every execution, so the
   replay of the second of two identical calls finds the first one's row, returns
   its outcome and leaves the queue; the run completes with the approved call
   undone, against the assertion "Approved tool requests were not fully
   replayed" (approval-effect.ts 38).
3. **An invite is sent twice** (`outbox_invite`, `InviteOnce`,
   messaging-delivery.ts 400). `sendConnectInvite` promises at most once, but
   the count after it is inside the drain's `try`: when that write fails the
   invite goes back to pending.

The others are described here only; each can be replayed by giving the property
to an instance of its module.

4. **A delayed claim does not raise the fence** (`FenceRises` of `RunLease`,
   executor.ts 1089-1091). The claim writes the fence it computed from an earlier
   read. Delayed across another execution's claim, requeue and second claim, it
   reclaims the expired run with the fence that one already holds; within one
   worker process both then pass every lease check. A test says the reclaim has
   "a higher fence".
5. **A steered turn forgets the user's hold on the screen** (`HeldGate`,
   takeover-resume.ts 48). The hold is recomputed from the status
   `waiting_takeover` alone. A turn steered while the user has the screen that
   then asks a question comes back from the answer with its desktop tools.
6. **A leftover job answers for the user** (`SelectionAwaited`, executor.ts
   1096). The claim accepts `waiting_input`, so a second job resumes a run that
   waits for the user's selection and drops the offered choices.
7. **Giving the screen back may resume nothing** (router.ts 1975). A release queues
   the run that the control lease names, and several handlers name none although a
   run waits for the screen:
   - the computer's stop refuses for other bots' runs only. It deletes the bot's
     execution lease and clears the control lease (1752-1772); a takeover
     afterwards finds no execution lease, names no run, and its release queues none;
   - a boot by hand, or another run of the bot, takes over the bot's execution lease
     once it has expired, with the same effect;
   - a takeover decides the binding from what it reads (1934-1946) and writes it in an
     update that asks for none of it (1962-1978): decided before the pause and
     written after it, it drops the binding the pause has made. A teaching session's
     grant makes none, so a run that paused while another bot had the screen stays
     unbound under it;
   - on a dedicated computer there is no execution lease to find.
   `ReleaseResumes` excepts these by `promised` and fails without it. A message
   still wakes the run, and Stop ends it. A lease that has run out is forgotten, not
   released, if the computer is put to sleep or booted before the expiry is handled.
8. **Archiving a bot rewrites ended runs** (`TerminalFinal` with `Removable`,
   child-bots.ts 283; `updateGroup`, groups.ts 319-334, is open to the same
   step). Runs listed as active are later cancelled by id, whatever has become
   of them. In `BotOutcomes` the asker of such a run is then never told.
9. **A freed row that was claimed before is told twice** (db/events.ts 501).
   `claimSteering` returns every row without a run but marks only those never
   claimed. A row freed by a failed turn while another run was active is told to
   that one without becoming its own, and gets a continuation when it completes.
10. **A reset replaces a sandbox it never looked at** (`WinnerKept` of
   `ComputerLease`, computer-lifecycle.ts 651). Two resets of a dedicated
   computer: the second claims the row by its state and destroys the sandbox it
   read before, while the row names the first one's.
11. **The backoff is not kept** (messaging-delivery.ts 435). The claim does not
   look at `nextAttemptAt` again, so a drain with a stale list sends inside the
   window; attempts are counted from that list, so drains set each other's count
   back and try a message more often than the limit (`SendsBounded` says how often).
12. **Reconnecting does not start a fresh cycle** (messaging-delivery.ts 277).
   After an invite was lost the connection is still pending, for which
   `requestAgentConnection` returns early (agent-connections.ts 84-86). The
   comment that no reconciler reclaims outbox rows is outdated
   (job-reconciler.ts 228).

Seen on the way, contradicting no promise that is written down.
*Runs*: the requeue goes from running to queued, which the table in
run-state.ts 15 does not list; a note that the screen was given back dies with
the execution that claimed it. *Threads*: messages attached to a fallback run of
the bridge that is withdrawn stay on a cancelled run (`RowsOwned` and `Heard`
say so); starting to teach a bot cancels its runs and leaves their rows.
*Computers*: the stop handler puts back the state it read, which may be stale
(router.ts 1746), and deletes the lease rows, so that fences start over; the end
of control renews `updatedAt` during a boot, whose activation then fails; two
bots that retry an abandoned claim can hold each other off; a boot of a sleeping
computer whose claim a stop has voided stops the sandbox it woke, in which the next
turn may be at work by then (computer-lifecycle.ts 399-423: `SandboxUndisturbed` of
`ComputerLease`, false from `MaxBegun = 4` on). *Effects*: an answer
overwrites its row whatever it has become (db/events.ts 614), so beside an
execution that lost the run a call can be carried out twice (`overwrote`);
calls that need no approval are not claimed and are repeated after a crash;
approved arguments that a changed schema rejects drain the queue unperformed.
*Bots*: a run created while its bot is being archived stays queued and executes.
*Outbox*: a crash after the claim loses the message; a run's turns count as
mirrored even if the run did not complete. *Policy*: a request that the auditor
writes after some replies carries their labels and may itself be refused.

## 6. Simplifications, and what is not modelled

- *PolicyProtocol*: the text of artifacts, the event log and counters (they
  record, and decide nothing), the proofs the evaluator returns with its facts.
- *RunLease*: attempts, tasks, messages and events, which are written with the
  status they report; what a turn does; the two takeover checkpoints are one;
  of the computer only its two leases (section 2); the lease's holder is told from
  others by the slot, not by the fence of its row, since what a late holder writes
  is matched with it; the control lease that a takeover reads just before the
  execution lease is read with it; the branch for native policy runs.
- *ThreadTurns*: the other members of a group, whose rows are their own; the
  scripted runtime of the tests, which claims no steering; messages that start
  nothing; supersession of queued runs by a new one, since no sender that
  supersedes finds a queued run (it would have steered it).
- *ComputerLease*: the workspace (checkpoints, layout, screens), recoveries, a
  rollback that fails, processes that keep an idle computer awake. The first read
  of the row in acquiring a lease is merged with its write, as the row is read
  again after it. In the checked instance leases and claims of a living worker do
  not run out (`Slow` is FALSE; the constant is there).
- *EffectLedger*: how catalog and MCP arguments are mapped, read-only calls (they
  have no row), `request_secret`; finding and creating a row is one step; an
  error of the judge counts as "ask"; the rules are read once per execution.
- *BotOutcomes*: a call is identified by addressee and intent; a failed run is an
  ended one; a batch of one run stands for the reconciler's batch; the look and
  the send of a return are one step; realtime notices, spawned bots, deleting
  and restoring bots.
- *MessagingOutbox*: groups and their peers, the jobs that start a drain, what is
  said, confirmations; a drain takes the rows of its list in any order, which
  covers the code's.
- *NativePolicy*: runs a user starts in the session, calls that name a recipient
  the turn may not write to, the unlabelled budgets, the bot's closing text, the
  limit of four calls, the flush of the wakes (a lost one is the reconciler's),
  and the stepwise advance of `api/policy-sessions.ts`, whose linear phases are
  guarded by a revision under the same lock.

**Hazards no property covers.** A choice offered over a release note on a running
row (db/events.ts 754); the note that dies with the execution that claimed it
(executor.ts 1108); the wake of a run that waits for the screen (thread-target.ts
127); the expiry of the user's control racing a release, an extension or a grant
(computer-control.ts 127); fences that start over when the stop handler deletes the
lease rows (computer-lifecycle.ts 561); a rollback after a refused
activation that fails (computer-lifecycle.ts 344); a claim of the computer that is
slow, not dead (the other half of computer-lifecycle.ts 47); a second reset that gives
up the first one's sandbox (computer-lifecycle.ts 651); an answer that overwrites its
row (db/events.ts 614); cancellation by a list, in archiving (child-bots.ts 283) and
elsewhere (cancel-runs.ts 11); runs of the bridge that are
withdrawn (team-chat-bridge.ts 1068); teaching (taught-skills.ts 113); and the
disagreements 4 to 12 above, but for the part of 7 that `ReleaseResumes` keeps.

**Not modelled.** Routines and wake-ups; the policy reasoning runtime and the
general Datalog evaluator; history compaction; realtime follow; the sandbox
supervisor; the updater: their state machines are next (section 7). Cloud agents,
teaching and OAuth follow the protocols of their providers. Clients, and the
adapters of external services, will stay out: they are input and output, and
keep no state the server relies on. They are also most of the repository's lines.

## 7. Plan

Done, in order of importance: `PolicyProtocol` with its theorems; `RunLifecycle`
and `RunLease` with the refinement; `ThreadTurns`, `EffectLedger`,
`NativePolicy`, `MessagingOutbox`, `BotOutcomes` and `ComputerLease` with theirs.

Next, each with its instance, its mutants and, where it says so, its proofs:

| Order | Module | Says | Bounds planned | Theorems planned |
| --- | --- | --- | --- | --- |
| 1 | `Routines` | a firing makes one run, and is restored when that fails | two firings, one failure | one run per firing |
| 2 | `ThreadFollow` | no gap and no repetition across a reconnect | four events, one reconnect | prefix invariant |
| 3 | `Compaction` | nothing old comes back after a clear | two clears, one compaction | the generation guard |
| 4 | `PolicyDatalog` | the stratified evaluator as a recursive function, against a declarative fixpoint | all programs over two predicates and two constants | monotonicity of a round |
| 5 | `Supervisor`, `Updater` | ownership of homes and screens; rollback | two owners; one interruption | ownership |

Proofs owed for what exists: an abstract specification of a computer (exclusive
use) for `ComputerLease` to implement.
