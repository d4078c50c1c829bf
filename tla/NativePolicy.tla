---------------------------- MODULE NativePolicy ----------------------------
(***************************************************************************)
(* The budget audit of a policy session, carried out by ordinary runs of   *)
(* the session's bots.  The auditor asks three departments; what they send *)
(* back is labelled, and the policy (PolicyProtocol) refuses the reply     *)
(* that would complete the auditor's knowledge; told so, the auditor       *)
(* reports an incomplete audit to the Board.                               *)
(*                                                                         *)
(* A run works in one transaction, under the session's lock, on a copy of  *)
(* the session's state: artifacts and local are that copy, saved is what   *)
(* is committed.  The copy, the runs it wakes and the end of the run are   *)
(* committed together, unless the run was stopped or lost its lease.       *)
(*                                                                         *)
(* Left out: runs a user starts in the session, calls that name a          *)
(* recipient the turn may not write to (they only leave a notice), the     *)
(* unlabelled budgets, the bot's own closing text, and the queue.          *)
(***************************************************************************)
EXTENDS Naturals, Sequences, FiniteSets

CONSTANTS
  Board, Auditor, Departments,
  Nova,        \* the project, whose components are the departments
  Task,        \* the audit_task
  MaxOutputs,  \* bound on the artifacts that runs compute
  MaxNotices,  \* bound on the notices
  MaxEvents,   \* bound on stops, lapsed leases, failures and crashes
  None

ASSUME NamesAssumption ==
  /\ Board # Auditor /\ {Board, Auditor} \cap Departments = {}
  /\ Task \notin Departments /\ IsFiniteSet(Departments)
ASSUME KindsAssumption == (Departments \cup {Task}) \cap Nat = {}
ASSUME BoundsAssumption == {MaxOutputs, MaxNotices, MaxEvents} \subseteq Nat

VARIABLES
  artifacts, local, \* the session's state, as the turn that holds its lock sees it
  sends,            \* the deliveries among state.events, in that copy
  saved,            \* the committed state
  runs,
  waiting,          \* executions that wait for the session's lock, or failed in it
  turn,             \* the execution that holds the lock
  events

vars == <<artifacts, local, sends, saved, runs, waiting, turn, events>>

Principals == {Board, Auditor} \cup Departments
Projects == {Nova}
Components == Departments
Sources == Departments \cup {Task}    \* a department's reason is named after it
Outputs == 1..MaxOutputs
Notices == MaxOutputs + 1..MaxOutputs + MaxNotices
SourceLabels == [s \in Sources |-> IF s = Task THEN {} ELSE {<<Nova, s>>}]

P == INSTANCE PolicyProtocol

Runs == [owner : Principals, by : Nat, fence : Nat, idle : BOOLEAN,
         status : {"queued", "running", "completed", "failed", "cancelled"}]
Executions == [run : Nat, fence : Nat, failed : BOOLEAN]
Turns == [run : Nat, fence : Nat, owner : Principals \cup {None}, to : Principals \cup {None},
          at : {"sources", "reasons", "commit", "generate", "deliver", "notice"},
          allowed : SUBSET Principals, id : Nat, wakes : Seq(Principals)]
Sends == [id : Outputs, run : Nat, from : Principals, to : Principals, ok : BOOLEAN]

ASSUME NoneAssumption == None \notin Turns

Copy == <<artifacts, local, sends>>

\* Mutant: the copy outlives the transaction.
CopyKept == UNCHANGED Copy

RolledBack == artifacts' = saved.artifacts /\ local' = saved.local /\ sends' = saved.sends

\* A run of a bot that another run woke; 0 stands for the first turn.
Run(owner, by) ==
  [owner |-> owner, by |-> by, status |-> "queued", fence |-> 0, idle |-> FALSE]
Woken(wakes, by) == [i \in DOMAIN wakes |-> Run(wakes[i], by)]
RunIds == DOMAIN runs

-----------------------------------------------------------------------------
(* Executions.                                                             *)

Execution(r, fence) == [run |-> r, fence |-> fence, failed |-> FALSE]

\* The run is running and leased to this execution.
Owned(e) == runs[e.run].status = "running" /\ runs[e.run].fence = e.fence

Claim(r) ==
  /\ runs[r].status = "queued"
  /\ runs' = [runs EXCEPT ![r].status = "running", ![r].fence = 1]
  /\ waiting' = waiting \cup {Execution(r, 1)}
  /\ UNCHANGED <<Copy, saved, turn, events>>

\* The lease runs out, which a turn does not renew, and another worker claims the run.
ClaimAgain(r) ==
  /\ runs[r].status = "running" /\ events < MaxEvents
  /\ events' = events + 1
  /\ runs' = [runs EXCEPT ![r].fence = @ + 1]
  /\ waiting' = waiting \cup {Execution(r, runs[r].fence + 1)}
  /\ UNCHANGED <<Copy, saved, turn>>

Stop(r) ==
  /\ runs[r].status \in {"queued", "running"} /\ events < MaxEvents
  /\ events' = events + 1
  /\ runs' = [runs EXCEPT ![r].status = "cancelled"]
  /\ UNCHANGED <<Copy, saved, waiting, turn>>

-----------------------------------------------------------------------------
(* The first turn of a session, which no run carries out.                  *)

Turn(r, fence, owner, at, allowed) ==
  [run |-> r, fence |-> fence, owner |-> owner, at |-> at, allowed |-> allowed,
   to |-> None, id |-> 0, wakes |-> <<>>]

Start ==
  /\ turn = None /\ ~saved.started
  /\ turn' = Turn(0, 0, None, "sources", {})
  /\ UNCHANGED <<Copy, saved, runs, waiting, events>>

CreateSource(id) ==
  /\ turn # None /\ turn.at = "sources" /\ P!CreateSource(id)
  /\ turn' = IF Sources \subseteq DOMAIN artifacts' THEN [turn EXCEPT !.at = "reasons"] ELSE turn
  /\ UNCHANGED <<sends, saved, runs, waiting, events>>

\* Every department is given its reason, then the auditor its task.
GiveReason(dept) ==
  /\ turn # None /\ turn.at = "reasons" /\ dept \notin local[dept].artifacts
  /\ P!DeliverArtifact(Board, dept, dept)
  /\ UNCHANGED <<sends, saved, runs, waiting, turn, events>>

GiveTask ==
  /\ turn # None /\ turn.at = "reasons"
  /\ \A dept \in Departments : dept \in local[dept].artifacts
  /\ P!DeliverArtifact(Board, Auditor, Task)
  /\ turn' = [turn EXCEPT !.at = "commit", !.wakes = <<Auditor>>]
  /\ UNCHANGED <<sends, saved, runs, waiting, events>>

CommitStart ==
  /\ turn # None /\ turn.run = 0 /\ turn.at = "commit"
  /\ saved' = [artifacts |-> artifacts, local |-> local, sends |-> sends, started |-> TRUE]
  /\ runs' = runs \o Woken(turn.wakes, turn.run)
  /\ turn' = None
  /\ UNCHANGED <<Copy, waiting, events>>

-----------------------------------------------------------------------------
(* The turn of a run.                                                      *)

SentTo(owner) == {s.to : s \in {x \in sends : x.from = owner}}
Reported == Board \in SentTo(Auditor)
PendingRequests == Departments \ SentTo(Auditor)
AuditReady == /\ local[Auditor].artifacts \cap Notices # {}
              /\ Cardinality(local[Auditor].knows) >= 2

\* Mutant: what was sent before is not looked at.
AllowedAfresh(owner) ==
  IF owner = Auditor THEN IF AuditReady THEN {Board} ELSE PendingRequests
  ELSE IF owner = Board THEN {} ELSE {Auditor}

\* Mutant: a report may be written before every department was asked.
AllowedEarly(owner) ==
  IF Reported THEN {}
  ELSE IF owner = Auditor
       THEN PendingRequests \cup IF local[Auditor].knows # {} THEN {Board} ELSE {}
       ELSE IF owner = Board THEN {} ELSE {Auditor} \ SentTo(owner)

\* Mutant: the auditor waits for all three replies.
AllowedOnceComplete(owner) ==
  IF Reported THEN {}
  ELSE IF owner = Auditor
       THEN IF PendingRequests # {} THEN PendingRequests
            ELSE IF Cardinality(local[Auditor].knows) >= 3 THEN {Board} ELSE {}
       ELSE IF owner = Board THEN {} ELSE {Auditor} \ SentTo(owner)

\* Whom an automatic turn may still write to.
Allowed(owner) ==
  IF Reported THEN {}
  ELSE IF owner = Auditor
       THEN IF PendingRequests # {} THEN PendingRequests
            ELSE IF AuditReady THEN {Board} ELSE {}
       ELSE IF owner = Board THEN {} ELSE {Auditor} \ SentTo(owner)

\* The lock is taken, then the run looked at and the state read.
Begin(e) ==
  /\ turn = None /\ e \in waiting /\ ~e.failed
  /\ waiting' = waiting \ {e}
  /\ turn' = IF Owned(e)
             THEN LET owner == runs[e.run].owner
                  IN  Turn(e.run, e.fence, owner, "generate", Allowed(owner))
             ELSE None
  /\ UNCHANGED <<Copy, saved, runs, events>>

Generating == turn # None /\ turn.at = "generate"

\* A recipient is written to once in a turn.
Rest(to) == turn.allowed \ {to}

\* The bot writes a message, from all it can read.
Compose(to, id) ==
  /\ Generating /\ to \in turn.allowed
  /\ id \in Outputs /\ \A i \in Outputs : i < id => i \in DOMAIN artifacts
  /\ P!ComputeArtifact(turn.owner, id)
  /\ turn' = [turn EXCEPT !.at = "deliver", !.to = to, !.id = id, !.allowed = Rest(to)]
  /\ UNCHANGED <<sends, saved, runs, waiting, events>>

\* The policy decides; the receiver is woken with the message or told that one was
\* blocked.
Deliver ==
  LET ok == ~P!Denied(turn.to, turn.id)
  IN  /\ turn # None /\ turn.at = "deliver"
      /\ P!DeliverArtifact(turn.owner, turn.to, turn.id)
      /\ sends' = sends \cup {[id |-> turn.id, run |-> turn.run, from |-> turn.owner,
                              to |-> turn.to, ok |-> ok]}
      /\ turn' = [turn EXCEPT !.at = IF ok THEN "generate" ELSE "notice",
                              !.wakes = Append(@, turn.to)]
      /\ UNCHANGED <<saved, runs, waiting, events>>

DeliverNotice(id) ==
  /\ turn # None /\ turn.at = "notice"
  /\ id \in Notices /\ \A i \in Notices : i < id => i \in DOMAIN artifacts
  /\ P!DeliveryNotice(turn.to, id)
  /\ turn' = [turn EXCEPT !.at = "generate"]
  /\ UNCHANGED <<sends, saved, runs, waiting, events>>

\* Mutant: the state is written without asking whether the run still goes on.
CommitsAnyway(e) == TRUE

MayCommit(e) == Owned(e)

Sent(r) == \E s \in sends : s.run = r

\* The run ends, if it still is this execution's.
Ended(e, idle) ==
  IF Owned(e) THEN [runs EXCEPT ![e.run].status = "completed", ![e.run].idle = idle] ELSE runs

Commit ==
  /\ Generating /\ MayCommit(turn)
  /\ saved' = [artifacts |-> artifacts, local |-> local, sends |-> sends, started |-> TRUE]
  /\ runs' = Ended(turn, turn.allowed # {} /\ ~Sent(turn.run)) \o Woken(turn.wakes, turn.run)
  /\ turn' = None
  /\ UNCHANGED <<Copy, waiting, events>>

\* The transaction is rolled back, and the failure then recorded.
Rollback(failed) ==
  /\ RolledBack /\ turn' = None
  /\ waiting' = waiting \cup failed
  /\ UNCHANGED <<saved, runs>>

Failed(t) == [Execution(t.run, t.fence) EXCEPT !.failed = TRUE]

CommitRefused ==
  /\ Generating /\ ~MayCommit(turn)
  /\ Rollback({Failed(turn)})
  /\ UNCHANGED events

\* The model fails, or the transaction takes too long.
TurnFails ==
  /\ turn # None /\ turn.run # 0 /\ events < MaxEvents
  /\ events' = events + 1
  /\ Rollback({Failed(turn)})

\* The process ends.
Crash ==
  /\ turn # None /\ events < MaxEvents
  /\ events' = events + 1
  /\ Rollback({})

RecordFailure(e) ==
  /\ e \in waiting /\ e.failed
  /\ runs' = IF Owned(e) THEN [runs EXCEPT ![e.run].status = "failed"] ELSE runs
  /\ waiting' = waiting \ {e}
  /\ UNCHANGED <<Copy, saved, turn, events>>

-----------------------------------------------------------------------------
Init ==
  /\ P!Init /\ sends = {}
  /\ saved = [artifacts |-> artifacts, local |-> local, sends |-> {}, started |-> FALSE]
  /\ runs = <<>> /\ waiting = {} /\ turn = None /\ events = 0

Next ==
  \/ Start
  \/ \E id \in Sources : CreateSource(id)
  \/ \E dept \in Departments : GiveReason(dept)
  \/ GiveTask \/ CommitStart
  \/ \E r \in RunIds : Claim(r) \/ ClaimAgain(r) \/ Stop(r)
  \/ \E e \in waiting : Begin(e) \/ RecordFailure(e)
  \/ \E to \in Principals, id \in Outputs : Compose(to, id)
  \/ Deliver
  \/ \E id \in Notices : DeliverNotice(id)
  \/ Commit \/ CommitRefused \/ TurnFails \/ Crash

Spec == Init /\ [][Next]_vars

-----------------------------------------------------------------------------
(* Properties.                                                             *)

\* The shape of every variable; without a turn the copy is the committed state.
TypeOK ==
  /\ P!TypeOK
  /\ sends \subseteq Sends /\ \A s \in sends : s.run \in RunIds
  /\ runs \in Seq(Runs)
  /\ waiting \subseteq Executions /\ \A e \in waiting : e.run \in RunIds
  /\ turn \in Turns \cup {None}
  /\ turn = None => saved.artifacts = artifacts /\ saved.local = local /\ saved.sends = sends
  /\ events \in 0..MaxEvents

\* A run that was stopped, failed or is still under way has left nothing in the
\* session: neither a delivery nor a wake.
AllOrNothing ==
  /\ \A s \in saved.sends : runs[s.run].status = "completed"
  /\ \A r \in RunIds : runs[r].by # 0 => runs[runs[r].by].status = "completed"

\* However often turns are repeated and bots woken, nobody is asked, answered or
\* reported to twice.
AskedOnce == \A s, t \in saved.sends : s.from = t.from /\ s.to = t.to => s = t

\* The auditor reports to the Board only when every department was asked, and a reply
\* was withheld from it.
ReportIncomplete ==
  \A s \in saved.sends : s.to = Board =>
    /\ \A dept \in Departments : \E t \in saved.sends : t.from = Auditor /\ t.to = dept
    /\ \E t \in saved.sends : t.to = Auditor /\ ~t.ok

\* Whatever the pace of the bots, and although what they write once they have heard
\* others is itself refused to some: when nothing is left to do, the audit was reported,
\* unless a run was stopped, failed, died or was left idle by its bot.
Concluded ==
  turn = None /\ saved.started /\ waiting = {} /\ (\A r \in RunIds : runs[r].status # "queued") =>
    \/ \E s \in saved.sends : s.to = Board
    \/ \E r \in RunIds : runs[r].status # "completed" \/ runs[r].idle
=============================================================================
