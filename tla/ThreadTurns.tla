----------------------------- MODULE ThreadTurns -----------------------------
(***************************************************************************)
(* The turns of one bot in one conversation, and the messages sent while   *)
(* it works.  A message that finds a run of the bot active does not start  *)
(* another: it becomes a steering row of that run, which the turn claims   *)
(* at its next safe boundary.  When a run ends, what it has not been told  *)
(* goes to the next run, or to a continuation made for it.                 *)
(*                                                                         *)
(* Every action is one transaction under the lock of the thread's row.  A  *)
(* run is seen at the grain of RunLifecycle: "starting" is leased or       *)
(* running before its turn, "running" is in its turn; RunLease says how    *)
(* executions race for it.                                                 *)
(*                                                                         *)
(* Left out: the other bots of a group, whose rows and runs are their own; *)
(* the scripted runtime of the tests, which claims no steering; messages   *)
(* that start no run; the text of prompts and answers.                     *)
(***************************************************************************)
EXTENDS Naturals, Sequences, FiniteSets

CONSTANTS
  MaxMessages,
  MaxRestarts,     \* bound on crashes and requeues
  MaxRoutines,     \* bound on runs without a message
  ChannelMessages, \* messages that came through a messaging channel
  Parallel,        \* runs of routines, bots and bridges start beside others
  Retracts         \* what started such a run may take it back

ASSUME BoundsAssumption == MaxMessages \in Nat /\ MaxRestarts \in Nat /\ MaxRoutines \in Nat
ASSUME ChannelAssumption == ChannelMessages \subseteq 1..MaxMessages
ASSUME SwitchAssumption == Parallel \in BOOLEAN /\ Retracts \in BOOLEAN

VARIABLES
  sent,      \* messages so far: message m is the m-th of the thread
  runs,      \* the bot's runs in the order they were made
  steering,  \* the steering rows: message -> run it is attached to, claimed or not
  stopped,   \* history: the newest message when the user last stopped everything
  restarts

vars == <<sent, runs, steering, stopped, restarts>>

Messages == 1..MaxMessages
NoRun == 0
NoMessage == 0

Working == {"starting", "running"}
Waiting == {"waiting_input", "waiting_takeover"}
Active == {"queued"} \cup Working \cup Waiting
\* withdrawn: cancelled by what started the run.
Over == {"completed", "failed", "cancelled", "withdrawn", "deleted"}

\* source: the message the run answers.  seen: the steering told to its latest
\* execution (what the code keeps in memory as seenSteeringIds).
Runs == [status : Active \cup Over, source : Messages \cup {NoMessage},
         trigger : {"user", "messaging", "bridge", "routine", "follow_up"},
         seen : SUBSET Messages]

Row == [run : Nat, claimed : BOOLEAN]

NoRows == [m \in {} |-> [run |-> NoRun, claimed |-> FALSE]]

NewRun(source, trigger) ==
  [status |-> "queued", source |-> source, trigger |-> trigger, seen |-> {}]

InStatus(rs, statuses) == {r \in DOMAIN rs : rs[r].status \in statuses}

\* Mutant: a run that waits for the user's hands does not count as busy.
BusyUnlessHandedOver == InStatus(runs, Active \ {"waiting_takeover"})

Busy == InStatus(runs, Active)

-----------------------------------------------------------------------------
(* Sending.                                                                *)

NextSeq == sent + 1

Arrive == sent < MaxMessages /\ sent' = sent + 1

Steer(m, r) ==
  /\ steering' = [x \in DOMAIN steering \cup {m} |->
                    IF x = m THEN [run |-> r, claimed |-> FALSE] ELSE steering[x]]
  /\ UNCHANGED runs

Start(source, trigger) == runs' = Append(runs, NewRun(source, trigger)) /\ UNCHANGED steering

SteerOrStart(m, trigger) ==
  \/ \E r \in Busy : Steer(m, r)
  \/ Busy = {} /\ Start(m, trigger)

\* A message typed into the conversation answers the questions that are open.
SendMessage ==
  LET asking == InStatus(runs, {"waiting_input"})
  IN  /\ Arrive /\ NextSeq \notin ChannelMessages
      /\ \/ /\ asking # {}
            /\ runs' = [r \in DOMAIN runs |->
                          IF r \in asking THEN [runs[r] EXCEPT !.status = "queued"] ELSE runs[r]]
            /\ UNCHANGED steering
         \/ asking = {} /\ SteerOrStart(NextSeq, "user")
      /\ UNCHANGED <<stopped, restarts>>

\* A follow-up and a channel message steer whatever the bot does.
FollowUp ==
  /\ Arrive
  /\ SteerOrStart(NextSeq, IF NextSeq \in ChannelMessages THEN "messaging" ELSE "user")
  /\ UNCHANGED <<stopped, restarts>>

\* A bot message and the team chat bridge start a run for their message in any case.
StartBeside ==
  /\ Parallel /\ Arrive /\ NextSeq \notin ChannelMessages
  /\ Start(NextSeq, "bridge")
  /\ UNCHANGED <<stopped, restarts>>

FireRoutine ==
  /\ Parallel
  /\ Cardinality({r \in DOMAIN runs : runs[r].trigger = "routine"}) < MaxRoutines
  /\ Start(NoMessage, "routine")
  /\ UNCHANGED <<sent, stopped, restarts>>

-----------------------------------------------------------------------------
(* A run's executions.                                                     *)

Move(r, from, to) ==
  /\ runs[r].status \in from
  /\ runs' = [runs EXCEPT ![r].status = to, ![r].seen = IF to = "starting" THEN {} ELSE @]
  /\ UNCHANGED <<sent, steering, stopped>>

Begin(r) == Move(r, {"queued"}, "starting") /\ UNCHANGED restarts

\* A steered or leftover job wakes a run that waits.
Wake(r) == Move(r, Waiting, "starting") /\ UNCHANGED restarts

\* The execution dies or gives the run back; another one starts from nothing.
Restart(r) ==
  /\ restarts < MaxRestarts /\ restarts' = restarts + 1
  /\ \E to \in {"starting", "queued"} : Move(r, Working, to)

Pause(r) == \E to \in Waiting : Move(r, {"running"}, to) /\ UNCHANGED restarts

Resume(r) == Move(r, Waiting, "queued") /\ UNCHANGED restarts

\* The rows a claim returns: a run that answers a channel takes only the
\* messages of that channel.
Claimable(r) ==
  {m \in DOMAIN steering :
     /\ steering[m].run \in {NoRun, r} /\ m \notin runs[r].seen
     /\ runs[r].trigger = "messaging" => m \in ChannelMessages}

\* claimSteering: every returned row is told to the turn, the ones not claimed
\* before are marked as this run's.
ClaimSteering(r) ==
  /\ steering' = [m \in DOMAIN steering |->
                    IF m \in Claimable(r) /\ ~steering[m].claimed
                    THEN [run |-> r, claimed |-> TRUE] ELSE steering[m]]
  /\ runs' = [runs EXCEPT ![r].status = "running", ![r].seen = @ \cup Claimable(r)]
  /\ UNCHANGED <<sent, stopped, restarts>>

EnterTurn(r) == runs[r].status = "starting" /\ ClaimSteering(r)

NextBoundary(r) == runs[r].status = "running" /\ Claimable(r) # {} /\ ClaimSteering(r)

-----------------------------------------------------------------------------
(* The end of a run.                                                       *)

\* Mutant: the check for other active runs still sees the one that ends.
ContinuedLate(rs, rows) ==
  LET pending == {m \in DOMAIN rows : rows[m].run = NoRun}
  IN  IF InStatus(runs, Active) = {} /\ pending # {}
      THEN /\ runs' = Append(rs, NewRun(CHOOSE m \in pending : \A x \in pending : x <= m,
                                        "follow_up"))
           /\ steering' = [m \in DOMAIN rows |->
                IF m \in pending THEN [run |-> Len(rs) + 1, claimed |-> FALSE] ELSE rows[m]]
      ELSE runs' = rs /\ steering' = rows

\* Unless another run of the bot is active, one continuation takes all the
\* rows no run has, and answers the newest.
Continued(rs, rows) ==
  LET pending == {m \in DOMAIN rows : rows[m].run = NoRun}
  IN  IF InStatus(rs, Active) = {} /\ pending # {}
      THEN /\ runs' = Append(rs, NewRun(CHOOSE m \in pending : \A x \in pending : x <= m,
                                        "follow_up"))
           /\ steering' = [m \in DOMAIN rows |->
                IF m \in pending THEN [run |-> Len(rs) + 1, claimed |-> FALSE] ELSE rows[m]]
      ELSE runs' = rs /\ steering' = rows

Freed(row) == [row EXCEPT !.run = NoRun]

\* The rows a completed turn was told.
Settling(r) == {m \in DOMAIN steering : steering[m].run = r /\ steering[m].claimed}

Complete(r) ==
  /\ runs[r].status = "running"
  /\ Continued([runs EXCEPT ![r].status = "completed"],
               [m \in DOMAIN steering \ Settling(r) |->
                  IF steering[m].run = r THEN Freed(steering[m]) ELSE steering[m]])
  /\ UNCHANGED <<sent, stopped, restarts>>

\* Mutant: the message a failed continuation was made for counts as fresh.
FreshOrSource(r, m) == m >= runs[r].source

\* What justifies another run after a failure: a message newer than the one
\* the run was made for.
Fresh(r, m) == m > runs[r].source

Fail(r) ==
  /\ runs[r].status \in Working
  /\ Continued([runs EXCEPT ![r].status = "failed"],
               [m \in DOMAIN steering |->
                  IF steering[m].run = r /\ Fresh(r, m) THEN Freed(steering[m])
                                                        ELSE steering[m]])
  /\ UNCHANGED <<sent, stopped, restarts>>

-----------------------------------------------------------------------------
(* The user, and what started a run, end it from outside.                  *)

\* Mutant: stopping leaves the rows to whoever comes next.
RowsFreed == [m \in DOMAIN steering |-> Freed(steering[m])]

RowsDiscarded == NoRows

\* Stopping cancels every active run and deletes every row; clearing the
\* conversation does the same to them.
Stop ==
  /\ runs' = [r \in DOMAIN runs |->
                IF r \in Busy THEN [runs[r] EXCEPT !.status = "cancelled"] ELSE runs[r]]
  /\ steering' = RowsDiscarded
  /\ stopped' = sent
  /\ UNCHANGED <<sent, restarts>>

\* The bridge cancels its fallback run when a routine has woken for the same
\* message; the rows of that run are not looked at.
Withdraw(r) ==
  /\ Retracts /\ runs[r].trigger = "bridge"
  /\ Move(r, Active, "withdrawn") /\ UNCHANGED restarts

\* A routine whose job could not be enqueued deletes its queued run again,
\* which detaches the run's rows.
UndoRoutine(r) ==
  /\ Retracts /\ runs[r].trigger = "routine" /\ runs[r].status = "queued"
  /\ runs' = [runs EXCEPT ![r].status = "deleted"]
  /\ steering' = [m \in DOMAIN steering |->
                    IF steering[m].run = r THEN Freed(steering[m]) ELSE steering[m]]
  /\ UNCHANGED <<sent, stopped, restarts>>

-----------------------------------------------------------------------------
Init ==
  /\ sent = 0 /\ runs = <<>> /\ steering = NoRows /\ stopped = 0 /\ restarts = 0

\* A run that is not waiting for its user goes on to the end of its turn.
Advance(r) == Begin(r) \/ EnterTurn(r) \/ Pause(r) \/ Complete(r) \/ Fail(r)

Next ==
  \/ SendMessage \/ FollowUp \/ StartBeside \/ FireRoutine \/ Stop
  \/ \E r \in DOMAIN runs :
       Advance(r) \/ NextBoundary(r) \/ Wake(r) \/ Restart(r) \/ Resume(r)
         \/ Withdraw(r) \/ UndoRoutine(r)

Spec == Init /\ [][Next]_vars

\* A message starts at most one run (SourceOnce), so this many are enough.
MaxRuns == MaxMessages + MaxRoutines

\* Queued runs are worked on and turns end: Progress of RunLease.
FairSpec == Spec /\ \A r \in 1..MaxRuns : WF_vars(r \in DOMAIN runs /\ Advance(r))

-----------------------------------------------------------------------------
(* Properties.                                                             *)

\* The shape of every variable: rows belong to messages that were sent and to
\* runs that exist.
TypeOK ==
  /\ sent \in 0..MaxMessages
  /\ runs \in Seq(Runs) /\ Len(runs) <= MaxRuns
  /\ DOMAIN steering \subseteq 1..sent
  /\ \A m \in DOMAIN steering : steering[m] \in Row /\ steering[m].run <= Len(runs)
  /\ stopped \in 0..sent
  /\ restarts \in 0..MaxRestarts

\* Runs that start beside others, whatever the bot is doing.
Beside == {r \in DOMAIN runs : runs[r].trigger \in {"bridge", "routine"}}

\* What started a run took it back: its rows stay attached to it, and rows no
\* run has are not looked at.
TakenBack == InStatus(runs, {"withdrawn", "deleted"})

\* No message is stranded by anything else: a row no run has can still be taken
\* by an active one, and a row a run has is that run's as long as it is active;
\* afterwards it remains only on a failed run that was made for it or for a
\* later message.
RowsOwned ==
  \A m \in DOMAIN steering :
    LET r == steering[m].run
    IN  IF r = NoRun THEN InStatus(runs, Active) # {} \/ TakenBack # {}
        ELSE \/ runs[r].status \in Active
             \/ runs[r].status = "failed" /\ m <= runs[r].source
             \/ r \in TakenBack

\* The bot takes one turn at a time: whatever runs beside it, neither a message
\* nor a continuation starts a run while another one they started is active,
\* whatever that one waits for.
OneActive == \A r, q \in InStatus(runs, Active) \ Beside : r = q

\* Recovery is bounded: no message is the source of two runs, so that a turn
\* that keeps failing is not continued for ever on the same message.
SourceOnce ==
  \A r, q \in DOMAIN runs :
    runs[r].source = runs[q].source /\ runs[r].source # NoMessage => r = q

\* What the user stopped stays stopped: no run is ever made for, or told, a
\* message that was sent before the last stop.
StopDiscards ==
  \A r \in InStatus(runs, Active) :
    /\ runs[r].source # NoMessage => runs[r].source > stopped
    /\ \A m \in runs[r].seen : m > stopped

\* Every steering message is heard: it is told to a turn, or discarded, or
\* settled by the failure of the run made for it, unless the bot waits for
\* its user or what started the run took it back.
Heard ==
  \A m \in Messages :
    m \in DOMAIN steering ~>
      \/ m \notin DOMAIN steering
      \/ \E r \in DOMAIN runs : m \in runs[r].seen
      \/ steering[m].run # NoRun /\ runs[steering[m].run].status = "failed"
      \/ InStatus(runs, Waiting) # {}
      \/ TakenBack # {}
=============================================================================
