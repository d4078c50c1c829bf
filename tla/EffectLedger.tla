---------------------------- MODULE EffectLedger ----------------------------
(***************************************************************************)
(* The external effects of one run: tool calls that change something       *)
(* outside, recorded as rows of ExternalEffect before they are performed.  *)
(* A row's key names the run, the tool, its arguments and how many         *)
(* identical calls the execution made before, so that a turn that is       *)
(* repeated after a crash, a lost lease or an approval finds what it did.  *)
(* Some calls wait for the user's approval, which ends the turn; the next  *)
(* execution has to replay what was approved before it does anything else. *)
(*                                                                         *)
(* An execution that has lost the run's lease notices late, and may carry  *)
(* out a whole call meanwhile: no step of a call looks at the lease but    *)
(* the one that asks the user.                                             *)
(*                                                                         *)
(* Left out: how the arguments of catalog and MCP calls are mapped, calls  *)
(* that are read-only (they have no row), request_secret, and the race of  *)
(* two executions to insert one key, which fails one of the calls.         *)
(***************************************************************************)
EXTENDS Naturals, Sequences, FiniteSets

CONSTANTS
  Slots,          \* executions of the run
  Requests,       \* tool calls a model may propose: a tool with its arguments
  Tools,
  ToolOf,         \* the tool of a request
  Consequential,  \* tools that need approval by default
  Mandatory,      \* tools whose calls are always asked for
  AutoReview,     \* a judge decides the calls of consequential tools without rules
  MaxCalls,       \* bound on identical calls of one execution
  MaxRows,        \* bound on the different calls of the run
  MaxEvents,      \* bound on reclaimed leases and leftover jobs
  Nobody

ASSUME ToolAssumption ==
  /\ ToolOf \in [Requests -> Tools]
  /\ Mandatory \subseteq Consequential /\ Consequential \subseteq Tools
ASSUME BoundsAssumption == MaxCalls \in Nat \ {0} /\ {MaxRows, MaxEvents} \subseteq Nat
ASSUME SwitchAssumption == AutoReview \in BOOLEAN /\ Nobody \notin Slots

VARIABLES
  run,       \* the run's row: status and lease owner
  effects,   \* key -> row of ExternalEffect
  order,     \* the keys of the rows in the order they were created
  cards,     \* keys with an approval card that is not answered
  answering, \* the answer whose transaction has read its effect and not yet committed
  rules,     \* tool -> effects of the user's approval rules
  exec,      \* what the execution in each slot has in memory
  performed, \* history: how often each key was carried out
  allowed,   \* history: the keys the user approved
  overwrote, \* history: the keys an answer wrote when they were no longer intended
  events

vars == <<run, effects, order, cards, answering, rules, exec, performed, allowed, overwrote,
          events>>
ledger == <<effects, order>>
user == <<cards, answering, rules, allowed, overwrote>>

\* A call's key: the request and its occurrence in the execution.
Keys == Requests \X (0..MaxCalls - 1)
NoKey == <<>>
NoAnswer == [key |-> NoKey, answer |-> "deny"]

Settled == {"completed", "denied", "uncertain"}
EffectStatus == {"absent", "intended", "approved", "executing"} \cup Settled
\* A judge that fails counts as one that asks.
Reviews == {"none", "pass", "ask"}
Effects == [status : EffectStatus, review : Reviews]

ActiveRun == {"queued", "running", "waiting_input"}
Ended == {"completed", "failed", "cancelled"}
Runs == [status : ActiveRun \cup Ended, owner : Slots \cup {Nobody}]

RuleSets == [Tools -> SUBSET {"always_allow", "require_approval"}]

\* pc: between calls (turn), then the steps of a call.  queue: the approved
\* requests still to be replayed.  seen: the row's status when the call found
\* it, "absent" if the call made it.
Execs == [pc : {"idle", "turn", "review", "gate", "perform", "finish"},
          paused : BOOLEAN, queue : Seq(Requests), counts : [Requests -> 0..MaxCalls],
          key : Keys \cup {NoKey}, seen : EffectStatus, gate : {"ask", "allow"},
          claimed : BOOLEAN, rules : RuleSets]

Idle ==
  [pc |-> "idle", paused |-> FALSE, queue |-> <<>>, counts |-> [q \in Requests |-> 0],
   key |-> NoKey, seen |-> "absent", gate |-> "ask", claimed |-> FALSE,
   rules |-> [t \in Tools |-> {}]]

Owner(s) == run.status = "running" /\ run.owner = s

-----------------------------------------------------------------------------
(* Executions of the run.                                                  *)

\* The approved requests, in the order their rows were made.
Replays ==
  LET approved == SelectSeq(order, LAMBDA k : effects[k].status = "approved")
  IN  [i \in DOMAIN approved |-> approved[i][1]]

\* A job claims the run: queued, waiting with a job left over or steered, or
\* running under a lease that has run out.
StartTurn(s) ==
  /\ exec[s].pc = "idle"
  /\ \/ run.status = "queued" /\ UNCHANGED events
     \/ /\ run.status \in {"waiting_input", "running"}
        /\ events < MaxEvents /\ events' = events + 1
  /\ run' = [status |-> "running", owner |-> s]
  /\ exec' = [exec EXCEPT ![s] = [Idle EXCEPT !.pc = "turn", !.queue = Replays, !.rules = rules]]
  /\ UNCHANGED <<ledger, user, performed>>

\* The process dies, or an execution that paused or lost the run goes away.
Leave(s) ==
  /\ exec[s].pc # "idle"
  /\ exec' = [exec EXCEPT ![s] = Idle]
  /\ UNCHANGED <<run, ledger, user, performed, events>>

\* The end of the turn, which insists that every approval was replayed.
EndTurn(s) ==
  /\ exec[s].pc = "turn" /\ ~exec[s].paused /\ Owner(s) /\ answering = NoAnswer
  /\ \E outcome \in {"completed", "failed"} :
       /\ outcome = "completed" => exec[s].queue = <<>>
       /\ run' = [status |-> outcome, owner |-> Nobody]
  /\ exec' = [exec EXCEPT ![s] = Idle]
  /\ UNCHANGED <<ledger, user, performed, events>>

Stop ==
  /\ run.status \in ActiveRun /\ answering = NoAnswer
  /\ run' = [run EXCEPT !.status = "cancelled"]
  /\ UNCHANGED <<ledger, user, exec, performed, events>>

-----------------------------------------------------------------------------
(* A tool call.                                                            *)

\* How a call is decided: by the rules, or else by the judge or the default.
Plan(s, t) ==
  IF t \in Mandatory \/ "require_approval" \in exec[s].rules[t] THEN "ask"
  ELSE IF "always_allow" \in exec[s].rules[t] THEN "allow"
  ELSE IF AutoReview /\ t \in Consequential THEN "judge"
  ELSE "allow"

\* What the judge said, as the gate: whatever is not a pass asks.
Judged(review) == IF review = "pass" THEN "allow" ELSE "ask"

\* While approvals are to be replayed only their tool may be called, and it is
\* called with the arguments that were approved.
Replayed(s, q) == IF exec[s].queue = <<>> THEN q ELSE Head(exec[s].queue)

InOrder(s, q) == exec[s].queue # <<>> => ToolOf[Head(exec[s].queue)] = ToolOf[q]

\* A call is proposed: its row is found, or made.
Call(s, q) ==
  LET e == exec[s]
      request == Replayed(s, q)
      key == <<request, e.counts[request]>>
      row == effects[key]
      plan == Plan(s, ToolOf[request])
  IN  /\ e.pc = "turn" /\ InOrder(s, q) /\ e.counts[request] < MaxCalls
      /\ IF row.status = "absent"
         THEN /\ Len(order) < MaxRows
              /\ effects' = [effects EXCEPT ![key].status = "intended"]
              /\ order' = Append(order, key)
         ELSE UNCHANGED ledger
      /\ exec' = [exec EXCEPT ![s] =
           [e EXCEPT !.pc = IF plan = "judge" /\ row.review = "none" THEN "review" ELSE "gate",
                     !.queue = IF e.queue = <<>> THEN <<>> ELSE Tail(e.queue),
                     !.counts[request] = @ + 1, !.key = key, !.seen = row.status,
                     !.gate = IF plan = "judge" THEN Judged(row.review) ELSE plan,
                     !.claimed = FALSE]]
      /\ UNCHANGED <<run, user, performed, events>>

\* The judge answers after a while, and its decision is kept with the row.
Review(s) ==
  \E review \in Reviews \ {"none"} :
    /\ exec[s].pc = "review"
    /\ effects' = [effects EXCEPT ![exec[s].key].review = review]
    /\ exec' = [exec EXCEPT ![s].pc = "gate", ![s].gate = Judged(review)]
    /\ UNCHANGED <<run, order, user, performed, events>>

Back(s) == exec' = [exec EXCEPT ![s].pc = "turn", ![s].key = NoKey]

\* A call whose outcome is known returns it.
ReturnOutcome(s) ==
  /\ exec[s].pc = "gate" /\ exec[s].seen \in Settled
  /\ Back(s)
  /\ UNCHANGED <<run, ledger, user, performed, events>>

\* Mutant: an interrupted execution is tried again.
Retriable(status) == IF status = "executing" THEN "approved" ELSE status

\* An execution somebody began and did not end has an uncertain outcome.
Interrupted(status) == IF status = "executing" THEN "uncertain" ELSE status

SettleUncertain(s) ==
  /\ exec[s].pc = "gate" /\ exec[s].seen = "executing"
  /\ effects' = [effects EXCEPT ![exec[s].key].status = Interrupted(@)]
  /\ Back(s)
  /\ UNCHANGED <<run, order, user, performed, events>>

\* Mutant: the claim trusts the status the call has read.
ClaimableAsRead(status, from) == status \in EffectStatus

Claimable(status, from) == status = from

\* The row is claimed if it is still as the call found it; a call that comes
\* too late settles or returns what it finds.
Claim(s, from) ==
  LET k == exec[s].key
  IN  /\ IF Claimable(effects[k].status, from)
         THEN /\ effects' = [effects EXCEPT ![k].status = "executing"]
              /\ exec' = [exec EXCEPT ![s].pc = "perform", ![s].claimed = TRUE]
         ELSE /\ effects' = [effects EXCEPT ![k].status = Interrupted(@)]
              /\ Back(s)
      /\ UNCHANGED <<run, order, user, performed, events>>

ClaimApproved(s) == exec[s].pc = "gate" /\ exec[s].seen = "approved" /\ Claim(s, "approved")

\* Mutant: a row that is there has been asked for.
FoundMayClaim(s) ==
  \/ exec[s].seen = "intended"
  \/ /\ exec[s].seen = "absent" /\ exec[s].gate = "allow"
     /\ ToolOf[exec[s].key[1]] \in Consequential

\* Without an approval a row is claimed when it was found and need not be asked
\* for, or is new and the gate lets a consequential call through.
MayClaim(s) ==
  /\ exec[s].gate = "allow"
  /\ \/ exec[s].seen = "intended"
     \/ exec[s].seen = "absent" /\ ToolOf[exec[s].key[1]] \in Consequential

ClaimIntended(s) == exec[s].pc = "gate" /\ MayClaim(s) /\ Claim(s, "intended")

\* A new call that nobody has to approve is carried out without a claim.
PassUnclaimed(s) ==
  /\ exec[s].pc = "gate" /\ exec[s].gate = "allow" /\ exec[s].seen = "absent"
  /\ ToolOf[exec[s].key[1]] \notin Consequential
  /\ exec' = [exec EXCEPT ![s].pc = "perform"]
  /\ UNCHANGED <<run, ledger, user, performed, events>>

\* The user is asked, by the execution that owns the run; another one leaves
\* without a card.
RequestApproval(s) ==
  /\ exec[s].pc = "gate" /\ exec[s].gate = "ask" /\ exec[s].seen \in {"absent", "intended"}
  /\ IF Owner(s)
     THEN /\ answering = NoAnswer
          /\ run' = [status |-> "waiting_input", owner |-> Nobody]
          /\ cards' = cards \cup {exec[s].key}
     ELSE UNCHANGED <<run, cards>>
  /\ exec' = [exec EXCEPT ![s].pc = "turn", ![s].key = NoKey, ![s].paused = TRUE]
  /\ UNCHANGED <<ledger, answering, rules, allowed, overwrote, performed, events>>

Perform(s) ==
  /\ exec[s].pc = "perform"
  /\ performed' = [performed EXCEPT ![exec[s].key] = @ + 1]
  /\ exec' = [exec EXCEPT ![s].pc = "finish"]
  /\ UNCHANGED <<run, ledger, user, events>>

Finishes(s, status) == status = IF exec[s].claimed THEN "executing" ELSE "intended"

\* The outcome is recorded if the row is still as the call left it.
Finish(s) ==
  /\ exec[s].pc = "finish"
  /\ effects' = [effects EXCEPT ![exec[s].key].status =
                   IF Finishes(s, @) THEN "completed" ELSE @]
  /\ Back(s)
  /\ UNCHANGED <<run, order, user, performed, events>>

-----------------------------------------------------------------------------
(* The user.                                                               *)

\* The answer's transaction finds the run waiting and the effect intended.
ReadAnswer(k, answer) ==
  /\ answering = NoAnswer /\ k \in cards
  /\ run.status = "waiting_input" /\ effects[k].status = "intended"
  /\ answering' = [key |-> k, answer |-> answer]
  /\ UNCHANGED <<run, ledger, cards, rules, allowed, overwrote, exec, performed, events>>

Decision(answer) == IF answer = "deny" THEN "denied" ELSE "approved"

\* It queues the run, and writes the effect without looking at it again; a run
\* that does not wait any more voids it.
CommitAnswer ==
  LET k == answering.key
  IN  /\ answering # NoAnswer /\ answering' = NoAnswer
      /\ IF run.status = "waiting_input"
         THEN /\ run' = [status |-> "queued", owner |-> Nobody]
              /\ effects' = [effects EXCEPT ![k].status = Decision(answering.answer)]
              /\ cards' = cards \ {k}
              /\ rules' = IF answering.answer = "always"
                          THEN [rules EXCEPT ![ToolOf[k[1]]] = @ \cup {"always_allow"}]
                          ELSE rules
              /\ allowed' = IF answering.answer = "deny" THEN allowed ELSE allowed \cup {k}
              /\ overwrote' = IF effects[k].status = "intended" THEN overwrote
                                                                ELSE overwrote \cup {k}
         ELSE UNCHANGED <<run, effects, cards, rules, allowed, overwrote>>
      /\ UNCHANGED <<order, exec, performed, events>>

-----------------------------------------------------------------------------
Init ==
  /\ run = [status |-> "queued", owner |-> Nobody]
  /\ effects = [k \in Keys |-> [status |-> "absent", review |-> "none"]]
  /\ order = <<>> /\ cards = {} /\ answering = NoAnswer
  /\ rules = [t \in Tools |-> {}]
  /\ exec = [s \in Slots |-> Idle]
  /\ performed = [k \in Keys |-> 0] /\ allowed = {} /\ overwrote = {} /\ events = 0

Step(s) ==
  \/ StartTurn(s) \/ EndTurn(s) \/ (\E q \in Requests : Call(s, q))
  \/ Review(s) \/ ReturnOutcome(s) \/ SettleUncertain(s) \/ ClaimApproved(s)
  \/ ClaimIntended(s) \/ PassUnclaimed(s) \/ RequestApproval(s)
  \/ Perform(s) \/ Finish(s)

Next ==
  \/ \E s \in Slots : Step(s) \/ Leave(s)
  \/ Stop \/ CommitAnswer
  \/ \E k \in cards, answer \in {"allow", "always", "deny"} : ReadAnswer(k, answer)

Spec == Init /\ [][Next]_vars

-----------------------------------------------------------------------------
(* Properties.                                                             *)

\* The shape of every variable; the rows are exactly the ones in the order of
\* their creation.
TypeOK ==
  /\ run \in Runs
  /\ effects \in [Keys -> Effects]
  /\ order \in Seq(Keys)
  /\ \A k \in Keys : effects[k].status # "absent" <=> k \in {order[i] : i \in DOMAIN order}
  /\ cards \subseteq Keys /\ allowed \subseteq Keys /\ overwrote \subseteq Keys
  /\ answering \in [key : Keys \cup {NoKey}, answer : {"allow", "always", "deny"}]
  /\ rules \in RuleSets
  /\ \A s \in Slots : exec[s] \in Execs
  /\ performed \in [Keys -> Nat]
  /\ events \in 0..MaxEvents

\* Calls that are claimed before they are carried out.
Claimed(k) == ToolOf[k[1]] \in Consequential

\* A consequential call is carried out at most once, however often its turn is
\* repeated and however late an execution finds out that it has lost the run;
\* unless the user's answer overwrote the row while such an execution had it.
AtMostOnce == \A k \in Keys : Claimed(k) /\ k \notin overwrote => performed[k] <= 1

\* What has to be asked for is done only after the user approved exactly this
\* call, its arguments included.
Consent == \A k \in Keys : ToolOf[k[1]] \in Mandatory /\ performed[k] > 0 => k \in allowed

\* The rows tell the truth about the outside: what is completed was done, what
\* is denied or still to be decided was not, and only a row that is executing
\* or uncertain leaves it open.
LedgerTrue ==
  \A k \in Keys : Claimed(k) /\ k \notin overwrote =>
    /\ effects[k].status = "completed" => performed[k] = 1
    /\ effects[k].status \in {"absent", "intended", "approved", "denied"} => performed[k] = 0

\* A run does not complete before everything the user approved has been
\* replayed, as the end of the turn asserts.
AllReplayed == run.status = "completed" => \A k \in Keys : effects[k].status # "approved"
=============================================================================
