------------------------- MODULE EffectLedgerProofs -------------------------
(***************************************************************************)
(* What EffectLedger promises of the calls that are claimed, and of the    *)
(* calls the user must approve, proved for any executions, requests, tools *)
(* and bounds.                                                             *)
(*                                                                         *)
(* The argument of AtMostOnce: an execution holds a key from its claim to  *)
(* the end of the call.  A row that is not yet claimed is held by nobody   *)
(* and was never carried out, a claim is the only step that makes a row    *)
(* executing, and no row goes back from there unless an answer that has    *)
(* read it earlier overwrites it.  So at most one execution ever holds a   *)
(* key, and it carries the call out once.                                  *)
(***************************************************************************)
EXTENDS EffectLedger, TLAPS

-----------------------------------------------------------------------------
(* Shapes.                                                                 *)

\* The fields of a record that no argument below looks into are left as they
\* are.
IsExec(e) ==
  e \in [pc : {"idle", "turn", "review", "gate", "perform", "finish"},
         paused : BOOLEAN, queue : {e.queue}, counts : {e.counts}, key : {e.key},
         seen : {e.seen}, gate : {"ask", "allow"}, claimed : BOOLEAN, rules : {e.rules}]

IsRow(row) == row \in [status : {row.status}, review : {row.review}]

Shaped ==
  /\ DOMAIN effects = Keys /\ effects = [k \in Keys |-> effects[k]]
  /\ \A k \in Keys : IsRow(effects[k])
  /\ exec = [s \in Slots |-> exec[s]] /\ \A s \in Slots : IsExec(exec[s])
  /\ performed \in [Keys -> Nat]

LEMMA ExecExcept ==
  ASSUME NEW e, IsExec(e)
  PROVE  /\ \A pc \in {"idle", "turn", "review", "gate", "perform", "finish"} :
              IsExec([e EXCEPT !.pc = pc])
         /\ \A key : IsExec([e EXCEPT !.pc = "turn", !.key = key])
         /\ \A key : IsExec([e EXCEPT !.pc = "turn", !.key = key, !.paused = TRUE])
         /\ \A gate \in {"ask", "allow"} : IsExec([e EXCEPT !.pc = "gate", !.gate = gate])
         /\ IsExec([e EXCEPT !.pc = "perform", !.claimed = TRUE])
BY DEF IsExec

LEMMA IdleExec ==
  /\ IsExec(Idle)
  /\ \A queue, rs : IsExec([Idle EXCEPT !.pc = "turn", !.queue = queue, !.rules = rs])
BY DEF IsExec, Idle

\* What one step does to one execution, in the fields the arguments look at.
LEMMA StepShape ==
  ASSUME Shaped, NEW s \in Slots, Step(s) \/ Leave(s)
  PROVE  /\ \A t \in Slots \ {s} : exec'[t] = exec[t]
         /\ exec' = [t \in Slots |-> exec'[t]] /\ IsExec(exec'[s])
<1> DEFINE Only(e) == exec' = [exec EXCEPT ![s] = e]
<1>1. ASSUME NEW e, IsExec(e), Only(e)
      PROVE  /\ \A t \in Slots \ {s} : exec'[t] = exec[t]
             /\ exec' = [t \in Slots |-> exec'[t]] /\ IsExec(exec'[s])
  BY <1>1 DEF Shaped
<1>2. IsExec(exec[s])
  BY DEF Shaped
<1> DEFINE Turned == [exec[s] EXCEPT !.pc = "turn", !.key = NoKey]
<1>3. IsExec(Turned) /\ (Back(s) => Only(Turned))
  BY <1>2, ExecExcept DEF Back
<1> USE DEF Only
<1>4. CASE StartTurn(s)
  BY <1>1, <1>4, IdleExec DEF StartTurn
<1>5. CASE EndTurn(s) \/ Leave(s)
  BY <1>1, <1>5, IdleExec DEF EndTurn, Leave
<1>6. CASE \E q \in Requests : Call(s, q)
  <2>1. PICK q \in Requests : Call(s, q)
    BY <1>6
  <2> DEFINE request == Replayed(s, q)
             key == <<request, exec[s].counts[request]>>
             plan == Plan(s, ToolOf[request])
             pc == IF plan = "judge" /\ effects[key].review = "none" THEN "review" ELSE "gate"
             queue == IF exec[s].queue = <<>> THEN <<>> ELSE Tail(exec[s].queue)
             gate == IF plan = "judge" THEN Judged(effects[key].review) ELSE plan
             e == [exec[s] EXCEPT !.pc = pc, !.queue = queue, !.counts[request] = @ + 1,
                                  !.key = key, !.seen = effects[key].status, !.gate = gate,
                                  !.claimed = FALSE]
  <2>2. exec' = [exec EXCEPT ![s] = e]
    BY <2>1 DEF Call
  <2>3. pc \in {"review", "gate"} /\ gate \in {"ask", "allow"}
    BY DEF Plan, Judged
  <2> HIDE DEF request, key, plan, pc, queue, gate
  <2>4. IsExec(e)
    BY <1>2, <2>3 DEF IsExec
  <2> QED
    BY <1>1, <2>2, <2>4
<1>7. CASE Review(s)
  <2>1. PICK review \in Reviews \ {"none"} :
          exec' = [exec EXCEPT ![s] = [exec[s] EXCEPT !.pc = "gate", !.gate = Judged(review)]]
    BY <1>2, <1>7 DEF Review, Shaped
  <2>2. Judged(review) \in {"ask", "allow"}
    BY DEF Judged
  <2> QED
    BY <1>1, <1>2, <2>1, <2>2, ExecExcept
<1>8. CASE ReturnOutcome(s) \/ SettleUncertain(s) \/ Finish(s)
  BY <1>1, <1>3, <1>8 DEF ReturnOutcome, SettleUncertain, Finish
<1>9. CASE ClaimApproved(s) \/ ClaimIntended(s)
  <2>1. \/ Only(Turned) \/ Only([exec[s] EXCEPT !.pc = "perform", !.claimed = TRUE])
    BY <1>2, <1>3, <1>9 DEF ClaimApproved, ClaimIntended, Claim, Shaped
  <2> QED
    BY <1>1, <1>2, <1>3, <2>1, ExecExcept
<1>10. CASE PassUnclaimed(s) \/ Perform(s)
  BY <1>1, <1>2, <1>10, ExecExcept DEF PassUnclaimed, Perform, Shaped
<1>11. CASE RequestApproval(s)
  <2>1. Only([exec[s] EXCEPT !.pc = "turn", !.key = NoKey, !.paused = TRUE])
    BY <1>2, <1>11 DEF RequestApproval, Shaped
  <2> QED
    BY <1>1, <1>2, <2>1, ExecExcept
<1> QED
  BY <1>4, <1>5, <1>6, <1>7, <1>8, <1>9, <1>10, <1>11 DEF Step

LEMMA RowExcept ==
  ASSUME NEW row, IsRow(row), NEW value
  PROVE  IsRow([row EXCEPT !.status = value]) /\ IsRow([row EXCEPT !.review = value])
BY DEF IsRow

\* A write of one row's status or review leaves rows.
LEMMA RowsExcept ==
  ASSUME Shaped, NEW key, NEW value,
         \/ effects' = [effects EXCEPT ![key].status = value]
         \/ effects' = [effects EXCEPT ![key].review = value]
  PROVE  effects' = [k \in Keys |-> effects'[k]] /\ \A k \in Keys : IsRow(effects'[k])
<1>1. effects = [k \in Keys |-> effects[k]] /\ \A k \in Keys : IsRow(effects[k])
  BY DEF Shaped
<1>2. effects' = [k \in Keys |-> effects'[k]]
  BY <1>1
<1>3. ASSUME NEW k \in Keys PROVE IsRow(effects'[k])
  <2>1. \/ effects'[k] = effects[k]
        \/ effects'[k] = [effects[k] EXCEPT !.status = value]
        \/ effects'[k] = [effects[k] EXCEPT !.review = value]
    BY <1>1
  <2>2. IsRow(effects[k])
    BY <1>1
  <2> QED
    BY <2>1, <2>2, RowExcept
<1> QED
  BY <1>2, <1>3

LEMMA StepShaped ==
  ASSUME Shaped, NEW s \in Slots, Step(s) \/ Leave(s)
  PROVE  Shaped'
<1> DEFINE Status(k, e) == [effects EXCEPT ![k].status = e]
           Rowed == effects' = [k \in Keys |-> effects'[k]] /\ \A k \in Keys : IsRow(effects'[k])
<1>1. exec' = [t \in Slots |-> exec'[t]] /\ \A t \in Slots : IsExec(exec'[t])
  BY StepShape DEF Shaped
<1>2. ASSUME NEW key, NEW value, \/ effects' = [effects EXCEPT ![key].status = value]
                                 \/ effects' = [effects EXCEPT ![key].review = value]
      PROVE  Rowed
  BY <1>2, RowsExcept
<1>3. Rowed
  <2>1. CASE UNCHANGED effects
    BY <2>1 DEF Shaped
  <2>2. CASE \E q \in Requests : Call(s, q)
    BY <1>2, <2>1, <2>2 DEF Call, ledger
  <2>3. CASE Review(s)
    BY <1>2, <2>3 DEF Review
  <2>4. CASE SettleUncertain(s) \/ Finish(s)
    BY <1>2, <2>4 DEF SettleUncertain, Finish
  <2>5. CASE ClaimApproved(s) \/ ClaimIntended(s)
    BY <1>2, <2>5 DEF ClaimApproved, ClaimIntended, Claim
  <2> QED
    BY <2>1, <2>2, <2>3, <2>4, <2>5
    DEF Step, Leave, StartTurn, EndTurn, ReturnOutcome, PassUnclaimed, RequestApproval, Perform, ledger
<1>4. performed' \in [Keys -> Nat]
  <2>1. CASE Perform(s)
    <3>1. \A k \in Keys : performed'[k] \in Nat
      BY <2>1 DEF Perform, Shaped
    <3>2. performed' = [k \in Keys |-> performed'[k]]
      BY <2>1 DEF Perform, Shaped
    <3> QED
      BY <3>1, <3>2
  <2> QED
    BY <2>1
    DEF Shaped, Step, Leave, StartTurn, EndTurn, Call, Review, ReturnOutcome, SettleUncertain,
        ClaimApproved, ClaimIntended, Claim, PassUnclaimed, RequestApproval, Finish
<1> QED
  BY <1>1, <1>3, <1>4 DEF Shaped

LEMMA UserShaped ==
  ASSUME Shaped, \/ Stop \/ CommitAnswer
                 \/ \E k \in cards, answer \in {"allow", "always", "deny"} : ReadAnswer(k, answer)
  PROVE  Shaped'
<1>1. exec' = exec /\ performed' = performed
  BY DEF Stop, CommitAnswer, ReadAnswer
<1>2. CASE effects' = effects
  BY <1>1, <1>2 DEF Shaped, IsExec, IsRow
<1>3. CASE CommitAnswer /\ effects' # effects
  <2>1. PICK key, status : effects' = [effects EXCEPT ![key].status = status]
    BY <1>3 DEF CommitAnswer
  <2>2. effects' = [k \in Keys |-> effects'[k]] /\ \A k \in Keys : IsRow(effects'[k])
    BY <2>1, RowsExcept
  <2> QED
    BY <1>1, <2>2 DEF Shaped
<1> QED
  BY <1>2, <1>3 DEF Stop, ReadAnswer, ledger

-----------------------------------------------------------------------------
(* Calls that are claimed.                                                 *)

\* From its claim to the end of the call, an execution holds the key.
Holds(s, k) == exec[s].pc \in {"perform", "finish"} /\ exec[s].key = k

Counted(k) ==
  /\ \A s, t \in Slots : Holds(s, k) /\ Holds(t, k) => s = t
  /\ \A s \in Slots : Holds(s, k) =>
       exec[s].claimed /\ performed[k] = IF exec[s].pc = "perform" THEN 0 ELSE 1
  /\ effects[k].status \in {"absent", "intended", "approved", "denied"} =>
       performed[k] = 0 /\ \A s \in Slots : ~Holds(s, k)
  /\ effects[k].status = "completed" => performed[k] = 1 /\ \A s \in Slots : ~Holds(s, k)
  /\ performed[k] \in {0, 1}

CountInv == \A k \in Keys : Claimed(k) /\ k \notin overwrote => Counted(k)

\* A step that leaves the row and the count of a key as they are, and takes no
\* hold of it.
LEMMA Untouched ==
  ASSUME NEW k \in Keys, Counted(k), NEW s \in Slots,
         effects'[k].status = effects[k].status, performed'[k] = performed[k],
         \A t \in Slots \ {s} : exec'[t] = exec[t],
         exec'[s].pc \notin {"perform", "finish"} \/ exec'[s] = exec[s]
  PROVE  Counted(k)'
BY DEF Counted, Holds

LEMMA StepCounted ==
  ASSUME Shaped, NEW s \in Slots, Step(s) \/ Leave(s),
         NEW k \in Keys, Claimed(k), Counted(k)
  PROVE  Counted(k)'
<1>1. \A t \in Slots \ {s} : exec'[t] = exec[t]
  BY StepShape
<1>2. IsExec(exec[s]) /\ exec[s] = exec[s] /\ s \in DOMAIN exec /\ k \in DOMAIN effects
  BY DEF Shaped
<1> DEFINE Quiet == exec'[s].pc \notin {"perform", "finish"} \/ exec'[s] = exec[s]
<1>3. ASSUME Quiet, effects'[k].status = effects[k].status, performed'[k] = performed[k]
      PROVE  Counted(k)'
  BY <1>1, <1>3, Untouched
<1> HIDE DEF Quiet
<1>4. CASE StartTurn(s) \/ EndTurn(s) \/ Leave(s) \/ ReturnOutcome(s) \/ RequestApproval(s)
  <2>1. exec'[s].pc \in {"idle", "turn"} /\ effects' = effects /\ performed' = performed
    <3>1. CASE EndTurn(s) \/ Leave(s)
      BY <1>2, <3>1 DEF EndTurn, Leave, ledger, Idle
    <3>2. CASE ReturnOutcome(s)
      BY <1>2, <3>2 DEF ReturnOutcome, Back, ledger, IsExec
    <3>3. CASE RequestApproval(s)
      <4>1. exec'[s] = [exec[s] EXCEPT !.pc = "turn", !.key = NoKey, !.paused = TRUE]
        BY <1>2, <3>3 DEF RequestApproval
      <4> QED
        BY <1>2, <3>3, <4>1 DEF RequestApproval, ledger, IsExec
    <3>4. CASE StartTurn(s)
      <4>1. PICK queue : exec'[s] = [Idle EXCEPT !.pc = "turn", !.queue = queue, !.rules = rules]
        BY <1>2, <3>4 DEF StartTurn
      <4> QED
        BY <3>4, <4>1 DEF StartTurn, Idle, ledger
    <3> QED
      BY <1>4, <3>1, <3>2, <3>3, <3>4
  <2> QED
    BY <1>3, <2>1 DEF Quiet
<1>5. ASSUME NEW q \in Requests, Call(s, q) PROVE Counted(k)'
  <2> DEFINE key == <<Replayed(s, q), exec[s].counts[Replayed(s, q)]>>
  <2>1. /\ exec'[s].pc \in {"review", "gate"} /\ performed' = performed
        /\ \/ effects' = effects
           \/ /\ effects[key].status = "absent"
              /\ effects' = [effects EXCEPT ![key].status = "intended"]
    BY <1>2, <1>5 DEF Call, ledger, IsExec, Shaped
  <2> HIDE DEF key
  <2>2. CASE effects' = effects \/ k # key
    <3>1. effects'[k] = effects[k]
      BY <2>1, <2>2 DEF Shaped
    <3> QED
      BY <1>3, <2>1, <3>1 DEF Quiet
  <2>3. CASE effects' # effects /\ k = key
    <3>1. effects[k].status = "absent" /\ effects'[k].status = "intended"
      BY <2>1, <2>3 DEF Shaped, IsRow
    <3> QED
      BY <1>1, <2>1, <3>1 DEF Counted, Holds
  <2> QED
    BY <2>2, <2>3
<1>6. CASE Review(s)
  <2>1. exec'[s].pc = "gate" /\ performed' = performed /\ effects'[k].status = effects[k].status
    BY <1>2, <1>6 DEF Review, IsExec, IsRow, Shaped
  <2> QED
    BY <1>3, <2>1 DEF Quiet
<1>7. ASSUME exec[s].pc = "gate", exec'[s].pc = "turn", performed' = performed,
             effects' = [effects EXCEPT ![exec[s].key].status = Interrupted(@)]
      PROVE  Counted(k)'
  <2>1. CASE effects'[k].status = effects[k].status
    BY <1>3, <1>7, <2>1 DEF Quiet
  <2>2. CASE effects'[k].status # effects[k].status
    <3>1. effects[k].status = "executing" /\ effects'[k].status = "uncertain"
      BY <1>7, <2>2 DEF Interrupted, Shaped, IsRow
    <3> QED
      BY <1>1, <1>7, <3>1 DEF Counted, Holds
  <2> QED
    BY <2>1, <2>2
<1>8. CASE SettleUncertain(s)
  <2>1. /\ exec[s].pc = "gate" /\ exec'[s].pc = "turn" /\ performed' = performed
        /\ effects' = [effects EXCEPT ![exec[s].key].status = Interrupted(@)]
    BY <1>2, <1>8 DEF SettleUncertain, Back, IsExec, Shaped
  <2> QED
    BY <1>7, <2>1
<1>9. ASSUME NEW from \in {"approved", "intended"}, exec[s].pc = "gate", Claim(s, from)
      PROVE  Counted(k)'
  <2>1. CASE ~Claimable(effects[exec[s].key].status, from)
    <3>1. /\ exec'[s].pc = "turn" /\ performed' = performed
          /\ effects' = [effects EXCEPT ![exec[s].key].status = Interrupted(@)]
      <4>1. /\ Back(s) /\ performed' = performed
            /\ effects' = [effects EXCEPT ![exec[s].key].status = Interrupted(@)]
        BY <1>9, <2>1 DEF Claim
      <4>2. exec'[s].pc = "turn"
        BY <1>2, <4>1 DEF Back, IsExec
      <4> QED
        BY <4>1, <4>2
    <3> QED
      BY <1>7, <1>9, <3>1
  <2>2. CASE Claimable(effects[exec[s].key].status, from)
    <3>1. /\ exec' = [exec EXCEPT ![s].pc = "perform", ![s].claimed = TRUE]
          /\ effects' = [effects EXCEPT ![exec[s].key].status = "executing"]
          /\ performed' = performed
      BY <1>9, <2>2 DEF Claim
    <3>2. exec'[s].pc = "perform" /\ exec'[s].claimed /\ exec'[s].key = exec[s].key
      BY <1>2, <3>1 DEF IsExec, Shaped
    <3>3. CASE k = exec[s].key
      <4>1. performed[k] = 0 /\ \A t \in Slots : ~Holds(t, k)
        BY <1>9, <2>2, <3>3 DEF Claimable, Counted
      <4>2. effects'[k].status = "executing"
        BY <3>1, <3>3 DEF Shaped, IsRow
      <4>3. performed' = performed
        BY <3>1
      <4> QED
        BY <1>1, <3>2, <4>1, <4>2, <4>3 DEF Counted, Holds
    <3>4. CASE k # exec[s].key
      <4>1. effects'[k] = effects[k] /\ performed' = performed
        BY <3>1, <3>4 DEF Shaped
      <4>2. \A t \in Slots : Holds(t, k)' => t # s /\ Holds(t, k) /\ exec'[t] = exec[t]
        BY <1>1, <3>2, <3>4 DEF Holds
      <4> QED
        BY <4>1, <4>2 DEF Counted
    <3> QED
      BY <3>3, <3>4
  <2> QED
    BY <2>1, <2>2
<1>10. CASE ClaimApproved(s) \/ ClaimIntended(s)
  BY <1>9, <1>10 DEF ClaimApproved, ClaimIntended
<1>11. CASE PassUnclaimed(s)
  <2>1. /\ exec'[s].pc = "perform" /\ exec'[s].key = exec[s].key /\ exec[s].key # k
        /\ effects' = effects /\ performed' = performed /\ exec[s].pc = "gate"
    BY <1>2, <1>11 DEF PassUnclaimed, ledger, IsExec, Shaped, Claimed
  <2> QED
    BY <1>1, <2>1 DEF Counted, Holds
<1>12. CASE Perform(s)
  <2>1. /\ exec[s].pc = "perform" /\ exec'[s].pc = "finish" /\ exec'[s].key = exec[s].key
        /\ exec'[s].claimed = exec[s].claimed /\ effects' = effects
        /\ performed'[k] = IF k = exec[s].key THEN performed[k] + 1 ELSE performed[k]
    BY <1>2, <1>12 DEF Perform, ledger, IsExec, Shaped
  <2>2. CASE k = exec[s].key
    <3>1. performed[k] = 0 /\ performed'[k] = 1 /\ exec[s].claimed /\ Holds(s, k)
      BY <2>1, <2>2 DEF Counted, Holds
    <3>2. effects'[k].status \notin {"absent", "intended", "approved", "denied", "completed"}
      BY <2>1, <3>1 DEF Counted
    <3>3. \A t \in Slots \ {s} : ~Holds(t, k)'
      <4>1. \A t \in Slots \ {s} : ~Holds(t, k)
        BY <3>1 DEF Counted
      <4> QED
        BY <1>1, <4>1 DEF Holds
    <3>4. exec'[s].claimed /\ exec'[s].pc = "finish"
      BY <2>1, <3>1
    <3>5. \A t, u \in Slots : Holds(t, k)' /\ Holds(u, k)' => t = u
      BY <3>3
    <3>6. \A t \in Slots : Holds(t, k)' =>
            exec'[t].claimed /\ performed'[k] = IF exec'[t].pc = "perform" THEN 0 ELSE 1
      BY <3>1, <3>3, <3>4
    <3> QED
      BY <3>1, <3>2, <3>5, <3>6 DEF Counted
  <2>3. CASE k # exec[s].key
    BY <1>1, <2>1, <2>3 DEF Counted, Holds
  <2> QED
    BY <2>2, <2>3
<1>13. CASE Finish(s)
  <2>1. /\ exec[s].pc = "finish" /\ exec'[s].pc = "turn" /\ performed' = performed
        /\ effects' = [effects EXCEPT ![exec[s].key].status =
                         IF Finishes(s, @) THEN "completed" ELSE @]
    BY <1>2, <1>13 DEF Finish, Back, IsExec, Shaped
  <2>2. CASE effects'[k].status = effects[k].status
    BY <1>3, <2>1, <2>2 DEF Quiet
  <2>3. CASE effects'[k].status # effects[k].status
    <3>1. k = exec[s].key /\ effects'[k].status = "completed"
      BY <2>1, <2>3 DEF Shaped, IsRow
    <3>2. Holds(s, k) /\ performed[k] = 1 /\ \A t \in Slots \ {s} : ~Holds(t, k)
      BY <2>1, <3>1 DEF Counted, Holds
    <3> QED
      BY <1>1, <2>1, <3>1, <3>2 DEF Counted, Holds
  <2> QED
    BY <2>2, <2>3
<1> QED
  BY <1>4, <1>5, <1>6, <1>8, <1>10, <1>11, <1>12, <1>13 DEF Step

UserSteps ==
  \/ Stop \/ CommitAnswer
  \/ \E k \in cards, answer \in {"allow", "always", "deny"} : ReadAnswer(k, answer)

\* An answer decides the key it has read, which is still intended or counts as
\* overwritten.
LEMMA UserMeans ==
  ASSUME Shaped, UserSteps, NEW k \in Keys
  PROVE  /\ exec' = exec /\ performed' = performed /\ overwrote \subseteq overwrote'
         /\ allowed \subseteq allowed'
         /\ \/ effects'[k].status = effects[k].status
            \/ /\ effects[k].status # "intended" => k \in overwrote'
               /\ effects'[k].status \in {"approved", "denied"}
               /\ effects'[k].status = "approved" => k \in allowed'
<1>1. CASE Stop \/ \E c \in cards, answer \in {"allow", "always", "deny"} : ReadAnswer(c, answer)
  BY <1>1 DEF Stop, ReadAnswer, ledger, user
<1>2. CASE CommitAnswer
  <2> DEFINE decision == Decision(answering.answer)
  <2>1. exec' = exec /\ performed' = performed /\ overwrote \subseteq overwrote' /\ allowed \subseteq allowed'
    BY <1>2 DEF CommitAnswer
  <2>2. CASE run.status = "waiting_input" /\ k = answering.key
    <3>1. effects' = [effects EXCEPT ![k].status = decision]
      BY <1>2, <2>2 DEF CommitAnswer
    <3>2. /\ answering.answer # "deny" => k \in allowed'
          /\ effects[k].status # "intended" => k \in overwrote'
      BY <1>2, <2>2 DEF CommitAnswer
    <3>3. decision \in {"approved", "denied"} /\ (decision = "approved" => answering.answer # "deny")
      BY DEF Decision
    <3> HIDE DEF decision
    <3>4. effects'[k].status = decision
      BY <3>1 DEF Shaped, IsRow
    <3> QED
      BY <2>1, <3>2, <3>3, <3>4
  <2>3. CASE ~(run.status = "waiting_input" /\ k = answering.key)
    <3>1. \/ effects' = effects
          \/ answering.key # k /\ effects' = [effects EXCEPT ![answering.key].status = decision]
      BY <1>2, <2>3 DEF CommitAnswer
    <3> HIDE DEF decision
    <3>2. effects'[k] = effects[k]
      BY <3>1 DEF Shaped
    <3> QED
      BY <2>1, <3>2
  <2> QED
    BY <2>2, <2>3
<1> QED
  BY <1>1, <1>2 DEF UserSteps

LEMMA NextCounted == Shaped /\ CountInv /\ [Next]_vars => Shaped' /\ CountInv'
<1> SUFFICES ASSUME Shaped, CountInv, [Next]_vars PROVE Shaped' /\ CountInv'
  OBVIOUS
<1>1. CASE UNCHANGED vars
  BY <1>1 DEF vars, Shaped, IsExec, IsRow, CountInv, Counted, Holds, Claimed
<1>2. ASSUME NEW s \in Slots, Step(s) \/ Leave(s) PROVE Shaped' /\ CountInv'
  <2>1. overwrote' = overwrote
    BY <1>2 DEF Step, Leave, StartTurn, EndTurn, Call, Review, ReturnOutcome, SettleUncertain,
                ClaimApproved, ClaimIntended, Claim, PassUnclaimed, RequestApproval, Perform,
                Finish, user
  <2> QED
    BY <1>2, <2>1, StepShaped, StepCounted DEF CountInv, Claimed
<1>3. CASE UserSteps
  <2>1. ASSUME NEW k \in Keys, Claimed(k), k \notin overwrote' PROVE Counted(k)'
    BY <1>3, <2>1, UserMeans DEF CountInv, Counted, Holds
  <2> QED
    BY <1>3, <2>1, UserShaped DEF CountInv, UserSteps, Claimed
<1> QED
  BY <1>1, <1>2, <1>3 DEF Next, UserSteps

LEMMA InitCounted == Init => Shaped /\ CountInv
<1> SUFFICES ASSUME Init PROVE Shaped /\ CountInv
  OBVIOUS
<1>1. \A s \in Slots : exec[s] = Idle /\ exec[s].pc = "idle" /\ IsExec(exec[s])
  BY IdleExec DEF Init, Idle
<1>2. \A k \in Keys : effects[k] = [status |-> "absent", review |-> "none"] /\ performed[k] = 0
  BY DEF Init
<1>3. Shaped
  BY <1>1, <1>2 DEF Init, Shaped, IsRow
<1> QED
  BY <1>1, <1>2, <1>3 DEF CountInv, Counted, Holds

\* A consequential call is carried out at most once, whatever executions repeat it.
THEOREM CarriedOutOnce == Spec => []AtMostOnce
<1>1. Shaped /\ CountInv => AtMostOnce
  BY DEF CountInv, Counted, AtMostOnce
<1> QED
  BY <1>1, InitCounted, NextCounted, PTL DEF Spec

\* The rows of consequential calls tell whether they were carried out.
THEOREM RowsTellTruth == Spec => []LedgerTrue
<1>1. Shaped /\ CountInv => LedgerTrue
  BY DEF CountInv, Counted, LedgerTrue
<1> QED
  BY <1>1, InitCounted, NextCounted, PTL DEF Spec

-----------------------------------------------------------------------------
(* Calls that the user must approve.                                       *)

\* An approved row, a held key and a call carried out all go back to the
\* user's answer, and until then every call of the key is one that asks.
Allowing(k) ==
  /\ effects[k].status = "approved" \/ performed[k] > 0 \/ (\E s \in Slots : Holds(s, k))
       => k \in allowed
  /\ \A s \in Slots : exec[s].key = k /\ exec[s].pc \in {"review", "gate"} =>
       exec[s].pc = "gate" /\ exec[s].gate = "ask"

ConsentInv == \A k \in Keys : ToolOf[k[1]] \in Mandatory => Allowing(k)

LEMMA AllowingKept ==
  ASSUME NEW k \in Keys, Allowing(k), NEW s \in Slots, \A t \in Slots \ {s} : exec'[t] = exec[t],
         allowed' = allowed,
         effects'[k].status = "approved" => effects[k].status = "approved",
         performed'[k] > 0 => k \in allowed,
         exec'[s].pc \in {"perform", "finish"} /\ exec'[s].key = k => k \in allowed,
         exec'[s].pc \in {"review", "gate"} /\ exec'[s].key = k =>
           exec'[s].pc = "gate" /\ exec'[s].gate = "ask"
  PROVE  Allowing(k)'
BY DEF Allowing, Holds

\* A step of an execution approves nothing.
LEMMA NoApproval ==
  ASSUME Shaped, NEW s \in Slots, Step(s) \/ Leave(s), NEW k \in Keys,
         effects'[k].status = "approved"
  PROVE  effects[k].status = "approved"
<1>1. ASSUME NEW key, NEW status, status # "approved",
             effects' = [effects EXCEPT ![key].status = status]
      PROVE  effects[k].status = "approved"
  BY <1>1 DEF Shaped, IsRow
<1>2. CASE \E q \in Requests : Call(s, q)
  <2>1. PICK key : effects' = effects \/ effects' = [effects EXCEPT ![key].status = "intended"]
    BY <1>2 DEF Call, ledger
  <2> QED
    BY <1>1, <2>1
<1>3. CASE Review(s)
  BY <1>3 DEF Review, Shaped, IsRow
<1>4. ASSUME NEW key, effects' = [effects EXCEPT ![key].status = Interrupted(@)]
      PROVE  effects[k].status = "approved"
  BY <1>4 DEF Shaped, IsRow, Interrupted
<1>5. CASE SettleUncertain(s)
  BY <1>4, <1>5 DEF SettleUncertain
<1>6. CASE Finish(s)
  BY <1>6 DEF Finish, Shaped, IsRow
<1>7. CASE ClaimApproved(s) \/ ClaimIntended(s)
  BY <1>1, <1>4, <1>7 DEF ClaimApproved, ClaimIntended, Claim
<1> QED
  BY <1>2, <1>3, <1>5, <1>6, <1>7
  DEF Step, Leave, StartTurn, EndTurn, ReturnOutcome, PassUnclaimed, RequestApproval, Perform, ledger

LEMMA StepAllowing ==
  ASSUME Shaped, NEW s \in Slots, Step(s) \/ Leave(s),
         NEW k \in Keys, ToolOf[k[1]] \in Mandatory, Allowing(k)
  PROVE  Allowing(k)'
<1>1. \A t \in Slots \ {s} : exec'[t] = exec[t]
  BY StepShape
<1>2. IsExec(exec[s]) /\ s \in DOMAIN exec
  BY DEF Shaped
<1>3. allowed' = allowed
  BY DEF Step, Leave, StartTurn, EndTurn, Call, Review, ReturnOutcome, SettleUncertain, ClaimApproved,
         ClaimIntended, Claim, PassUnclaimed, RequestApproval, Perform, Finish, user
<1>4. ASSUME performed'[k] > 0 => k \in allowed,
             exec'[s].pc \in {"perform", "finish"} /\ exec'[s].key = k => k \in allowed,
             exec'[s].pc \in {"review", "gate"} /\ exec'[s].key = k =>
               exec'[s].pc = "gate" /\ exec'[s].gate = "ask"
      PROVE  Allowing(k)'
  BY <1>1, <1>3, <1>4, NoApproval, AllowingKept
<1>5. ASSUME performed' = performed, exec'[s].pc \in {"idle", "turn"} PROVE Allowing(k)'
  BY <1>4, <1>5 DEF Allowing
<1>6. CASE EndTurn(s) \/ Leave(s)
  BY <1>2, <1>5, <1>6 DEF EndTurn, Leave, Idle
<1>7. CASE ReturnOutcome(s) \/ SettleUncertain(s) \/ Finish(s)
  <2>1. Back(s) /\ performed' = performed
    BY <1>7 DEF ReturnOutcome, SettleUncertain, Finish
  <2>2. exec'[s].pc = "turn"
    BY <1>2, <2>1 DEF Back, IsExec
  <2> QED
    BY <1>5, <2>1, <2>2
<1>8. CASE StartTurn(s)
  <2>1. PICK queue : exec'[s] = [Idle EXCEPT !.pc = "turn", !.queue = queue, !.rules = rules]
    BY <1>2, <1>8 DEF StartTurn
  <2> QED
    BY <1>5, <1>8, <2>1 DEF StartTurn, Idle
<1>9. CASE RequestApproval(s)
  <2>1. exec'[s] = [exec[s] EXCEPT !.pc = "turn", !.key = NoKey, !.paused = TRUE]
    BY <1>2, <1>9 DEF RequestApproval
  <2> QED
    BY <1>2, <1>5, <1>9, <2>1 DEF RequestApproval, IsExec
<1>10. ASSUME NEW q \in Requests, Call(s, q) PROVE Allowing(k)'
  <2> DEFINE request == Replayed(s, q)
             key == <<request, exec[s].counts[request]>>
             plan == Plan(s, ToolOf[request])
  <2>1. /\ exec'[s].pc = IF plan = "judge" /\ effects[key].review = "none" THEN "review" ELSE "gate"
        /\ exec'[s].gate = IF plan = "judge" THEN Judged(effects[key].review) ELSE plan
        /\ exec'[s].key = key /\ performed' = performed
    BY <1>2, <1>10 DEF Call, IsExec
  <2>2. key = k => plan = "ask"
    BY DEF Plan
  <2> HIDE DEF request, key, plan
  <2> QED
    BY <1>4, <2>1, <2>2 DEF Allowing
<1>11. CASE Review(s)
  <2>1. /\ exec[s].pc = "review" /\ exec'[s].pc = "gate" /\ exec'[s].key = exec[s].key
        /\ performed' = performed
    BY <1>2, <1>11 DEF Review, IsExec
  <2> QED
    BY <1>4, <2>1 DEF Allowing
<1>12. ASSUME NEW from, exec[s].pc = "gate", Claim(s, from),
              from = "approved" \/ exec[s].gate = "allow"
       PROVE  Allowing(k)'
  <2>1. performed' = performed
    BY <1>12 DEF Claim
  <2>2. CASE Back(s)
    <3>1. exec'[s].pc = "turn"
      BY <1>2, <2>2 DEF Back, IsExec
    <3> QED
      BY <1>5, <2>1, <3>1
  <2>3. CASE ~Back(s)
    <3>1. /\ exec' = [exec EXCEPT ![s].pc = "perform", ![s].claimed = TRUE]
          /\ effects[exec[s].key].status = from
      BY <1>12, <2>3 DEF Claim, Claimable
    <3>2. exec'[s].pc = "perform" /\ exec'[s].key = exec[s].key
      BY <1>2, <3>1 DEF IsExec
    <3>3. exec[s].key = k => k \in allowed
      BY <1>12, <3>1 DEF Allowing
    <3> QED
      BY <1>4, <2>1, <3>2, <3>3 DEF Allowing
  <2> QED
    BY <2>2, <2>3
<1>13. CASE ClaimApproved(s) \/ ClaimIntended(s)
  BY <1>12, <1>13 DEF ClaimApproved, ClaimIntended, MayClaim
<1>14. CASE PassUnclaimed(s)
  <2>1. /\ exec[s].key # k /\ exec'[s].pc = "perform" /\ exec'[s].key = exec[s].key
        /\ performed' = performed
    BY <1>2, <1>14, ToolAssumption DEF PassUnclaimed, IsExec
  <2> QED
    BY <1>4, <2>1 DEF Allowing
<1>15. CASE Perform(s)
  <2>1. /\ exec[s].pc = "perform" /\ exec'[s].pc = "finish" /\ exec'[s].key = exec[s].key
        /\ performed'[k] = IF k = exec[s].key THEN performed[k] + 1 ELSE performed[k]
    BY <1>2, <1>15 DEF Perform, IsExec, Shaped
  <2>2. k = exec[s].key => k \in allowed
    BY <2>1 DEF Allowing, Holds
  <2> QED
    BY <1>4, <2>1, <2>2 DEF Allowing
<1> QED
  BY <1>6, <1>7, <1>8, <1>9, <1>10, <1>11, <1>13, <1>14, <1>15 DEF Step

LEMMA NextConsent == Shaped /\ ConsentInv /\ [Next]_vars => ConsentInv'
<1> SUFFICES ASSUME Shaped, ConsentInv, [Next]_vars PROVE ConsentInv'
  OBVIOUS
<1>1. CASE UNCHANGED vars
  BY <1>1 DEF vars, ConsentInv, Allowing, Holds
<1>2. ASSUME NEW s \in Slots, Step(s) \/ Leave(s) PROVE ConsentInv'
  BY <1>2, StepAllowing DEF ConsentInv
<1>3. CASE UserSteps
  BY <1>3, UserMeans DEF ConsentInv, Allowing, Holds
<1> QED
  BY <1>1, <1>2, <1>3 DEF Next, UserSteps

\* What the user has to approve is never carried out before exactly that call was
\* approved, arguments and occurrence included.
THEOREM DoneWithConsent == Spec => []Consent
<1>1. Init => ConsentInv
  <2> SUFFICES ASSUME Init PROVE ConsentInv
    OBVIOUS
  <2>1. \A s \in Slots : exec[s].pc = "idle"
    BY DEF Init, Idle
  <2>2. \A k \in Keys : effects[k].status = "absent" /\ performed[k] = 0
    BY DEF Init
  <2> QED
    BY <2>1, <2>2 DEF ConsentInv, Allowing, Holds
<1>2. ConsentInv => Consent
  BY DEF ConsentInv, Allowing, Consent
<1> QED
  BY <1>1, <1>2, InitCounted, NextCounted, NextConsent, PTL DEF Spec

=============================================================================
