------------------------- MODULE NativePolicyProofs -------------------------
(***************************************************************************)
(* Proofs about NativePolicy, for any number of departments, artifacts and *)
(* disturbances.  The argument: the copy a turn works on differs from what *)
(* is committed only by deliveries of the turn's own run (CopyAhead); that *)
(* run is completed by the very step that commits them, and a completed    *)
(* run is never written again.  A turn may write only to whom its bot has  *)
(* not written before (RecipientsFresh), and to the Board only when all    *)
(* departments were asked and a notice, which only follows a refusal, has  *)
(* told the auditor so (NoticesTrue).                                      *)
(*                                                                         *)
(* That the audit concludes rests on what the bots know: the departments   *)
(* have no labels but their own and the auditor's, who never knows three   *)
(* (Facts); so an answer teaches the auditor a label or is withheld        *)
(* because it knows two (Weighed), and one that has heard three            *)
(* departments may report.  And whoever still owes something has a run,    *)
(* or left one idle (Duties).                                              *)
(***************************************************************************)
EXTENDS NativePolicy, FiniteSetTheorems, SequenceTheorems, TLAPS

AtStart == turn.at \in {"sources", "reasons", "commit"}
InRun == turn.at \in {"generate", "deliver", "notice"}

\* The shape of the executions, their runs and their deliveries.
Shapes ==
  /\ turn \in Turns \cup {None} /\ runs \in Seq(Runs) /\ waiting \subseteq Executions
  /\ \A e \in waiting : e.run \in RunIds
  /\ \A r \in RunIds : runs[r].by \in RunIds \cup {0}
  /\ \A s \in sends \cup saved.sends : s.run \in RunIds
  /\ turn # None => \/ AtStart /\ turn.run = 0
                    \/ InRun /\ turn.run \in RunIds /\ turn.owner \in Principals
  /\ turn # None /\ turn.at \in {"deliver", "notice"} => turn.to \in Principals

\* What the copy has and the committed state has not was delivered by the turn's run.
CopyAhead ==
  /\ turn = None \/ AtStart => sends = saved.sends
  /\ turn # None => \A s \in sends : s \in saved.sends \/ s.run = turn.run

CommitInv == Shapes /\ CopyAhead /\ AllOrNothing

-----------------------------------------------------------------------------
(* Runs.                                                                   *)

LEMMA NewTurn ==
  ASSUME NEW r \in Nat, NEW fence \in Nat, NEW owner \in Principals \cup {None},
         NEW at \in {"sources", "generate"}, NEW allowed \in SUBSET Principals
  PROVE  Turn(r, fence, owner, at, allowed) \in Turns
BY DEF Turn, Turns

\* A change of a run's status or fence leaves the other runs alone.
LEMMA RunChanged ==
  ASSUME runs \in Seq(Runs), NEW r \in RunIds, NEW x \in Runs, runs' = [runs EXCEPT ![r] = x]
  PROVE  /\ runs' \in Seq(Runs) /\ DOMAIN runs' = RunIds /\ runs'[r] = x
         /\ \A q \in RunIds \ {r} : runs'[q] = runs[q]
BY DEF RunIds

\* Runs that are woken come after the ones there are.
LEMMA RunsWoken ==
  ASSUME NEW rs \in Seq(Runs), NEW wakes \in Seq(Principals), NEW by \in Nat
  PROVE  /\ rs \o Woken(wakes, by) \in Seq(Runs)
         /\ DOMAIN rs \subseteq DOMAIN (rs \o Woken(wakes, by))
         /\ \A q \in DOMAIN rs : (rs \o Woken(wakes, by))[q] = rs[q]
<1>1. \A i \in 1..Len(wakes) : Run(wakes[i], by) \in Runs
  BY DEF Run, Runs
<1>2. Woken(wakes, by) \in [1..Len(wakes) -> Runs] /\ Len(wakes) \in Nat
  BY <1>1 DEF Woken
<1>3. Woken(wakes, by) \in Seq(Runs)
  BY <1>2, SeqDef
<1> QED
  BY <1>3, ConcatProperties

\* Whom a turn wakes gets a run.
LEMMA WokenRuns ==
  ASSUME NEW rs \in Seq(Runs), NEW wakes \in Seq(Principals), NEW by \in Nat,
         runs' = rs \o Woken(wakes, by)
  PROVE  /\ \A r \in DOMAIN rs : r \in RunIds' /\ runs'[r] = rs[r]
         /\ \A i \in DOMAIN wakes : \E r \in RunIds' : runs'[r] = Run(wakes[i], by)
         /\ \A r \in RunIds' :
              r \in DOMAIN rs \/ \E i \in DOMAIN wakes : runs'[r] = Run(wakes[i], by)
<1> DEFINE w == Woken(wakes, by)
           n == Len(rs)
           m == Len(wakes)
<1>1. n \in Nat /\ m \in Nat /\ DOMAIN rs = 1..n /\ DOMAIN wakes = 1..m
  OBVIOUS
<1>2. \A i \in 1..m : w[i] = Run(wakes[i], by)
  BY <1>1 DEF Woken
<1>3. w \in Seq(Runs) /\ Len(w) = m
  <2>1. \A i \in 1..m : Run(wakes[i], by) \in Runs
    BY DEF Run, Runs
  <2>2. w \in [1..m -> Runs]
    BY <1>1, <2>1 DEF Woken
  <2> HIDE DEF w
  <2> QED
    BY <1>1, <2>2, SeqDef
<1> HIDE DEF w
<1>4. /\ Len(rs \o w) = n + m /\ rs \o w \in Seq(Runs)
      /\ \A i \in 1..n + m : (rs \o w)[i] = IF i <= n THEN rs[i] ELSE w[i - n]
  <2>1. /\ Len(rs \o w) = Len(rs) + Len(w) /\ rs \o w \in Seq(Runs)
        /\ \A i \in 1..Len(rs) + Len(w) : (rs \o w)[i] = IF i <= Len(rs) THEN rs[i] ELSE w[i - Len(rs)]
    BY <1>3, ConcatProperties
  <2> QED
    BY <1>3, <2>1
<1>5. /\ DOMAIN runs' = 1..n + m
      /\ \A i \in 1..n + m : runs'[i] = IF i <= n THEN rs[i] ELSE w[i - n]
  BY <1>4 DEF w
<1> HIDE DEF n, m
<1>6. \A r \in 1..n : r \in RunIds' /\ runs'[r] = rs[r]
  BY <1>1, <1>5 DEF RunIds
<1>7. \A i \in 1..m : n + i \in RunIds' /\ runs'[n + i] = Run(wakes[i], by)
  <2> SUFFICES ASSUME NEW i \in 1..m PROVE n + i \in RunIds' /\ runs'[n + i] = Run(wakes[i], by)
    OBVIOUS
  <2>1. n + i \in 1..n + m /\ ~(n + i <= n) /\ n + i - n = i
    BY <1>1
  <2>2. n + i \in RunIds' /\ runs'[n + i] = w[n + i - n]
    BY <1>1, <1>5, <2>1 DEF RunIds
  <2>3. runs'[n + i] = w[i]
    BY <2>1, <2>2
  <2> QED
    BY <1>2, <2>2, <2>3
<1>8. ASSUME NEW r \in RunIds' PROVE r \in 1..n \/ \E i \in 1..m : runs'[r] = Run(wakes[i], by)
  <2>1. r \in 1..n \/ (r - n \in 1..m /\ runs'[r] = w[r - n])
    BY <1>1, <1>5 DEF RunIds
  <2> QED
    BY <1>2, <2>1
<1> QED
  BY <1>1, <1>6, <1>7, <1>8

\* They remember who woke them.
LEMMA WokenBy ==
  ASSUME NEW rs \in Seq(Runs), NEW wakes \in Seq(Principals), NEW by \in Nat,
         runs' = rs \o Woken(wakes, by)
  PROVE  \A q \in RunIds' : q \in DOMAIN rs \/ runs'[q].by = by
<1>1. \A q \in RunIds' : q \in DOMAIN rs \/ \E i \in DOMAIN wakes : runs'[q] = Run(wakes[i], by)
  BY WokenRuns
<1>2. \A p : Run(p, by).by = by
  BY DEF Run
<1> QED
  BY <1>1, <1>2

-----------------------------------------------------------------------------
(* All or nothing.                                                         *)

LEMMA InitCommitInv == Init => CommitInv
<1> SUFFICES ASSUME Init PROVE CommitInv
  OBVIOUS
<1>1. sends = {} /\ saved.sends = {} /\ runs = <<>> /\ waiting = {} /\ turn = None
  BY DEF Init
<1> QED
  BY <1>1 DEF CommitInv, Shapes, CopyAhead, AllOrNothing, RunIds

\* The first turn leaves the committed state, the runs and the deliveries alone.
StartSteps ==
  Start \/ (\E id \in Sources : CreateSource(id)) \/ (\E dept \in Departments : GiveReason(dept))
    \/ GiveTask

LEMMA StartTurn ==
  ASSUME CommitInv, StartSteps
  PROVE  /\ UNCHANGED <<sends, saved, runs, waiting>> /\ sends = saved.sends
         /\ turn' \in Turns /\ turn'.at \in {"sources", "reasons", "commit"} /\ turn'.run = 0
<1>1. UNCHANGED <<sends, saved, runs, waiting>>
  BY DEF StartSteps, Start, CreateSource, GiveReason, GiveTask, Copy
<1>2. turn' \in Turns /\ turn'.at \in {"sources", "reasons", "commit"} /\ turn'.run = 0
  <2>1. CASE Start
    <3>1. turn' = Turn(0, 0, None, "sources", {})
      BY <2>1 DEF Start
    <3> QED
      BY <3>1, NewTurn DEF Turn
  <2>2. ASSUME NEW id \in Sources, CreateSource(id)
        PROVE  turn' \in Turns /\ turn'.at \in {"sources", "reasons", "commit"} /\ turn'.run = 0
    <3>1. turn \in Turns /\ turn.at = "sources" /\ turn.run = 0
      BY <2>2 DEF CreateSource, CommitInv, Shapes, AtStart, InRun
    <3>2. turn' = [turn EXCEPT !.at = "reasons"] \/ turn' = turn
      BY <2>2 DEF CreateSource
    <3> QED
      BY <3>1, <3>2 DEF Turns
  <2>3. ASSUME NEW dept \in Departments, GiveReason(dept)
        PROVE  turn' \in Turns /\ turn'.at \in {"sources", "reasons", "commit"} /\ turn'.run = 0
    BY <2>3 DEF GiveReason, CommitInv, Shapes, AtStart, InRun
  <2>4. CASE GiveTask
    <3>1. turn \in Turns /\ turn.at = "reasons" /\ turn.run = 0
      BY <2>4 DEF GiveTask, CommitInv, Shapes, AtStart, InRun
    <3>2. turn' = [turn EXCEPT !.at = "commit", !.wakes = <<Auditor>>]
      BY <2>4 DEF GiveTask
    <3>3. <<Auditor>> \in Seq(Principals)
      BY DEF Principals
    <3> QED
      BY <3>1, <3>2, <3>3 DEF Turns
  <2> QED
    BY <2>1, <2>2, <2>3, <2>4 DEF StartSteps
<1>3. sends = saved.sends
  BY DEF StartSteps, Start, CreateSource, GiveReason, GiveTask, CommitInv, CopyAhead, AtStart
<1> QED
  BY <1>1, <1>2, <1>3

LEMMA StartKeeps == ASSUME CommitInv, StartSteps PROVE CommitInv'
<1> QED
  BY StartTurn, NoneAssumption
  DEF CommitInv, Shapes, CopyAhead, AllOrNothing, AtStart, InRun, RunIds

LEMMA CommitStartKeeps == ASSUME CommitInv, CommitStart PROVE CommitInv'
<1>1. turn \in Turns /\ sends = saved.sends /\ turn.run = 0
  BY DEF CommitStart, CommitInv, Shapes, CopyAhead, AtStart
<1>2. runs' = runs \o Woken(turn.wakes, 0) /\ turn' = None /\ waiting' = waiting
      /\ sends' = sends /\ saved'.sends = sends
  BY DEF CommitStart, Copy
<1>3. turn.wakes \in Seq(Principals)
  BY <1>1 DEF Turns
<1>4. /\ runs' \in Seq(Runs) /\ RunIds \subseteq RunIds'
      /\ \A q \in RunIds : runs'[q] = runs[q]
      /\ \A q \in RunIds' : q \in RunIds \/ runs'[q].by = 0
  <2>1. runs \in Seq(Runs) /\ 0 \in Nat
    BY DEF CommitInv, Shapes
  <2> QED
    BY <1>2, <1>3, <2>1, RunsWoken, WokenBy DEF RunIds
<1>5. \A q \in RunIds' : runs'[q].by \in RunIds' \cup {0}
  BY <1>4 DEF CommitInv, Shapes
<1>6. AllOrNothing'
  <2>1. \A s \in saved'.sends : s.run \in RunIds /\ runs[s.run].status = "completed"
    BY <1>1, <1>2 DEF CommitInv, Shapes, AllOrNothing
  <2>2. \A q \in RunIds : /\ runs[q].by \in RunIds \cup {0}
                          /\ runs[q].by # 0 => runs[runs[q].by].status = "completed"
    BY DEF CommitInv, Shapes, AllOrNothing
  <2> QED
    BY <1>4, <2>1, <2>2 DEF AllOrNothing
<1> QED
  BY <1>1, <1>2, <1>4, <1>5, <1>6 DEF CommitInv, Shapes, CopyAhead

\* A completed run is never written again.
LEMMA RunKeeps ==
  ASSUME CommitInv, NEW r \in RunIds, NEW x \in Runs, runs[r].status # "completed",
         x.by = runs[r].by, runs' = [runs EXCEPT ![r] = x], UNCHANGED <<sends, saved, turn>>,
         \A e \in waiting' : e \in Executions /\ e.run \in RunIds
  PROVE  CommitInv'
<1>1. /\ runs' \in Seq(Runs) /\ RunIds' = RunIds
      /\ \A q \in RunIds : /\ runs'[q].by = runs[q].by
                          /\ runs[q].status = "completed" => runs'[q] = runs[q]
  BY RunChanged DEF CommitInv, Shapes, RunIds
<1> QED
  BY <1>1 DEF CommitInv, Shapes, CopyAhead, AllOrNothing, AtStart, InRun

LEMMA NewExecution ==
  ASSUME NEW r \in Nat, NEW fence \in Nat
  PROVE  Execution(r, fence) \in Executions /\ Execution(r, fence).run = r
BY DEF Execution, Executions

LEMMA LeasesKeep ==
  ASSUME CommitInv,
         \/ \E r \in RunIds : Claim(r) \/ ClaimAgain(r) \/ Stop(r)
         \/ \E e \in waiting : RecordFailure(e)
  PROVE  CommitInv'
<1>1. /\ runs \in Seq(Runs) /\ waiting \subseteq Executions
      /\ \A e \in waiting : e.run \in RunIds
      /\ \A r \in RunIds : runs[r] \in Runs /\ r \in Nat
  BY DEF CommitInv, Shapes, RunIds
<1>2. ASSUME NEW r \in RunIds, Claim(r) PROVE CommitInv'
  <2> DEFINE x == [runs[r] EXCEPT !.status = "running", !.fence = 1]
  <2>1. x \in Runs /\ x.by = runs[r].by /\ runs[r].status # "completed"
    BY <1>1, <1>2 DEF Runs, Claim
  <2>2. runs' = [runs EXCEPT ![r] = x] /\ UNCHANGED <<sends, saved, turn>>
    BY <1>2 DEF Claim, Copy
  <2>3. \A e \in waiting' : e \in Executions /\ e.run \in RunIds
    <3>1. waiting' = waiting \cup {Execution(r, 1)}
      BY <1>2 DEF Claim
    <3> QED
      BY <1>1, <3>1, NewExecution
  <2> QED
    BY <2>1, <2>2, <2>3, RunKeeps
<1>3. ASSUME NEW r \in RunIds, ClaimAgain(r) PROVE CommitInv'
  <2> DEFINE fence == runs[r].fence + 1
             x == [runs[r] EXCEPT !.fence = fence]
  <2>1. fence \in Nat
    <3>1. runs[r].fence \in Nat
      BY <1>1 DEF Runs
    <3> QED
      BY <3>1
  <2>2. runs' = [runs EXCEPT ![r] = x] /\ UNCHANGED <<sends, saved, turn>>
    BY <1>3 DEF ClaimAgain, Copy
  <2>3. waiting' = waiting \cup {Execution(r, fence)}
    BY <1>3 DEF ClaimAgain
  <2> HIDE DEF fence
  <2>4. x \in Runs /\ x.by = runs[r].by /\ runs[r].status # "completed"
    BY <1>1, <1>3, <2>1 DEF Runs, ClaimAgain
  <2>5. \A e \in waiting' : e \in Executions /\ e.run \in RunIds
    BY <1>1, <2>1, <2>3, NewExecution
  <2> QED
    BY <2>2, <2>4, <2>5, RunKeeps
<1>4. ASSUME NEW r \in RunIds, Stop(r) PROVE CommitInv'
  <2> DEFINE x == [runs[r] EXCEPT !.status = "cancelled"]
  <2>1. x \in Runs /\ x.by = runs[r].by /\ runs[r].status # "completed"
    BY <1>1, <1>4 DEF Runs, Stop
  <2>2. runs' = [runs EXCEPT ![r] = x] /\ UNCHANGED <<sends, saved, turn, waiting>>
    BY <1>4 DEF Stop, Copy
  <2> QED
    BY <1>1, <2>1, <2>2, RunKeeps
<1>5. ASSUME NEW e \in waiting, RecordFailure(e) PROVE CommitInv'
  <2> DEFINE r == e.run
             x == IF Owned(e) THEN [runs[r] EXCEPT !.status = "failed"] ELSE runs[r]
  <2>1. CASE Owned(e)
    <3>0. r \in RunIds /\ runs[r] \in Runs /\ x = [runs[r] EXCEPT !.status = "failed"]
      BY <1>1, <2>1
    <3>1. r \in RunIds /\ runs[r].status # "completed" /\ x \in Runs /\ x.by = runs[r].by
      <4>1. runs[r].status # "completed"
        BY <2>1 DEF Owned
      <4> HIDE DEF r, x
      <4> QED
        BY <3>0, <4>1 DEF Runs
    <3>2. runs' = [runs EXCEPT ![r] = x] /\ UNCHANGED <<sends, saved, turn>>
      BY <1>5, <2>1 DEF RecordFailure, Copy
    <3>3. \A q \in waiting' : q \in Executions /\ q.run \in RunIds
      BY <1>1, <1>5 DEF RecordFailure
    <3> QED
      BY <3>1, <3>2, <3>3, RunKeeps
  <2>2. CASE ~Owned(e)
    <3>1. UNCHANGED <<runs, sends, saved, turn>> /\ waiting' \subseteq waiting
      BY <1>5, <2>2 DEF RecordFailure, Copy
    <3> QED
      BY <3>1 DEF CommitInv, Shapes, CopyAhead, AllOrNothing, AtStart, InRun, RunIds
  <2> QED
    BY <2>1, <2>2
<1> QED
  BY <1>2, <1>3, <1>4, <1>5

LEMMA AllowedPrincipals == ASSUME NEW owner PROVE Allowed(owner) \subseteq Principals
BY DEF Allowed, PendingRequests, Principals

LEMMA BeginKeeps == ASSUME CommitInv, NEW e \in waiting, Begin(e) PROVE CommitInv'
<1>1. UNCHANGED <<runs, sends, saved>> /\ waiting' \subseteq waiting /\ sends = saved.sends
  BY DEF Begin, Copy, CommitInv, CopyAhead
<1>2. \/ turn' = None
      \/ /\ turn' \in Turns /\ turn'.at = "generate"
         /\ turn'.run \in RunIds /\ turn'.owner \in Principals
  <2>1. CASE Owned(e)
    <3> DEFINE owner == runs[e.run].owner
    <3>1. turn' = Turn(e.run, e.fence, owner, "generate", Allowed(owner))
      BY <2>1 DEF Begin
    <3>2. /\ e \in Executions /\ e.run \in RunIds /\ runs \in Seq(Runs)
      BY DEF CommitInv, Shapes
    <3>3. runs[e.run] \in Runs /\ e.run \in Nat
      BY <3>2 DEF RunIds, Executions
    <3>4. owner \in Principals /\ e.fence \in Nat
      BY <3>2, <3>3 DEF Runs, Executions
    <3>5. turn' \in Turns
      BY <3>1, <3>3, <3>4, AllowedPrincipals, NewTurn
    <3> QED
      BY <3>1, <3>2, <3>4, <3>5 DEF Turn
  <2> QED
    BY <2>1 DEF Begin
<1> QED
  BY <1>1, <1>2 DEF CommitInv, Shapes, CopyAhead, AllOrNothing, AtStart, InRun, RunIds

\* What a run writes and sends stays in its turn's copy.
LEMMA TurnKeeps ==
  ASSUME CommitInv,
         \/ \E to \in Principals, id \in Outputs : Compose(to, id)
         \/ Deliver \/ \E id \in Notices : DeliverNotice(id)
  PROVE  CommitInv'
<1>1. /\ turn \in Turns /\ turn # None /\ turn.run \in RunIds /\ turn.owner \in Principals
      /\ turn.at \in {"generate", "deliver", "notice"}
  BY DEF Compose, Generating, Deliver, DeliverNotice, CommitInv, Shapes, AtStart, InRun
<1>2. UNCHANGED <<runs, saved, waiting>>
  BY DEF Compose, Deliver, DeliverNotice
<1>3. /\ turn' \in Turns /\ turn'.run = turn.run /\ turn'.owner = turn.owner
      /\ turn'.at \in {"generate", "deliver", "notice"}
      /\ turn'.at # "generate" => turn'.to \in Principals
      /\ \A s \in sends' : s \in sends \/ s.run = turn.run
  <2>1. ASSUME NEW to \in Principals, NEW id \in Outputs, Compose(to, id)
        PROVE  /\ turn' \in Turns /\ turn'.run = turn.run /\ turn'.owner = turn.owner
               /\ turn'.at = "deliver" /\ turn'.to = to /\ sends' = sends
    <3>1. turn' = [turn EXCEPT !.at = "deliver", !.to = to, !.id = id, !.allowed = Rest(to)]
      BY <2>1 DEF Compose
    <3>2. id \in Nat /\ Rest(to) \subseteq Principals
      BY <1>1, BoundsAssumption DEF Outputs, Rest, Turns
    <3> QED
      BY <1>1, <2>1, <3>1, <3>2 DEF Turns, Compose
  <2>2. CASE Deliver
    <3> DEFINE ok == ~P!Denied(turn.to, turn.id)
               s == [id |-> turn.id, run |-> turn.run, from |-> turn.owner, to |-> turn.to, ok |-> ok]
               at == IF ok THEN "generate" ELSE "notice"
    <3>1. sends' = sends \cup {s} /\ s.run = turn.run
      BY <2>2 DEF Deliver
    <3>2. turn' = [turn EXCEPT !.at = at, !.wakes = Append(turn.wakes, turn.to)]
      BY <2>2 DEF Deliver
    <3>3. turn.to \in Principals
      BY <2>2 DEF Deliver, CommitInv, Shapes
    <3>4. /\ turn' \in Turns /\ turn'.run = turn.run /\ turn'.owner = turn.owner
          /\ turn'.at \in {"generate", "notice"} /\ turn'.to = turn.to
      <4> DEFINE wakes == Append(turn.wakes, turn.to)
      <4>1. wakes \in Seq(Principals)
        BY <1>1, <3>3 DEF Turns
      <4>2. at \in {"generate", "notice"}
        OBVIOUS
      <4> HIDE DEF wakes, at
      <4> QED
        BY <1>1, <3>2, <4>1, <4>2 DEF Turns, wakes
    <3> QED
      BY <3>1, <3>3, <3>4
  <2>3. ASSUME NEW id \in Notices, DeliverNotice(id)
        PROVE  /\ turn' \in Turns /\ turn'.run = turn.run /\ turn'.owner = turn.owner
               /\ turn'.at = "generate" /\ sends' = sends
    BY <1>1, <2>3 DEF DeliverNotice, Turns
  <2> QED
    BY <2>1, <2>2, <2>3
<1> QED
  BY <1>1, <1>2, <1>3, NoneAssumption
  DEF CommitInv, Shapes, CopyAhead, AllOrNothing, AtStart, InRun, RunIds

LEMMA CommitKeeps == ASSUME CommitInv, Commit PROVE CommitInv'
<1> DEFINE r == turn.run
           idle == turn.allowed # {} /\ ~Sent(r)
           x == [runs[r] EXCEPT !.status = "completed", !.idle = idle]
           rs == [runs EXCEPT ![r] = x]
<1>1. /\ turn \in Turns /\ r \in RunIds /\ Owned(turn) /\ runs \in Seq(Runs)
      /\ \A s \in sends : s \in saved.sends \/ s.run = r
  BY DEF Commit, MayCommit, Generating, CommitInv, Shapes, CopyAhead, AtStart, InRun
<1>2. runs' = Ended(turn, idle) \o Woken(turn.wakes, r) /\ r \in Nat
  BY <1>1 DEF Commit, Turns
<1>3. Ended(turn, idle) = rs
  BY <1>1 DEF Ended
<1>4. waiting' = waiting /\ turn' = None /\ sends' = sends /\ saved'.sends = sends
  BY DEF Commit, Copy
<1>5. x \in Runs /\ x.status = "completed" /\ x.by = runs[r].by
  <2>1. runs[r] \in Runs /\ idle \in BOOLEAN
    BY <1>1 DEF RunIds
  <2> HIDE DEF idle
  <2> QED
    BY <2>1 DEF Runs
<1> HIDE DEF idle, x
<1>6. /\ rs \in Seq(Runs) /\ DOMAIN rs = RunIds /\ rs[r] = x
      /\ \A q \in RunIds \ {r} : rs[q] = runs[q]
  BY <1>1, <1>5 DEF RunIds
<1> HIDE DEF rs
<1>7. turn.wakes \in Seq(Principals)
  BY <1>1 DEF Turns
<1>8. /\ runs' \in Seq(Runs) /\ RunIds \subseteq RunIds'
      /\ \A q \in RunIds : runs'[q] = rs[q]
      /\ \A q \in RunIds' : q \in RunIds \/ runs'[q].by = r
  <2>1. runs' = rs \o Woken(turn.wakes, r) /\ r \in Nat
    BY <1>2, <1>3
  <2> HIDE DEF r
  <2>2. runs' \in Seq(Runs) /\ DOMAIN rs \subseteq RunIds'
    BY <1>6, <1>7, <2>1, RunsWoken DEF RunIds
  <2>3. \A q \in DOMAIN rs : runs'[q] = rs[q]
    BY <1>6, <1>7, <2>1, RunsWoken
  <2>4. \A q \in RunIds' : q \in DOMAIN rs \/ runs'[q].by = r
    BY <1>6, <1>7, <2>1, WokenBy
  <2> QED
    BY <1>6, <2>2, <2>3, <2>4
<1>9. /\ \A q \in RunIds' : (q \in RunIds /\ runs'[q].by = runs[q].by) \/ runs'[q].by = r
      /\ \A q \in RunIds : runs[q].status = "completed" \/ q = r => runs'[q].status = "completed"
  BY <1>5, <1>6, <1>8
<1> QED
  BY <1>1, <1>4, <1>8, <1>9 DEF CommitInv, Shapes, CopyAhead, AllOrNothing

\* A turn that is rolled back leaves what was committed before it.
LEMMA RollbackKeeps ==
  ASSUME CommitInv, CommitRefused \/ TurnFails \/ Crash
  PROVE  CommitInv'
<1>1. sends' = saved.sends /\ turn' = None /\ UNCHANGED <<saved, runs>>
  BY DEF CommitRefused, TurnFails, Crash, Rollback, RolledBack
<1>2. waiting' \subseteq Executions /\ \A e \in waiting' : e.run \in RunIds
  <2>1. CASE waiting' = waiting
    BY <2>1 DEF CommitInv, Shapes
  <2>2. CASE waiting' = waiting \cup {Failed(turn)} /\ turn.run \in RunIds /\ turn \in Turns
    <3>1. turn.run \in Nat /\ turn.fence \in Nat
      BY <2>2 DEF Turns
    <3>2. Execution(turn.run, turn.fence) \in Executions /\ Execution(turn.run, turn.fence).run = turn.run
      BY <3>1, NewExecution
    <3>3. Failed(turn) \in Executions /\ Failed(turn).run = turn.run
      BY <3>2 DEF Failed, Executions
    <3> QED
      BY <2>2, <3>3 DEF CommitInv, Shapes
  <2>3. CommitRefused \/ TurnFails => waiting' = waiting \cup {Failed(turn)}
    BY DEF CommitRefused, TurnFails, Rollback
  <2>4. CommitRefused \/ TurnFails => turn.run \in RunIds /\ turn \in Turns
    BY DEF CommitRefused, TurnFails, Generating, CommitInv, Shapes, AtStart, InRun
  <2>5. Crash => waiting' = waiting
    BY DEF Crash, Rollback
  <2> QED
    BY <2>1, <2>2, <2>3, <2>4, <2>5
<1> QED
  BY <1>1, <1>2 DEF CommitInv, Shapes, CopyAhead, AllOrNothing, RunIds

LEMMA NextCommitInv == CommitInv /\ [Next]_vars => CommitInv'
<1> SUFFICES ASSUME CommitInv, [Next]_vars PROVE CommitInv'
  OBVIOUS
<1>1. CASE UNCHANGED vars
  BY <1>1 DEF vars, CommitInv, Shapes, CopyAhead, AllOrNothing, AtStart, InRun, RunIds
<1>2. CASE Next
  BY <1>2, StartKeeps, CommitStartKeeps, LeasesKeep, BeginKeeps, TurnKeeps, CommitKeeps,
     RollbackKeeps DEF Next, StartSteps
<1> QED
  BY <1>1, <1>2

\* A run that was stopped, lost its lease or failed has left nothing in the session,
\* for any number of departments, deliveries and disturbances.
THEOREM CommitsAtOnce == Spec => []AllOrNothing
<1>1. CommitInv => AllOrNothing
  BY DEF CommitInv
<1> QED
  BY <1>1, InitCommitInv, NextCommitInv, PTL DEF Spec

-----------------------------------------------------------------------------
(* Nobody is written to twice.                                             *)

Once(S) == \A s, t \in S : s.from = t.from /\ s.to = t.to => s = t

RecipientsFresh ==
  turn # None /\ InRun =>
    /\ turn.allowed \cap SentTo(turn.owner) = {}
    /\ turn.at = "deliver" => turn.to \notin SentTo(turn.owner) \cup turn.allowed

OnceInv == Once(sends) /\ Once(saved.sends) /\ RecipientsFresh

\* An automatic turn may write only to whom its bot has not written.
LEMMA AllowedFresh ==
  ASSUME NEW owner PROVE Allowed(owner) \cap SentTo(owner) = {}
BY DEF Allowed, PendingRequests, Reported

LEMMA DeliverOnce == ASSUME CommitInv, OnceInv, Deliver PROVE OnceInv'
<1> DEFINE ok == ~P!Denied(turn.to, turn.id)
           new == [id |-> turn.id, run |-> turn.run, from |-> turn.owner, to |-> turn.to, ok |-> ok]
<1>1. sends' = sends \cup {new} /\ saved' = saved
  BY DEF Deliver
<1>2. new.from = turn.owner /\ new.to = turn.to
  OBVIOUS
<1> HIDE DEF new
<1>3. /\ turn.to \notin SentTo(turn.owner) \cup turn.allowed
      /\ turn.allowed \cap SentTo(turn.owner) = {} /\ turn \in Turns
  BY DEF Deliver, OnceInv, RecipientsFresh, InRun, CommitInv, Shapes
<1>4. Once(sends') /\ Once(saved'.sends)
  BY <1>1, <1>2, <1>3 DEF Once, OnceInv, SentTo
<1>5. turn'.owner = turn.owner /\ turn'.allowed = turn.allowed /\ turn'.at # "deliver"
  BY <1>3 DEF Deliver, Turns
<1>6. RecipientsFresh'
  BY <1>1, <1>2, <1>3, <1>5 DEF RecipientsFresh, SentTo
<1> QED
  BY <1>4, <1>6 DEF OnceInv

LEMMA BeginOnce == ASSUME CommitInv, OnceInv, NEW e \in waiting, Begin(e) PROVE OnceInv'
<1>1. UNCHANGED <<sends, saved>>
  BY DEF Begin, Copy
<1>2. CASE Owned(e)
  <2> DEFINE owner == runs[e.run].owner
             allowed == Allowed(owner)
  <2>1. turn' = Turn(e.run, e.fence, owner, "generate", allowed)
    BY <1>2 DEF Begin
  <2>2. allowed \cap SentTo(owner) = {}
    BY AllowedFresh
  <2> HIDE DEF owner, allowed
  <2>3. turn'.owner = owner /\ turn'.allowed = allowed /\ turn'.at = "generate"
    BY <2>1 DEF Turn
  <2> QED
    BY <1>1, <2>2, <2>3 DEF OnceInv, RecipientsFresh, SentTo
<1>3. CASE ~Owned(e)
  BY <1>1, <1>3 DEF Begin, OnceInv, RecipientsFresh
<1> QED
  BY <1>2, <1>3

LEMMA ComposeOnce ==
  ASSUME CommitInv, OnceInv, NEW to \in Principals, NEW id \in Outputs, Compose(to, id)
  PROVE  OnceInv'
<1>1. /\ turn \in Turns /\ to \in turn.allowed /\ UNCHANGED <<sends, saved>>
      /\ turn.allowed \cap SentTo(turn.owner) = {}
  BY DEF Compose, Generating, OnceInv, RecipientsFresh, InRun, CommitInv, Shapes
<1>2. turn' = [turn EXCEPT !.at = "deliver", !.to = to, !.id = id, !.allowed = Rest(to)]
  BY DEF Compose
<1>3. /\ turn'.owner = turn.owner /\ turn'.to = to /\ turn'.allowed = turn.allowed \ {to}
  BY <1>1, <1>2 DEF Turns, Rest
<1> QED
  BY <1>1, <1>3 DEF OnceInv, RecipientsFresh, SentTo

\* The steps in which no turn of a run begins or goes on.
LEMMA OtherOnce ==
  ASSUME CommitInv, OnceInv, sends' \in {sends, saved.sends}, saved'.sends \in {sends, saved.sends},
         \/ turn' = None
         \/ turn' = turn /\ sends' = sends
         \/ turn'.at \in {"sources", "reasons", "commit"}
         \/ turn # None /\ sends' = sends /\ InRun /\ turn'.at = "generate"
               /\ turn'.owner = turn.owner /\ turn'.allowed = turn.allowed
  PROVE  OnceInv'
<1>1. RecipientsFresh'
  BY DEF OnceInv, RecipientsFresh, SentTo, InRun
<1> QED
  BY <1>1 DEF OnceInv, Once

LEMMA NextOnce == CommitInv /\ OnceInv /\ [Next]_vars => OnceInv'
<1> SUFFICES ASSUME CommitInv, OnceInv, [Next]_vars PROVE OnceInv'
  OBVIOUS
<1>1. CASE UNCHANGED vars
  BY <1>1, OtherOnce DEF vars
<1>2. CASE StartSteps
  <2>1. UNCHANGED <<sends, saved>> /\ turn'.at \in {"sources", "reasons", "commit"}
    BY <1>2, StartTurn
  <2> QED
    BY <2>1, OtherOnce
<1>3. CASE \/ \E r \in RunIds : Claim(r) \/ ClaimAgain(r) \/ Stop(r)
           \/ \E e \in waiting : RecordFailure(e)
  <2>1. sends' = sends /\ saved'.sends = saved.sends /\ turn' = turn
    BY <1>3 DEF Claim, ClaimAgain, Stop, RecordFailure, Copy
  <2> QED
    BY <2>1, OtherOnce
<1>4. CASE CommitStart \/ Commit
  <2>1. turn' = None /\ sends' = sends /\ saved'.sends = sends
    BY <1>4 DEF CommitStart, Commit, Copy
  <2> QED
    BY <2>1, OtherOnce
<1>5. CASE CommitRefused \/ TurnFails \/ Crash
  <2>1. turn' = None /\ sends' = saved.sends /\ saved'.sends = saved.sends
    BY <1>5 DEF CommitRefused, TurnFails, Crash, Rollback, RolledBack
  <2> QED
    BY <2>1 DEF OnceInv, Once, RecipientsFresh
<1>6. ASSUME NEW id \in Notices, DeliverNotice(id) PROVE OnceInv'
  <2>1. /\ turn \in Turns /\ turn # None /\ InRun /\ UNCHANGED <<sends, saved>>
        /\ turn' = [turn EXCEPT !.at = "generate"]
    BY <1>6 DEF DeliverNotice, CommitInv, Shapes, InRun
  <2>2. turn'.at = "generate" /\ turn'.owner = turn.owner /\ turn'.allowed = turn.allowed
    BY <2>1 DEF Turns
  <2> QED
    BY <2>1, <2>2, OtherOnce
<1> QED
  BY <1>1, <1>2, <1>3, <1>4, <1>5, <1>6, DeliverOnce, BeginOnce, ComposeOnce DEF Next, StartSteps

\* However often turns are repeated and bots woken, nobody is asked, answered or
\* reported to twice.
THEOREM WritesOnce == Spec => []AskedOnce
<1>1. Init => OnceInv
  <2> SUFFICES ASSUME Init PROVE OnceInv
    OBVIOUS
  <2>1. sends = {} /\ saved.sends = {} /\ turn = None
    BY DEF Init
  <2> QED
    BY <2>1 DEF OnceInv, Once, RecipientsFresh
<1>2. OnceInv => AskedOnce
  BY DEF OnceInv, Once, AskedOnce
<1> QED
  BY <1>1, <1>2, InitCommitInv, NextCommitInv, NextOnce, PTL DEF Spec

-----------------------------------------------------------------------------
(* The shape of the session's state.                                       *)

Q == INSTANCE PolicyProtocol WITH artifacts <- saved.artifacts, local <- saved.local

\* Well-formed artifacts and stores, and nobody reads what is not there.
Formed == P!TypeOK /\ \A p \in Principals : local[p].artifacts \subseteq DOMAIN artifacts
SavedFormed ==
  Q!TypeOK /\ \A p \in Principals : saved.local[p].artifacts \subseteq DOMAIN saved.artifacts

\* An operation on the store of q adds at most id to what q can read.
Adds(q, id) ==
  \A p \in Principals : local'[p].artifacts \subseteq local[p].artifacts \cup (IF p = q THEN {id} ELSE {})

LEMMA CloseForms ==
  ASSUME NEW s \in P!Store
  PROVE  P!Close(s) \in P!Store /\ P!Close(s).artifacts = s.artifacts
<1> DEFINE c == [s EXCEPT !.carries = P!R1(s)]
<1>1. P!R1(s) \in [P!Ids -> SUBSET P!Labels]
  BY DEF P!R1, P!Store
<1>2. c \in P!Store /\ c.artifacts = s.artifacts
  BY <1>1 DEF P!Store
<1> HIDE DEF c
<1>3. P!R2(c) \in SUBSET P!Labels
  BY <1>2 DEF P!R2, P!Store
<1>4. P!Close(s) = [c EXCEPT !.knows = P!R2(c)]
  BY DEF P!Close, c
<1> QED
  BY <1>2, <1>3, <1>4 DEF P!Store

LEMMA HoldForms ==
  ASSUME NEW s \in P!Store, NEW id \in P!Ids
  PROVE  P!Holding(s, id) \in P!Store /\ P!Holding(s, id).artifacts = s.artifacts \cup {id}
BY DEF P!Holding, P!Store

LEMMA FactsForm ==
  ASSUME NEW s \in P!Store, NEW id \in P!Ids, NEW art \in P!Artifact
  PROVE  /\ P!AddMessageFacts(s, id, art) \in P!Store
         /\ P!AddMessageFacts(s, id, art).artifacts = s.artifacts
<1>1. s.carries \in [P!Ids -> SUBSET P!Labels] /\ art.carries \in SUBSET P!Labels
  BY DEF P!Store, P!Artifact
<1>2. [s.carries EXCEPT ![id] = s.carries[id] \cup art.carries] \in [P!Ids -> SUBSET P!Labels]
  BY <1>1
<1> QED
  BY <1>2 DEF P!AddMessageFacts, P!Store

LEMMA DerivedForms ==
  ASSUME NEW s \in P!Store, NEW id \in P!Ids
  PROVE  /\ P!DerivedFromAll(s, id) \in P!Store
         /\ P!DerivedFromAll(s, id).artifacts = s.artifacts
<1>1. s.derived \in [P!Ids -> SUBSET P!Ids] /\ s.artifacts \in SUBSET P!Ids
  BY DEF P!Store
<1>2. [s.derived EXCEPT ![id] = s.derived[id] \cup s.artifacts] \in [P!Ids -> SUBSET P!Ids]
  BY <1>1
<1> QED
  BY <1>2 DEF P!DerivedFromAll, P!Store

LEMMA StoringForms ==
  ASSUME Formed, NEW id \in P!Ids, NEW art \in P!Artifact, P!StoreArtifact(id, art)
  PROVE  /\ DOMAIN artifacts' \subseteq P!Ids /\ DOMAIN artifacts' = DOMAIN artifacts \cup {id}
         /\ \A i \in DOMAIN artifacts' : artifacts'[i] \in P!Artifact
BY DEF Formed, P!TypeOK, P!StoreArtifact

\* One store is replaced by a well-formed one that reads at most one id more.
LEMMA StoreForms ==
  ASSUME Formed, NEW q \in Principals, NEW id \in DOMAIN artifacts', NEW s \in P!Store,
         local' = [local EXCEPT ![q] = s], s.artifacts \subseteq local[q].artifacts \cup {id},
         DOMAIN artifacts \subseteq DOMAIN artifacts', DOMAIN artifacts' \subseteq P!Ids,
         \A i \in DOMAIN artifacts' : artifacts'[i] \in P!Artifact
  PROVE  Formed' /\ Adds(q, id)
<1>1. local \in [Principals -> P!Store] /\ \A p \in Principals : local[p].artifacts \subseteq DOMAIN artifacts
  BY DEF Formed, P!TypeOK
<1>2. /\ local' \in [Principals -> P!Store] /\ local'[q] = s
      /\ \A p \in Principals \ {q} : local'[p] = local[p]
  BY <1>1
<1>3. Adds(q, id)
  BY <1>2 DEF Adds
<1>4. \A p \in Principals : local'[p].artifacts \subseteq DOMAIN artifacts'
  BY <1>1, <1>2
<1>5. P!TypeOK'
  BY <1>2 DEF P!TypeOK, P!Store, P!Artifact, P!Ids, P!Labels
<1> QED
  BY <1>3, <1>4, <1>5 DEF Formed

LEMMA CreateSourceForms ==
  ASSUME Formed, NEW id \in Sources, P!CreateSource(id)
  PROVE  Formed' /\ Adds(Board, id)
<1> DEFINE art == [producer |-> Board, carries |-> SourceLabels[id], inputs |-> {}]
           s == P!Holding(P!AddMessageFacts(local[Board], id, art), id)
<1>1. Board \in Principals /\ id \in P!Ids /\ local[Board] \in P!Store
  BY DEF Principals, P!Ids, Formed, P!TypeOK
<1>2. SourceLabels[id] \in SUBSET P!Labels
  BY DEF SourceLabels, P!Labels, Projects, Components, Sources
<1>3. art \in P!Artifact
  BY <1>1, <1>2 DEF P!Artifact
<1>4. P!StoreArtifact(id, art) /\ local' = [local EXCEPT ![Board] = s]
  BY DEF P!CreateSource
<1> HIDE DEF art
<1>5. s \in P!Store /\ s.artifacts = local[Board].artifacts \cup {id}
  BY <1>1, <1>3, FactsForm, HoldForms
<1> HIDE DEF s
<1> QED
  BY <1>1, <1>3, <1>4, <1>5, StoringForms, StoreForms

LEMMA ComputeForms ==
  ASSUME Formed, NEW q \in Principals, NEW id \in Outputs, P!ComputeArtifact(q, id)
  PROVE  Formed' /\ Adds(q, id)
<1> DEFINE d == P!DerivedFromAll(local[q], id)
           art == [producer |-> q, carries |-> P!InheritedLabels(local[q], id),
                   inputs |-> local[q].artifacts]
           s == P!Close(P!Holding(P!AddMessageFacts(d, id, art), id))
<1>1. id \in P!Ids /\ local[q] \in P!Store
  BY DEF P!Ids, Formed, P!TypeOK
<1>2. d \in P!Store /\ d.artifacts = local[q].artifacts
  BY <1>1, DerivedForms
<1>3. P!InheritedLabels(local[q], id) \in SUBSET P!Labels
  BY <1>1, <1>2 DEF P!InheritedLabels, P!R1, P!Store
<1>4. art \in P!Artifact
  BY <1>1, <1>3 DEF P!Artifact, P!Store
<1>5. P!StoreArtifact(id, art) /\ local' = [local EXCEPT ![q] = s]
  BY DEF P!ComputeArtifact
<1> HIDE DEF art, d
<1>6. s \in P!Store /\ s.artifacts = local[q].artifacts \cup {id}
  BY <1>1, <1>2, <1>4, FactsForm, HoldForms, CloseForms
<1> HIDE DEF s
<1> QED
  BY <1>1, <1>4, <1>5, <1>6, StoringForms, StoreForms

LEMMA DeliveryForms ==
  ASSUME Formed, NEW p \in Principals, NEW q \in Principals, NEW id, P!DeliverArtifact(p, q, id)
  PROVE  Formed' /\ Adds(q, id)
<1> DEFINE r == [local[q] EXCEPT !.received = @ \cup {id}]
           a == P!Close(P!AddMessageFacts(P!Holding(r, id), id, artifacts[id]))
           s == IF P!Denied(q, id) THEN local[q] ELSE a
<1>1. /\ id \in DOMAIN artifacts /\ id \in P!Ids /\ local[q] \in P!Store
      /\ artifacts[id] \in P!Artifact /\ artifacts' = artifacts
  BY DEF P!DeliverArtifact, Formed, P!TypeOK
<1>2. r \in P!Store /\ r.artifacts = local[q].artifacts
  BY <1>1 DEF P!Store
<1>3. local' = [local EXCEPT ![q] = s]
  BY DEF P!DeliverArtifact, P!Refused, P!Accepted
<1> HIDE DEF r
<1>4. a \in P!Store /\ a.artifacts = local[q].artifacts \cup {id}
  BY <1>1, <1>2, HoldForms, FactsForm, CloseForms
<1> HIDE DEF a
<1>5. s \in P!Store /\ s.artifacts \subseteq local[q].artifacts \cup {id}
  BY <1>1, <1>4
<1> HIDE DEF s
<1>6. DOMAIN artifacts \subseteq P!Ids /\ \A i \in DOMAIN artifacts : artifacts[i] \in P!Artifact
  BY DEF Formed, P!TypeOK
<1> QED
  BY <1>1, <1>3, <1>5, <1>6, StoreForms

LEMMA NoticeForms ==
  ASSUME Formed, NEW q \in Principals, NEW id \in Notices, P!DeliveryNotice(q, id)
  PROVE  Formed' /\ Adds(q, id)
<1> DEFINE art == [producer |-> q, carries |-> {}, inputs |-> {}]
           s == P!Holding(local[q], id)
<1>1. id \in P!Ids /\ local[q] \in P!Store
  BY DEF P!Ids, Formed, P!TypeOK
<1>2. art \in P!Artifact
  BY DEF P!Artifact
<1>3. P!StoreArtifact(id, art) /\ local' = [local EXCEPT ![q] = s]
  BY DEF P!DeliveryNotice
<1> HIDE DEF art
<1>4. s \in P!Store /\ s.artifacts = local[q].artifacts \cup {id}
  BY <1>1, HoldForms
<1> HIDE DEF s
<1> QED
  BY <1>1, <1>2, <1>3, <1>4, StoringForms, StoreForms

\* The session's state in the copy and as committed, which agree between turns.
StateInv ==
  /\ Formed /\ SavedFormed
  /\ sends \subseteq Sends /\ saved.sends \subseteq Sends
  /\ turn = None => saved.artifacts = artifacts /\ saved.local = local
  /\ turn # None /\ turn.at = "deliver" => turn.id \in Outputs
  /\ events \in 0..MaxEvents

\* The steps that add to the copy, with the store they add to and what they add.
Writes(q, id) ==
  \/ q = Board /\ id \in Sources /\ CreateSource(id)
  \/ q \in Departments /\ id = q /\ GiveReason(q)
  \/ q = Auditor /\ id = Task /\ GiveTask
  \/ q = turn.owner /\ id \in Outputs /\ \E to \in Principals : Compose(to, id)
  \/ q = turn.to /\ id = turn.id /\ Deliver
  \/ q = turn.to /\ id \in Notices /\ DeliverNotice(id)

LEMMA WritesForm ==
  ASSUME CommitInv, StateInv, NEW q, NEW id, Writes(q, id)
  PROVE  q \in Principals /\ Formed' /\ Adds(q, id)
<1>1. Board \in Principals /\ Auditor \in Principals /\ Departments \subseteq Principals /\ Formed
  BY DEF Principals, StateInv
<1>2. CASE q = Board /\ id \in Sources /\ CreateSource(id)
  BY <1>1, <1>2, CreateSourceForms DEF CreateSource
<1>3. CASE q \in Departments /\ id = q /\ GiveReason(q)
  BY <1>1, <1>3, DeliveryForms DEF GiveReason
<1>4. CASE q = Auditor /\ id = Task /\ GiveTask
  BY <1>1, <1>4, DeliveryForms DEF GiveTask
<1>5. CASE q = turn.owner /\ id \in Outputs /\ \E to \in Principals : Compose(to, id)
  <2>1. turn.owner \in Principals /\ P!ComputeArtifact(turn.owner, id)
    BY <1>5 DEF Compose, Generating, CommitInv, Shapes, AtStart, InRun
  <2> QED
    BY <1>1, <1>5, <2>1, ComputeForms
<1>6. CASE q = turn.to /\ id = turn.id /\ Deliver
  <2>1. /\ turn.owner \in Principals /\ turn.to \in Principals
        /\ P!DeliverArtifact(turn.owner, turn.to, turn.id)
    BY <1>6 DEF Deliver, CommitInv, Shapes, AtStart, InRun
  <2> QED
    BY <1>1, <1>6, <2>1, DeliveryForms
<1>7. CASE q = turn.to /\ id \in Notices /\ DeliverNotice(id)
  <2>1. turn.to \in Principals /\ P!DeliveryNotice(turn.to, id)
    BY <1>7 DEF DeliverNotice, CommitInv, Shapes, AtStart, InRun
  <2> QED
    BY <1>1, <1>7, <2>1, NoticeForms
<1> QED
  BY <1>2, <1>3, <1>4, <1>5, <1>6, <1>7 DEF Writes

\* A write leaves what is committed alone, and only a delivery adds to the deliveries.
LEMMA WritesKeep ==
  ASSUME CommitInv, StateInv, NEW q, NEW id, Writes(q, id)
  PROVE  /\ UNCHANGED <<saved, events>> /\ turn # None /\ turn' # None
         /\ sends \subseteq sends' /\ sends' \subseteq Sends
         /\ turn'.at = "deliver" => turn'.id \in Outputs
         /\ \/ UNCHANGED sends /\ (turn'.at \in {"sources", "reasons", "commit"} \/ InRun)
            \/ Deliver
<1>1. UNCHANGED <<saved, events>> /\ turn # None /\ turn \in Turns
  BY DEF Writes, CreateSource, GiveReason, GiveTask, Compose, Generating, Deliver, DeliverNotice,
         CommitInv, Shapes
<1>2. CASE StartSteps /\ ~Start
  BY <1>1, <1>2, StartTurn, NoneAssumption DEF StateInv
<1>3. ASSUME NEW to \in Principals, id \in Outputs, Compose(to, id)
      PROVE  /\ turn' # None /\ turn'.id \in Outputs /\ UNCHANGED sends /\ InRun
  <2>1. turn' = [turn EXCEPT !.at = "deliver", !.to = to, !.id = id, !.allowed = Rest(to)]
    BY <1>3 DEF Compose
  <2>2. Rest(to) \subseteq Principals /\ id \in Nat
    BY <1>1, <1>3, BoundsAssumption DEF Rest, Turns, Outputs
  <2>3. turn' \in Turns /\ turn'.id = id
    BY <1>1, <1>3, <2>1, <2>2 DEF Turns
  <2> QED
    BY <1>3, <2>3, NoneAssumption DEF Compose, Generating, InRun
<1>4. CASE Deliver
  <2> DEFINE ok == ~P!Denied(turn.to, turn.id)
             new == [id |-> turn.id, run |-> turn.run, from |-> turn.owner, to |-> turn.to, ok |-> ok]
             at == IF ok THEN "generate" ELSE "notice"
  <2>1. /\ turn.owner \in Principals /\ turn.to \in Principals /\ turn.id \in Outputs
        /\ turn.run \in Nat /\ turn.wakes \in Seq(Principals)
    BY <1>1, <1>4 DEF Deliver, CommitInv, Shapes, AtStart, InRun, StateInv, Turns
  <2>2. ok \in BOOLEAN /\ at \in {"generate", "notice"}
    OBVIOUS
  <2>3. /\ sends' = sends \cup {new}
        /\ turn' = [turn EXCEPT !.at = at, !.wakes = Append(turn.wakes, turn.to)]
    BY <1>4 DEF Deliver
  <2> HIDE DEF ok, at
  <2>4. new \in Sends
    BY <2>1, <2>2 DEF Sends
  <2>5. Append(turn.wakes, turn.to) \in Seq(Principals)
    BY <2>1
  <2>6. turn' \in Turns /\ turn'.at # "deliver"
    BY <1>1, <2>2, <2>3, <2>5 DEF Turns
  <2> HIDE DEF new
  <2> QED
    BY <1>1, <1>4, <2>3, <2>4, <2>6, NoneAssumption DEF StateInv
<1>5. CASE DeliverNotice(id)
  <2>1. turn' = [turn EXCEPT !.at = "generate"]
    BY <1>5 DEF DeliverNotice
  <2>2. turn' \in Turns /\ turn'.at = "generate"
    BY <1>1, <2>1 DEF Turns
  <2> QED
    BY <1>1, <1>5, <2>2, NoneAssumption DEF DeliverNotice, StateInv, InRun
<1>6. \/ StartSteps /\ ~Start
      \/ Deliver \/ DeliverNotice(id)
      \/ id \in Outputs /\ \E to \in Principals : Compose(to, id)
  BY <1>1 DEF Writes, StartSteps, Start
<1> QED
  BY <1>1, <1>2, <1>3, <1>4, <1>5, <1>6 DEF StateInv

\* Every step is a write, a step that keeps the session's state, a commit or a rollback.
Commits == CommitStart \/ Commit
RollsBack == CommitRefused \/ TurnFails \/ Crash
Elsewhere ==
  \/ Start
  \/ \E r \in RunIds : Claim(r) \/ ClaimAgain(r) \/ Stop(r)
  \/ \E e \in waiting : Begin(e) \/ RecordFailure(e)

LEMMA StepKinds ==
  ASSUME Next PROVE (\E q, id : Writes(q, id)) \/ Commits \/ RollsBack \/ Elsewhere
BY DEF Next, Writes, Commits, RollsBack, Elsewhere

LEMMA CommitsMean ==
  ASSUME Commits
  PROVE  /\ turn' = None /\ UNCHANGED <<artifacts, local, sends, events>>
         /\ saved'.artifacts = artifacts /\ saved'.local = local /\ saved'.sends = sends
BY DEF Commits, CommitStart, Commit, Copy

LEMMA RollsBackMeans ==
  ASSUME RollsBack, events \in 0..MaxEvents
  PROVE  /\ turn' = None /\ saved' = saved /\ events' \in 0..MaxEvents
         /\ artifacts' = saved.artifacts /\ local' = saved.local /\ sends' = saved.sends
<1>1. MaxEvents \in Nat
  BY BoundsAssumption
<1> QED
  BY <1>1 DEF RollsBack, CommitRefused, TurnFails, Crash, Rollback, RolledBack

LEMMA ElsewhereMeans ==
  ASSUME CommitInv, StateInv, Elsewhere
  PROVE  /\ UNCHANGED <<artifacts, local, sends, saved>> /\ events' \in 0..MaxEvents
         /\ turn = None => turn' = None \/ turn'.at \in {"sources", "generate"}
         /\ turn # None => turn' = turn
<1>1. events \in 0..MaxEvents /\ MaxEvents \in Nat
  BY BoundsAssumption DEF StateInv
<1>2. ASSUME NEW e \in waiting, Begin(e)
      PROVE  turn = None /\ (turn' = None \/ turn'.at = "generate")
  <2>1. CASE Owned(e)
    BY <1>2, <2>1 DEF Begin, Turn
  <2> QED
    BY <1>2, <2>1 DEF Begin
<1>3. Start => turn = None /\ turn'.at = "sources"
  BY DEF Start, Turn
<1>4. UNCHANGED <<artifacts, local, sends, saved>> /\ events' \in 0..MaxEvents
  <2>1. ASSUME NEW r \in RunIds, ClaimAgain(r) \/ Stop(r)
        PROVE  UNCHANGED <<artifacts, local, sends, saved>> /\ events' \in 0..MaxEvents
    <3>1. UNCHANGED <<artifacts, local, sends, saved>> /\ events < MaxEvents /\ events' = events + 1
      BY <2>1 DEF ClaimAgain, Stop, Copy
    <3> QED
      BY <1>1, <3>1
  <2>2. ASSUME \/ Start \/ \E r \in RunIds : Claim(r)
               \/ \E e \in waiting : Begin(e) \/ RecordFailure(e)
        PROVE  UNCHANGED <<artifacts, local, sends, saved, events>>
    BY <2>2 DEF Start, Claim, Begin, RecordFailure, Copy
  <2> QED
    BY <1>1, <2>1, <2>2 DEF Elsewhere
<1> QED
  BY <1>2, <1>3, <1>4 DEF Elsewhere, Claim, ClaimAgain, Stop, RecordFailure

LEMMA NextState == CommitInv /\ StateInv /\ [Next]_vars => StateInv'
<1> SUFFICES ASSUME CommitInv, StateInv, [Next]_vars PROVE StateInv'
  OBVIOUS
<1>1. CASE UNCHANGED vars
  BY <1>1 DEF vars, StateInv, Formed, SavedFormed, P!TypeOK, Q!TypeOK
<1>2. ASSUME NEW q, NEW id, Writes(q, id) PROVE StateInv'
  <2>1. Formed' /\ SavedFormed'
    BY <1>2, WritesForm, WritesKeep DEF StateInv, SavedFormed, Q!TypeOK
  <2> QED
    BY <1>2, <2>1, WritesKeep DEF StateInv
<1>3. CASE Commits
  <2>1. Formed' /\ SavedFormed'
    BY <1>3, CommitsMean
    DEF StateInv, Formed, SavedFormed, P!TypeOK, Q!TypeOK, P!Ids, Q!Ids, P!Artifact, Q!Artifact,
        P!Store, Q!Store, P!Labels, Q!Labels
  <2> QED
    BY <1>3, <2>1, CommitsMean DEF StateInv
<1>4. CASE RollsBack
  <2>1. Formed' /\ SavedFormed'
    BY <1>4, RollsBackMeans
    DEF StateInv, Formed, SavedFormed, P!TypeOK, Q!TypeOK, P!Ids, Q!Ids, P!Artifact, Q!Artifact,
        P!Store, Q!Store, P!Labels, Q!Labels
  <2> QED
    BY <1>4, <2>1, RollsBackMeans DEF StateInv
<1>5. CASE Elsewhere
  <2>1. Formed' /\ SavedFormed'
    BY <1>5, ElsewhereMeans DEF StateInv, Formed, SavedFormed, P!TypeOK, Q!TypeOK
  <2> QED
    BY <1>5, <2>1, ElsewhereMeans DEF StateInv
<1> QED
  BY <1>1, <1>2, <1>3, <1>4, <1>5, StepKinds

LEMMA InitState == Init => StateInv
<1> SUFFICES ASSUME Init PROVE StateInv
  OBVIOUS
<1>1. P!EmptyStore \in P!Store /\ Q!EmptyStore = P!EmptyStore
  BY DEF P!EmptyStore, P!Store, Q!EmptyStore, P!Ids, Q!Ids
<1>2. /\ DOMAIN artifacts = {} /\ local = [p \in Principals |-> P!EmptyStore] /\ sends = {}
      /\ saved.artifacts = artifacts /\ saved.local = local /\ saved.sends = {}
      /\ turn = None /\ events = 0 /\ MaxEvents \in Nat
  BY BoundsAssumption DEF Init, P!Init
<1>3. \A p \in Principals : local[p].artifacts = {}
  BY <1>2 DEF P!EmptyStore
<1>4. Formed
  BY <1>1, <1>2, <1>3 DEF Formed, P!TypeOK
<1>5. SavedFormed
  BY <1>2, <1>4
  DEF Formed, SavedFormed, P!TypeOK, Q!TypeOK, P!Ids, Q!Ids, P!Artifact, Q!Artifact,
      P!Store, Q!Store, P!Labels, Q!Labels
<1> QED
  BY <1>2, <1>4, <1>5 DEF StateInv

\* Every variable keeps its shape, and between turns the copy is what is committed.
THEOREM TypeCorrect == Spec => []TypeOK
<1>1. CommitInv /\ StateInv => TypeOK
  BY DEF CommitInv, StateInv, Shapes, CopyAhead, TypeOK, Formed
<1> QED
  BY <1>1, InitCommitInv, NextCommitInv, InitState, NextState, PTL DEF Spec

-----------------------------------------------------------------------------
(* The report.                                                             *)

Asked(S) == \A dept \in Departments : \E t \in S : t.from = Auditor /\ t.to = dept
Withheld(q, S) == \E t \in S : t.to = q /\ ~t.ok
Reports(S) == \A s \in S : s.to = Board => Asked(S) /\ Withheld(Auditor, S)

\* Who holds a notice was refused a message.
NoticesTrue ==
  \A p \in Principals : local[p].artifacts \cap Notices # {} => Withheld(p, sends)
SavedNoticesTrue ==
  \A p \in Principals : saved.local[p].artifacts \cap Notices # {} => Withheld(p, saved.sends)

\* A turn that may report, does so on a full round of requests and a refusal.
ReportInv ==
  /\ Reports(sends) /\ Reports(saved.sends) /\ NoticesTrue /\ SavedNoticesTrue
  /\ turn # None /\ InRun /\ (Board \in turn.allowed \/ (turn.at = "deliver" /\ turn.to = Board))
       => Asked(sends) /\ Withheld(Auditor, sends)
  /\ turn # None /\ turn.at = "notice" => Withheld(turn.to, sends)

LEMMA KindsApart == Notices \cap (Sources \cup Outputs) = {}
<1>1. Notices \subseteq Nat /\ Sources \cap Nat = {}
  BY BoundsAssumption, KindsAssumption DEF Notices, Sources
<1>2. Notices \cap Outputs = {}
  BY BoundsAssumption DEF Notices, Outputs
<1> QED
  BY <1>1, <1>2

LEMMA MoreSent ==
  ASSUME NEW S, NEW T, S \subseteq T
  PROVE  (Asked(S) => Asked(T)) /\ \A q : Withheld(q, S) => Withheld(q, T)
BY DEF Asked, Withheld

LEMMA AllowedBoard ==
  ASSUME NEW owner, Board \in Allowed(owner), NoticesTrue
  PROVE  Asked(sends) /\ Withheld(Auditor, sends)
<1>1. Board # Auditor /\ Board \notin Departments
  BY NamesAssumption
<1>2. owner = Auditor /\ PendingRequests = {} /\ AuditReady
  BY <1>1 DEF Allowed, PendingRequests
<1>3. Asked(sends)
  BY <1>2 DEF PendingRequests, SentTo, Asked
<1>4. Withheld(Auditor, sends)
  BY <1>2 DEF AuditReady, NoticesTrue, Principals
<1> QED
  BY <1>3, <1>4

\* What a write adds to a store is a notice only after a refusal.
LEMMA WritesNotices ==
  ASSUME CommitInv, StateInv, ReportInv, NEW q, NEW id, Writes(q, id)
  PROVE  NoticesTrue'
<1>1. q \in Principals /\ Adds(q, id) /\ sends \subseteq sends'
  BY WritesForm, WritesKeep
<1>2. id \in Notices => Withheld(q, sends)
  <2>1. CASE id \in Sources \cup Outputs
    BY <2>1, KindsApart
  <2>2. CASE q = turn.to /\ DeliverNotice(id)
    BY <2>2 DEF DeliverNotice, ReportInv
  <2>3. Deliver /\ id = turn.id => id \in Outputs
    BY DEF Deliver, StateInv
  <2> QED
    BY <2>1, <2>2, <2>3 DEF Writes, Sources
<1>3. \A p \in Principals : local[p].artifacts \cap Notices # {} => Withheld(p, sends)
  BY DEF ReportInv, NoticesTrue
<1>4. \A p \in Principals : local'[p].artifacts \cap Notices # {} => Withheld(p, sends)
  BY <1>1, <1>2, <1>3 DEF Adds
<1>5. \A p \in Principals : local'[p].artifacts \cap Notices # {} => Withheld(p, sends')
  BY <1>1, <1>4, MoreSent
<1> QED
  BY <1>5 DEF NoticesTrue, Withheld, Notices, Principals

LEMMA DeliverReports ==
  ASSUME CommitInv, StateInv, ReportInv, Deliver
  PROVE  /\ Reports(sends')
         /\ InRun' /\ Board \in turn'.allowed => Asked(sends') /\ Withheld(Auditor, sends')
         /\ turn'.at # "deliver"
         /\ turn'.at = "notice" => Withheld(turn'.to, sends')
<1> DEFINE ok == ~P!Denied(turn.to, turn.id)
           new == [id |-> turn.id, run |-> turn.run, from |-> turn.owner, to |-> turn.to, ok |-> ok]
<1>1. sends' = sends \cup {new}
  BY DEF Deliver
<1>2. /\ turn \in Turns /\ turn # None /\ turn.at = "deliver" /\ InRun
  BY DEF Deliver, CommitInv, Shapes, InRun
<1>3. /\ turn'.to = turn.to /\ turn'.allowed = turn.allowed
      /\ turn'.at = IF ok THEN "generate" ELSE "notice"
  BY <1>2 DEF Deliver, Turns
<1>4. new.to = turn.to /\ new.ok = ok
  OBVIOUS
<1> HIDE DEF ok, new
<1>5. turn'.at = "notice" => Withheld(turn'.to, sends')
  BY <1>1, <1>3, <1>4 DEF Withheld
<1>6. Board \in turn.allowed \/ turn.to = Board => Asked(sends') /\ Withheld(Auditor, sends')
  BY <1>1, <1>2, MoreSent DEF ReportInv
<1>7. Reports(sends')
  <2>1. ASSUME NEW s \in sends', s.to = Board PROVE Asked(sends') /\ Withheld(Auditor, sends')
    <3>1. CASE s \in sends
      BY <1>1, <2>1, <3>1, MoreSent DEF ReportInv, Reports
    <3>2. CASE s = new
      BY <1>4, <1>6, <2>1, <3>2
    <3> QED
      BY <1>1, <3>1, <3>2
  <2> QED
    BY <2>1 DEF Reports
<1> QED
  BY <1>3, <1>5, <1>6, <1>7

\* A turn may write to the Board only what it was allowed to.
MayReport == turn # None /\ InRun /\ (Board \in turn.allowed \/ (turn.at = "deliver" /\ turn.to = Board))

LEMMA WritesReport ==
  ASSUME CommitInv, StateInv, ReportInv, NEW q, NEW id, Writes(q, id)
  PROVE  ReportInv'
<1>1. saved' = saved /\ NoticesTrue'
  BY WritesKeep, WritesNotices
<1>2. Reports(saved'.sends) /\ SavedNoticesTrue'
  BY <1>1 DEF ReportInv, SavedNoticesTrue, Notices, Principals, Withheld
<1>3. CASE Deliver
  BY <1>1, <1>2, <1>3, DeliverReports DEF ReportInv, InRun
<1>4. ASSUME sends' = sends, MayReport' => MayReport,
             turn'.at # "notice"
      PROVE  ReportInv'
  BY <1>1, <1>2, <1>4 DEF ReportInv, MayReport
<1>5. CASE StartSteps /\ ~Start
  <2>1. sends' = sends /\ turn'.at \in {"sources", "reasons", "commit"}
    BY <1>5, StartTurn
  <2> QED
    BY <1>4, <2>1 DEF MayReport, InRun
<1>6. ASSUME NEW to \in Principals, id \in Outputs, Compose(to, id) PROVE ReportInv'
  <2>1. /\ turn \in Turns /\ turn # None /\ InRun /\ to \in turn.allowed /\ sends' = sends
        /\ turn' = [turn EXCEPT !.at = "deliver", !.to = to, !.id = id, !.allowed = Rest(to)]
    BY <1>6 DEF Compose, Generating, InRun, CommitInv, Shapes
  <2>2. turn'.at = "deliver" /\ turn'.to = to /\ turn'.allowed = turn.allowed \ {to}
    BY <2>1 DEF Turns, Rest
  <2> QED
    BY <1>4, <2>1, <2>2 DEF MayReport
<1>7. CASE DeliverNotice(id)
  <2>1. /\ turn \in Turns /\ turn # None /\ InRun /\ sends' = sends
        /\ turn' = [turn EXCEPT !.at = "generate"]
    BY <1>7 DEF DeliverNotice, InRun, CommitInv, Shapes
  <2>2. turn'.at = "generate" /\ turn'.allowed = turn.allowed
    BY <2>1 DEF Turns
  <2> QED
    BY <1>4, <2>1, <2>2 DEF MayReport
<1>8. \/ StartSteps /\ ~Start
      \/ Deliver \/ DeliverNotice(id)
      \/ id \in Outputs /\ \E to \in Principals : Compose(to, id)
  <2>1. turn # None
    BY WritesKeep
  <2> QED
    BY <2>1 DEF Writes, StartSteps, Start
<1> QED
  BY <1>3, <1>5, <1>6, <1>7, <1>8

LEMMA NextReport == CommitInv /\ StateInv /\ ReportInv /\ [Next]_vars => ReportInv'
<1> SUFFICES ASSUME CommitInv, StateInv, ReportInv, [Next]_vars PROVE ReportInv'
  OBVIOUS
<1> USE DEF NoticesTrue, SavedNoticesTrue, Notices, Principals, Withheld, Asked, Reports
<1>1. CASE UNCHANGED vars
  BY <1>1 DEF vars, ReportInv, InRun
<1>2. CASE \E q, id : Writes(q, id)
  BY <1>2, WritesReport
<1>3. CASE Commits
  BY <1>3, CommitsMean DEF ReportInv
<1>4. CASE RollsBack
  BY <1>4, RollsBackMeans DEF ReportInv, StateInv
<1>5. CASE Elsewhere
  <2>1. UNCHANGED <<artifacts, local, sends, saved>>
    BY <1>5, ElsewhereMeans
  <2>2. turn # None => turn' = turn
    BY <1>5, ElsewhereMeans
  <2>3. turn = None => turn' = None \/ turn'.at = "sources" \/ \E e \in waiting : Begin(e)
    <3>1. Start => turn'.at = "sources"
      BY DEF Start, Turn
    <3>2. ASSUME NEW r \in RunIds, Claim(r) \/ ClaimAgain(r) \/ Stop(r) PROVE turn' = turn
      BY <3>2 DEF Claim, ClaimAgain, Stop
    <3>3. ASSUME NEW e \in waiting, RecordFailure(e) PROVE turn' = turn
      BY <3>3 DEF RecordFailure
    <3> QED
      BY <1>5, <3>1, <3>2, <3>3 DEF Elsewhere
  <2>4. ASSUME NEW e \in waiting, Begin(e), turn' # None
        PROVE  turn'.at = "generate" /\ (Board \in turn'.allowed => Asked(sends) /\ Withheld(Auditor, sends))
    <3> DEFINE owner == runs[e.run].owner
               allowed == Allowed(owner)
    <3>1. turn' = Turn(e.run, e.fence, owner, "generate", allowed)
      BY <2>4 DEF Begin
    <3>2. Board \in allowed => Asked(sends) /\ Withheld(Auditor, sends)
      BY AllowedBoard DEF ReportInv
    <3> HIDE DEF owner, allowed
    <3> QED
      BY <3>1, <3>2 DEF Turn
  <2> QED
    BY <2>1, <2>2, <2>3, <2>4 DEF ReportInv, InRun
<1> QED
  BY <1>1, <1>2, <1>3, <1>4, <1>5, StepKinds

\* The auditor reports to the Board only when every department was asked and a message
\* was withheld from it, whatever was stopped, repeated or rolled back on the way.
THEOREM ReportsIncomplete == Spec => []ReportIncomplete
<1>1. Init => ReportInv
  <2> SUFFICES ASSUME Init PROVE ReportInv
    OBVIOUS
  <2>1. /\ sends = {} /\ saved.sends = {} /\ turn = None /\ saved.local = local
        /\ local = [p \in Principals |-> P!EmptyStore]
    BY DEF Init, P!Init
  <2>2. \A p \in Principals : local[p].artifacts = {}
    BY <2>1 DEF P!EmptyStore
  <2> QED
    BY <2>1, <2>2 DEF ReportInv, Reports, NoticesTrue, SavedNoticesTrue
<1>2. ReportInv => ReportIncomplete
  BY DEF ReportInv, Reports, Asked, Withheld, ReportIncomplete
<1> QED
  BY <1>1, <1>2, InitCommitInv, NextCommitInv, InitState, NextState, NextReport, PTL DEF Spec
-----------------------------------------------------------------------------
(* The audit concludes.                                                    *)

Label(dept) == <<Nova, dept>>
Pair(K) == \E a, b \in K : a # b
Triple(K) == \E a, b, c \in K : a # b /\ a # c /\ b # c

\* A store that knows the labels of all it has, less than three, and has what its facts
\* speak of.
Sound(s) ==
  /\ \A i \in P!Ids : s.carries[i] \subseteq s.knows /\ s.derived[i] \subseteq s.artifacts
  /\ s.received \subseteq s.artifacts
  /\ ~Triple(s.knows)

\* The departments have no labels but their own and what the auditor knows.
Facts(loc, arts) ==
  /\ Sound(loc[Auditor])
  /\ \A dept \in Departments :
       /\ \A i \in P!Ids : loc[dept].carries[i] \subseteq {Label(dept)} \cup loc[Auditor].knows
       /\ dept \in loc[dept].artifacts => Label(dept) \in loc[dept].carries[dept]
  /\ \A i \in Sources \cap DOMAIN arts : arts[i].carries = SourceLabels[i]

Briefed(loc) == \A dept \in Departments : dept \in loc[dept].artifacts

\* An answer taught the auditor a component, or was withheld because it knows two.
Weighed(loc, S) ==
  \A s \in S : s.to = Auditor =>
    IF s.ok THEN Label(s.from) \in loc[Auditor].knows ELSE Pair(loc[Auditor].knows)

Noticed(loc, S) == Withheld(Auditor, S) => loc[Auditor].artifacts \cap Notices # {}

Told(q, S) == \E s \in S : s.from = Auditor /\ s.to = q
Replied(dept, S) == \E s \in S : s.from = dept /\ s.to = Auditor

\* Who writes to whom.
Route(from, to) ==
  \/ from = Auditor /\ to \in Departments \cup {Board}
  \/ from \in Departments /\ to = Auditor

\* Departments act only when they were asked.
Asking(S) == \A s \in S : Route(s.from, s.to) /\ (s.from \in Departments => Told(s.from, S))

\* The turn of a run has not delivered anything yet.
Silent == \A s \in sends : s.run # turn.run

\* It wakes those it has written to, and departments only when it has asked them.
WakesTrue ==
  /\ \A s \in sends : s.run = turn.run =>
       s.from = turn.owner /\ \E i \in DOMAIN turn.wakes : turn.wakes[i] = s.to
  /\ \A i \in DOMAIN turn.wakes : turn.wakes[i] \in Departments => Told(turn.wakes[i], sends)

\* Its run is not over, and its bot may write to those it was allowed to write to when
\* the turn began.
AtWork ==
  turn # None /\ InRun =>
    /\ saved.started /\ Briefed(local) /\ WakesTrue
    /\ runs[turn.run].status # "completed" /\ runs[turn.run].owner = turn.owner
    /\ \A q \in turn.allowed : Route(turn.owner, q)
    /\ turn.at = "generate" /\ Silent => turn.allowed = Allowed(turn.owner)
    /\ turn.at = "notice" => ~Silent

\* A message on its way is news to its receiver, and carries what its writer knows.
Letter ==
  turn # None /\ turn.at = "deliver" =>
    /\ Route(turn.owner, turn.to)
    /\ turn.id \in DOMAIN artifacts /\ turn.id \notin local[turn.to].artifacts
    /\ IF turn.owner = Auditor
       THEN artifacts[turn.id].carries \subseteq local[Auditor].knows
       ELSE /\ artifacts[turn.id].carries \subseteq {Label(turn.owner)} \cup local[Auditor].knows
            /\ Label(turn.owner) \in artifacts[turn.id].carries

TurnInv ==
  /\ saved.sends \subseteq sends
  /\ turn # None /\ turn.at = "commit" => Briefed(local) /\ turn.wakes = <<Auditor>>
  /\ AtWork /\ Letter
  /\ turn = None \/ ~(turn.at = "notice" /\ turn.to = Auditor) => Noticed(local, sends)

\* Somebody has something left to do: he has a run that is not over, or that he left idle.
Open(q) == \E r \in RunIds : runs[r].owner = q /\ (runs[r].status # "completed" \/ runs[r].idle)

Duties ==
  /\ saved.started => Briefed(saved.local)
  /\ \A r \in RunIds : runs[r].owner \in Departments => Told(runs[r].owner, saved.sends)
  /\ ~Told(Board, saved.sends) =>
       /\ \A dept \in Departments :
            Told(dept, saved.sends) /\ ~Replied(dept, saved.sends) => Open(dept)
       /\ saved.started /\ (\A dept \in Departments :
                              Told(dept, saved.sends) => Replied(dept, saved.sends))
            => Open(Auditor)
  /\ RunIds # {} => saved.started

Audit ==
  /\ Facts(local, artifacts) /\ Facts(saved.local, saved.artifacts)
  /\ Weighed(local, sends) /\ Weighed(saved.local, saved.sends)
  /\ Noticed(saved.local, saved.sends)
  /\ Asking(sends) /\ Asking(saved.sends)
  /\ TurnInv /\ Duties

\* All that the conclusion rests on.
AuditInv == CommitInv /\ StateInv /\ OnceInv /\ Audit

-----------------------------------------------------------------------------
(* What the rules do to the labels of a store.                             *)

LEMMA CloseLabels ==
  ASSUME NEW s \in P!Store
  PROVE  /\ P!Close(s).derived = s.derived /\ P!Close(s).received = s.received
         /\ P!Close(s).artifacts = s.artifacts
         /\ \A i \in P!Ids : P!Close(s).carries[i] =
                               s.carries[i] \cup UNION {s.carries[x] : x \in s.derived[i]}
         /\ P!Close(s).knows = s.knows \cup UNION {P!Close(s).carries[m] : m \in s.received}
<1> DEFINE c == [s EXCEPT !.carries = P!R1(s)]
<1>1. P!R1(s) \in [P!Ids -> SUBSET P!Labels]
  BY DEF P!R1, P!Store
<1>2. /\ c \in P!Store /\ c.carries = P!R1(s) /\ c.derived = s.derived
      /\ c.received = s.received /\ c.artifacts = s.artifacts /\ c.knows = s.knows
  BY <1>1 DEF P!Store
<1>3. P!Close(s) = [c EXCEPT !.knows = P!R2(c)]
  BY DEF P!Close
<1> HIDE DEF c
<1>4. /\ P!Close(s).carries = P!R1(s) /\ P!Close(s).knows = P!R2(c)
      /\ P!Close(s).derived = s.derived /\ P!Close(s).received = s.received
      /\ P!Close(s).artifacts = s.artifacts
  BY <1>2, <1>3 DEF P!Store
<1>5. P!R2(c) = s.knows \cup UNION {P!R1(s)[m] : m \in s.received}
  BY <1>2 DEF P!R2
<1>6. \A i \in P!Ids : P!R1(s)[i] = s.carries[i] \cup UNION {s.carries[x] : x \in s.derived[i]}
  BY DEF P!R1
<1> QED
  BY <1>4, <1>5, <1>6

\* The rules derive labels of the store's own facts only, and forget none.
LEMMA CloseWithin ==
  ASSUME NEW s \in P!Store
  PROVE  /\ \A i \in P!Ids : s.carries[i] \subseteq P!Close(s).carries[i]
         /\ \A i \in P!Ids : \A y \in P!Close(s).carries[i] : \E x \in P!Ids : y \in s.carries[x]
         /\ \A y \in P!Close(s).knows : y \in s.knows \/ \E x \in P!Ids : y \in s.carries[x]
         /\ s.knows \subseteq P!Close(s).knows
         /\ \A m \in s.received : P!Close(s).carries[m] \subseteq P!Close(s).knows
         /\ \A y \in P!Close(s).knows : y \in s.knows \/ \E m \in s.received : y \in P!Close(s).carries[m]
<1>1. s.derived \in [P!Ids -> SUBSET P!Ids] /\ s.received \subseteq P!Ids
  BY DEF P!Store
<1>2. \A i \in P!Ids : \A y \in P!Close(s).carries[i] : \E x \in P!Ids : y \in s.carries[x]
  BY <1>1, CloseLabels
<1>3. /\ s.knows \subseteq P!Close(s).knows
      /\ \A m \in s.received : P!Close(s).carries[m] \subseteq P!Close(s).knows
      /\ \A y \in P!Close(s).knows : y \in s.knows \/ \E m \in s.received : y \in P!Close(s).carries[m]
  BY CloseLabels
<1> QED
  BY <1>1, <1>2, <1>3, CloseLabels

\* A store that takes in a message's facts.
LEMMA FactsLabels ==
  ASSUME NEW s \in P!Store, NEW id \in P!Ids, NEW art \in P!Artifact
  PROVE  \E carries \in [P!Ids -> SUBSET P!Labels] :
           /\ P!AddMessageFacts(s, id, art) = [s EXCEPT !.carries = carries]
           /\ carries[id] = s.carries[id] \cup art.carries
           /\ \A i \in P!Ids \ {id} : carries[i] = s.carries[i]
<1>1. s.carries \in [P!Ids -> SUBSET P!Labels] /\ art.carries \in SUBSET P!Labels
  BY DEF P!Store, P!Artifact
<1> DEFINE carries == [s.carries EXCEPT ![id] = s.carries[id] \cup art.carries]
<1>2. /\ carries \in [P!Ids -> SUBSET P!Labels] /\ carries[id] = s.carries[id] \cup art.carries
      /\ \A i \in P!Ids \ {id} : carries[i] = s.carries[i]
  BY <1>1
<1>3. P!AddMessageFacts(s, id, art) = [s EXCEPT !.carries = carries]
  BY DEF P!AddMessageFacts
<1> HIDE DEF carries
<1> QED
  BY <1>2, <1>3

\* What an allowed delivery leaves behind, before the rules.
LEMMA TakenLabels ==
  ASSUME NEW s \in P!Store, NEW id \in P!Ids, NEW art \in P!Artifact, NEW r, NEW t,
         r = [s EXCEPT !.received = @ \cup {id}],
         t = P!AddMessageFacts(P!Holding(r, id), id, art)
  PROVE  /\ t \in P!Store /\ t.derived = s.derived /\ t.received = s.received \cup {id}
         /\ t.artifacts = s.artifacts \cup {id} /\ t.knows = s.knows
         /\ t.carries[id] = s.carries[id] \cup art.carries
         /\ \A i \in P!Ids \ {id} : t.carries[i] = s.carries[i]
<1> DEFINE h == P!Holding(r, id)
<1>1. /\ r \in P!Store /\ r.derived = s.derived /\ r.received = s.received \cup {id}
      /\ r.artifacts = s.artifacts /\ r.knows = s.knows /\ r.carries = s.carries
  BY DEF P!Store
<1>2. /\ h \in P!Store /\ h.derived = s.derived /\ h.received = s.received \cup {id}
      /\ h.artifacts = s.artifacts \cup {id} /\ h.knows = s.knows /\ h.carries = s.carries
  BY <1>1 DEF P!Holding, P!Store
<1>3. t = P!AddMessageFacts(h, id, art)
  OBVIOUS
<1> HIDE DEF h
<1>4. PICK carries \in [P!Ids -> SUBSET P!Labels] :
        /\ P!AddMessageFacts(h, id, art) = [h EXCEPT !.carries = carries]
        /\ carries[id] = h.carries[id] \cup art.carries
        /\ \A i \in P!Ids \ {id} : carries[i] = h.carries[i]
  BY <1>2, FactsLabels
<1>5. t = [h EXCEPT !.carries = carries]
  BY <1>3, <1>4
<1>6. /\ t \in P!Store /\ t.derived = h.derived /\ t.received = h.received
      /\ t.artifacts = h.artifacts /\ t.knows = h.knows /\ t.carries = carries
  BY <1>2, <1>5 DEF P!Store
<1> QED
  BY <1>2, <1>4, <1>6

-----------------------------------------------------------------------------
(* What a delivery teaches the auditor, and what the policy withholds.     *)

LEMMA MoreTriple == ASSUME NEW A, NEW B, A \subseteq B, Triple(A) PROVE Triple(B)
<1>1. PICK x, y, z \in A : x # y /\ x # z /\ y # z
  BY DEF Triple
<1> QED
  BY <1>1 DEF Triple

LEMMA LabelShape ==
  ASSUME NEW x \in P!Labels
  PROVE  x[2] \in Departments /\ x = <<Nova, x[2]>>
BY DEF P!Labels, Projects, Components

\* The rules R3 refuse whatever would be the third label.
LEMMA ThirdRefused ==
  ASSUME NEW s, NEW id, s.knows \subseteq P!Labels, s.carries[id] \subseteq P!Labels,
         Triple(s.knows \cup s.carries[id]), ~Triple(s.knows)
  PROVE  P!R3(s, id)
<1> DEFINE all == s.knows \cup s.carries[id]
           New == P!New(s, id)
<1>1. New = all \ s.knows
  BY DEF P!New
<1>2. \A x \in all : x[2] \in Departments /\ x = <<Nova, x[2]>>
  BY LabelShape
<1> HIDE DEF all, New
<1>3. PICK a \in all, b \in all, c \in all : a # b /\ a # c /\ b # c
  BY DEF Triple, all
<1>4. PICK x \in all, y \in all, z \in all :
        x # y /\ x # z /\ y # z /\ x \in New /\ (y \in New \/ z \in s.knows)
  <2>1. a \in New \/ b \in New \/ c \in New
    BY <1>1, <1>3 DEF Triple
  <2>2. ASSUME NEW x \in all, NEW y \in all, NEW z \in all, x # y, x # z, y # z, x \in New
        PROVE  \E u \in all, v \in all, w \in all :
                 u # v /\ u # w /\ v # w /\ u \in New /\ (v \in New \/ w \in s.knows)
    <3>1. CASE y \in New
      BY <2>2, <3>1
    <3>2. CASE z \in New
      BY <2>2, <3>2
    <3>3. CASE y \notin New /\ z \notin New
      BY <1>1, <2>2, <3>3
    <3> QED
      BY <3>1, <3>2, <3>3
  <2> QED
    BY <1>3, <2>1, <2>2
<1>5. x[2] # y[2] /\ x[2] # z[2] /\ y[2] # z[2]
  BY <1>2, <1>4
<1>6. PICK p \in Projects : <<p, x[2]>> = x /\ <<p, y[2]>> = y /\ <<p, z[2]>> = z
  BY <1>2 DEF Projects
<1>7. /\ x \in New
      /\ \/ y \in New /\ z \in New
         \/ y \in New /\ z \in s.knows
         \/ y \in s.knows /\ z \in s.knows
  BY <1>1, <1>4
<1>8. P!Distinct(x[2], y[2], z[2]) /\ {x[2], y[2], z[2]} \subseteq Components
  BY <1>2, <1>5 DEF P!Distinct, Components
<1>9. /\ <<p, x[2]>> \in P!New(s, id)
      /\ \/ <<p, y[2]>> \in P!New(s, id) /\ <<p, z[2]>> \in P!New(s, id)
         \/ <<p, y[2]>> \in P!New(s, id) /\ <<p, z[2]>> \in s.knows
         \/ <<p, y[2]>> \in s.knows /\ <<p, z[2]>> \in s.knows
  BY <1>6, <1>7 DEF New
<1> QED
  BY <1>8, <1>9 DEF P!R3

\* What the rules refuse would make a third label.
LEMMA RefusedThird ==
  ASSUME NEW s, NEW id, NEW l, NEW K, P!R3(s, id), s.knows \subseteq {l} \cup K,
         s.carries[id] \subseteq {l} \cup K
  PROVE  Pair(K)
<1>1. PICK p \in Projects, c1 \in Components, c2 \in Components, c3 \in Components :
        /\ P!Distinct(c1, c2, c3)
        /\ {<<p, c1>>, <<p, c2>>, <<p, c3>>} \subseteq P!New(s, id) \cup s.knows
  BY DEF P!R3
<1>2. {<<p, c1>>, <<p, c2>>, <<p, c3>>} \subseteq {l} \cup K
  BY <1>1 DEF P!New
<1>3. <<p, c1>> # <<p, c2>> /\ <<p, c1>> # <<p, c3>> /\ <<p, c2>> # <<p, c3>>
  BY <1>1 DEF P!Distinct
<1> QED
  BY <1>2, <1>3 DEF Pair

\* A message that carries one label the receiver need not know: either it knows two
\* others, or it learns the label and still knows less than three.
LEMMA Weighing ==
  ASSUME NEW s \in P!Store, Sound(s), NEW id \in P!Ids, NEW art \in P!Artifact, NEW l,
         art.carries \subseteq {l} \cup s.knows,
         id \notin s.artifacts \/ art.carries \subseteq s.knows,
         NEW r, NEW e, NEW a, r = [s EXCEPT !.received = @ \cup {id}],
         e = P!Close(P!AddMessageFacts(s, id, art)),
         a = P!Close(P!AddMessageFacts(P!Holding(r, id), id, art))
  PROVE  /\ P!R3(e, id) => Pair(s.knows)
         /\ ~P!R3(e, id) => Sound(a)
         /\ s.knows \subseteq a.knows /\ art.carries \subseteq a.knows
         /\ \A i \in P!Ids : s.carries[i] \subseteq a.carries[i]
<1> DEFINE f == P!AddMessageFacts(s, id, art)
           t == P!AddMessageFacts(P!Holding(r, id), id, art)
           K == s.knows
<1>0. /\ s.carries \in [P!Ids -> SUBSET P!Labels] /\ s.derived \in [P!Ids -> SUBSET P!Ids]
      /\ s.received \subseteq P!Ids /\ s.artifacts \subseteq P!Ids /\ K \subseteq P!Labels
      /\ art.carries \subseteq P!Labels
  BY DEF P!Store, P!Artifact
<1>1. /\ t \in P!Store /\ t.derived = s.derived /\ t.received = s.received \cup {id}
      /\ t.artifacts = s.artifacts \cup {id} /\ t.knows = K
      /\ t.carries[id] = s.carries[id] \cup art.carries
      /\ \A i \in P!Ids \ {id} : t.carries[i] = s.carries[i]
  BY TakenLabels
<1>2. /\ f \in P!Store /\ f.derived = s.derived /\ f.received = s.received /\ f.knows = K
      /\ \A i \in P!Ids : f.carries[i] = t.carries[i]
  <2>1. PICK carries \in [P!Ids -> SUBSET P!Labels] :
          /\ f = [s EXCEPT !.carries = carries]
          /\ carries[id] = s.carries[id] \cup art.carries
          /\ \A i \in P!Ids \ {id} : carries[i] = s.carries[i]
    BY FactsLabels
  <2> QED
    BY <1>1, <2>1 DEF P!Store
<1>3. e = P!Close(f) /\ a = P!Close(t)
  OBVIOUS
<1> HIDE DEF f, t
<1>4. \A i \in P!Ids : s.carries[i] \subseteq t.carries[i] /\ t.carries[i] \subseteq K \cup art.carries
  BY <1>1 DEF Sound
<1>5. /\ \A i \in P!Ids : e.carries[i] \subseteq {l} \cup K
      /\ e.knows \subseteq {l} \cup K
  <2>1. \A i \in P!Ids : f.carries[i] \subseteq {l} \cup K
    BY <1>2, <1>4
  <2>2. \A i \in P!Ids : \A y \in e.carries[i] : \E x \in P!Ids : y \in f.carries[x]
    BY <1>2, <1>3, CloseWithin
  <2>3. \A y \in e.knows : y \in f.knows \/ \E x \in P!Ids : y \in f.carries[x]
    BY <1>2, <1>3, CloseWithin
  <2> QED
    BY <1>2, <2>1, <2>2, <2>3
<1>6. P!R3(e, id) => Pair(K)
  BY <1>5, RefusedThird
<1>7. /\ \A i \in P!Ids : t.carries[i] \subseteq a.carries[i]
      /\ K \subseteq a.knows
      /\ \A m \in s.received \cup {id} : a.carries[m] \subseteq a.knows
      /\ \A y \in a.knows : y \in K \/ \E m \in s.received \cup {id} : y \in a.carries[m]
      /\ \A i \in P!Ids : \A y \in a.carries[i] : \E x \in P!Ids : y \in t.carries[x]
  <2>1. /\ \A i \in P!Ids : t.carries[i] \subseteq a.carries[i]
        /\ t.knows \subseteq a.knows
    BY <1>1, <1>3, CloseWithin
  <2>2. \A m \in t.received : a.carries[m] \subseteq a.knows
    BY <1>1, <1>3, CloseWithin
  <2>3. \A y \in a.knows : y \in t.knows \/ \E m \in t.received : y \in a.carries[m]
    BY <1>1, <1>3, CloseWithin
  <2>4. \A i \in P!Ids : \A y \in a.carries[i] : \E x \in P!Ids : y \in t.carries[x]
    BY <1>1, <1>3, CloseWithin
  <2> QED
    BY <1>1, <2>1, <2>2, <2>3, <2>4
<1>8. art.carries \subseteq a.knows
  BY <1>1, <1>7
<1>9. \A i \in P!Ids : a.carries[i] \subseteq a.knows
  BY <1>4, <1>7, <1>8
<1>10. /\ a.derived = s.derived /\ a.received = s.received \cup {id}
       /\ a.artifacts = s.artifacts \cup {id}
  BY <1>1, <1>3, CloseLabels
<1>11. \A i \in P!Ids : a.carries[i] \subseteq e.carries[i]
  <2> SUFFICES ASSUME NEW i \in P!Ids, NEW y \in a.carries[i] PROVE y \in e.carries[i]
    OBVIOUS
  <2>1. y \in t.carries[i] \/ \E x \in s.derived[i] : y \in t.carries[x]
    BY <1>1, <1>3, CloseLabels
  <2>2. f.carries[i] \subseteq e.carries[i] /\ \A x \in s.derived[i] : f.carries[x] \subseteq e.carries[i]
    BY <1>2, <1>3, CloseLabels
  <2> QED
    BY <1>0, <1>2, <2>1, <2>2
<1>12. ASSUME Triple(a.knows) PROVE P!R3(e, id)
  <2>1. ~Triple(K)
    BY DEF Sound
  <2>2. id \notin s.artifacts
    <3>1. ASSUME art.carries \subseteq K PROVE FALSE
      <4>1. a.knows \subseteq K
        BY <1>0, <1>4, <1>7, <3>1
      <4> QED
        BY <1>12, <2>1, <4>1, MoreTriple
    <3> QED
      BY <3>1
  <2>3. e.knows \subseteq K
    <3>1. ASSUME NEW m \in s.received PROVE e.carries[m] \subseteq K
      <4>1. m \in P!Ids \ {id} /\ s.derived[m] \subseteq P!Ids \ {id}
        BY <1>0, <2>2 DEF Sound
      <4>2. e.carries[m] = f.carries[m] \cup UNION {f.carries[x] : x \in s.derived[m]}
        BY <1>2, <1>3, <4>1, CloseLabels
      <4>3. \A x \in P!Ids \ {id} : f.carries[x] \subseteq K
        BY <1>1, <1>2 DEF Sound
      <4> QED
        BY <4>1, <4>2, <4>3
    <3>2. e.knows = K \cup UNION {e.carries[m] : m \in s.received}
      BY <1>2, <1>3, CloseLabels
    <3> QED
      BY <3>1, <3>2
  <2>4. a.knows \subseteq e.knows \cup e.carries[id]
    <3>1. K \subseteq e.knows /\ \A m \in s.received : e.carries[m] \subseteq e.knows
      BY <1>2, <1>3, CloseWithin
    <3> QED
      BY <1>0, <1>7, <1>11, <3>1
  <2>5. Triple(e.knows \cup e.carries[id]) /\ ~Triple(e.knows)
    BY <1>12, <2>1, <2>3, <2>4 DEF Triple
  <2>6. e.knows \subseteq P!Labels /\ e.carries[id] \subseteq P!Labels
    <3>1. e \in P!Store
      BY <1>2, <1>3, CloseForms
    <3> QED
      BY <3>1 DEF P!Store
  <2> QED
    BY <2>5, <2>6, ThirdRefused
<1>13. Sound(a) \/ Triple(a.knows)
  BY <1>0, <1>7, <1>9, <1>10 DEF Sound
<1> QED
  BY <1>4, <1>6, <1>7, <1>8, <1>12, <1>13

\* The auditor learns, everybody collects.
Grows ==
  /\ local[Auditor].knows \subseteq local'[Auditor].knows
  /\ \A p \in Principals : local[p].artifacts \subseteq local'[p].artifacts

\* One store is replaced.
LEMMA FactsKeep ==
  ASSUME Formed, Facts(local, artifacts), NEW q \in Principals, NEW s \in P!Store,
         local' = [local EXCEPT ![q] = s], local[q].artifacts \subseteq s.artifacts,
         \A i \in Sources \cap DOMAIN artifacts' : artifacts'[i].carries = SourceLabels[i],
         q = Auditor => Sound(s) /\ local[Auditor].knows \subseteq s.knows,
         q \in Departments =>
           /\ \A i \in P!Ids : s.carries[i] \subseteq {Label(q)} \cup local[Auditor].knows
           /\ q \in s.artifacts => Label(q) \in s.carries[q]
  PROVE  Facts(local', artifacts') /\ Grows
<1>1. /\ local \in [Principals -> P!Store] /\ Auditor \in Principals /\ Departments \subseteq Principals
      /\ Auditor \notin Departments
  BY NamesAssumption DEF Formed, P!TypeOK, Principals
<1>2. local'[q] = s /\ \A p \in Principals \ {q} : local'[p] = local[p]
  BY <1>1
<1>3. Sound(local'[Auditor]) /\ local[Auditor].knows \subseteq local'[Auditor].knows
  BY <1>1, <1>2 DEF Facts
<1>4. ASSUME NEW dept \in Departments
      PROVE  /\ \A i \in P!Ids : local'[dept].carries[i] \subseteq {Label(dept)} \cup local'[Auditor].knows
             /\ dept \in local'[dept].artifacts => Label(dept) \in local'[dept].carries[dept]
  <2>1. CASE dept = q
    BY <1>1, <1>2, <1>3, <2>1
  <2>2. CASE dept # q
    BY <1>1, <1>2, <1>3, <2>2 DEF Facts
  <2> QED
    BY <2>1, <2>2
<1> QED
  BY <1>2, <1>3, <1>4 DEF Facts, Grows

\* A delivery leaves everybody's labels in bounds, if the message's are.
LEMMA DeliveryFacts ==
  ASSUME Formed, Facts(local, artifacts), NEW p, NEW q \in Principals, NEW id,
         P!DeliverArtifact(p, q, id), id \in DOMAIN artifacts, NEW l,
         q = Auditor => /\ artifacts[id].carries \subseteq {l} \cup local[Auditor].knows
                        /\ \/ id \notin local[Auditor].artifacts
                           \/ artifacts[id].carries \subseteq local[Auditor].knows,
         q \in Departments =>
           artifacts[id].carries \subseteq {Label(q)} \cup local[Auditor].knows
  PROVE  /\ Facts(local', artifacts') /\ Grows
         /\ q = Auditor => IF P!Denied(q, id) THEN Pair(local[Auditor].knows)
                           ELSE artifacts[id].carries \subseteq local'[Auditor].knows
<1> DEFINE old == local[q]
           art == artifacts[id]
           r == [old EXCEPT !.received = @ \cup {id}]
           t == P!AddMessageFacts(P!Holding(r, id), id, art)
           e == P!Close(P!AddMessageFacts(old, id, art))
           a == P!Close(t)
           s == IF P!Denied(q, id) THEN old ELSE a
<1>1. /\ id \in P!Ids /\ old \in P!Store /\ art \in P!Artifact /\ artifacts' = artifacts
      /\ local \in [Principals -> P!Store]
  BY DEF P!DeliverArtifact, Formed, P!TypeOK
<1>2. local' = [local EXCEPT ![q] = s]
  BY DEF P!DeliverArtifact, P!Refused, P!Accepted
<1>3. q # Board => (P!Denied(q, id) <=> P!R3(e, id))
  BY DEF P!Denied, P!Evaluated
<1>4. q = Auditor => q # Board
  BY NamesAssumption
<1>5. /\ t \in P!Store /\ t.artifacts = old.artifacts \cup {id}
      /\ t.carries[id] = old.carries[id] \cup art.carries
      /\ \A i \in P!Ids \ {id} : t.carries[i] = old.carries[i]
  BY <1>1, TakenLabels
<1>6. a \in P!Store /\ a.artifacts = old.artifacts \cup {id}
  BY <1>5, CloseForms
<1>7. q = Auditor => /\ P!R3(e, id) => Pair(old.knows)
                     /\ ~P!R3(e, id) => Sound(a)
                     /\ old.knows \subseteq a.knows /\ art.carries \subseteq a.knows
  BY <1>1, Weighing DEF Facts
<1>8. ASSUME q \in Departments
      PROVE  /\ \A i \in P!Ids : a.carries[i] \subseteq {Label(q)} \cup local[Auditor].knows
             /\ q \in a.artifacts => Label(q) \in a.carries[q]
  <2>1. /\ \A i \in P!Ids : t.carries[i] \subseteq a.carries[i]
        /\ \A i \in P!Ids : \A y \in a.carries[i] : \E x \in P!Ids : y \in t.carries[x]
    BY <1>5, CloseWithin
  <2>2. \A x \in P!Ids : t.carries[x] \subseteq {Label(q)} \cup local[Auditor].knows
    BY <1>5, <1>8 DEF Facts
  <2>3. ASSUME q \in a.artifacts PROVE Label(q) \in t.carries[q]
    <3>1. q \in P!Ids /\ q \in Sources /\ SourceLabels[q] = {Label(q)}
      BY <1>8, NamesAssumption DEF P!Ids, Sources, SourceLabels, Label
    <3>2. CASE q \in old.artifacts
      BY <1>5, <1>8, <3>1, <3>2 DEF Facts
    <3>3. CASE q = id
      BY <1>5, <3>1, <3>3 DEF Facts
    <3> QED
      BY <1>6, <2>3, <3>2, <3>3
  <2>4. q \in P!Ids
    BY <1>8 DEF P!Ids, Sources
  <2> QED
    BY <2>1, <2>2, <2>3, <2>4
<1> HIDE DEF a, t, e
<1>9. s \in P!Store /\ local[q].artifacts \subseteq s.artifacts
  BY <1>1, <1>6
<1>10. q = Auditor => Sound(s) /\ local[Auditor].knows \subseteq s.knows
  BY <1>3, <1>4, <1>7 DEF Facts
<1>11. q \in Departments =>
         /\ \A i \in P!Ids : s.carries[i] \subseteq {Label(q)} \cup local[Auditor].knows
         /\ q \in s.artifacts => Label(q) \in s.carries[q]
  BY <1>8 DEF Facts
<1>12. \A i \in Sources \cap DOMAIN artifacts' : artifacts'[i].carries = SourceLabels[i]
  BY <1>1 DEF Facts
<1>13. q = Auditor /\ ~P!Denied(q, id) => art.carries \subseteq local'[Auditor].knows
  BY <1>1, <1>2, <1>3, <1>4, <1>7
<1>14. q = Auditor /\ P!Denied(q, id) => Pair(local[Auditor].knows)
  BY <1>3, <1>4, <1>7
<1> HIDE DEF s
<1>15. Facts(local', artifacts') /\ Grows
  BY <1>2, <1>9, <1>10, <1>11, <1>12, FactsKeep
<1> QED
  BY <1>13, <1>14, <1>15

\* What a bot writes carries what it has, and its department's own reason.
LEMMA ComputeFacts ==
  ASSUME Formed, Facts(local, artifacts), NEW q \in Departments \cup {Auditor}, NEW id \in Outputs,
         P!ComputeArtifact(q, id)
  PROVE  /\ Facts(local', artifacts') /\ Grows
         /\ local'[Auditor].knows = local[Auditor].knows
         /\ id \in DOMAIN artifacts' /\ id \notin DOMAIN artifacts
         /\ q = Auditor => artifacts'[id].carries \subseteq local[Auditor].knows
         /\ q \in Departments =>
              /\ artifacts'[id].carries \subseteq {Label(q)} \cup local[Auditor].knows
              /\ q \in local[q].artifacts => Label(q) \in artifacts'[id].carries
<1> DEFINE old == local[q]
           d == P!DerivedFromAll(old, id)
           art == [producer |-> q, carries |-> P!InheritedLabels(old, id), inputs |-> old.artifacts]
           f == P!AddMessageFacts(d, id, art)
           h == P!Holding(f, id)
           s == P!Close(h)
<1>0. /\ id \in P!Ids /\ old \in P!Store /\ q \in Principals /\ Auditor \in Principals
      /\ local \in [Principals -> P!Store] /\ Auditor \notin Departments
      /\ id \notin Sources /\ Departments \subseteq P!Ids
  <2>1. id \notin Sources
    BY KindsAssumption, BoundsAssumption DEF Outputs, Sources
  <2> QED
    BY <2>1, NamesAssumption DEF P!Ids, Formed, P!TypeOK, Principals, Sources
<1>1. /\ d \in P!Store /\ d.artifacts = old.artifacts /\ d.knows = old.knows
      /\ d.carries = old.carries /\ d.received = old.received
      /\ d.derived[id] = old.derived[id] \cup old.artifacts
      /\ \A i \in P!Ids \ {id} : d.derived[i] = old.derived[i]
  BY <1>0 DEF P!DerivedFromAll, P!Store
<1>2. art.carries = old.carries[id] \cup UNION {old.carries[x] : x \in old.derived[id] \cup old.artifacts}
  <2>1. P!InheritedLabels(old, id) = d.carries[id] \cup UNION {d.carries[x] : x \in d.derived[id]}
    BY <1>0 DEF P!InheritedLabels, P!R1
  <2> QED
    BY <1>1, <2>1
<1>3. art \in P!Artifact
  <2>1. art.carries \in SUBSET P!Labels
    BY <1>0, <1>2 DEF P!Store
  <2> QED
    BY <1>0, <2>1 DEF P!Artifact, P!Store
<1>4. P!StoreArtifact(id, art) /\ local' = [local EXCEPT ![q] = s]
  BY DEF P!ComputeArtifact
<1>5. /\ \A y \in art.carries : \E x \in P!Ids : y \in old.carries[x]
      /\ \A x \in old.artifacts : old.carries[x] \subseteq art.carries
  <2>1. old.derived[id] \subseteq P!Ids /\ old.artifacts \subseteq P!Ids
    BY <1>0 DEF P!Store
  <2> QED
    BY <1>0, <1>2, <2>1
<1> HIDE DEF d, art
<1>6. /\ f \in P!Store /\ f.artifacts = old.artifacts /\ f.knows = old.knows
      /\ f.derived = d.derived /\ f.received = old.received
      /\ f.carries[id] = old.carries[id] \cup art.carries
      /\ \A i \in P!Ids \ {id} : f.carries[i] = old.carries[i]
  <2>0. d \in P!Store /\ id \in P!Ids /\ art \in P!Artifact
    BY <1>0, <1>1, <1>3
  <2>1. PICK carries \in [P!Ids -> SUBSET P!Labels] :
          /\ P!AddMessageFacts(d, id, art) = [d EXCEPT !.carries = carries]
          /\ carries[id] = d.carries[id] \cup art.carries
          /\ \A i \in P!Ids \ {id} : carries[i] = d.carries[i]
    BY <2>0, FactsLabels
  <2> QED
    BY <1>1, <2>0, <2>1 DEF P!Store
<1> HIDE DEF f
<1>7. /\ h \in P!Store /\ h.artifacts = old.artifacts \cup {id} /\ h.knows = old.knows
      /\ h.derived = d.derived /\ h.received = old.received /\ h.carries = f.carries
  BY <1>0, <1>6 DEF P!Holding, P!Store
<1> HIDE DEF h
<1>8. /\ s \in P!Store /\ s.artifacts = old.artifacts \cup {id}
      /\ s.derived = d.derived /\ s.received = old.received
  BY <1>7, CloseForms, CloseLabels
<1>9. /\ \A i \in P!Ids : h.carries[i] \subseteq s.carries[i]
      /\ \A i \in P!Ids : \A y \in s.carries[i] : \E x \in P!Ids : y \in h.carries[x]
      /\ \A y \in s.knows : y \in old.knows \/ \E x \in P!Ids : y \in h.carries[x]
      /\ old.knows \subseteq s.knows
  BY <1>7, CloseWithin
<1> HIDE DEF s
<1>10. /\ \A i \in P!Ids : \A y \in s.carries[i] : \E x \in P!Ids : y \in old.carries[x]
       /\ \A y \in s.knows : y \in old.knows \/ \E x \in P!Ids : y \in old.carries[x]
       /\ \A i \in P!Ids : old.carries[i] \subseteq s.carries[i]
  <2>1. \A x \in P!Ids : \A y \in h.carries[x] : \E z \in P!Ids : y \in old.carries[z]
    BY <1>0, <1>5, <1>6, <1>7
  <2>2. \A x \in P!Ids : old.carries[x] \subseteq h.carries[x]
    BY <1>0, <1>6, <1>7
  <2> QED
    BY <1>9, <2>1, <2>2
<1>11. /\ id \in DOMAIN artifacts' /\ id \notin DOMAIN artifacts /\ artifacts'[id] = art
       /\ \A i \in DOMAIN artifacts' \ {id} : i \in DOMAIN artifacts /\ artifacts'[i] = artifacts[i]
  BY <1>4 DEF P!StoreArtifact
<1>12. CASE q = Auditor
  <2>1. /\ Sound(old) /\ \A x \in P!Ids : old.carries[x] \subseteq old.knows
    BY <1>12 DEF Facts, Sound
  <2>2. s.knows = old.knows /\ \A i \in P!Ids : s.carries[i] \subseteq s.knows
    BY <1>9, <1>10, <2>1
  <2>3. \A i \in P!Ids : s.derived[i] \subseteq s.artifacts
    BY <1>1, <1>8, <2>1 DEF Sound
  <2>4. Sound(s)
    BY <1>8, <2>1, <2>2, <2>3 DEF Sound
  <2>5. Facts(local', artifacts') /\ Grows
    BY <1>0, <1>4, <1>8, <1>11, <1>12, <2>2, <2>4, FactsKeep DEF Facts
  <2>6. local'[Auditor].knows = local[Auditor].knows
    BY <1>0, <1>4, <1>12, <2>2
  <2>7. artifacts'[id].carries \subseteq local[Auditor].knows
    BY <1>5, <1>11, <1>12, <2>1
  <2> QED
    BY <1>0, <1>11, <1>12, <2>5, <2>6, <2>7
<1>13. CASE q \in Departments
  <2> DEFINE B == {Label(q)} \cup local[Auditor].knows
  <2>1. /\ \A x \in P!Ids : old.carries[x] \subseteq B
        /\ q \in old.artifacts => Label(q) \in old.carries[q]
    BY <1>13 DEF Facts
  <2>2. \A i \in P!Ids : s.carries[i] \subseteq B
    BY <1>10, <2>1
  <2>3. q \in s.artifacts => Label(q) \in s.carries[q]
    BY <1>0, <1>8, <1>10, <1>13, <2>1 DEF Sources
  <2>4. Facts(local', artifacts') /\ Grows
    BY <1>0, <1>4, <1>8, <1>11, <1>13, <2>2, <2>3, FactsKeep DEF Facts
  <2>5. local'[Auditor].knows = local[Auditor].knows
    BY <1>0, <1>4, <1>13
  <2>6. artifacts'[id].carries \subseteq B
    BY <1>5, <1>11, <2>1
  <2>7. q \in local[q].artifacts => Label(q) \in artifacts'[id].carries
    BY <1>5, <1>11, <2>1
  <2> QED
    BY <1>0, <1>11, <1>13, <2>4, <2>5, <2>6, <2>7
<1> QED
  BY <1>12, <1>13

LEMMA NoticeFacts ==
  ASSUME Formed, Facts(local, artifacts), NEW q \in Principals, NEW id \in Notices,
         P!DeliveryNotice(q, id)
  PROVE  /\ Facts(local', artifacts') /\ Grows
         /\ local'[Auditor].knows = local[Auditor].knows
         /\ id \in local'[q].artifacts
<1> DEFINE old == local[q]
           s == P!Holding(old, id)
           art == [producer |-> q, carries |-> {}, inputs |-> {}]
<1>1. /\ id \in P!Ids /\ old \in P!Store /\ Auditor \in Principals
      /\ local \in [Principals -> P!Store] /\ id \notin Sources
  BY KindsApart DEF P!Ids, Formed, P!TypeOK, Principals
<1>2. P!StoreArtifact(id, art) /\ local' = [local EXCEPT ![q] = s]
  BY DEF P!DeliveryNotice
<1>3. /\ s \in P!Store /\ s.artifacts = old.artifacts \cup {id} /\ s.knows = old.knows
      /\ s.carries = old.carries /\ s.derived = old.derived /\ s.received = old.received
  BY <1>1 DEF P!Holding, P!Store
<1> HIDE DEF s
<1>4. \A i \in DOMAIN artifacts' \ {id} : i \in DOMAIN artifacts /\ artifacts'[i] = artifacts[i]
  BY <1>2 DEF P!StoreArtifact
<1>5. q = Auditor => Sound(s)
  BY <1>3 DEF Facts, Sound
<1>6. q \in Departments =>
        /\ \A i \in P!Ids : s.carries[i] \subseteq {Label(q)} \cup local[Auditor].knows
        /\ q \in s.artifacts => Label(q) \in s.carries[q]
  BY <1>1, <1>3 DEF Facts, Sources
<1>7. Facts(local', artifacts') /\ Grows
  BY <1>1, <1>2, <1>3, <1>4, <1>5, <1>6, FactsKeep DEF Facts
<1> QED
  BY <1>1, <1>2, <1>3, <1>7

LEMMA SourceFacts ==
  ASSUME Formed, Facts(local, artifacts), NEW id \in Sources, P!CreateSource(id)
  PROVE  Facts(local', artifacts') /\ Grows
<1> DEFINE art == [producer |-> Board, carries |-> SourceLabels[id], inputs |-> {}]
           f == P!AddMessageFacts(local[Board], id, art)
           s == P!Holding(f, id)
<1>1. /\ id \in P!Ids /\ local \in [Principals -> P!Store] /\ Board \in Principals
      /\ Board \notin Departments \cup {Auditor} /\ local[Board] \in P!Store
  BY NamesAssumption DEF P!Ids, Formed, P!TypeOK, Principals
<1>2. P!StoreArtifact(id, art) /\ local' = [local EXCEPT ![Board] = s]
  BY DEF P!CreateSource
<1>3. art \in P!Artifact
  <2>1. SourceLabels[id] \in SUBSET P!Labels
    BY DEF SourceLabels, P!Labels, Projects, Components, Sources
  <2> QED
    BY <1>1, <2>1 DEF P!Artifact
<1>4. \A i \in Sources \cap DOMAIN artifacts' : artifacts'[i].carries = SourceLabels[i]
  BY <1>2 DEF P!StoreArtifact, Facts
<1> HIDE DEF art
<1>5. s \in P!Store /\ local[Board].artifacts \subseteq s.artifacts
  BY <1>1, <1>3, FactsForm, HoldForms
<1> HIDE DEF s
<1> QED
  BY <1>1, <1>2, <1>4, <1>5, FactsKeep

-----------------------------------------------------------------------------
(* The steps of the audit.                                                 *)

\* What grows is weighed and noticed as before.
LEMMA GrowsKeeps ==
  ASSUME Grows, NEW S
  PROVE  /\ Weighed(local, S) => Weighed(local', S)
         /\ Noticed(local, S) => Noticed(local', S)
         /\ Briefed(local) => Briefed(local')
<1>1. Auditor \in Principals /\ Departments \subseteq Principals
  BY DEF Principals
<1> QED
  BY <1>1 DEF Grows, Weighed, Noticed, Briefed, Pair

\* The first turn hands out reasons and the task.
LEMMA StartFacts ==
  ASSUME AuditInv, StartSteps, ~Start
  PROVE  Facts(local', artifacts') /\ Grows
<1>1. Formed /\ Facts(local, artifacts)
  BY DEF AuditInv, StateInv, Audit
<1>2. Auditor \in Principals /\ Departments \subseteq Principals /\ Auditor \notin Departments
  BY NamesAssumption DEF Principals
<1>3. ASSUME NEW id \in Sources, CreateSource(id) PROVE Facts(local', artifacts') /\ Grows
  BY <1>1, <1>3, SourceFacts DEF CreateSource
<1>4. \A p \in Principals : local[p].artifacts \subseteq DOMAIN artifacts
  BY <1>1 DEF Formed
<1>5. ASSUME NEW dept \in Departments, GiveReason(dept) PROVE Facts(local', artifacts') /\ Grows
  <2>1. P!DeliverArtifact(Board, dept, dept)
    BY <1>5 DEF GiveReason
  <2>2. dept \in DOMAIN artifacts
    BY <1>4, <2>1 DEF P!DeliverArtifact, Principals
  <2>3. artifacts[dept].carries = {Label(dept)}
    BY <1>1, <2>2, NamesAssumption DEF Facts, Sources, SourceLabels, Label
  <2> QED
    BY <1>1, <1>2, <2>1, <2>2, <2>3, DeliveryFacts
<1>6. ASSUME GiveTask PROVE Facts(local', artifacts') /\ Grows
  <2>1. P!DeliverArtifact(Board, Auditor, Task)
    BY <1>6 DEF GiveTask
  <2>2. Task \in DOMAIN artifacts
    BY <1>4, <2>1 DEF P!DeliverArtifact, Principals
  <2>3. artifacts[Task].carries = {}
    BY <1>1, <2>2 DEF Facts, Sources, SourceLabels
  <2> QED
    BY <1>1, <1>2, <2>1, <2>2, <2>3, DeliveryFacts
<1> QED
  BY <1>3, <1>5, <1>6 DEF StartSteps

\* A step that leaves what is committed and the runs alone keeps the duties.
LEMMA DutiesKeep ==
  ASSUME Duties, UNCHANGED <<saved, runs>>
  PROVE  Duties'
BY DEF Duties, Open, Briefed, Told, Replied, RunIds

LEMMA StartAudit == ASSUME AuditInv, StartSteps PROVE Audit'
<1>1. /\ UNCHANGED <<sends, saved, runs>> /\ turn' \in Turns
      /\ turn'.at \in {"sources", "reasons", "commit"}
  BY StartTurn DEF AuditInv
<1>2. Facts(local', artifacts') /\ Grows
  <2>1. CASE Start
    <3>1. UNCHANGED <<artifacts, local>>
      BY <2>1 DEF Start, Copy
    <3> QED
      BY <3>1 DEF Grows, AuditInv, Audit
  <2> QED
    BY <2>1, StartFacts
<1>3. turn = None \/ turn.at \in {"sources", "reasons"}
  BY DEF StartSteps, Start, CreateSource, GiveReason, GiveTask
<1>4. turn'.at = "commit" => Briefed(local) /\ turn'.wakes = <<Auditor>>
  <2>1. turn # None => turn \in Turns
    BY DEF AuditInv, CommitInv, Shapes
  <2>2. CASE Start
    BY <2>2 DEF Start, Turn
  <2>3. CASE \E id \in Sources : CreateSource(id)
    <3>1. turn # None /\ turn.at = "sources" /\ (turn' = turn \/ turn' = [turn EXCEPT !.at = "reasons"])
      BY <2>3 DEF CreateSource
    <3> QED
      BY <2>1, <3>1 DEF Turns
  <2>4. CASE \E dept \in Departments : GiveReason(dept)
    BY <2>4 DEF GiveReason
  <2>5. CASE GiveTask
    <3>1. turn # None /\ turn' = [turn EXCEPT !.at = "commit", !.wakes = <<Auditor>>] /\ Briefed(local)
      BY <2>5 DEF GiveTask, Briefed
    <3> QED
      BY <2>1, <3>1 DEF Turns
  <2> QED
    BY <2>2, <2>3, <2>4, <2>5 DEF StartSteps
<1>5. Noticed(local, sends)
  BY <1>3 DEF AuditInv, Audit, TurnInv
<1>6. Noticed(local', sends') /\ Weighed(local', sends') /\ (Briefed(local) => Briefed(local'))
  BY <1>1, <1>2, <1>5, GrowsKeeps DEF AuditInv, Audit
<1>7. TurnInv'
  <2>1. saved'.sends \subseteq sends'
    BY <1>1 DEF AuditInv, Audit, TurnInv
  <2>2. AtWork' /\ Letter'
    BY <1>1 DEF AtWork, Letter, InRun
  <2>3. (turn # None /\ turn.at = "commit" => Briefed(local) /\ turn.wakes = <<Auditor>>)'
    BY <1>4, <1>6
  <2>4. (turn = None \/ ~(turn.at = "notice" /\ turn.to = Auditor) => Noticed(local, sends))'
    BY <1>6
  <2> QED
    BY <2>1, <2>2, <2>3, <2>4 DEF TurnInv
<1>8. Duties'
  BY <1>1, DutiesKeep DEF AuditInv, Audit
<1>9. /\ Facts(saved.local, saved.artifacts)' /\ Weighed(saved.local, saved.sends)'
      /\ Noticed(saved.local, saved.sends)' /\ Asking(sends)' /\ Asking(saved.sends)'
  BY <1>1 DEF AuditInv, Audit, Facts, Weighed, Noticed, Asking, Told, Withheld, Sound
<1> QED
  BY <1>2, <1>6, <1>7, <1>8, <1>9 DEF Audit

\* A step of a run's turn leaves what is committed alone.
LEMMA TurnAudit ==
  ASSUME AuditInv, UNCHANGED <<saved, runs>>, Facts(local', artifacts'), Weighed(local', sends'),
         Asking(sends'), TurnInv'
  PROVE  Audit'
<1>1. Duties'
  BY DutiesKeep DEF AuditInv, Audit
<1>2. /\ Facts(saved.local, saved.artifacts)' /\ Weighed(saved.local, saved.sends)'
      /\ Noticed(saved.local, saved.sends)' /\ Asking(saved.sends)'
  BY DEF AuditInv, Audit, Facts, Weighed, Noticed, Asking, Told, Withheld, Sound
<1> QED
  BY <1>1, <1>2 DEF Audit

LEMMA RouteKinds ==
  ASSUME NEW from, NEW to, Route(from, to)
  PROVE  /\ from \in Departments \cup {Auditor} /\ from # to /\ to \in Principals
         /\ from = Auditor => to \in Departments \cup {Board}
         /\ to = Auditor => from \in Departments
         /\ to \in Departments \cup {Board} => from = Auditor
         /\ from \in Departments => to = Auditor
BY NamesAssumption DEF Route, Principals

LEMMA ComposeAudit ==
  ASSUME AuditInv, NEW to \in Principals, NEW id \in Outputs, Compose(to, id)
  PROVE  Audit'
<1>1. /\ turn \in Turns /\ turn # None /\ turn.at = "generate" /\ InRun /\ to \in turn.allowed
      /\ UNCHANGED <<sends, saved, runs>>
      /\ turn' = [turn EXCEPT !.at = "deliver", !.to = to, !.id = id, !.allowed = Rest(to)]
      /\ P!ComputeArtifact(turn.owner, id)
  BY DEF Compose, Generating, InRun, AuditInv, CommitInv, Shapes
<1>2. /\ turn'.at = "deliver" /\ turn'.to = to /\ turn'.id = id /\ turn'.run = turn.run
      /\ turn'.allowed \subseteq turn.allowed /\ turn'.owner = turn.owner /\ turn'.wakes = turn.wakes
  BY <1>1 DEF Turns, Rest
<1>3. AtWork /\ TurnInv /\ Formed /\ Facts(local, artifacts)
  BY DEF AuditInv, Audit, TurnInv, StateInv
<1>4. Route(turn.owner, to) /\ Briefed(local)
  BY <1>1, <1>3 DEF AtWork
<1>5. /\ turn.owner \in Departments \cup {Auditor} /\ turn.owner # to
  BY <1>4, RouteKinds
<1>6. /\ Facts(local', artifacts') /\ Grows /\ local'[Auditor].knows = local[Auditor].knows
      /\ id \in DOMAIN artifacts' /\ id \notin DOMAIN artifacts
      /\ turn.owner = Auditor => artifacts'[id].carries \subseteq local[Auditor].knows
      /\ turn.owner \in Departments =>
           /\ artifacts'[id].carries \subseteq {Label(turn.owner)} \cup local[Auditor].knows
           /\ turn.owner \in local[turn.owner].artifacts => Label(turn.owner) \in artifacts'[id].carries
  BY <1>1, <1>3, <1>5, ComputeFacts
<1>7. id \notin local'[to].artifacts
  <2>1. Adds(turn.owner, id)
    <3>1. Writes(turn.owner, id)
      BY DEF Writes
    <3> QED
      BY <3>1, WritesForm DEF AuditInv
  <2> QED
    BY <1>3, <1>5, <1>6, <2>1 DEF Adds, Formed
<1>8. Letter'
  BY <1>2, <1>4, <1>5, <1>6, <1>7 DEF Letter, Briefed
<1>9. Noticed(local', sends') /\ Weighed(local', sends') /\ Briefed(local')
  BY <1>1, <1>3, <1>4, <1>6, GrowsKeeps DEF AuditInv, Audit, TurnInv
<1>10. AtWork'
  <2>1. WakesTrue'
    BY <1>1, <1>2, <1>3 DEF AtWork, WakesTrue, Told
  <2> QED
    BY <1>1, <1>2, <1>3, <1>9, <2>1 DEF AtWork
<1>11. TurnInv'
  BY <1>1, <1>2, <1>3, <1>8, <1>9, <1>10 DEF TurnInv
<1>12. Asking(sends')
  BY <1>1 DEF AuditInv, Audit
<1> QED
  BY <1>1, <1>6, <1>9, <1>11, <1>12, TurnAudit

LEMMA DeliverAudit == ASSUME AuditInv, Deliver PROVE Audit'
<1> DEFINE ok == ~P!Denied(turn.to, turn.id)
           new == [id |-> turn.id, run |-> turn.run, from |-> turn.owner, to |-> turn.to, ok |-> ok]
           at == IF ok THEN "generate" ELSE "notice"
<1>1. /\ turn \in Turns /\ turn # None /\ turn.at = "deliver" /\ InRun /\ turn.wakes \in Seq(Principals)
      /\ UNCHANGED <<saved, runs>> /\ sends' = sends \cup {new}
      /\ turn' = [turn EXCEPT !.at = at, !.wakes = Append(turn.wakes, turn.to)]
      /\ P!DeliverArtifact(turn.owner, turn.to, turn.id)
  BY DEF Deliver, InRun, AuditInv, CommitInv, Shapes, Turns
<1>2. /\ turn'.at = at /\ turn'.to = turn.to /\ turn'.run = turn.run /\ turn'.allowed = turn.allowed
      /\ turn'.owner = turn.owner /\ turn'.wakes = Append(turn.wakes, turn.to)
  BY <1>1 DEF Turns
<1>3. /\ AtWork /\ TurnInv /\ Letter /\ Formed /\ Facts(local, artifacts) /\ Duties
      /\ Weighed(local, sends) /\ Asking(sends) /\ Noticed(local, sends)
  BY <1>1 DEF AuditInv, Audit, TurnInv, StateInv
<1>4. /\ Route(turn.owner, turn.to) /\ turn.to \in Principals
  BY <1>1, <1>3, RouteKinds DEF Letter
<1>5. /\ turn.owner = Auditor \/ turn.owner \in Departments
      /\ turn.to = Auditor => turn.owner \in Departments /\ turn.owner # Auditor
      /\ turn.to \in Departments => turn.owner = Auditor
  BY <1>4, RouteKinds, NamesAssumption
<1>6. /\ turn.id \in DOMAIN artifacts /\ turn.id \notin local[turn.to].artifacts
      /\ turn.owner = Auditor => artifacts[turn.id].carries \subseteq local[Auditor].knows
      /\ turn.owner # Auditor =>
           /\ artifacts[turn.id].carries \subseteq {Label(turn.owner)} \cup local[Auditor].knows
           /\ Label(turn.owner) \in artifacts[turn.id].carries
  BY <1>1, <1>3 DEF Letter
<1>7. /\ Facts(local', artifacts') /\ Grows
      /\ turn.to = Auditor => IF ok THEN artifacts[turn.id].carries \subseteq local'[Auditor].knows
                              ELSE Pair(local[Auditor].knows)
  <2>1. turn.to = Auditor => artifacts[turn.id].carries \subseteq {Label(turn.owner)} \cup local[Auditor].knows
    BY <1>5, <1>6
  <2>2. turn.to \in Departments => artifacts[turn.id].carries \subseteq {Label(turn.to)} \cup local[Auditor].knows
    BY <1>5, <1>6
  <2> QED
    BY <1>1, <1>3, <1>4, <1>6, <2>1, <2>2, DeliveryFacts
<1>8. new.run = turn.run /\ new.from = turn.owner /\ new.to = turn.to /\ new.ok = ok
  OBVIOUS
<1>9. /\ at = "generate" \/ at = "notice"
      /\ ~ok => at = "notice"
  OBVIOUS
<1> HIDE DEF ok, new, at
<1>10. Weighed(local', sends')
  <2>1. Weighed(local', sends)
    BY <1>3, <1>7, GrowsKeeps
  <2>2. new.to = Auditor => IF new.ok THEN Label(new.from) \in local'[Auditor].knows
                            ELSE Pair(local'[Auditor].knows)
    <3>1. turn.to = Auditor /\ ok => Label(turn.owner) \in local'[Auditor].knows
      BY <1>5, <1>6, <1>7
    <3>2. turn.to = Auditor /\ ~ok => Pair(local'[Auditor].knows)
      BY <1>7 DEF Grows, Pair
    <3> QED
      BY <1>8, <3>1, <3>2
  <2> QED
    BY <1>1, <2>1, <2>2 DEF Weighed
<1>11. Asking(sends')
  <2>1. turn.owner \in Departments => Told(turn.owner, sends)
    <3>1. turn.run \in RunIds /\ runs[turn.run].owner = turn.owner
      BY <1>1, <1>3 DEF AtWork, AuditInv, CommitInv, Shapes, AtStart, InRun
    <3> QED
      BY <1>3, <3>1 DEF Duties, TurnInv, Told
  <2> QED
    BY <1>1, <1>3, <1>4, <1>8, <2>1 DEF Asking, Told
<1>12. WakesTrue'
  <2>1. /\ DOMAIN turn.wakes = 1..Len(turn.wakes) /\ Len(turn.wakes) \in Nat
        /\ DOMAIN turn'.wakes = 1..Len(turn.wakes) + 1
        /\ \A i \in DOMAIN turn.wakes : i \in DOMAIN turn'.wakes /\ turn'.wakes[i] = turn.wakes[i]
        /\ Len(turn.wakes) + 1 \in DOMAIN turn'.wakes
        /\ turn'.wakes[Len(turn.wakes) + 1] = turn.to
    BY <1>1, <1>2
  <2>2. WakesTrue
    BY <1>1, <1>3 DEF AtWork
  <2>3. \A s \in sends' : s.run = turn.run =>
          s.from = turn.owner /\ \E i \in DOMAIN turn'.wakes : turn'.wakes[i] = s.to
    BY <1>1, <1>8, <2>1, <2>2 DEF WakesTrue
  <2>4. \A i \in DOMAIN turn'.wakes : turn'.wakes[i] \in Departments => Told(turn'.wakes[i], sends')
    <3>1. \A i \in DOMAIN turn'.wakes : i \in DOMAIN turn.wakes \/ i = Len(turn.wakes) + 1
      BY <2>1
    <3>2. turn.to \in Departments => Told(turn.to, sends')
      BY <1>1, <1>5, <1>8 DEF Told
    <3>3. \A i \in DOMAIN turn.wakes : turn.wakes[i] \in Departments => Told(turn.wakes[i], sends')
      BY <1>1, <2>2 DEF WakesTrue, Told
    <3> QED
      BY <2>1, <3>1, <3>2, <3>3
  <2> QED
    BY <1>2, <2>3, <2>4 DEF WakesTrue
<1>13. AtWork'
  <2>1. Briefed(local')
    BY <1>1, <1>3, <1>7, GrowsKeeps DEF AtWork
  <2>2. ~Silent'
    BY <1>1, <1>2, <1>8 DEF Silent
  <2> QED
    BY <1>1, <1>2, <1>3, <1>12, <2>1, <2>2 DEF AtWork
<1>14. ~(turn'.at = "notice" /\ turn'.to = Auditor) => Noticed(local', sends')
  <2>1. Noticed(local', sends)
    BY <1>3, <1>7, GrowsKeeps
  <2>2. ~(turn'.at = "notice" /\ turn'.to = Auditor) => ~(new.to = Auditor /\ ~new.ok)
    BY <1>2, <1>8, <1>9
  <2> QED
    BY <1>1, <2>1, <2>2 DEF Noticed, Withheld
<1>15. TurnInv'
  <2>1. saved'.sends \subseteq sends'
    BY <1>1, <1>3 DEF TurnInv
  <2>2. Letter' /\ turn'.at # "commit"
    BY <1>2, <1>9 DEF Letter
  <2>3. (turn = None \/ ~(turn.at = "notice" /\ turn.to = Auditor) => Noticed(local, sends))'
    <3>1. turn' # None
      <4> DEFINE wakes == Append(turn.wakes, turn.to)
      <4>1. wakes \in Seq(Principals)
        BY <1>1, <1>4
      <4>2. at \in {"generate", "notice"} /\ turn' = [turn EXCEPT !.at = at, !.wakes = wakes]
        BY <1>1, <1>9
      <4> HIDE DEF wakes
      <4>3. turn' \in Turns
        BY <1>1, <4>1, <4>2 DEF Turns
      <4> QED
        BY <4>3, NoneAssumption
    <3> QED
      BY <1>14, <3>1
  <2> QED
    BY <1>13, <2>1, <2>2, <2>3 DEF TurnInv
<1> QED
  BY <1>1, <1>7, <1>10, <1>11, <1>15, TurnAudit

LEMMA NoticeAudit == ASSUME AuditInv, NEW id \in Notices, DeliverNotice(id) PROVE Audit'
<1>1. /\ turn \in Turns /\ turn # None /\ turn.at = "notice" /\ InRun /\ turn.to \in Principals
      /\ UNCHANGED <<sends, saved, runs>> /\ turn' = [turn EXCEPT !.at = "generate"]
      /\ P!DeliveryNotice(turn.to, id)
  BY DEF DeliverNotice, InRun, AuditInv, CommitInv, Shapes
<1>2. /\ turn'.at = "generate" /\ turn'.run = turn.run /\ turn'.allowed = turn.allowed
      /\ turn'.owner = turn.owner /\ turn'.wakes = turn.wakes
  BY <1>1 DEF Turns
<1>3. AtWork /\ TurnInv /\ Formed /\ Facts(local, artifacts) /\ Weighed(local, sends) /\ Asking(sends)
  BY DEF AuditInv, Audit, TurnInv, StateInv
<1>4. Facts(local', artifacts') /\ Grows /\ id \in local'[turn.to].artifacts
  BY <1>1, <1>3, NoticeFacts
<1>5. Noticed(local', sends')
  <2>1. CASE turn.to = Auditor
    BY <1>4, <2>1 DEF Noticed, Notices
  <2>2. CASE turn.to # Auditor
    BY <1>1, <1>3, <1>4, <2>2, GrowsKeeps DEF TurnInv
  <2> QED
    BY <2>1, <2>2
<1>6. AtWork'
  <2>1. WakesTrue' /\ ~Silent'
    BY <1>1, <1>2, <1>3 DEF AtWork, WakesTrue, Told, Silent
  <2>2. Briefed(local')
    BY <1>1, <1>3, <1>4, GrowsKeeps DEF AtWork
  <2> QED
    BY <1>1, <1>2, <1>3, <2>1, <2>2 DEF AtWork
<1>7. TurnInv'
  BY <1>1, <1>2, <1>3, <1>5, <1>6 DEF TurnInv, Letter
<1>8. Weighed(local', sends') /\ Asking(sends')
  BY <1>1, <1>3, <1>4, GrowsKeeps
<1> QED
  BY <1>1, <1>4, <1>7, <1>8, TurnAudit

-----------------------------------------------------------------------------
(* What is left to do when a turn ends.                                    *)

LEMMA AllowedSame ==
  ASSUME UNCHANGED <<local, sends>>, NEW owner PROVE Allowed(owner)' = Allowed(owner)
BY DEF Allowed, Reported, PendingRequests, AuditReady, SentTo, Notices

\* Whom a turn may write to.
LEMMA AllowedRoute ==
  ASSUME NEW owner \in Principals
  PROVE  \A q \in Allowed(owner) : Route(owner, q)
BY NamesAssumption DEF Allowed, PendingRequests, Route, Principals

\* An auditor that has heard all departments may report.
LEMMA HeardReady ==
  ASSUME Triple(Departments), Formed, Facts(local, artifacts), Weighed(local, sends),
         Noticed(local, sends), \A dept \in Departments : Replied(dept, sends)
  PROVE  AuditReady
<1> DEFINE K == local[Auditor].knows
<1>1. Withheld(Auditor, sends)
  <2> SUFFICES ASSUME ~Withheld(Auditor, sends) PROVE FALSE
    OBVIOUS
  <2>1. \A dept \in Departments : Label(dept) \in K
    BY DEF Withheld, Replied, Weighed
  <2>2. \A a, b \in Departments : a # b => Label(a) # Label(b)
    BY DEF Label
  <2> HIDE DEF K
  <2>3. PICK a, b, c \in Departments : a # b /\ a # c /\ b # c
    BY DEF Triple
  <2>4. Triple(K)
    <3>1. Label(a) \in K /\ Label(b) \in K /\ Label(c) \in K
      BY <2>1
    <3>2. Label(a) # Label(b) /\ Label(a) # Label(c) /\ Label(b) # Label(c)
      BY <2>2, <2>3
    <3> QED
      BY <3>1, <3>2 DEF Triple
  <2> QED
    BY <2>4 DEF Facts, Sound, K
<1>2. local[Auditor].artifacts \cap Notices # {}
  BY <1>1 DEF Noticed
<1>3. Pair(K)
  BY <1>1 DEF Withheld, Weighed
<1>4. IsFiniteSet(K)
  <2>1. IsFiniteSet({Nova} \X Departments)
    BY NamesAssumption, FS_Product, FS_Singleton
  <2>2. K \subseteq {Nova} \X Departments
    BY DEF Formed, P!TypeOK, P!Store, P!Labels, Principals, Projects, Components
  <2> QED
    BY <2>1, <2>2, FS_Subset
<1>5. Cardinality(K) >= 2
  <2> HIDE DEF K
  <2>1. PICK a, b \in K : a # b
    BY <1>3 DEF Pair
  <2>2. {a, b} \subseteq K /\ Cardinality({a, b}) = 2
    <3>1. IsFiniteSet({a}) /\ Cardinality({a}) = 1
      BY FS_Singleton
    <3>2. Cardinality({a} \cup {b}) = Cardinality({a}) + 1
      BY <2>1, <3>1, FS_AddElement
    <3>3. {a} \cup {b} = {a, b}
      OBVIOUS
    <3> QED
      BY <3>1, <3>2, <3>3
  <2>3. Cardinality({a, b}) <= Cardinality(K)
    BY <1>4, <2>2, FS_Subset
  <2>4. Cardinality(K) \in Nat
    BY <1>4, FS_CardinalityType
  <2> QED
    BY <2>2, <2>3, <2>4
<1> QED
  BY <1>2, <1>5 DEF AuditReady

\* A turn that is rolled back leaves the duties as they were.
LEMMA RollsBackAudit == ASSUME AuditInv, RollsBack PROVE Audit'
<1>1. /\ turn' = None /\ UNCHANGED <<saved, runs>> /\ artifacts' = saved.artifacts
      /\ local' = saved.local /\ sends' = saved.sends
  BY RollsBackMeans DEF AuditInv, StateInv, RollsBack, CommitRefused, TurnFails, Crash, Rollback
<1>2. Duties'
  BY <1>1, DutiesKeep DEF AuditInv, Audit
<1>3. /\ Facts(saved.local, saved.artifacts) /\ Weighed(saved.local, saved.sends)
      /\ Noticed(saved.local, saved.sends) /\ Asking(saved.sends)
  BY DEF AuditInv, Audit
<1>4. /\ Facts(saved.local, saved.artifacts)' /\ Weighed(saved.local, saved.sends)'
      /\ Noticed(saved.local, saved.sends)' /\ Asking(saved.sends)'
  BY <1>1, <1>3 DEF Facts, Weighed, Noticed, Asking, Told, Withheld, Sound
<1>5. /\ Facts(local', artifacts') /\ Weighed(local', sends')
      /\ Noticed(local', sends') /\ Asking(sends')
  BY <1>1, <1>3
<1>6. TurnInv'
  BY <1>1, <1>5 DEF TurnInv, AtWork, Letter
<1> QED
  BY <1>2, <1>4, <1>5, <1>6 DEF Audit

\* A run that is claimed, leased again, stopped or failed stays its owner's, is as idle as it
\* was, and is not over by that.
RunsKept ==
  /\ RunIds' = RunIds
  /\ \A r \in RunIds :
       /\ runs'[r].owner = runs[r].owner /\ runs'[r].idle = runs[r].idle
       /\ runs'[r].status = "completed" <=> runs[r].status = "completed"

LEMMA LeaseRuns ==
  ASSUME CommitInv,
         \/ \E r \in RunIds : Claim(r) \/ ClaimAgain(r) \/ Stop(r)
         \/ \E e \in waiting : RecordFailure(e)
  PROVE  RunsKept /\ UNCHANGED <<artifacts, local, sends, saved, turn>>
<1>1. runs \in Seq(Runs) /\ \A e \in waiting : e.run \in RunIds
  BY DEF CommitInv, Shapes
<1>2. \A r \in RunIds : runs[r] \in Runs
  BY <1>1 DEF RunIds
<1>3. ASSUME NEW r \in RunIds, Claim(r) PROVE RunsKept
  BY <1>1, <1>2, <1>3 DEF Claim, RunsKept, RunIds, Runs
<1>4. ASSUME NEW r \in RunIds, ClaimAgain(r) PROVE RunsKept
  BY <1>1, <1>2, <1>4 DEF ClaimAgain, RunsKept, RunIds, Runs
<1>5. ASSUME NEW r \in RunIds, Stop(r) PROVE RunsKept
  BY <1>1, <1>2, <1>5 DEF Stop, RunsKept, RunIds, Runs
<1>6. ASSUME NEW e \in waiting, RecordFailure(e) PROVE RunsKept
  <2>1. CASE Owned(e)
    BY <1>1, <1>2, <1>6, <2>1 DEF RecordFailure, Owned, RunsKept, RunIds, Runs
  <2>2. CASE ~Owned(e)
    BY <1>6, <2>2 DEF RecordFailure, RunsKept, RunIds
  <2> QED
    BY <2>1, <2>2
<1> QED
  BY <1>3, <1>4, <1>5, <1>6 DEF Claim, ClaimAgain, Stop, RecordFailure, Copy

LEMMA LeasesAudit ==
  ASSUME AuditInv, RunsKept, UNCHANGED <<artifacts, local, sends, saved, turn>>
  PROVE  Audit'
<1>1. AtWork'
  <2>1. turn # None /\ InRun => turn.run \in RunIds
    BY DEF AuditInv, CommitInv, Shapes, AtStart, InRun
  <2>2. AtWork /\ Allowed(turn.owner)' = Allowed(turn.owner)
    BY AllowedSame DEF AuditInv, Audit, TurnInv
  <2>3. InRun' = InRun /\ Silent' = Silent /\ WakesTrue' = WakesTrue /\ Briefed(local)' = Briefed(local)
    BY DEF InRun, Silent, WakesTrue, Told, Briefed
  <2> QED
    BY <2>1, <2>2, <2>3 DEF AtWork, RunsKept
<1>2. TurnInv'
  BY <1>1 DEF AuditInv, Audit, TurnInv, Letter, Briefed, Noticed, Withheld, Notices
<1>3. Duties'
  <2>1. \A q : Open(q) => Open(q)'
    BY DEF Open, RunsKept
  <2> QED
    BY <2>1 DEF AuditInv, Audit, Duties, RunsKept, Told, Replied, Briefed
<1> QED
  BY <1>2, <1>3
  DEF AuditInv, Audit, Facts, Weighed, Noticed, Asking, Told, Withheld, Sound

\* A turn begins with nothing written.
LEMMA BeginAudit == ASSUME AuditInv, NEW e \in waiting, Begin(e) PROVE Audit'
<1>1. turn = None /\ UNCHANGED <<artifacts, local, sends, saved, runs>>
  BY DEF Begin, Copy
<1>2. e.run \in RunIds /\ runs[e.run].owner \in Principals
  <2>1. runs \in Seq(Runs) /\ e.run \in RunIds
    BY DEF AuditInv, CommitInv, Shapes
  <2>2. runs[e.run] \in Runs
    BY <2>1 DEF RunIds
  <2> QED
    BY <2>1, <2>2 DEF Runs
<1>3. AtWork' /\ Letter' /\ (turn' # None => turn'.at = "generate")
  <2>1. CASE Owned(e)
    <3> DEFINE owner == runs[e.run].owner
               allowed == Allowed(owner)
    <3>1. turn' = Turn(e.run, e.fence, owner, "generate", allowed)
      BY <1>1, <2>1 DEF Begin
    <3>2. \A q \in allowed : Route(owner, q)
      BY <1>2, AllowedRoute
    <3>3. runs'[e.run].status # "completed" /\ runs'[e.run].owner = owner
      BY <1>1, <2>1 DEF Owned
    <3>4. saved'.started /\ Briefed(local')
      BY <1>1, <1>2 DEF AuditInv, Audit, StateInv, Duties
    <3>5. \A s \in sends' : s.run # e.run
      <4>1. sends' = saved.sends /\ runs[e.run].status = "running"
        BY <1>1, <2>1 DEF AuditInv, CommitInv, CopyAhead, Owned
      <4> QED
        BY <4>1 DEF AuditInv, CommitInv, AllOrNothing
    <3> HIDE DEF owner, allowed
    <3>6. /\ turn'.run = e.run /\ turn'.owner = owner /\ turn'.at = "generate"
          /\ turn'.allowed = allowed /\ turn'.wakes = <<>>
      BY <3>1 DEF Turn
    <3>7. WakesTrue'
      BY <3>5, <3>6 DEF WakesTrue
    <3>8. Allowed(turn.owner)' = Allowed(turn'.owner)
      BY <1>1 DEF Allowed, Reported, PendingRequests, AuditReady, SentTo, Notices
    <3>9. Allowed(turn'.owner) = allowed
      BY <3>6 DEF allowed
    <3> QED
      BY <3>2, <3>3, <3>4, <3>6, <3>7, <3>8, <3>9 DEF AtWork, Letter
  <2>2. CASE ~Owned(e)
    BY <2>2 DEF Begin, AtWork, Letter
  <2> QED
    BY <2>1, <2>2
<1>4. TurnInv'
  <2>1. (turn = None \/ ~(turn.at = "notice" /\ turn.to = Auditor) => Noticed(local, sends))'
    BY <1>1 DEF AuditInv, Audit, TurnInv, Noticed, Withheld, Notices
  <2>2. saved'.sends \subseteq sends'
    BY <1>1 DEF AuditInv, Audit, TurnInv
  <2> QED
    BY <1>3, <2>1, <2>2 DEF TurnInv
<1>5. Duties'
  BY <1>1, DutiesKeep DEF AuditInv, Audit
<1> QED
  BY <1>1, <1>4, <1>5
  DEF AuditInv, Audit, Facts, Weighed, Noticed, Asking, Told, Withheld, Sound

LEMMA ElsewhereAudit == ASSUME AuditInv, Elsewhere PROVE Audit'
<1>1. CASE Start
  BY <1>1, StartAudit DEF StartSteps
<1>2. CASE \/ \E r \in RunIds : Claim(r) \/ ClaimAgain(r) \/ Stop(r)
           \/ \E e \in waiting : RecordFailure(e)
  BY <1>2, LeaseRuns, LeasesAudit DEF AuditInv
<1> QED
  BY <1>1, <1>2, BeginAudit DEF Elsewhere

\* What is committed is the copy.
LEMMA CommitsAudit ==
  ASSUME AuditInv, Commits, turn.at # "notice", turn # None, Duties'
  PROVE  Audit'
<1>1. /\ turn' = None /\ UNCHANGED <<artifacts, local, sends>>
      /\ saved'.artifacts = artifacts /\ saved'.local = local /\ saved'.sends = sends
  BY CommitsMean
<1>2. /\ Facts(local, artifacts) /\ Weighed(local, sends) /\ Noticed(local, sends) /\ Asking(sends)
  BY DEF AuditInv, Audit, TurnInv
<1>3. /\ Facts(local', artifacts') /\ Weighed(local', sends') /\ Noticed(local', sends') /\ Asking(sends')
  BY <1>1, <1>2 DEF Facts, Weighed, Noticed, Asking, Told, Withheld, Sound, Notices
<1>4. /\ Facts(saved.local, saved.artifacts)' /\ Weighed(saved.local, saved.sends)'
      /\ Noticed(saved.local, saved.sends)' /\ Asking(saved.sends)'
  BY <1>1, <1>2 DEF Facts, Weighed, Noticed, Asking, Told, Withheld, Sound, Notices
<1>5. TurnInv'
  BY <1>1, <1>3 DEF TurnInv, AtWork, Letter
<1> QED
  BY <1>3, <1>4, <1>5 DEF Audit

\* The first turn leaves the auditor a run.
LEMMA CommitStartAudit == ASSUME AuditInv, CommitStart PROVE Audit'
<1>1. /\ turn # None /\ turn.at = "commit" /\ turn \in Turns /\ runs \in Seq(Runs)
      /\ runs' = runs \o Woken(turn.wakes, 0) /\ turn.wakes = <<Auditor>> /\ Briefed(local)
      /\ turn.wakes \in Seq(Principals)
  BY DEF CommitStart, AuditInv, AtStart, InRun, CommitInv, Shapes, Audit, TurnInv, Turns
<1>2. /\ saved'.started /\ saved'.local = local /\ saved'.sends = sends /\ sends = saved.sends
  BY <1>1 DEF CommitStart, AuditInv, CommitInv, CopyAhead, AtStart
<1>3. Open(Auditor)'
  <2>1. 1 \in DOMAIN turn.wakes /\ turn.wakes[1] = Auditor
    BY <1>1
  <2>2. \E r \in RunIds' : runs'[r] = Run(Auditor, 0)
    BY <1>1, <2>1, WokenRuns
  <2>3. Run(Auditor, 0).owner = Auditor /\ Run(Auditor, 0).status = "queued"
    BY DEF Run
  <2> QED
    BY <2>2, <2>3 DEF Open
<1>4. \A q : Open(q) => Open(q)'
  <2>1. \A r \in RunIds : r \in RunIds' /\ runs'[r] = runs[r]
    BY <1>1, WokenRuns DEF RunIds
  <2> QED
    BY <2>1 DEF Open
<1>5. \A r \in RunIds' : (r \in RunIds /\ runs'[r] = runs[r]) \/ runs'[r].owner = Auditor
  <2>1. \A i \in DOMAIN turn.wakes : Run(turn.wakes[i], 0).owner = Auditor
    BY <1>1 DEF Run
  <2>2. \A r \in RunIds' : (r \in RunIds /\ runs'[r] = runs[r])
                           \/ \E i \in DOMAIN turn.wakes : runs'[r] = Run(turn.wakes[i], 0)
    <3>1. /\ \A r \in DOMAIN runs : runs'[r] = runs[r]
          /\ \A r \in RunIds' :
               r \in DOMAIN runs \/ \E i \in DOMAIN turn.wakes : runs'[r] = Run(turn.wakes[i], 0)
      BY <1>1, WokenRuns
    <3> QED
      BY <3>1 DEF RunIds
  <2> QED
    BY <2>1, <2>2
<1>6. Duties
  BY DEF AuditInv, Audit
<1>7. Duties'
  <2>1. \A r \in RunIds' : runs'[r].owner \in Departments => Told(runs'[r].owner, saved.sends)
    BY <1>5, <1>6, NamesAssumption DEF Duties
  <2> QED
    BY <1>1, <1>2, <1>3, <1>4, <1>6, <2>1 DEF Duties, Told, Replied, Briefed
<1> QED
  BY <1>1, <1>7, CommitsAudit DEF Commits

\* A run that ends leaves something to do: who is written to gets a run, and a bot that
\* wrote nothing although it could is idle.
LEMMA CommitDuties == ASSUME Triple(Departments), AuditInv, Commit PROVE Duties'
<1> DEFINE r == turn.run
           o == turn.owner
           idle == turn.allowed # {} /\ ~Sent(r)
           over == [runs[r] EXCEPT !.status = "completed", !.idle = idle]
           rs == [runs EXCEPT ![r] = over]
<1>1. /\ turn # None /\ InRun /\ turn.at = "generate" /\ turn \in Turns /\ r \in RunIds
      /\ runs \in Seq(Runs) /\ runs[r].status = "running" /\ turn.wakes \in Seq(Principals)
  BY DEF Commit, Generating, MayCommit, Owned, InRun, AtStart, AuditInv, CommitInv, Shapes, Turns
<1>2. /\ saved'.started /\ saved'.local = local /\ saved'.sends = sends
  BY DEF Commit
<1>3. /\ saved.sends \subseteq sends /\ Briefed(local) /\ WakesTrue /\ runs[r].owner = o
      /\ \A q \in turn.allowed : Route(o, q)
      /\ Silent => turn.allowed = Allowed(o)
      /\ Noticed(local, sends) /\ Duties
  BY <1>1 DEF AuditInv, Audit, TurnInv, AtWork
<1>4. /\ Formed /\ Facts(local, artifacts) /\ Weighed(local, sends) /\ Asking(sends)
      /\ Asking(saved.sends) /\ Once(sends)
      /\ \A s \in sends : s \in saved.sends \/ s.run = r
      /\ \A s \in saved.sends : s.run # r
  <2>1. \A s \in saved.sends : s.run # r
    BY <1>1 DEF AuditInv, CommitInv, AllOrNothing
  <2> QED
    BY <1>1, <2>1 DEF AuditInv, Audit, StateInv, OnceInv, CommitInv, CopyAhead
<1>5. /\ rs \in Seq(Runs) /\ DOMAIN rs = RunIds /\ runs' = rs \o Woken(turn.wakes, r)
      /\ \A q \in RunIds : rs[q].owner = runs[q].owner
      /\ \A q \in RunIds \ {r} : rs[q] = runs[q]
      /\ rs[r].idle = idle
  <2>1. runs' = Ended(turn, idle) \o Woken(turn.wakes, r)
    BY DEF Commit
  <2>2. Ended(turn, idle) = rs
    BY <1>1 DEF Ended, Commit, MayCommit
  <2>3. over \in Runs /\ over.idle = idle /\ over.owner = runs[r].owner
    <3>1. runs[r] \in Runs /\ idle \in BOOLEAN
      BY <1>1 DEF RunIds
    <3> HIDE DEF idle
    <3> QED
      BY <3>1 DEF Runs
  <2> HIDE DEF idle, over
  <2>4. /\ rs \in Seq(Runs) /\ DOMAIN rs = RunIds /\ rs[r] = over
        /\ \A q \in RunIds \ {r} : rs[q] = runs[q]
    BY <1>1, <2>3 DEF RunIds
  <2> HIDE DEF rs
  <2> QED
    BY <1>1, <2>1, <2>2, <2>3, <2>4
<1> HIDE DEF rs
<1>6. /\ \A q \in RunIds : q \in RunIds' /\ runs'[q] = rs[q]
      /\ \A i \in DOMAIN turn.wakes : \E q \in RunIds' : runs'[q] = Run(turn.wakes[i], r)
      /\ \A q \in RunIds' :
           q \in RunIds \/ \E i \in DOMAIN turn.wakes : runs'[q] = Run(turn.wakes[i], r)
  <2>1. r \in Nat
    BY <1>1 DEF Turns
  <2>2. turn.wakes \in Seq(Principals) /\ runs' = rs \o Woken(turn.wakes, r)
    BY <1>1, <1>5
  <2> HIDE DEF r
  <2>3. /\ \A q \in DOMAIN rs : q \in RunIds' /\ runs'[q] = rs[q]
        /\ \A i \in DOMAIN turn.wakes : \E q \in RunIds' : runs'[q] = Run(turn.wakes[i], r)
        /\ \A q \in RunIds' :
             q \in DOMAIN rs \/ \E i \in DOMAIN turn.wakes : runs'[q] = Run(turn.wakes[i], r)
    BY <1>5, <2>1, <2>2, WokenRuns
  <2> QED
    BY <1>5, <2>3
<1>7. \A q : /\ Run(q, r).owner = q /\ Run(q, r).status # "completed"
  BY DEF Run
<1>8. ASSUME NEW q, \E i \in DOMAIN turn.wakes : turn.wakes[i] = q PROVE Open(q)'
  <2>1. \E x \in RunIds' : runs'[x].owner = q /\ runs'[x].status # "completed"
    BY <1>6, <1>7, <1>8
  <2> QED
    BY <2>1 DEF Open
<1>9. ASSUME NEW q, Open(q), q = o => idle PROVE Open(q)'
  <2>1. PICK x \in RunIds : runs[x].owner = q /\ (runs[x].status # "completed" \/ runs[x].idle)
    BY <1>9 DEF Open
  <2>2. x \in RunIds' /\ runs'[x] = rs[x]
    BY <1>6
  <2>3. runs'[x].owner = q /\ (runs'[x].status # "completed" \/ runs'[x].idle)
    <3>1. CASE x = r
      BY <1>3, <1>5, <1>9, <2>1, <2>2, <3>1
    <3>2. CASE x # r
      BY <1>5, <2>1, <2>2, <3>2
    <3> QED
      BY <3>1, <3>2
  <2> QED
    BY <2>2, <2>3 DEF Open
<1>10. ASSUME NEW s \in sends, s.run = r PROVE s.from = o /\ Open(s.to)'
  BY <1>3, <1>8, <1>10 DEF WakesTrue
<1>11. Silent => sends = saved.sends
  BY <1>3, <1>4 DEF Silent
<1>12. ASSUME ~Told(Board, sends) PROVE ~Reported /\ ~Told(Board, saved.sends)
  BY <1>3, <1>12 DEF Told, Reported, SentTo
<1>13. ASSUME NEW dept \in Departments, ~Told(Board, sends), Told(dept, sends), ~Replied(dept, sends)
       PROVE  Open(dept)'
  <2>1. CASE Told(dept, saved.sends)
    <3>1. Open(dept)
      BY <1>3, <1>12, <1>13, <2>1 DEF Duties, Replied
    <3>2. ASSUME dept = o PROVE idle
      <4>1. Silent
        BY <1>4, <1>10, <1>13, <3>2, RouteKinds DEF Silent, Asking, Replied
      <4>2. Auditor \in Allowed(dept)
        BY <1>12, <1>13, NamesAssumption DEF Allowed, SentTo, Replied
      <4> QED
        BY <1>3, <3>2, <4>1, <4>2 DEF Silent, Sent
    <3> QED
      BY <1>9, <3>1, <3>2
  <2>2. CASE ~Told(dept, saved.sends)
    BY <1>4, <1>10, <1>13, <2>2 DEF Told
  <2> QED
    BY <2>1, <2>2
<1>14. ASSUME ~Told(Board, sends), \A dept \in Departments : Told(dept, sends) => Replied(dept, sends)
       PROVE  Open(Auditor)'
  <2>1. CASE Silent
    <3>1. Open(Auditor)
      <4>1. saved.started
        BY <1>1 DEF AuditInv, Audit, Duties
      <4> QED
        BY <1>11, <1>12, <1>14, <2>1, <4>1 DEF AuditInv, Audit, Duties
    <3>2. ASSUME Auditor = o PROVE idle
      <4>1. Allowed(Auditor) # {}
        <5>1. CASE PendingRequests # {}
          BY <1>12, <1>14, <5>1 DEF Allowed
        <5>2. CASE PendingRequests = {}
          <6>1. \A dept \in Departments : Replied(dept, sends)
            BY <1>14, <5>2 DEF PendingRequests, SentTo, Told
          <6>2. AuditReady
            BY <1>3, <1>4, <6>1, HeardReady
          <6> QED
            BY <1>12, <1>14, <5>2, <6>2 DEF Allowed
        <5> QED
          BY <5>1, <5>2
      <4> QED
        BY <1>3, <2>1, <3>2, <4>1 DEF Silent, Sent
    <3> QED
      BY <1>9, <3>1, <3>2
  <2>2. CASE ~Silent
    <3>1. PICK s \in sends : s.run = r
      BY <2>2 DEF Silent
    <3>2. s.from = o /\ Open(s.to)' /\ Route(s.from, s.to)
      BY <1>4, <1>10, <3>1 DEF Asking
    <3>3. s.to # Auditor => s.from = Auditor /\ s.to \in Departments
      BY <1>14, <3>2, NamesAssumption DEF Route, Told
    <3>4. s.to \in Departments /\ s.from = Auditor => FALSE
      <4> SUFFICES ASSUME s.to \in Departments, s.from = Auditor PROVE FALSE
        OBVIOUS
      <4>1. PICK t \in sends : t.from = s.to /\ t.to = Auditor
        BY <1>14 DEF Told, Replied
      <4>2. t \in saved.sends
        BY <1>4, <1>10, <3>2, <4>1, NamesAssumption
      <4>3. PICK u \in saved.sends : u.from = Auditor /\ u.to = s.to
        BY <1>4, <4>1, <4>2 DEF Asking, Told
      <4>4. u = s
        BY <1>3, <1>4, <4>3 DEF Once
      <4> QED
        BY <1>4, <3>1, <4>3, <4>4
    <3> QED
      BY <3>2, <3>3, <3>4
  <2> QED
    BY <2>1, <2>2
<1>15. ASSUME NEW q \in RunIds', runs'[q].owner \in Departments PROVE Told(runs'[q].owner, sends)
  <2>1. CASE q \in RunIds
    BY <1>3, <1>5, <1>6, <1>15, <2>1 DEF Duties, Told
  <2>2. CASE \E i \in DOMAIN turn.wakes : runs'[q] = Run(turn.wakes[i], r)
    BY <1>3, <1>7, <1>15, <2>2 DEF WakesTrue
  <2> QED
    BY <1>6, <2>1, <2>2
<1> QED
  BY <1>2, <1>3, <1>13, <1>14, <1>15 DEF Duties, Told, Replied, Briefed

LEMMA CommitAudit == ASSUME Triple(Departments), AuditInv, Commit PROVE Audit'
<1>1. turn # None /\ turn.at # "notice"
  BY DEF Commit, Generating
<1> QED
  BY <1>1, CommitDuties, CommitsAudit DEF Commits

LEMMA InitAudit == Init => Audit
<1> SUFFICES ASSUME Init PROVE Audit
  OBVIOUS
<1>1. /\ sends = {} /\ saved.sends = {} /\ turn = None /\ RunIds = {} /\ ~saved.started
      /\ saved.local = local /\ saved.artifacts = artifacts
      /\ local = [p \in Principals |-> P!EmptyStore] /\ DOMAIN artifacts = {}
  BY DEF Init, P!Init, RunIds
<1>2. /\ \A p \in Principals : local[p] = P!EmptyStore
      /\ Auditor \in Principals /\ Departments \subseteq Principals
  BY <1>1 DEF Principals
<1>3. Facts(local, artifacts)
  BY <1>1, <1>2 DEF Facts, Sound, Triple, P!EmptyStore
<1> QED
  BY <1>1, <1>3
  DEF Audit, Weighed, Noticed, Withheld, Asking, TurnInv, AtWork, Letter, Duties, Told

LEMMA NextAudit == Triple(Departments) /\ AuditInv /\ [Next]_vars => Audit'
<1> SUFFICES ASSUME Triple(Departments), AuditInv, [Next]_vars PROVE Audit'
  OBVIOUS
<1>1. CASE UNCHANGED vars
  <2>1. RunsKept /\ UNCHANGED <<artifacts, local, sends, saved, turn>>
    BY <1>1 DEF vars, RunsKept, RunIds
  <2> QED
    BY <2>1, LeasesAudit
<1>2. ASSUME Next PROVE Audit'
  <2>1. \/ StartSteps \/ Deliver \/ Commit \/ CommitStart \/ RollsBack \/ Elsewhere
        \/ \E to \in Principals, id \in Outputs : Compose(to, id)
        \/ \E id \in Notices : DeliverNotice(id)
    BY <1>2 DEF Next, StartSteps, RollsBack, Elsewhere
  <2> QED
    BY <2>1, StartAudit, ComposeAudit, DeliverAudit, NoticeAudit, CommitStartAudit, CommitAudit,
       RollsBackAudit, ElsewhereAudit
<1> QED
  BY <1>1, <1>2

\* When nothing runs or waits, nobody has anything left to do but what a run that ended
\* otherwise, or idle, has left.
LEMMA AuditEnds == AuditInv => Concluded
<1> SUFFICES ASSUME AuditInv PROVE Concluded
  OBVIOUS
<1> SUFFICES ASSUME saved.started, ~Told(Board, saved.sends),
                    \A r \in RunIds : runs[r].status = "completed" /\ ~runs[r].idle
             PROVE  FALSE
  <2>1. \A s \in saved.sends : Route(s.from, s.to)
    BY DEF AuditInv, Audit, Asking
  <2>2. \A s \in saved.sends : s.to = Board => s.from = Auditor
    BY <2>1, NamesAssumption DEF Route
  <2> QED
    BY <2>2 DEF Concluded, Told
<1>1. \A q : ~Open(q)
  BY DEF Open
<1>2. Duties
  BY DEF AuditInv, Audit
<1> QED
  BY <1>1, <1>2 DEF Duties

\* With at least three departments (the code has procurement, facility and hiring): when
\* nothing is left to do, the audit was reported, unless a run was stopped, failed, died or
\* was left idle by its bot.
THEOREM AuditConcludes == Triple(Departments) => (Spec => []Concluded)
<1> SUFFICES ASSUME Triple(Departments) PROVE Spec => []Concluded
  OBVIOUS
<1>1. Init => AuditInv
  <2>1. Init => OnceInv
    <3> SUFFICES ASSUME Init PROVE OnceInv
      OBVIOUS
    <3>1. sends = {} /\ saved.sends = {} /\ turn = None
      BY DEF Init
    <3> QED
      BY <3>1 DEF OnceInv, Once, RecipientsFresh
  <2> QED
    BY <2>1, InitCommitInv, InitState, InitAudit DEF AuditInv
<1>2. AuditInv /\ [Next]_vars => AuditInv'
  BY NextCommitInv, NextState, NextOnce, NextAudit DEF AuditInv
<1> QED
  BY <1>1, <1>2, AuditEnds, PTL DEF Spec

=============================================================================
