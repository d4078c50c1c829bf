--------------------------- MODULE RunLeaseProofs ---------------------------
(***************************************************************************)
(* Proofs about RunLease for every number of slots, every assignment of    *)
(* slots to processes, both computer modes and every bound.                *)
(***************************************************************************)
EXTENDS RunLease, TLAPS

\* After the claim, the note an execution carries is a takeover note or none:
\* what makes a requeue unable to put a stale choice back on the row.
NotesCarried ==
  \A s \in Slots : exec[s].pc \notin {"idle", "read"} => exec[s].checkpoint # "choice"

\* The shape of the run, its executions and its job.
RunTypes ==
  /\ row \in Rows
  /\ exec \in [Slots -> Execs]
  /\ job \in BOOLEAN
  /\ ask \in {"none", "plain", "choice"}
  /\ listed \in BOOLEAN
  /\ turns \in 0..MaxTurns
  /\ faults \in 0..MaxFaults

\* The shape of the two leases of the computer, and of the requests for it.
ComputerTypes ==
  /\ hold \in Holds /\ control \in Controls
  /\ pending \subseteq Requests /\ promised \in BOOLEAN

\* The inductive invariant.
Inv == RunTypes /\ LeaseShape /\ NotesCarried

\* What type correctness says of the row and of one execution.
LEMMA Shapes ==
  ASSUME RunTypes, NEW s \in Slots
  PROVE  /\ row.status \in Statuses /\ row.owner \in Workers \cup {None} /\ row.fence \in Nat
         /\ row.lease \in {"none", "live", "lapsed"} /\ row.checkpoint \in Checkpoints
         /\ exec[s] \in Execs /\ exec[s].fence \in Nat /\ exec[s].checkpoint \in Checkpoints
         /\ exec[s].held \in BOOLEAN /\ WorkerOf[s] \in Workers
BY SlotsAssumption DEF RunTypes, Rows, Execs

\* An idle slot is a legal execution record.
LEMMA IdleShape == Idle \in Execs /\ Idle.pc = "idle"
BY DEF Idle, Execs, Checkpoints

\* Emptying the lease columns changes nothing else.
LEMMA ReleasedShape ==
  ASSUME NEW r \in Rows
  PROVE  /\ Released(r) \in Rows
         /\ Released(r).owner = None /\ Released(r).lease = "none"
         /\ Released(r).status = r.status /\ Released(r).fence = r.fence
         /\ Released(r).checkpoint = r.checkpoint
BY DEF Released, Rows

\* A slot that goes idle disturbs no other execution.
LEMMA GoesIdle ==
  ASSUME exec \in [Slots -> Execs], NotesCarried, NEW s \in Slots,
         exec' = [exec EXCEPT ![s] = Idle]
  PROVE  exec' \in [Slots -> Execs] /\ NotesCarried'
BY IdleShape DEF NotesCarried

\* What the user does to the screen, and what happens to the computer, leaves
\* the run and its executions alone.
LEMMA ComputerAlone ==
  ASSUME Screen \/ Machine
  PROVE  /\ UNCHANGED <<row, exec, job, ask, listed, turns>>
         /\ faults' = faults \/ (faults < MaxFaults /\ faults' = faults + 1)
<1>1. CASE Screen
  BY <1>1 DEF Screen, ReadForTakeover, RetakeControl, GrantTakeover, GrantTeaching, TakeElsewhere,
              LeaveElsewhere, LapseControl, ForgetControl, UndoGrant, Spend
<1>2. CASE Machine
  BY <1>2 DEF Machine, StopComputer, ComputerStopped, RivalAcquires, RivalPauses, HoldEnds,
              HoldLapsesUnderOwner, Spend
<1> QED
  BY <1>1, <1>2

\* What a requeue writes keeps the shape of the row.
LEMMA RequeueShape ==
  ASSUME Inv, row.status = "running", NEW note \in {None, "takeover"}, NEW held \in BOOLEAN,
         row' = Requeued(note, held), UNCHANGED ask
  PROVE  row' \in Rows /\ LeaseShape'
<1>1. row \in Rows /\ LeaseShape
  BY DEF Inv, RunTypes
<1>2. note # "choice" /\ note \in Checkpoints
  BY NoneAssumption DEF Checkpoints
<1>3. CASE row.checkpoint = "takeover"
  <2>1. /\ row' \in Rows /\ row'.status = "queued" /\ row'.owner = None
        /\ row'.lease = "none" /\ row'.checkpoint = "takeover"
    BY <1>1, <1>3, ReleasedShape DEF Requeued, Rows, Statuses, ActiveStatuses
  <2> QED
    BY <2>1 DEF LeaseShape, Waiting, Terminal
<1>4. CASE row.checkpoint # "takeover"
  <2>1. /\ row' \in Rows /\ row'.status \in {"queued", "waiting_takeover"}
        /\ row'.owner = None /\ row'.lease = "none" /\ row'.checkpoint = note
        /\ row'.status = "waiting_takeover" => note = None
    BY <1>1, <1>2, <1>4, ReleasedShape DEF Requeued, Rows, Statuses, ActiveStatuses, Waiting
  <2> QED
    BY <1>2, <2>1, NoneAssumption DEF LeaseShape, Waiting, Terminal
<1> QED
  BY <1>3, <1>4

-----------------------------------------------------------------------------
\* The initial states satisfy the invariant.
LEMMA InitEstablishes == Init => Inv
<1> SUFFICES ASSUME Init PROVE Inv
  OBVIOUS
<1>1. row \in Rows /\ LeaseShape
  BY NoneAssumption
     DEF Init, LeaseShape, Rows, Statuses, ActiveStatuses, Waiting, Terminal, Checkpoints
<1>2. exec \in [Slots -> Execs] /\ NotesCarried
  BY IdleShape DEF Init, NotesCarried
<1>3. turns \in 0..MaxTurns /\ faults \in 0..MaxFaults
  <2>1. turns = 0 /\ faults = 0
    BY DEF Init
  <2> QED
    BY <2>1, BoundsAssumption
<1>4. listed \in BOOLEAN /\ job \in BOOLEAN
  BY DEF Init
<1>5. ask \in {"none", "plain", "choice"}
  BY DEF Init
<1> QED
  BY <1>1, <1>2, <1>3, <1>4, <1>5 DEF Inv, RunTypes

\* A requeue, under the lease or not, keeps the invariant.
LEMMA GiveBackPreserves ==
  ASSUME Inv, NEW s \in Slots, NEW note \in {None, "takeover"}, NEW held \in BOOLEAN,
         GiveBack(s, note, held), turns' \in 0..MaxTurns, faults' \in 0..MaxFaults,
         UNCHANGED listed
  PROVE  Inv'
<1>1. exec' \in [Slots -> Execs] /\ NotesCarried'
  BY GoesIdle DEF Inv, RunTypes, GiveBack
<1>2. row' \in Rows /\ LeaseShape' /\ job' \in BOOLEAN
  <2>1. CASE Fenced(s)
    BY <2>1, RequeueShape DEF GiveBack, Fenced, EnqueueOrLose, Inv, RunTypes
  <2>2. CASE ~Fenced(s)
    BY <2>2 DEF GiveBack, Inv, RunTypes, LeaseShape
  <2> QED
    BY <2>1, <2>2
<1>3. ask' \in {"none", "plain", "choice"}
  BY DEF GiveBack, Inv, RunTypes
<1> QED
  BY <1>1, <1>2, <1>3 DEF Inv, RunTypes

\* The steps of continueRun up to the end of its turn keep the invariant.
LEMMA SetupPreserves ==
  ASSUME Inv, NEW s \in Slots,
         \/ StartJob(s) \/ Claim(s) \/ LoseClaim(s) \/ Begin(s) \/ BeginLost(s)
         \/ Attach(s) \/ GateTools(s) \/ EnterTurn(s) \/ HoldComputer(s) \/ PauseFails(s)
  PROVE  Inv'
<1>0. RunTypes /\ LeaseShape /\ NotesCarried
  BY DEF Inv
<1>1. CASE StartJob(s)
  <2>1. exec' \in [Slots -> Execs]
    BY <1>0, <1>1, Shapes DEF StartJob, isTerminal, Execs, Statuses, RunTypes
  <2>2. NotesCarried'
    BY <1>0, <1>1 DEF StartJob, NotesCarried, RunTypes
  <2> QED
    BY <1>0, <1>1, <2>1, <2>2 DEF StartJob, Inv, RunTypes, LeaseShape
<1>2. CASE Claim(s)
  <2>1. takeoverCheckpointOf(exec[s].checkpoint) \in Checkpoints \ {"choice"}
    BY <1>0, Shapes, NoneAssumption DEF takeoverCheckpointOf, Checkpoints
  <2>2. PICK c \in Checkpoints \ {"choice"} :
          exec' = [exec EXCEPT ![s].pc = "claimed", ![s].seen = None, ![s].checkpoint = c]
    BY <1>2, <2>1 DEF Claim
  <2>3. exec' \in [Slots -> Execs]
    <3> DEFINE e == [exec[s] EXCEPT !.pc = "claimed", !.seen = None, !.checkpoint = c]
    <3>1. e \in Execs
      BY <1>0, Shapes DEF Execs
    <3>2. exec' = [exec EXCEPT ![s] = e]
      BY <2>2
    <3> HIDE DEF e
    <3> QED
      BY <1>0, <3>1, <3>2 DEF RunTypes
  <2>6. NotesCarried'
    BY <1>0, <2>2 DEF NotesCarried, RunTypes
  <2>4. /\ row' \in Rows /\ row'.status = "leased" /\ row'.owner \in Workers
        /\ row'.lease = "live" /\ row'.checkpoint = None
    BY <1>0, <1>2, Shapes DEF Claim, Rows, Statuses, ActiveStatuses, Checkpoints
  <2>5. LeaseShape'
    BY <2>4, NoneAssumption DEF LeaseShape, Waiting
  <2> QED
    BY <1>0, <1>2, <2>3, <2>4, <2>5, <2>6 DEF Claim, Inv, RunTypes
<1>3. CASE LoseClaim(s)
  <2>1. exec' \in [Slots -> Execs] /\ NotesCarried'
    BY <1>0, <1>3, GoesIdle DEF LoseClaim, RunTypes
  <2> QED
    BY <1>0, <1>3, <2>1 DEF LoseClaim, Inv, RunTypes, LeaseShape
<1>4. CASE Begin(s)
  <2>1. exec' \in [Slots -> Execs] /\ NotesCarried'
    BY <1>0, <1>4 DEF Begin, NotesCarried, RunTypes, Execs
  <2>2. row' \in Rows /\ LeaseShape'
    BY <1>0, <1>4
       DEF Begin, RunTypes, Rows, Statuses, ActiveStatuses, LeaseShape, Waiting, Terminal
  <2> QED
    BY <1>0, <1>4, <2>1, <2>2 DEF Begin, Inv, RunTypes
<1>5. CASE BeginLost(s)
  <2>1. exec' \in [Slots -> Execs] /\ NotesCarried'
    BY <1>0, <1>5, GoesIdle DEF BeginLost, RunTypes
  <2> QED
    BY <1>0, <1>5, <2>1 DEF BeginLost, Inv, RunTypes, LeaseShape
<1>6. CASE Attach(s)
  <2>1. exec' \in [Slots -> Execs] /\ NotesCarried'
    BY <1>0, <1>6 DEF Attach, NotesCarried, RunTypes, Execs
  <2> QED
    BY <1>0, <1>6, <2>1 DEF Attach, Inv, RunTypes, LeaseShape
<1>7. CASE GateTools(s)
  <2>1. exec[s] \in Execs /\ exec[s].pc = "setup" /\ exec[s].checkpoint # "choice"
    BY <1>0, <1>7 DEF GateTools, NotesCarried, RunTypes
  <2>2. PICK h \in BOOLEAN, c \in Checkpoints \ {"choice"} :
          exec' = [exec EXCEPT ![s].pc = "gated", ![s].held = h, ![s].checkpoint = c]
    BY <1>0, <1>7, <2>1 DEF GateTools, Execs, Checkpoints
  <2>3. exec' \in [Slots -> Execs]
    <3> DEFINE e == [exec[s] EXCEPT !.pc = "gated", !.held = h, !.checkpoint = c]
    <3>1. e \in Execs
      BY <1>0, Shapes DEF Execs
    <3>2. exec' = [exec EXCEPT ![s] = e]
      BY <2>2
    <3> HIDE DEF e
    <3> QED
      BY <1>0, <3>1, <3>2 DEF RunTypes
  <2>4. NotesCarried'
    BY <1>0, <2>2 DEF NotesCarried, RunTypes
  <2> QED
    BY <1>0, <1>7, <2>3, <2>4 DEF GateTools, Inv, RunTypes, LeaseShape
<1>8. CASE EnterTurn(s)
  <2>1. exec' \in [Slots -> Execs] /\ NotesCarried'
    BY <1>0, <1>8 DEF EnterTurn, NotesCarried, RunTypes, Execs
  <2> QED
    BY <1>0, <1>8, <2>1 DEF EnterTurn, Inv, RunTypes, LeaseShape
<1>9. CASE HoldComputer(s) \/ PauseFails(s)
  <2>1. exec' \in [Slots -> Execs] /\ NotesCarried'
    BY <1>0, <1>9 DEF HoldComputer, PauseFails, NotesCarried, RunTypes, Execs
  <2>2. turns' \in 0..MaxTurns /\ faults' \in 0..MaxFaults
    BY <1>0, <1>9, BoundsAssumption DEF HoldComputer, PauseFails, Spend, RunTypes
  <2> QED
    BY <1>0, <1>9, <2>1, <2>2 DEF HoldComputer, PauseFails, Inv, RunTypes, LeaseShape
<1> QED
  BY <1>1, <1>2, <1>3, <1>4, <1>5, <1>6, <1>7, <1>8, <1>9

\* The ways a run is given back keep the invariant.
LEMMA RequeuesPreserve ==
  ASSUME Inv, NEW s \in Slots, Requeue(s) \/ NoticeRelease(s) \/ FinalizeFails(s)
  PROVE  Inv'
<1>0. RunTypes /\ NotesCarried /\ turns \in 0..MaxTurns /\ faults \in 0..MaxFaults
  BY DEF Inv, RunTypes
<1>1. exec[s].pc \notin {"idle", "read"} => exec[s].checkpoint \in {None, "takeover"}
  BY <1>0, Shapes DEF NotesCarried, Checkpoints
<1>2. exec[s].held \in BOOLEAN
  BY <1>0, Shapes
<1>3. CASE Requeue(s)
  <2>1. turns' \in 0..MaxTurns /\ faults' \in 0..MaxFaults
    BY <1>0, <1>3, BoundsAssumption DEF Requeue, Spend
  <2> QED
    BY <1>1, <1>2, <1>3, <2>1, GiveBackPreserves DEF Requeue
<1>4. CASE NoticeRelease(s)
  <2>1. turns' \in 0..MaxTurns /\ faults' \in 0..MaxFaults
    BY <1>0, <1>4 DEF NoticeRelease
  <2> QED
    BY <1>4, <2>1, GiveBackPreserves DEF NoticeRelease
<1>5. CASE FinalizeFails(s)
  <2>1. turns' \in 0..MaxTurns /\ faults' \in 0..MaxFaults
    BY <1>0, <1>5, BoundsAssumption DEF FinalizeFails, Spend
  <2> QED
    BY <1>1, <1>2, <1>5, <2>1, GiveBackPreserves DEF FinalizeFails
<1> QED
  BY <1>3, <1>4, <1>5

\* The ways a turn ends keep the invariant.
LEMMA EndingsPreserve ==
  ASSUME Inv, NEW s \in Slots, EndsTurn(s)
  PROVE  Inv'
<1>0. RunTypes /\ LeaseShape /\ NotesCarried
  BY DEF Inv
<1>1. exec' \in [Slots -> Execs] /\ NotesCarried'
  BY <1>0, GoesIdle
     DEF EndsTurn, PauseForInput, PauseForTakeover, Finalize, EndTurn, RunTypes
<1>2. row \in Rows
  BY <1>0 DEF RunTypes
<1>3. ASSUME NEW choice \in BOOLEAN, PauseForInput(s, choice)
      PROVE  Inv'
  <2>1. turns' \in 0..MaxTurns
    BY <1>0, <1>3, BoundsAssumption DEF PauseForInput, Spend, RunTypes
  <2>2. CASE Fenced(s)
    <3>1. row.checkpoint # "choice"
      BY <1>0, <2>2 DEF LeaseShape, Fenced, Terminal
    <3>2. /\ row' \in Rows /\ row'.status = "waiting_input" /\ row'.owner = None
          /\ row'.lease = "none"
          /\ row'.checkpoint = IF choice THEN "choice" ELSE row.checkpoint
      BY <1>2, <1>3, <2>2, ReleasedShape
         DEF PauseForInput, EndTurn, Rows, Statuses, ActiveStatuses, Waiting, Checkpoints
    <3>3. ask' = IF choice THEN "choice" ELSE "plain"
      BY <1>3, <2>2 DEF PauseForInput
    <3>4. LeaseShape'
      BY <3>1, <3>2, <3>3 DEF LeaseShape, Waiting, Terminal
    <3> QED
      BY <1>0, <1>1, <1>3, <2>1, <3>2, <3>3, <3>4 DEF PauseForInput, Inv, RunTypes
  <2>3. CASE ~Fenced(s)
    BY <1>0, <1>1, <1>3, <2>1, <2>3 DEF PauseForInput, EndTurn, Inv, RunTypes, LeaseShape
  <2> QED
    BY <2>2, <2>3
<1>4. CASE PauseForTakeover(s)
  <2>1. row' \in Rows /\ LeaseShape'
    <3>1. CASE Fenced(s)
      <4>1. /\ row' \in Rows /\ row'.status = "waiting_takeover" /\ row'.owner = None
            /\ row'.lease = "none" /\ row'.checkpoint = None
        BY <1>2, <1>4, <3>1, ReleasedShape
           DEF PauseForTakeover, Rows, Statuses, ActiveStatuses, Waiting, Checkpoints
      <4> QED
        BY <4>1, NoneAssumption DEF LeaseShape, Waiting, Terminal
    <3>2. CASE ~Fenced(s)
      BY <1>0, <1>4, <3>2 DEF PauseForTakeover, RunTypes, LeaseShape
    <3> QED
      BY <3>1, <3>2
  <2> QED
    BY <1>0, <1>1, <1>4, <2>1 DEF PauseForTakeover, Inv, RunTypes
<1>5. ASSUME NEW outcome \in {"completed", "failed"}, Finalize(s, outcome)
      PROVE  Inv'
  <2>1. row' \in Rows /\ LeaseShape'
    <3>1. CASE Fenced(s)
      <4>1. row' \in Rows /\ row'.status = outcome
        BY <1>2, <1>5, <3>1, ReleasedShape
           DEF Finalize, EndTurn, Rows, Statuses, Terminal
      <4> QED
        BY <4>1 DEF LeaseShape, Waiting, Terminal
    <3>2. CASE ~Fenced(s)
      BY <1>0, <1>5, <3>2 DEF Finalize, EndTurn, RunTypes, LeaseShape
    <3> QED
      BY <3>1, <3>2
  <2> QED
    BY <1>0, <1>1, <1>5, <2>1 DEF Finalize, Inv, RunTypes
<1> QED
  BY <1>3, <1>4, <1>5 DEF EndsTurn

\* What the user does to the run, and a release of the screen, keep the invariant.
LEMMA UserPreserves ==
  ASSUME Inv, User \/ ReleaseControl
  PROVE  Inv'
<1>0. RunTypes /\ LeaseShape /\ NotesCarried /\ row \in Rows /\ NotesCarried' = NotesCarried
  BY DEF Inv, RunTypes, NotesCarried, User, Answer, Steer, ReleaseControl, Stop, Clear,
         ListForRemoval, CancelListed
<1>1. CASE Answer
  <2>1. /\ row' \in Rows /\ row'.status = "queued" /\ row'.owner = row.owner
        /\ row'.lease = row.lease
        /\ row'.checkpoint = IF ask = "choice" THEN None ELSE row.checkpoint
    BY <1>0, <1>1 DEF Answer, Rows, Statuses, ActiveStatuses, Checkpoints
  <2>2. row.owner = None /\ row.lease = "none" /\ row'.checkpoint # "choice"
    BY <1>0, <1>1, <2>1, NoneAssumption DEF Answer, LeaseShape, Waiting, Terminal
  <2>3. LeaseShape'
    BY <2>1, <2>2 DEF LeaseShape, Waiting, Terminal
  <2> QED
    BY <1>0, <1>1, <2>1, <2>3 DEF Answer, EnqueueOrLose, Inv, RunTypes
<1>2. CASE Steer
  BY <1>0, <1>2 DEF Steer, Inv, RunTypes, LeaseShape
<1>3. CASE ListForRemoval
  BY <1>0, <1>3 DEF ListForRemoval, Inv, RunTypes, LeaseShape
<1>4. CASE ReleaseControl
  <2>1. CASE control.bound /\ row.status = "waiting_takeover"
    <3>1. /\ row' \in Rows /\ row'.status = "queued" /\ row'.owner = row.owner
          /\ row'.lease = row.lease /\ row'.checkpoint = "takeover" /\ job' \in BOOLEAN
      BY <1>0, <1>4, <2>1
         DEF ReleaseControl, EnqueueOrLose, Rows, Statuses, ActiveStatuses, Checkpoints, RunTypes
    <3>2. LeaseShape'
      BY <1>0, <2>1, <3>1 DEF LeaseShape, Waiting, Terminal
    <3> QED
      BY <1>0, <1>4, <3>1, <3>2 DEF ReleaseControl, Inv, RunTypes
  <2>2. CASE control.bound /\ row.status \in {"leased", "running"}
    <3>1. /\ row' \in Rows /\ row'.status = row.status /\ row'.owner = row.owner
          /\ row'.lease = row.lease /\ row'.checkpoint = "takeover" /\ job' \in BOOLEAN
      BY <1>0, <1>4, <2>2
         DEF ReleaseControl, EnqueueOrLose, Rows, Statuses, ActiveStatuses, Checkpoints, RunTypes
    <3>2. LeaseShape'
      BY <1>0, <2>2, <3>1 DEF LeaseShape, Waiting, Terminal
    <3> QED
      BY <1>0, <1>4, <3>1, <3>2 DEF ReleaseControl, Inv, RunTypes
  <2>3. CASE ~(control.bound /\ row.status \in {"waiting_takeover", "leased", "running"})
    <3>1. UNCHANGED <<row, job>>
      BY <1>4, <2>3 DEF ReleaseControl
    <3> QED
      BY <1>0, <1>4, <3>1 DEF ReleaseControl, Inv, RunTypes, LeaseShape
  <2> QED
    BY <2>1, <2>2, <2>3
<1>5. CASE Stop \/ CancelListed
  <2>1. row' \in Rows /\ row'.status = "cancelled"
    BY <1>0, <1>5 DEF Stop, CancelListed, Rows, Statuses, Terminal
  <2> QED
    BY <1>0, <1>5, <2>1 DEF Stop, CancelListed, Inv, RunTypes, LeaseShape, Waiting, Terminal
<1>6. CASE Clear
  <2>1. row' \in Rows /\ row'.status = "cancelled"
    BY <1>0, <1>6, ReleasedShape DEF Clear, Rows, Statuses, Terminal
  <2> QED
    BY <1>0, <1>6, <2>1 DEF Clear, Inv, RunTypes, LeaseShape, Waiting, Terminal
<1> QED
  BY <1>1, <1>2, <1>3, <1>4, <1>5, <1>6 DEF User

\* Heartbeats, time, crashes, the reconciler and the computer keep the invariant.
LEMMA RestPreserves ==
  ASSUME Inv,
         \/ \E s \in Slots : Heartbeat(s) \/ NoticeLoss(s) \/ Abandon(s)
         \/ \E w \in Workers : Crash(w)
         \/ Reconcile \/ LapseUnderOwner \/ LapseAbandoned \/ Screen \/ Machine
  PROVE  Inv'
<1>0. RunTypes /\ LeaseShape /\ NotesCarried /\ row \in Rows
  BY DEF Inv, RunTypes
<1>1. ASSUME NEW s \in Slots, Heartbeat(s) PROVE Inv'
  <2>1. /\ row' \in Rows /\ row'.status = "running" /\ row'.owner = row.owner
        /\ row'.lease = "live" /\ row'.checkpoint = row.checkpoint /\ row.status = "running"
    BY <1>0, <1>1 DEF Heartbeat, Fenced, Rows
  <2>2. LeaseShape' /\ NotesCarried'
    BY <1>0, <1>1, <2>1 DEF Heartbeat, LeaseShape, NotesCarried, Waiting, Terminal
  <2> QED
    BY <1>0, <1>1, <2>1, <2>2 DEF Heartbeat, Inv, RunTypes
<1>2. ASSUME NEW s \in Slots, NoticeLoss(s) PROVE Inv'
  <2>1. exec' \in [Slots -> Execs] /\ NotesCarried'
    BY <1>0, <1>2, GoesIdle DEF NoticeLoss, RunTypes
  <2> QED
    BY <1>0, <1>2, <2>1 DEF NoticeLoss, Inv, RunTypes, LeaseShape
<1>3. ASSUME NEW s \in Slots, Abandon(s) PROVE Inv'
  <2>1. exec' \in [Slots -> Execs] /\ NotesCarried'
    BY <1>0, <1>3, GoesIdle DEF Abandon, RunTypes
  <2>2. faults' \in 0..MaxFaults
    BY <1>0, <1>3, BoundsAssumption DEF Abandon, Spend, RunTypes
  <2> QED
    BY <1>0, <1>3, <2>1, <2>2 DEF Abandon, EnqueueOrLose, Inv, RunTypes, LeaseShape
<1>4. ASSUME NEW w \in Workers, Crash(w) PROVE Inv'
  <2>1. exec' \in [Slots -> Execs] /\ NotesCarried'
    BY <1>0, <1>4, IdleShape DEF Crash, NotesCarried, RunTypes
  <2>2. faults' \in 0..MaxFaults
    BY <1>0, <1>4, BoundsAssumption DEF Crash, Spend, RunTypes
  <2> QED
    BY <1>0, <1>4, <2>1, <2>2 DEF Crash, EnqueueOrLose, Inv, RunTypes, LeaseShape
<1>5. CASE Reconcile
  BY <1>0, <1>5 DEF Reconcile, Inv, RunTypes, LeaseShape, NotesCarried
<1>6. CASE LapseUnderOwner \/ LapseAbandoned
  <2>1. /\ row' \in Rows /\ row'.status = row.status /\ row'.owner = row.owner
        /\ row'.lease = "lapsed" /\ row'.checkpoint = row.checkpoint
        /\ row.status \in {"leased", "running"}
    BY <1>0, <1>6 DEF LapseUnderOwner, LapseAbandoned, Expired, Rows
  <2>2. LeaseShape' /\ NotesCarried'
    BY <1>0, <1>6, <2>1
       DEF LapseUnderOwner, LapseAbandoned, LeaseShape, NotesCarried, Waiting, Terminal
  <2>3. faults' \in 0..MaxFaults
    BY <1>0, <1>6, BoundsAssumption DEF LapseUnderOwner, LapseAbandoned, Spend, RunTypes
  <2> QED
    BY <1>0, <1>6, <2>1, <2>2, <2>3 DEF LapseUnderOwner, LapseAbandoned, Inv, RunTypes
<1>7. CASE Screen \/ Machine
  <2>1. UNCHANGED <<row, exec, job, ask, listed, turns>>
    BY <1>7, ComputerAlone
  <2>2. faults' \in 0..MaxFaults
    BY <1>0, <1>7, ComputerAlone, BoundsAssumption DEF RunTypes
  <2> QED
    BY <1>0, <2>1, <2>2 DEF Inv, RunTypes, LeaseShape, NotesCarried
<1> QED
  BY <1>1, <1>2, <1>3, <1>4, <1>5, <1>6, <1>7

\* Every step keeps the invariant.
LEMMA NextPreserves == Inv /\ [Next]_vars => Inv'
<1> SUFFICES ASSUME Inv, [Next]_vars PROVE Inv'
  OBVIOUS
<1>1. CASE UNCHANGED vars
  BY <1>1 DEF vars, Inv, RunTypes, LeaseShape, NotesCarried
<1>2. CASE Next
  BY <1>2, SetupPreserves, RequeuesPreserve, EndingsPreserve, UserPreserves, RestPreserves
     DEF Next, Advance
<1> QED
  BY <1>1, <1>2

\* The invariant always holds.
THEOREM Invariance == Spec => []Inv
<1>1. Inv /\ [Next]_vars => Inv'
  BY NextPreserves
<1> QED
  BY <1>1, InitEstablishes, PTL DEF Spec

-----------------------------------------------------------------------------
(* The computer's leases.                                                  *)

\* What a step of one execution does to the computer: it acquires it, keeps it or
\* lets it go.  Only the pause for the screen touches the user's lease.
LEMMA SlotComputer ==
  ASSUME NEW s \in Slots,
         \/ StartJob(s) \/ Advance(s) \/ Requeue(s) \/ Heartbeat(s)
         \/ NoticeLoss(s) \/ FinalizeFails(s) \/ PauseFails(s) \/ Abandon(s),
         ~(PauseForTakeover(s) /\ Fenced(s))
  PROVE  /\ UNCHANGED <<control, pending, promised>>
         /\ hold' \in {hold, LetGo(s), KeptFor(s), [of |-> "run", by |-> s, live |-> TRUE]}
<1>1. CASE \/ StartJob(s) \/ Claim(s) \/ LoseClaim(s) \/ Begin(s) \/ BeginLost(s) \/ Attach(s)
           \/ GateTools(s) \/ EnterTurn(s) \/ HoldComputer(s) \/ PauseFails(s) \/ Heartbeat(s)
  BY <1>1 DEF StartJob, Claim, LoseClaim, Begin, BeginLost, Attach, GateTools, EnterTurn,
              HoldComputer, PauseFails, Heartbeat, computerVars, screenVars
<1>2. CASE \/ Requeue(s) \/ NoticeRelease(s) \/ FinalizeFails(s) \/ NoticeLoss(s) \/ Abandon(s)
  BY <1>2 DEF Requeue, NoticeRelease, FinalizeFails, NoticeLoss, Abandon, GiveBack, screenVars
<1>3. CASE EndsTurn(s)
  BY <1>3 DEF EndsTurn, EndTurn, PauseForInput, PauseForTakeover, Finalize, screenVars
<1> QED
  BY <1>1, <1>2, <1>3 DEF Advance

\* What becomes of the execution lease when its execution lets go or keeps it.
LEMMA HoldShape ==
  ASSUME hold \in Holds, NEW s \in Slots,
         NEW h \in {hold, LetGo(s), KeptFor(s), [of |-> "run", by |-> s, live |-> TRUE]}
  PROVE  h \in Holds /\ (h.of = hold.of \/ h.of = "run") /\ h.by \in {hold.by, None, s}
         /\ (h.by = s => hold.by = s \/ h.of = "run")
<1>1. hold.of \in {"none", "run", "rival"} /\ hold.by \in Slots \cup {None} /\ hold.live \in BOOLEAN
  BY DEF Holds
<1>2. CASE h = hold
  BY <1>2
<1>3. CASE h \in {[hold EXCEPT !.by = None, !.live = FALSE], [hold EXCEPT !.by = None]}
  <2>1. h \in Holds /\ h.of = hold.of /\ h.by = None
    BY <1>1, <1>3 DEF Holds
  <2> QED
    BY <2>1, NoneAssumption
<1>4. CASE h = [of |-> "run", by |-> s, live |-> TRUE]
  BY <1>4 DEF Holds
<1> QED
  BY <1>2, <1>3, <1>4 DEF LetGo, KeptFor

\* The values the two leases are given are legal ones.
LEMMA LeaseValues ==
  /\ \A h \in {"none", "ours", "lapsed", "foreign"}, b \in BOOLEAN :
       [holder |-> h, bound |-> b] \in Controls
  /\ \A l \in BOOLEAN : [of |-> "rival", by |-> None, live |-> l] \in Holds
  /\ NoHold \in Holds /\ NoHold.by = None /\ NoControl \in Controls
BY DEF Controls, Holds, NoHold, NoControl

\* What a pause for the screen makes of the user's lease.
LEMMA PauseControl ==
  ASSUME control \in Controls, NEW c \in ControlAfterPause
  PROVE  /\ c \in Controls
         /\ control.holder = "ours" => c.holder = "ours"
         /\ c.holder \in {"ours", "lapsed"} => c.bound
<1>1. control.holder \in {"none", "ours", "lapsed", "foreign"} /\ control.bound \in BOOLEAN
  BY DEF Controls
<1>2. CASE control.holder = "ours"
  <2>1. c = [control EXCEPT !.bound = TRUE]
    BY <1>2 DEF ControlAfterPause
  <2> QED
    BY <1>2, <2>1 DEF Controls
<1>3. CASE control.holder = "foreign"
  <2>1. c = control \/ c = [holder |-> "none", bound |-> TRUE]
    BY <1>3 DEF ControlAfterPause
  <2>2. c \in Controls
    BY <2>1, LeaseValues
  <2>3. c.holder \in {"foreign", "none"}
    BY <1>3, <2>1
  <2> QED
    BY <1>3, <2>2, <2>3
<1>4. CASE control.holder \in {"none", "lapsed"}
  <2>1. c = [holder |-> "none", bound |-> TRUE]
    BY <1>4 DEF ControlAfterPause
  <2> QED
    BY <1>4, <2>1 DEF Controls
<1> QED
  BY <1>1, <1>2, <1>3, <1>4

\* Only the removal of its bot writes to a run that has ended.
LEMMA OnlyRemovalRewrites ==
  ASSUME row.status \in Terminal, [Next]_vars
  PROVE  row' = row \/ CancelListed
<1>0. row.status \notin {"queued", "leased", "running", "waiting_input", "waiting_takeover"}
  BY DEF Terminal
<1>1. CASE UNCHANGED vars
  BY <1>1 DEF vars
<1>2. ASSUME NEW s \in Slots,
             StartJob(s) \/ Advance(s) \/ Requeue(s) \/ Heartbeat(s)
               \/ NoticeLoss(s) \/ FinalizeFails(s) \/ PauseFails(s) \/ Abandon(s)
      PROVE  row' = row
  BY <1>0, <1>2
     DEF StartJob, Advance, Requeue, Heartbeat, NoticeLoss, FinalizeFails, PauseFails, Abandon,
         Claim, Claimable, LoseClaim, Begin, BeginLost, Attach, GateTools, EnterTurn,
         HoldComputer, NoticeRelease, GiveBack, EndsTurn, EndTurn, PauseForInput,
         PauseForTakeover, Finalize, Fenced, Waiting
<1>3. CASE User \/ ReleaseControl
  BY <1>0, <1>3
     DEF User, Answer, Steer, ReleaseControl, Stop, Clear, ListForRemoval, ActiveStatuses, Waiting
<1>4. CASE (\E w \in Workers : Crash(w)) \/ Reconcile \/ LapseUnderOwner \/ LapseAbandoned
  BY <1>0, <1>4 DEF Crash, Reconcile, LapseUnderOwner, LapseAbandoned, Expired
<1>5. CASE Screen \/ Machine
  BY <1>5, ComputerAlone
<1> QED
  BY <1>1, <1>2, <1>3, <1>4, <1>5 DEF Next

\* What the invariant of the leases needs to know of a step that makes no promise.
Harmless ==
  /\ promised' => promised
  /\ hold'.of = hold.of \/ hold'.of = "run"
  /\ hold'.by \in Slots => hold'.by = hold.by \/ hold'.of = "run"
  /\ pending' \subseteq pending
  /\ control'.holder \in {"ours", "lapsed"} =>
       control.holder \in {"ours", "lapsed"} /\ (control.bound => control'.bound)

\* The execution lease names the run whenever one of its executions renews it,
\* and for as long as the last pause is relied on: the user then takes the screen
\* for the run that waits or not at all.
Promise ==
  /\ hold.by \in Slots => hold.of = "run"
  /\ promised =>
       /\ hold.of = "run" /\ "teaching" \notin pending
       /\ row.status \notin Terminal =>
            /\ "unbinding" \notin pending
            /\ control.holder \in {"ours", "lapsed"} => control.bound

\* The inductive invariant of the leases.
Leases == ComputerTypes /\ Promise

LEMMA LeasesInit == Init => Leases
<1> SUFFICES ASSUME Init PROVE Leases
  OBVIOUS
<1>1. hold \in Holds /\ hold.by = None
  <2>1. CASE hold = NoHold
    BY <2>1, LeaseValues
  <2>2. CASE hold \in [of : {"rival"}, by : {None}, live : BOOLEAN]
    BY <2>2 DEF Holds
  <2> QED
    BY <2>1, <2>2 DEF Init
<1>2. control \in Controls /\ pending \subseteq Requests /\ promised = FALSE
  <2>1. CASE control \in [holder : {"none", "ours"}, bound : {FALSE}]
    BY <2>1 DEF Controls, Init, Requests
  <2>2. CASE control = [holder |-> "foreign", bound |-> FALSE]
    BY <2>2, LeaseValues DEF Init, Requests
  <2> QED
    BY <2>1, <2>2 DEF Init
<1> QED
  BY <1>1, <1>2, NoneAssumption DEF Leases, ComputerTypes, Promise

\* A step that is harmless to the leases keeps what they promise.
LEMMA HarmlessKept ==
  ASSUME Inv, Leases, [Next]_vars, Harmless, ComputerTypes'
  PROVE  Leases'
<1>1. row'.status \notin Terminal => row.status \notin Terminal
  <2>1. CancelListed => row'.status \in Terminal
    BY DEF CancelListed, Inv, RunTypes, Rows, Terminal
  <2> QED
    BY <2>1, OnlyRemovalRewrites
<1>2. hold'.by \in Slots => hold'.of = "run"
  BY DEF Harmless, Leases, Promise
<1>3. promised' => hold'.of = "run" /\ "teaching" \notin pending'
  BY DEF Harmless, Leases, Promise
<1>4. ASSUME promised', row'.status \notin Terminal
      PROVE  /\ "unbinding" \notin pending'
             /\ control'.holder \in {"ours", "lapsed"} => control'.bound
  BY <1>1, <1>4 DEF Harmless, Leases, Promise
<1> QED
  BY <1>2, <1>3, <1>4 DEF Leases, Promise

\* A step of an execution keeps the leases.
LEMMA SlotLeases ==
  ASSUME Inv, Leases, [Next]_vars, NEW s \in Slots,
         \/ StartJob(s) \/ Advance(s) \/ Requeue(s) \/ Heartbeat(s)
         \/ NoticeLoss(s) \/ FinalizeFails(s) \/ PauseFails(s) \/ Abandon(s)
  PROVE  Leases'
<1>0. hold \in Holds /\ control \in Controls /\ pending \subseteq Requests /\ promised \in BOOLEAN
  BY DEF Leases, ComputerTypes
<1>1. CASE ~(PauseForTakeover(s) /\ Fenced(s))
  <2>1. /\ UNCHANGED <<control, pending, promised>>
        /\ hold' \in {hold, LetGo(s), KeptFor(s), [of |-> "run", by |-> s, live |-> TRUE]}
    BY <1>1, SlotComputer
  <2>2. hold' \in Holds /\ (hold'.of = hold.of \/ hold'.of = "run")
        /\ hold'.by \in {hold.by, None, s} /\ (hold'.by = s => hold.by = s \/ hold'.of = "run")
    BY <1>0, <2>1, HoldShape
  <2>3. Harmless
    BY <2>1, <2>2, NoneAssumption DEF Harmless
  <2>4. ComputerTypes'
    BY <1>0, <2>1, <2>2 DEF ComputerTypes
  <2> QED
    BY <2>3, <2>4, HarmlessKept
<1>2. CASE PauseForTakeover(s) /\ Fenced(s)
  <2>1. /\ control' \in ControlAfterPause /\ hold' = KeptFor(s) /\ pending' = pending
        /\ promised' = (hold.by = s /\ pending \cap {"unbinding", "teaching"} = {})
    BY <1>2 DEF PauseForTakeover
  <2>2. /\ control' \in Controls
        /\ control'.holder \in {"ours", "lapsed"} => control'.bound
    BY <1>0, <2>1, PauseControl
  <2>3. hold' \in Holds /\ hold'.of = hold.of /\ (hold'.by \in Slots => hold'.by = hold.by)
    BY <1>0, <2>1, NoneAssumption DEF KeptFor, Holds
  <2>4. hold.by \in Slots => hold.of = "run"
    BY DEF Leases, Promise
  <2>5. promised' => hold'.of = "run" /\ "teaching" \notin pending' /\ "unbinding" \notin pending'
    BY <2>1, <2>3, <2>4
  <2>6. promised' \in BOOLEAN
    BY <2>1
  <2> QED
    BY <1>0, <2>1, <2>2, <2>3, <2>4, <2>5, <2>6 DEF Leases, ComputerTypes, Promise
<1> QED
  BY <1>1, <1>2

\* What the user does to the screen keeps the leases: a takeover decided since the
\* pause names the run, unless the run is over.
LEMMA ScreenLeases ==
  ASSUME Inv, Leases, [Next]_vars, Screen
  PROVE  Leases'
<1>0. hold \in Holds /\ control \in Controls /\ pending \subseteq Requests /\ promised \in BOOLEAN
  BY DEF Leases, ComputerTypes
<1>1. ASSUME hold' = hold, promised' = promised, pending' \subseteq pending, control' \in Controls,
             control'.holder \in {"ours", "lapsed"} =>
               control.holder \in {"ours", "lapsed"} /\ (control.bound => control'.bound)
      PROVE  Leases'
  <2>1. Harmless
    BY <1>1 DEF Harmless
  <2>2. ComputerTypes'
    BY <1>0, <1>1 DEF ComputerTypes
  <2> QED
    BY <2>1, <2>2, HarmlessKept
<1>2. Rebound \in Controls /\ Rebound.holder = control.holder /\ (control.bound => Rebound.bound)
  BY <1>0 DEF Rebound, Controls
<1>3. CASE ReadForTakeover
  <2>1. UNCHANGED <<row, hold, control, promised>>
    BY <1>3 DEF ReadForTakeover
  <2>2. CASE pending' = pending \cup {"binding"}
    BY <1>0, <2>1, <2>2 DEF Leases, ComputerTypes, Promise, Requests
  <2>3. CASE pending' = pending \cup {"unbinding"} /\ (hold.of = "run" => row.status \in Terminal)
    BY <1>0, <2>1, <2>3 DEF Leases, ComputerTypes, Promise, Requests
  <2> QED
    BY <1>3, <2>2, <2>3 DEF ReadForTakeover
<1>4. CASE RetakeControl
  BY <1>1, <1>2, <1>4 DEF RetakeControl
<1>5. ASSUME NEW request \in Requests, GrantTakeover(request) PROVE Leases'
  <2>1. /\ UNCHANGED <<row, hold, promised>> /\ request \in pending
        /\ request \in {"binding", "unbinding"} /\ pending' \subseteq pending
    BY <1>5 DEF GrantTakeover
  <2>2. CASE control.holder = "none"
    <3>1. control' = [holder |-> "ours", bound |-> request = "binding"]
      BY <1>5, <2>2 DEF GrantTakeover
    <3>2. control' \in Controls /\ (request = "binding" => control'.bound)
      BY <3>1 DEF Controls
    <3> QED
      BY <1>0, <2>1, <3>2 DEF Leases, ComputerTypes, Promise
  <2>3. CASE control.holder # "none"
    <3>1. control' \in {Rebound, control}
      BY <1>5, <2>3 DEF GrantTakeover
    <3> QED
      BY <1>0, <1>1, <1>2, <2>1, <3>1
  <2> QED
    BY <2>2, <2>3
<1>6. CASE GrantTeaching
  <2>1. ~promised /\ promised' = promised /\ hold' = hold /\ pending' \subseteq pending
    BY <1>6 DEF GrantTeaching, Leases, Promise
  <2>2. control' \in Controls
    BY <1>0, <1>6 DEF GrantTeaching, Controls
  <2> QED
    BY <1>0, <2>1, <2>2 DEF Leases, ComputerTypes, Promise
<1>7. CASE TakeElsewhere \/ LeaveElsewhere \/ ForgetControl \/ UndoGrant
  <2>1. \/ control' = [holder |-> "foreign", bound |-> FALSE]
        \/ control' = [holder |-> "none", bound |-> FALSE]
    BY <1>7 DEF TakeElsewhere, LeaveElsewhere, ForgetControl, UndoGrant, NoControl
  <2>2. control' \in Controls
    BY <2>1, LeaseValues
  <2>3. control'.holder \in {"none", "foreign"}
    BY <2>1
  <2> QED
    BY <1>1, <1>7, <2>2, <2>3 DEF TakeElsewhere, LeaveElsewhere, ForgetControl, UndoGrant
<1>8. CASE LapseControl
  <2>1. control' \in Controls /\ control'.bound = control.bound /\ control.holder = "ours"
    BY <1>0, <1>8 DEF LapseControl, Controls
  <2> QED
    BY <1>1, <1>8, <2>1 DEF LapseControl
<1> QED
  BY <1>3, <1>4, <1>5, <1>6, <1>7, <1>8 DEF Screen

\* What happens to the computer keeps the leases: a stop or a rival ends the
\* promise.
LEMMA MachineLeases ==
  ASSUME Inv, Leases, [Next]_vars, Machine
  PROVE  Leases'
<1>0. hold \in Holds /\ control \in Controls /\ pending \subseteq Requests /\ promised \in BOOLEAN
  BY DEF Leases, ComputerTypes
<1>1. CASE StopComputer
  BY <1>0, <1>1, NoneAssumption
     DEF StopComputer, NoHold, Holds, Requests, Leases, ComputerTypes, Promise
<1>2. CASE ComputerStopped
  <2>1. control' \in {NoControl, control} /\ NoControl \in Controls
    BY <1>2 DEF ComputerStopped, NoControl, Controls
  <2>2. hold' = hold /\ pending' \subseteq pending /\ promised' = FALSE
    BY <1>2 DEF ComputerStopped
  <2> QED
    BY <1>0, <2>1, <2>2 DEF Leases, ComputerTypes, Promise
<1>3. CASE RivalAcquires
  BY <1>0, <1>3, NoneAssumption DEF RivalAcquires, Holds, Leases, ComputerTypes, Promise
<1>4. CASE RivalPauses
  <2>1. ~promised /\ promised' = promised /\ hold' = hold /\ pending' = pending
    BY <1>4 DEF RivalPauses, Leases, Promise
  <2>2. control' \in Controls
    BY <1>4 DEF RivalPauses, Controls
  <2> QED
    BY <1>0, <2>1, <2>2 DEF Leases, ComputerTypes, Promise
<1>5. CASE HoldEnds \/ HoldLapsesUnderOwner
  <2>1. hold' \in Holds /\ hold'.of = hold.of /\ hold'.by \in {hold.by, None}
    BY <1>0, <1>5 DEF HoldEnds, HoldLapsesUnderOwner, Holds
  <2>2. UNCHANGED <<control, pending, promised>>
    BY <1>5 DEF HoldEnds, HoldLapsesUnderOwner, screenVars
  <2>3. Harmless
    BY <2>1, <2>2, NoneAssumption DEF Harmless
  <2> QED
    BY <1>0, <2>1, <2>2, <2>3, HarmlessKept DEF ComputerTypes
<1> QED
  BY <1>1, <1>2, <1>3, <1>4, <1>5 DEF Machine

\* Every step keeps the leases.
LEMMA LeasesKept == Inv /\ Leases /\ [Next]_vars => Leases'
<1> SUFFICES ASSUME Inv, Leases, [Next]_vars PROVE Leases'
  OBVIOUS
<1>0. hold \in Holds /\ control \in Controls /\ pending \subseteq Requests /\ promised \in BOOLEAN
  BY DEF Leases, ComputerTypes
<1>1. ASSUME UNCHANGED computerVars PROVE Leases'
  <2>1. Harmless
    BY <1>1 DEF Harmless, computerVars, screenVars
  <2>2. ComputerTypes'
    BY <1>0, <1>1 DEF ComputerTypes, computerVars, screenVars
  <2> QED
    BY <2>1, <2>2, HarmlessKept
<1>2. CASE UNCHANGED vars
  BY <1>1, <1>2 DEF vars
<1>3. CASE User \/ Reconcile \/ LapseUnderOwner \/ LapseAbandoned
  BY <1>1, <1>3 DEF User, Answer, Steer, Stop, Clear, ListForRemoval, CancelListed, Reconcile,
                    LapseUnderOwner, LapseAbandoned
<1>4. CASE ReleaseControl
  <2>1. /\ UNCHANGED <<hold, pending, promised>> /\ control' \in Controls
        /\ control'.holder = "none"
    BY <1>4 DEF ReleaseControl, NoControl, Controls
  <2>2. Harmless
    BY <2>1 DEF Harmless
  <2> QED
    BY <1>0, <2>1, <2>2, HarmlessKept DEF ComputerTypes
<1>5. ASSUME NEW w \in Workers, Crash(w) PROVE Leases'
  <2>1. hold' \in Holds /\ hold'.of = hold.of /\ hold'.by \in {hold.by, None}
    BY <1>0, <1>5 DEF Crash, Holds
  <2>2. UNCHANGED <<control, pending, promised>>
    BY <1>5 DEF Crash, screenVars
  <2>3. Harmless
    BY <2>1, <2>2, NoneAssumption DEF Harmless
  <2> QED
    BY <1>0, <2>1, <2>2, <2>3, HarmlessKept DEF ComputerTypes
<1> QED
  BY <1>2, <1>3, <1>4, <1>5, SlotLeases, ScreenLeases, MachineLeases DEF Next

\* The invariant of the leases always holds.
THEOREM LeasesHold == Spec => []Leases
BY LeasesKept, LeasesInit, Invariance, PTL DEF Spec

\* Type correctness, for every instance.
THEOREM TypeCorrect == Spec => []TypeOK
<1>1. Inv /\ Leases => TypeOK
  BY DEF Inv, RunTypes, Leases, ComputerTypes, TypeOK
<1> QED
  BY <1>1, Invariance, LeasesHold, PTL

\* The row alone always says whether the run can be claimed, reclaimed or
\* answered: owners and deadlines come and go together with the status.
THEOREM LeaseShapeHolds == Spec => []LeaseShape
<1>1. Inv => LeaseShape
  BY DEF Inv
<1> QED
  BY <1>1, Invariance, PTL

-----------------------------------------------------------------------------
\* No step changes the row of an ended run, but for the removal of the bot.
LEMMA StepKeepsEnd ==
  ASSUME ~Removable, row.status \in Terminal, [Next]_vars
  PROVE  row' = row
BY OnlyRemovalRewrites DEF CancelListed

\* A run that ended is never rewritten, whatever late execution still works
\* on it and although Stop leaves its owner and fence in place: only the
\* removal of its bot can do that.
THEOREM EndIsFinal == ~Removable => (Spec => TerminalFinal)
<1> SUFFICES ASSUME ~Removable PROVE Spec => TerminalFinal
  OBVIOUS
<1>1. [Next]_vars => (row.status \in Terminal => row' = row)
  BY StepKeepsEnd
<1> QED
  BY <1>1, PTL DEF Spec, TerminalFinal

-----------------------------------------------------------------------------
\* Every slot belongs to a process of its own.
OwnProcesses == \A s, t \in Slots : WorkerOf[s] = WorkerOf[t] => s = t

\* What LeaseRespected asks of one step and one execution.
Kept(s) == Owns(s)' \/ exec'[s].pc = "idle" \/ row'.status = "cancelled"

\* A live lease is lost only by its holder's own step or by a cancellation.
LEMMA StepRespects ==
  ASSUME OwnProcesses, Inv, [Next]_vars, NEW s \in Slots,
         exec[s].pc \notin {"idle", "read"}, Owns(s), row.lease = "live"
  PROVE  Kept(s)
<1>0. /\ exec \in [Slots -> Execs] /\ row \in Rows /\ row.status \in {"leased", "running"}
      /\ row.owner = WorkerOf[s] /\ row.fence = exec[s].fence
  BY DEF Inv, RunTypes, Owns, Matches
<1>1. ASSUME row' = row, exec'[s] = exec[s] PROVE Kept(s)
  BY <1>0, <1>1 DEF Kept, Owns, Matches
<1>2. ASSUME NEW t \in Slots, t # s PROVE ~Matches(t)
  BY <1>0, <1>2 DEF OwnProcesses, Matches
<1>3. CASE UNCHANGED vars
  BY <1>1, <1>3 DEF vars
<1>4. ASSUME NEW t \in Slots, t # s,
             StartJob(t) \/ Advance(t) \/ Requeue(t) \/ Heartbeat(t)
               \/ NoticeLoss(t) \/ FinalizeFails(t) \/ PauseFails(t) \/ Abandon(t)
      PROVE  Kept(s)
  <2>1. exec'[s] = exec[s]
    BY <1>0, <1>4
       DEF StartJob, Advance, Requeue, Heartbeat, NoticeLoss, FinalizeFails, PauseFails, Abandon,
           Claim, LoseClaim, Begin, BeginLost, Attach, GateTools, EnterTurn, HoldComputer,
           NoticeRelease, GiveBack, EndsTurn, EndTurn, PauseForInput, PauseForTakeover, Finalize
  <2>2. ~Claim(t)
    BY <1>0 DEF Claim, Claimable, Waiting
  <2>3. row' = row
    BY <1>0, <1>2, <1>4, <2>2
       DEF StartJob, Advance, Requeue, Heartbeat, NoticeLoss, FinalizeFails, PauseFails, Abandon,
           LoseClaim, Begin, BeginLost, Attach, GateTools, EnterTurn, HoldComputer, NoticeRelease,
           GiveBack, EndsTurn, EndTurn, PauseForInput, PauseForTakeover, Finalize, Fenced
  <2> QED
    BY <1>1, <2>1, <2>3
<1>5. CASE Requeue(s) \/ NoticeRelease(s) \/ FinalizeFails(s) \/ EndsTurn(s) \/ NoticeLoss(s)
             \/ Abandon(s) \/ BeginLost(s) \/ LoseClaim(s)
  <2>1. exec' = [exec EXCEPT ![s] = Idle]
    BY <1>5 DEF Requeue, NoticeRelease, FinalizeFails, EndsTurn, NoticeLoss, Abandon,
                BeginLost, LoseClaim, GiveBack, EndTurn, PauseForInput, PauseForTakeover, Finalize
  <2> QED
    BY <1>0, <2>1, IdleShape DEF Kept
<1>6. CASE StartJob(s) \/ Claim(s)
  BY <1>6 DEF StartJob, Claim
<1>7. CASE Begin(s) \/ Heartbeat(s)
  <2>1. row'.owner = row.owner /\ row'.fence = row.fence /\ row'.status = "running"
    BY <1>0, <1>7 DEF Begin, Heartbeat, Fenced, Rows
  <2>2. exec'[s].fence = exec[s].fence
    BY <1>0, <1>7 DEF Begin, Heartbeat, Execs
  <2> QED
    BY <1>0, <2>1, <2>2 DEF Kept, Owns, Matches
<1>8. CASE Attach(s) \/ GateTools(s) \/ EnterTurn(s) \/ HoldComputer(s) \/ PauseFails(s)
  <2>1. row' = row /\ exec'[s].fence = exec[s].fence
    BY <1>0, <1>8 DEF Attach, GateTools, EnterTurn, HoldComputer, PauseFails, Execs
  <2> QED
    BY <1>0, <2>1 DEF Kept, Owns, Matches
<1>9. CASE User \/ ReleaseControl
  <2>1. CASE Answer \/ Steer \/ ListForRemoval
    BY <1>0, <1>1, <2>1 DEF Answer, Steer, ListForRemoval
  <2>2. CASE ReleaseControl
    <3>1. row'.owner = row.owner /\ row'.fence = row.fence /\ row'.status = row.status
      BY <1>0, <2>2 DEF ReleaseControl, Rows
    <3> QED
      BY <1>0, <2>2, <3>1 DEF ReleaseControl, Kept, Owns, Matches
  <2>3. CASE Stop \/ CancelListed
    BY <1>0, <2>3 DEF Stop, CancelListed, Kept, Rows
  <2>4. CASE Clear
    <3>1. Released(row) \in Rows
      BY <1>0, ReleasedShape
    <3> QED
      BY <1>0, <2>4, <3>1 DEF Clear, Kept, Rows
  <2> QED
    BY <1>9, <2>1, <2>2, <2>3, <2>4 DEF User
<1>10. ASSUME NEW w \in Workers, Crash(w) PROVE Kept(s)
  <2>1. row' = row /\ exec'[s] \in {Idle, exec[s]}
    BY <1>10 DEF Crash
  <2> QED
    BY <1>1, <2>1, IdleShape DEF Kept
<1>11. CASE Reconcile
  BY <1>1, <1>11 DEF Reconcile
<1>12. CASE LapseUnderOwner \/ LapseAbandoned
  <2>1. row'.owner = row.owner /\ row'.fence = row.fence /\ row'.status = row.status
    BY <1>0, <1>12 DEF LapseUnderOwner, LapseAbandoned, Expired, Rows
  <2> QED
    BY <1>0, <1>12, <2>1 DEF LapseUnderOwner, LapseAbandoned, Kept, Owns, Matches
<1>13. ASSUME NEW t \in Slots,
              StartJob(t) \/ Advance(t) \/ Requeue(t) \/ Heartbeat(t)
                \/ NoticeLoss(t) \/ FinalizeFails(t) \/ PauseFails(t) \/ Abandon(t)
       PROVE  Kept(s)
  <2>1. CASE t # s
    BY <1>4, <1>13, <2>1
  <2>2. CASE t = s
    BY <1>5, <1>6, <1>7, <1>8, <1>13, <2>2 DEF Advance
  <2> QED
    BY <2>1, <2>2
<1>14. CASE Screen \/ Machine
  BY <1>1, <1>14, ComputerAlone
<1> QED
  BY <1>3, <1>9, <1>10, <1>11, <1>12, <1>13, <1>14 DEF Next

\* When every slot is a process of its own, a live lease is exclusive: no
\* late claim and no late write of another execution takes the row away.
THEOREM LiveLeaseExclusive == OwnProcesses => (Spec => LeaseRespected)
<1> SUFFICES ASSUME OwnProcesses PROVE Spec => LeaseRespected
  OBVIOUS
<1>1. ASSUME Inv, [Next]_vars
      PROVE  \A s \in Slots :
               exec[s].pc \notin {"idle", "read"} /\ Owns(s) /\ row.lease = "live" =>
                 Owns(s)' \/ exec'[s].pc = "idle" \/ row'.status = "cancelled"
  BY <1>1, StepRespects DEF Kept
<1> QED
  BY <1>1, Invariance, PTL DEF Spec, LeaseRespected

-----------------------------------------------------------------------------
(* A release of the screen is not lost.                                    *)

\* Only an execution that has just claimed the row finds it leased; an open
\* question with choices keeps them on the row.
Stages ==
  /\ \A s \in Slots : exec[s].pc \notin {"idle", "read"} /\ Owns(s) =>
       (row.status = "leased" <=> exec[s].pc = "claimed")
  /\ row.status = "waiting_input" /\ ask = "choice" => row.checkpoint = "choice"

\* A step of one execution leaves the other slots alone.
LEMMA OthersKept ==
  ASSUME exec \in [Slots -> Execs], NEW s \in Slots, NEW t \in Slots, t # s,
         \/ StartJob(s) \/ Advance(s) \/ Requeue(s) \/ Heartbeat(s)
         \/ NoticeLoss(s) \/ FinalizeFails(s) \/ PauseFails(s) \/ Abandon(s)
  PROVE  exec'[t] = exec[t]
BY DEF StartJob, Advance, Requeue, Heartbeat, NoticeLoss, FinalizeFails, PauseFails, Abandon, Claim,
       LoseClaim, Begin, BeginLost, Attach, GateTools, EnterTurn, HoldComputer, NoticeRelease,
       GiveBack, EndsTurn, EndTurn, PauseForInput, PauseForTakeover, Finalize

\* Two slots of different processes cannot both own the row.
LEMMA SoleOwner ==
  ASSUME OwnProcesses, NEW s \in Slots, NEW t \in Slots, t # s, row.owner = WorkerOf[s]
  PROVE  ~Owns(t)
BY DEF OwnProcesses, Owns, Matches

\* Before a run waits or is queued again its owner is gone.
LEMMA ReleasedUnowned ==
  ASSUME NEW s \in Slots, row'.owner = None \/ row'.status \notin {"leased", "running"}
  PROVE  ~Owns(s)'
BY SlotsAssumption, NoneAssumption DEF Owns, Matches

LEMMA StagesInit == Init => Stages
BY DEF Init, Stages, Idle

\* A step of an execution keeps the stages apart.
LEMMA SlotStages ==
  ASSUME OwnProcesses, Inv, Stages, NEW s \in Slots,
         \/ StartJob(s) \/ Advance(s) \/ Requeue(s) \/ Heartbeat(s)
         \/ NoticeLoss(s) \/ FinalizeFails(s) \/ PauseFails(s) \/ Abandon(s)
  PROVE  Stages'
<1>0. /\ exec \in [Slots -> Execs] /\ row \in Rows /\ LeaseShape
      /\ exec[s] \in Execs /\ row.status \in Statuses
  BY DEF Inv, RunTypes, Rows
<1>1. ASSUME row' = row, ask' = ask,
             exec'[s].pc \in {"idle", "read"}
               \/ (Owns(s)' => (row.status = "leased" <=> exec'[s].pc = "claimed"))
      PROVE  Stages'
  <2>1. ASSUME NEW t \in Slots, exec'[t].pc \notin {"idle", "read"}, Owns(t)'
        PROVE  row'.status = "leased" <=> exec'[t].pc = "claimed"
    <3>1. CASE t = s
      BY <1>1, <2>1, <3>1
    <3>2. CASE t # s
      BY <1>0, <1>1, <2>1, <3>2, OthersKept DEF Stages, Owns, Matches
    <3> QED
      BY <3>1, <3>2
  <2> QED
    BY <1>1, <2>1 DEF Stages
<1>2. ASSUME row'.owner = WorkerOf[s], row'.status \in {"leased", "running"},
             exec'[s].pc \in {"idle", "read"} \/ (row'.status = "leased" <=> exec'[s].pc = "claimed")
      PROVE  Stages'
  <2>1. ASSUME NEW t \in Slots, exec'[t].pc \notin {"idle", "read"}, Owns(t)'
        PROVE  row'.status = "leased" <=> exec'[t].pc = "claimed"
    <3>1. t = s
      BY <1>2, <2>1 DEF OwnProcesses, Owns, Matches
    <3> QED
      BY <1>2, <2>1, <3>1
  <2> QED
    BY <1>2, <2>1 DEF Stages
<1>3. ASSUME row'.status \notin {"leased", "running"},
             row'.status = "waiting_input" /\ ask' = "choice" => row'.checkpoint = "choice"
      PROVE  Stages'
  BY <1>3 DEF Stages, Owns
<1>4. CASE StartJob(s)
  BY <1>0, <1>1, <1>4 DEF StartJob
<1>5. CASE Claim(s)
  <2>1. row'.owner = WorkerOf[s] /\ row'.status = "leased" /\ exec'[s].pc = "claimed"
    BY <1>0, <1>5 DEF Claim, Execs
  <2> QED
    BY <1>2, <2>1
<1>6. CASE LoseClaim(s) \/ BeginLost(s) \/ NoticeLoss(s) \/ Abandon(s)
  BY <1>0, <1>1, <1>6, IdleShape DEF LoseClaim, BeginLost, NoticeLoss, Abandon
<1>7. CASE Begin(s)
  <2>1. row'.owner = WorkerOf[s] /\ row'.status = "running" /\ exec'[s].pc = "started"
    BY <1>0, <1>7 DEF Begin, Matches, Rows, Execs
  <2> QED
    BY <1>2, <2>1
<1>8. CASE Attach(s) \/ GateTools(s) \/ EnterTurn(s) \/ HoldComputer(s) \/ PauseFails(s)
  <2>1. /\ row' = row /\ ask' = ask /\ exec'[s].pc \in {"setup", "gated", "turn", "pausing"}
        /\ exec[s].pc \notin {"idle", "read", "claimed"} /\ exec'[s].fence = exec[s].fence
    BY <1>0, <1>8 DEF Attach, GateTools, EnterTurn, HoldComputer, PauseFails, Execs
  <2>2. Owns(s)' => row.status # "leased"
    BY <2>1 DEF Stages, Owns, Matches
  <2> QED
    BY <1>1, <2>1, <2>2
<1>9. CASE Requeue(s) \/ NoticeRelease(s) \/ FinalizeFails(s)
  <2>1. PICK note, held : GiveBack(s, note, held)
    BY <1>9 DEF Requeue, NoticeRelease, FinalizeFails
  <2>2. CASE Fenced(s)
    <3>1. row'.status \in {"queued", "waiting_takeover"}
      BY <1>0, <2>1, <2>2, ReleasedShape DEF GiveBack, Requeued, Rows
    <3> QED
      BY <1>3, <3>1
  <2>3. CASE ~Fenced(s)
    <3>1. row' = row /\ ask' = ask /\ exec'[s].pc = "idle"
      BY <1>0, <2>1, <2>3, IdleShape DEF GiveBack
    <3> QED
      BY <1>1, <3>1
  <2> QED
    BY <2>2, <2>3
<1>10. CASE Heartbeat(s)
  <2>1. /\ row'.owner = WorkerOf[s] /\ row'.status = "running" /\ exec' = exec
        /\ exec[s].pc # "claimed"
    BY <1>0, <1>10 DEF Heartbeat, Fenced, Matches, Rows
  <2> QED
    BY <1>2, <2>1
<1>11. CASE EndsTurn(s)
  <2>1. CASE ~Fenced(s)
    <3>1. row' = row /\ ask' = ask /\ exec'[s].pc = "idle"
      BY <1>0, <1>11, <2>1, IdleShape
         DEF EndsTurn, EndTurn, PauseForInput, PauseForTakeover, Finalize
    <3> QED
      BY <1>1, <3>1
  <2>2. CASE Fenced(s)
    <3>1. CASE PauseForTakeover(s) \/ \E outcome \in {"completed", "failed"} : Finalize(s, outcome)
      <4>1. row'.status \in {"waiting_takeover", "completed", "failed"}
        BY <1>0, <2>2, <3>1, ReleasedShape DEF PauseForTakeover, Finalize, EndTurn, Rows
      <4> QED
        BY <1>3, <4>1
    <3>2. ASSUME NEW choice \in BOOLEAN, PauseForInput(s, choice) PROVE Stages'
      <4>1. /\ row'.status = "waiting_input" /\ ask' = IF choice THEN "choice" ELSE "plain"
            /\ choice => row'.checkpoint = "choice"
        BY <1>0, <2>2, <3>2, ReleasedShape DEF PauseForInput, EndTurn, Rows
      <4> QED
        BY <1>3, <4>1
    <3> QED
      BY <1>11, <3>1, <3>2 DEF EndsTurn
  <2> QED
    BY <2>1, <2>2
<1> QED
  BY <1>4, <1>5, <1>6, <1>7, <1>8, <1>9, <1>10, <1>11 DEF Advance

\* So does everything else.
LEMMA StagesKept ==
  ASSUME OwnProcesses, Inv, Stages, [Next]_vars
  PROVE  Stages'
<1>0. exec \in [Slots -> Execs] /\ row \in Rows
  BY DEF Inv, RunTypes
<1>1. ASSUME row'.status = row.status, row'.owner = row.owner, row'.fence = row.fence,
             exec' = exec,
             row'.status = "waiting_input" => ask' = ask /\ row'.checkpoint = row.checkpoint
      PROVE  Stages'
  BY <1>1 DEF Stages, Owns, Matches
<1>2. ASSUME row'.status \in {"queued", "cancelled"} PROVE Stages'
  BY <1>2 DEF Stages, Owns
<1>3. CASE UNCHANGED vars
  BY <1>1, <1>3 DEF vars
<1>4. CASE User \/ ReleaseControl
  <2>1. CASE Answer \/ Stop \/ Clear \/ CancelListed
    <3>1. Released(row) \in Rows
      BY <1>0, ReleasedShape
    <3>2. row'.status \in {"queued", "cancelled"}
      BY <1>0, <2>1, <3>1 DEF Answer, Stop, Clear, CancelListed, Rows
    <3> QED
      BY <1>2, <3>2
  <2>2. CASE Steer \/ ListForRemoval
    BY <1>1, <2>2 DEF Steer, ListForRemoval
  <2>3. CASE ReleaseControl
    <3>1. CASE row.status = "waiting_takeover" /\ row' # row
      <4>1. row'.status = "queued"
        BY <1>0, <2>3, <3>1 DEF ReleaseControl, Rows
      <4> QED
        BY <1>2, <4>1
    <3>2. CASE row' = row
      BY <1>1, <2>3, <3>2 DEF ReleaseControl
    <3>3. CASE row.status # "waiting_takeover" /\ row' # row
      <4>1. /\ row.status \in {"leased", "running"} /\ row'.status = row.status
            /\ row'.owner = row.owner /\ row'.fence = row.fence /\ exec' = exec
        BY <1>0, <2>3, <3>3 DEF ReleaseControl, Rows
      <4> QED
        BY <1>1, <4>1
    <3> QED
      BY <3>1, <3>2, <3>3
  <2> QED
    BY <1>4, <2>1, <2>2, <2>3 DEF User
<1>5. ASSUME NEW w \in Workers, Crash(w) PROVE Stages'
  <2>1. row' = row /\ ask' = ask
        /\ \A t \in Slots : exec'[t].pc = "idle" \/ exec'[t] = exec[t]
    BY <1>0, <1>5, IdleShape DEF Crash
  <2> QED
    BY <2>1 DEF Stages, Owns, Matches
<1>6. CASE Reconcile
  BY <1>1, <1>6 DEF Reconcile
<1>7. CASE LapseUnderOwner \/ LapseAbandoned
  <2>1. /\ row'.status = row.status /\ row'.owner = row.owner /\ row'.fence = row.fence
        /\ exec' = exec /\ row.status \in {"leased", "running"}
    BY <1>0, <1>7 DEF LapseUnderOwner, LapseAbandoned, Expired, Rows
  <2> QED
    BY <1>1, <2>1
<1>8. CASE Screen \/ Machine
  BY <1>1, <1>8, ComputerAlone
<1> QED
  BY <1>3, <1>4, <1>5, <1>6, <1>7, <1>8, SlotStages DEF Next

\* What ReleaseKept asks of a step.
ReleaseStaysKnown ==
  \/ Noted' \/ row'.status \in Terminal
  \/ \E s \in Slots : exec[s].pc \in {"turn", "pausing"} /\ Owns(s) /\ row'.status \in Waiting
  \/ \E s \in Slots : exec[s].pc = "turn" /\ Owns(s) /\ ~HasComputer(s)
  \/ faults' # faults \/ row.lease = "lapsed"

\* A note on the row stays there, goes to the execution that claims the run,
\* or ends with the turn that owns it.
LEMMA RowNoteKept ==
  ASSUME Inv, Stages, [Next]_vars, row.checkpoint = "takeover"
  PROVE  ReleaseStaysKnown
<1>0. exec \in [Slots -> Execs] /\ row \in Rows /\ LeaseShape
  BY DEF Inv, RunTypes
<1>1. ASSUME row'.checkpoint = "takeover" PROVE ReleaseStaysKnown
  BY <1>1 DEF ReleaseStaysKnown, Noted
<1>2. ASSUME row' = row PROVE ReleaseStaysKnown
  BY <1>1, <1>2
<1>3. CASE UNCHANGED vars
  BY <1>2, <1>3 DEF vars
<1>4. ASSUME NEW s \in Slots,
             \/ StartJob(s) \/ Advance(s) \/ Requeue(s) \/ Heartbeat(s)
             \/ NoticeLoss(s) \/ FinalizeFails(s) \/ PauseFails(s) \/ Abandon(s)
      PROVE  ReleaseStaysKnown
  <2>1. CASE \/ StartJob(s) \/ LoseClaim(s) \/ BeginLost(s) \/ Attach(s) \/ GateTools(s)
             \/ EnterTurn(s) \/ HoldComputer(s) \/ PauseFails(s) \/ NoticeLoss(s) \/ Abandon(s)
    BY <1>2, <2>1 DEF StartJob, LoseClaim, BeginLost, Attach, GateTools, EnterTurn, HoldComputer,
                      PauseFails, NoticeLoss, Abandon
  <2>2. CASE Claim(s)
    <3>1. exec[s].checkpoint = "takeover" /\ exec[s] \in Execs
      BY <1>0, <2>2 DEF Claim, Claimable
    <3>2. /\ exec'[s].pc = "claimed" /\ exec'[s].fence = exec[s].fence
          /\ exec'[s].checkpoint = "takeover"
      BY <1>0, <2>2, <3>1 DEF Claim, takeoverCheckpointOf, Execs
    <3>3. row'.status = "leased" /\ row'.owner = WorkerOf[s] /\ row'.fence = exec[s].fence
      BY <2>2 DEF Claim
    <3> QED
      BY <3>2, <3>3 DEF ReleaseStaysKnown, Noted, Owns, Matches
  <2>3. CASE Begin(s) \/ Heartbeat(s)
    BY <1>0, <1>1, <2>3 DEF Begin, Heartbeat, Rows
  <2>4. CASE Requeue(s) \/ NoticeRelease(s) \/ FinalizeFails(s)
    <3>1. PICK note, held : GiveBack(s, note, held)
      BY <2>4 DEF Requeue, NoticeRelease, FinalizeFails
    <3>2. CASE Fenced(s)
      <4>1. row'.checkpoint = "takeover"
        BY <1>0, <3>1, <3>2, ReleasedShape DEF GiveBack, Requeued, Rows
      <4> QED
        BY <1>1, <4>1
    <3>3. CASE ~Fenced(s)
      BY <1>2, <3>1, <3>3 DEF GiveBack
    <3> QED
      BY <3>2, <3>3
  <2>5. CASE EndsTurn(s)
    <3>1. CASE ~Fenced(s)
      <4>1. row' = row
        BY <2>5, <3>1 DEF EndsTurn, EndTurn, PauseForInput, PauseForTakeover, Finalize
      <4> QED
        BY <1>2, <4>1
    <3>2. CASE Fenced(s)
      <4>1. exec[s].pc \in {"turn", "pausing"} /\ Owns(s)
        BY <2>5, <3>2
           DEF EndsTurn, EndTurn, PauseForInput, PauseForTakeover, Finalize, Fenced, Owns
      <4>2. row'.status \in Waiting \cup Terminal
        BY <1>0, <2>5, <3>2, ReleasedShape
           DEF EndsTurn, EndTurn, PauseForInput, PauseForTakeover, Finalize, Rows, Waiting,
               Terminal
      <4> QED
        BY <4>1, <4>2 DEF ReleaseStaysKnown
    <3> QED
      BY <3>1, <3>2
  <2> QED
    BY <1>4, <2>1, <2>2, <2>3, <2>4, <2>5 DEF Advance
<1>5. CASE User \/ ReleaseControl
  <2>1. CASE Answer
    <3>1. ask # "choice"
      BY <2>1, NoneAssumption DEF Answer, Stages
    <3>2. row'.checkpoint = row.checkpoint
      BY <1>0, <2>1, <3>1 DEF Answer, Rows
    <3> QED
      BY <1>1, <3>2
  <2>2. CASE Steer \/ ListForRemoval
    BY <1>2, <2>2 DEF Steer, ListForRemoval
  <2>3. CASE ReleaseControl
    BY <1>0, <1>1, <2>3 DEF ReleaseControl, Rows
  <2>4. CASE Stop \/ Clear \/ CancelListed
    <3>1. Released(row) \in Rows
      BY <1>0, ReleasedShape
    <3>2. row'.status = "cancelled"
      BY <1>0, <2>4, <3>1 DEF Stop, Clear, CancelListed, Rows
    <3> QED
      BY <3>2 DEF ReleaseStaysKnown, Terminal
  <2> QED
    BY <1>5, <2>1, <2>2, <2>3, <2>4 DEF User
<1>6. CASE (\E w \in Workers : Crash(w)) \/ Reconcile
  BY <1>2, <1>6 DEF Crash, Reconcile
<1>7. CASE LapseUnderOwner \/ LapseAbandoned
  BY <1>0, <1>1, <1>7 DEF LapseUnderOwner, LapseAbandoned, Expired, Rows
<1>8. CASE Screen \/ Machine
  BY <1>2, <1>8, ComputerAlone
<1> QED
  BY <1>3, <1>4, <1>5, <1>6, <1>7, <1>8 DEF Next

\* A note carried by the execution that owns the row is told by its turn or
\* put back on the row, unless a fault or the loss of a lapsed lease intervenes.
LEMMA CarriedNoteKept ==
  ASSUME OwnProcesses, Inv, Stages, [Next]_vars, row.lease # "lapsed",
         NEW s \in Slots, exec[s].pc \notin {"idle", "read"}, Owns(s),
         exec[s].checkpoint = "takeover"
  PROVE  ReleaseStaysKnown
<1>0. /\ exec \in [Slots -> Execs] /\ exec[s] \in Execs /\ row \in Rows
      /\ row.status \in {"leased", "running"} /\ row.owner = WorkerOf[s]
      /\ row.fence = exec[s].fence /\ (row.status = "leased" <=> exec[s].pc = "claimed")
      /\ faults \in Nat
  BY BoundsAssumption DEF Inv, RunTypes, Owns, Matches, Stages
<1>1. ASSUME row'.status \in {"leased", "running"}, row'.owner = row.owner,
             row'.fence = row.fence, exec'[s].pc \notin {"idle", "read"},
             exec'[s].fence = exec[s].fence, exec'[s].checkpoint = "takeover"
      PROVE  ReleaseStaysKnown
  BY <1>0, <1>1 DEF ReleaseStaysKnown, Noted, Owns, Matches
<1>2. ASSUME row' = row, exec'[s] = exec[s] PROVE ReleaseStaysKnown
  BY <1>0, <1>1, <1>2
<1>3. ASSUME faults' = faults + 1 PROVE ReleaseStaysKnown
  BY <1>0, <1>3 DEF ReleaseStaysKnown
<1>4. CASE UNCHANGED vars
  BY <1>2, <1>4 DEF vars
<1>5. ASSUME NEW t \in Slots, t # s,
             \/ StartJob(t) \/ Advance(t) \/ Requeue(t) \/ Heartbeat(t)
             \/ NoticeLoss(t) \/ FinalizeFails(t) \/ PauseFails(t) \/ Abandon(t)
      PROVE  ReleaseStaysKnown
  <2>1. exec'[s] = exec[s]
    BY <1>0, <1>5, OthersKept
  <2>2. ~Claim(t)
    BY <1>0 DEF Claim, Claimable, Waiting
  <2>3. ~Matches(t)
    BY <1>0, <1>5 DEF OwnProcesses, Matches
  <2>4. row' = row
    BY <1>5, <2>2, <2>3
       DEF StartJob, Advance, Requeue, Heartbeat, NoticeLoss, FinalizeFails, PauseFails, Abandon,
           LoseClaim, Begin, BeginLost, Attach, GateTools, EnterTurn, HoldComputer, NoticeRelease,
           GiveBack, EndsTurn, EndTurn, PauseForInput, PauseForTakeover, Finalize, Fenced
  <2> QED
    BY <1>2, <2>1, <2>4
<1>6. ASSUME \/ StartJob(s) \/ Advance(s) \/ Requeue(s) \/ Heartbeat(s)
             \/ NoticeLoss(s) \/ FinalizeFails(s) \/ PauseFails(s) \/ Abandon(s)
      PROVE  ReleaseStaysKnown
  <2>1. CASE StartJob(s) \/ Claim(s) \/ LoseClaim(s) \/ BeginLost(s)
    BY <1>0, <2>1 DEF StartJob, Claim, LoseClaim, BeginLost, Matches
  <2>7. CASE NoticeLoss(s)
    <3>1. exec[s].pc = "turn" /\ ~HasComputer(s)
      BY <1>0, <2>7 DEF NoticeLoss, Fenced, Matches
    <3> QED
      BY <3>1 DEF ReleaseStaysKnown
  <2>2. CASE Begin(s) \/ Heartbeat(s)
    <3>1. /\ row'.status = "running" /\ row'.owner = row.owner /\ row'.fence = row.fence
          /\ exec'[s].pc \notin {"idle", "read"} /\ exec'[s].fence = exec[s].fence
          /\ exec'[s].checkpoint = "takeover"
      BY <1>0, <2>2 DEF Begin, Heartbeat, Fenced, Rows, Execs
    <3> QED
      BY <1>1, <3>1
  <2>3. CASE Attach(s) \/ GateTools(s) \/ EnterTurn(s) \/ HoldComputer(s)
    <3>1. /\ row' = row /\ exec'[s].pc \in {"setup", "gated", "turn", "pausing"}
          /\ exec'[s].fence = exec[s].fence /\ exec'[s].checkpoint = "takeover"
      BY <1>0, <2>3 DEF Attach, GateTools, EnterTurn, HoldComputer, Execs
    <3> QED
      BY <1>0, <1>1, <3>1
  <2>4. CASE Requeue(s) \/ NoticeRelease(s)
    <3>1. Fenced(s)
      BY <1>0, <2>4 DEF Requeue, NoticeRelease, Fenced, Matches
    <3>2. PICK held : GiveBack(s, "takeover", held)
      BY <1>0, <2>4 DEF Requeue, NoticeRelease
    <3>3. row'.checkpoint = "takeover"
      BY <1>0, <3>1, <3>2, ReleasedShape DEF GiveBack, Requeued, Rows
    <3> QED
      BY <3>3 DEF ReleaseStaysKnown, Noted
  <2>5. CASE FinalizeFails(s) \/ PauseFails(s) \/ Abandon(s)
    BY <1>3, <2>5 DEF FinalizeFails, PauseFails, Abandon, Spend
  <2>6. CASE EndsTurn(s)
    <3>1. exec[s].pc \in {"turn", "pausing"}
      BY <2>6 DEF EndsTurn, EndTurn, PauseForInput, PauseForTakeover, Finalize
    <3>2. Fenced(s)
      BY <1>0, <3>1 DEF Fenced, Matches
    <3>3. row'.status \in Waiting \cup Terminal
      BY <1>0, <2>6, <3>2, ReleasedShape
         DEF EndsTurn, EndTurn, PauseForInput, PauseForTakeover, Finalize, Rows, Waiting,
             Terminal
    <3> QED
      BY <3>1, <3>3 DEF ReleaseStaysKnown
  <2> QED
    BY <1>6, <2>1, <2>2, <2>3, <2>4, <2>5, <2>6, <2>7 DEF Advance
<1>7. CASE User \/ ReleaseControl
  <2>1. CASE Answer
    BY <1>0, <2>1 DEF Answer
  <2>2. CASE Steer \/ ListForRemoval
    BY <1>2, <2>2 DEF Steer, ListForRemoval
  <2>3. CASE ReleaseControl
    <3>1. /\ row'.status = row.status /\ row'.owner = row.owner /\ row'.fence = row.fence
          /\ exec' = exec
      BY <1>0, <2>3 DEF ReleaseControl, Rows
    <3> QED
      BY <1>0, <1>1, <3>1
  <2>4. CASE Stop \/ Clear \/ CancelListed
    <3>1. Released(row) \in Rows
      BY <1>0, ReleasedShape
    <3>2. row'.status = "cancelled"
      BY <1>0, <2>4, <3>1 DEF Stop, Clear, CancelListed, Rows
    <3> QED
      BY <3>2 DEF ReleaseStaysKnown, Terminal
  <2> QED
    BY <1>7, <2>1, <2>2, <2>3, <2>4 DEF User
<1>8. CASE \E w \in Workers : Crash(w)
  BY <1>3, <1>8 DEF Crash, Spend
<1>9. CASE Reconcile
  BY <1>2, <1>9 DEF Reconcile
<1>10. CASE LapseUnderOwner \/ LapseAbandoned
  <2>1. /\ row'.status = row.status /\ row'.owner = row.owner /\ row'.fence = row.fence
        /\ exec' = exec
    BY <1>0, <1>10 DEF LapseUnderOwner, LapseAbandoned, Expired, Rows
  <2> QED
    BY <1>0, <1>1, <2>1
<1>11. CASE Screen \/ Machine
  BY <1>2, <1>11, ComputerAlone
<1> QED
  BY <1>4, <1>5, <1>6, <1>7, <1>8, <1>9, <1>10, <1>11 DEF Next

\* When every slot is a process of its own, a release of the screen stays
\* known, to the row or to the execution that owns it, until the run ends or
\* its turn pauses again; only a fault or a lapsed lease forgets it.
THEOREM ReleaseIsKept == OwnProcesses => (Spec => ReleaseKept)
<1> SUFFICES ASSUME OwnProcesses PROVE Spec => ReleaseKept
  OBVIOUS
<1>1. Inv /\ Stages /\ [Next]_vars => Stages'
  BY StagesKept
<1>2. ASSUME Inv, Stages, [Next]_vars, Noted PROVE ReleaseStaysKnown
  BY <1>2, RowNoteKept, CarriedNoteKept DEF Noted, ReleaseStaysKnown
<1> QED
  BY <1>1, <1>2, StagesInit, Invariance, PTL DEF Spec, ReleaseKept, ReleaseStaysKnown

-----------------------------------------------------------------------------
(* A release of the screen resumes the run that waits for it.              *)

\* While the promise stands only a release, or a fault, takes the screen from the
\* bot's user and leaves it to nobody.
LEMMA OnlyReleaseFrees ==
  ASSUME Inv, Leases, [Next]_vars, promised', faults' = faults,
         control.holder = "ours", control'.holder = "none"
  PROVE  ReleaseControl
<1>0. control \in Controls
  BY DEF Leases, ComputerTypes
<1>1. ASSUME control' = control PROVE FALSE
  BY <1>1
<1>2. CASE UNCHANGED vars
  BY <1>1, <1>2 DEF vars, computerVars, screenVars
<1>3. ASSUME NEW s \in Slots,
             \/ StartJob(s) \/ Advance(s) \/ Requeue(s) \/ Heartbeat(s)
             \/ NoticeLoss(s) \/ FinalizeFails(s) \/ PauseFails(s) \/ Abandon(s)
      PROVE  FALSE
  <2>1. CASE PauseForTakeover(s) /\ Fenced(s)
    <3>1. control' \in ControlAfterPause
      BY <2>1 DEF PauseForTakeover
    <3> QED
      BY <1>0, <3>1, PauseControl
  <2>2. CASE ~(PauseForTakeover(s) /\ Fenced(s))
    BY <1>1, <1>3, <2>2, SlotComputer
  <2> QED
    BY <2>1, <2>2
<1>4. CASE User \/ (\E w \in Workers : Crash(w)) \/ Reconcile \/ LapseUnderOwner \/ LapseAbandoned
  BY <1>1, <1>4 DEF User, Answer, Steer, Stop, Clear, ListForRemoval, CancelListed, Crash,
                    Reconcile, LapseUnderOwner, LapseAbandoned, computerVars, screenVars
<1>5. CASE Screen
  <2>1. Rebound.holder = "ours"
    BY <1>0 DEF Rebound, Controls
  <2>2. CASE ReadForTakeover \/ RetakeControl \/ (\E request \in Requests : GrantTakeover(request))
    BY <1>1, <2>1, <2>2 DEF ReadForTakeover, RetakeControl, GrantTakeover
  <2>3. CASE GrantTeaching \/ LapseControl
    <3>1. control' \in {[control EXCEPT !.holder = "ours"], [control EXCEPT !.holder = "lapsed"]}
      BY <2>3 DEF GrantTeaching, LapseControl
    <3> QED
      BY <1>0, <3>1 DEF Controls
  <2>4. CASE TakeElsewhere
    BY <2>4 DEF TakeElsewhere
  <2>5. CASE LeaveElsewhere \/ ForgetControl
    BY <2>5 DEF LeaveElsewhere, ForgetControl
  <2>6. CASE UndoGrant
    BY <2>6 DEF UndoGrant, Spend, Inv, RunTypes
  <2> QED
    BY <1>5, <2>2, <2>3, <2>4, <2>5, <2>6 DEF Screen
<1>6. CASE Machine
  <2>1. CASE RivalPauses
    <3>1. control'.holder = "ours"
      BY <2>1 DEF RivalPauses
    <3> QED
      BY <3>1
  <2>2. CASE ComputerStopped
    BY <2>2 DEF ComputerStopped
  <2>3. CASE StopComputer \/ RivalAcquires \/ HoldEnds \/ HoldLapsesUnderOwner
    BY <1>1, <2>3 DEF StopComputer, RivalAcquires, HoldEnds, HoldLapsesUnderOwner, screenVars
  <2> QED
    BY <1>6, <2>1, <2>2, <2>3 DEF Machine
<1> QED
  BY <1>2, <1>3, <1>4, <1>5, <1>6 DEF Next

\* From a pause for the screen until the computer is stopped or a rival takes its
\* execution lease, giving the screen back queues the run that waits, whatever
\* was claimed, steered, requeued, crashed, taken or left in between; takeovers
\* that were decided before the pause and written after it are excepted, and a
\* takeover that fails and takes its grant back releases nothing.
THEOREM ReleaseResumesRun == Spec => ReleaseResumes
<1>1. ASSUME Inv, Leases, [Next]_vars, promised, promised', row.status = "waiting_takeover",
             faults' = faults, control.holder = "ours", control'.holder = "none"
      PROVE  row'.status = "queued"
  <2>1. ReleaseControl
    BY <1>1, OnlyReleaseFrees
  <2>2. control.bound /\ row \in Rows
    BY <1>1 DEF Leases, Promise, Inv, RunTypes, Terminal
  <2> QED
    BY <1>1, <2>1, <2>2 DEF ReleaseControl, Rows
<1> QED
  BY <1>1, Invariance, LeasesHold, PTL DEF Spec, ReleaseResumes

-----------------------------------------------------------------------------
(* RunLease implements RunLifecycle.                                       *)

\* The steps of the lifecycle, and not taking one.
Refined == Lifecycle!Next \/ UNCHANGED Lifecycle!lifecycle

\* The phase each status stands for.
LEMMA PhaseOf ==
  /\ row.status = "queued" => Phase = "ready"
  /\ row.status \in {"leased", "running"} => Phase = "working"
  /\ row.status = "waiting_input" => Phase = "asking"
  /\ row.status = "waiting_takeover" => Phase = "handover"
  /\ row.status \in Terminal => Phase = row.status
BY DEF Phase, Working, Terminal

\* The same of the next state.
LEMMA NextPhaseOf ==
  /\ row'.status = "queued" => Phase' = "ready"
  /\ row'.status \in {"leased", "running"} => Phase' = "working"
  /\ row'.status = "waiting_input" => Phase' = "asking"
  /\ row'.status = "waiting_takeover" => Phase' = "handover"
  /\ row'.status \in Terminal => Phase' = row'.status
BY DEF Phase, Working, Terminal

\* A step that leaves status, owner and deadline alone is invisible.
LEMMA SameRefines ==
  ASSUME row.status \in Statuses, row'.owner = row.owner, row'.lease = row.lease,
         \/ row'.status = row.status
         \/ row.status = "leased" /\ row'.status = "running"
  PROVE  Refined
<1>1. Phase' = Phase
  BY PhaseOf, NextPhaseOf DEF Statuses, ActiveStatuses, Waiting
<1>2. Working' = Working
  BY DEF Working
<1> QED
  BY <1>1, <1>2 DEF Refined, Lifecycle!lifecycle

\* A working run that stops working has been given back, has asked, has handed
\* the screen over or has ended; any active run can be cancelled.
LEMMA LeaveRefines ==
  ASSUME \/ /\ row.status \in {"leased", "running"}
            /\ row'.status \in {"queued", "waiting_input", "waiting_takeover",
                                "completed", "failed"}
         \/ row.status \in Waiting /\ row'.status = "queued"
         \/ row.status \in ActiveStatuses /\ row'.status = "cancelled"
  PROVE  Refined
<1>1. ~Working'
  BY DEF Working, Waiting
<1>2. CASE row.status \in {"leased", "running"} /\ row'.status # "cancelled"
  <2>1. /\ Phase = "working"
        /\ Phase' \in {"ready", "asking", "handover", "completed", "failed"}
    BY <1>2, PhaseOf, NextPhaseOf DEF Terminal, Waiting
  <2> QED
    BY <1>1, <2>1 DEF Refined, Lifecycle!Next, Lifecycle!Yield, Lifecycle!Leave
<1>3. CASE row.status \in Waiting /\ row'.status = "queued"
  <2>1. Phase \in {"asking", "handover"} /\ Phase' = "ready"
    BY <1>3, PhaseOf, NextPhaseOf DEF Waiting
  <2> QED
    BY <1>1, <2>1 DEF Refined, Lifecycle!Next, Lifecycle!Resume, Lifecycle!Leave
<1>4. CASE row.status \in ActiveStatuses /\ row'.status = "cancelled"
  <2>1. /\ Phase \in {"ready", "working", "asking", "handover"} /\ Phase' = "cancelled"
    BY <1>4, PhaseOf, NextPhaseOf DEF ActiveStatuses, Waiting, Terminal
  <2> QED
    BY <1>1, <2>1 DEF Refined, Lifecycle!Next, Lifecycle!Cancel, Lifecycle!Leave,
                      Lifecycle!Over
<1> QED
  BY <1>2, <1>3, <1>4 DEF Waiting

\* A claim starts a run nobody works on or replaces an expired worker.
LEMMA ClaimRefines ==
  ASSUME Inv, NEW s \in Slots, Claim(s)
  PROVE  Refined
<1>1. /\ row'.status = "leased" /\ row'.owner = WorkerOf[s] /\ row'.lease = "live"
      /\ WorkerOf[s] \in Workers
  BY SlotsAssumption DEF Claim
<1>2. Phase' = "working" /\ Working'
  BY <1>1, NextPhaseOf DEF Working
<1>3. CASE row.status \in {"queued", "waiting_input", "waiting_takeover"}
  <2>1. Phase \in {"ready", "asking", "handover"}
    BY <1>3, PhaseOf
  <2>2. Lifecycle!Start(WorkerOf[s])
    BY <1>1, <1>2, <2>1 DEF Lifecycle!Start
  <2> QED
    BY <1>1, <2>2 DEF Refined, Lifecycle!Next
<1>4. CASE row.status \in {"leased", "running"} /\ row.lease = "lapsed"
  <2>1. Phase = "working" /\ Working
    BY <1>4, PhaseOf DEF Working
  <2>2. Lifecycle!Replace(WorkerOf[s])
    BY <1>1, <1>2, <1>4, <2>1 DEF Lifecycle!Replace
  <2> QED
    BY <1>1, <2>2 DEF Refined, Lifecycle!Next
<1> QED
  BY <1>3, <1>4 DEF Claim, Claimable, Waiting

\* A requeue of a running run leaves it queued or waiting for the screen.
LEMMA GiveBackRefines ==
  ASSUME Inv, NEW s \in Slots, NEW note, NEW held, GiveBack(s, note, held)
  PROVE  Refined
<1>1. row \in Rows /\ row.status \in Statuses
  BY DEF Inv, RunTypes, Rows
<1>2. CASE Fenced(s)
  <2>1. row.status = "running" /\ row'.status \in {"queued", "waiting_takeover"}
    BY <1>1, <1>2, ReleasedShape DEF GiveBack, Requeued, Fenced, Rows
  <2> QED
    BY <2>1, LeaveRefines
<1>3. CASE ~Fenced(s)
  BY <1>1, <1>3, SameRefines DEF GiveBack
<1> QED
  BY <1>2, <1>3

\* However a turn ends, the lifecycle sees a worker leave or nothing.
LEMMA EndingRefines ==
  ASSUME Inv, NEW s \in Slots, EndsTurn(s)
  PROVE  Refined
<1>1. row \in Rows /\ row.status \in Statuses
  BY DEF Inv, RunTypes, Rows
<1>2. CASE Fenced(s)
  <2>1. /\ row.status = "running"
        /\ row'.status \in {"waiting_input", "waiting_takeover", "completed", "failed"}
    BY <1>1, <1>2, ReleasedShape
       DEF EndsTurn, EndTurn, PauseForInput, PauseForTakeover, Finalize, Fenced, Rows
  <2> QED
    BY <2>1, LeaveRefines
<1>3. CASE ~Fenced(s)
  <2>1. row' = row
    BY <1>3 DEF EndsTurn, EndTurn, PauseForInput, PauseForTakeover, Finalize
  <2> QED
    BY <1>1, <2>1, SameRefines
<1> QED
  BY <1>2, <1>3

\* Every step of RunLease is a step of the lifecycle or invisible to it.
LEMMA StepRefines ==
  ASSUME ~Removable, Inv, [Next]_vars
  PROVE  Refined
<1>1. row \in Rows /\ row.status \in Statuses
  BY DEF Inv, RunTypes, Rows
<1>2. ASSUME row' = row PROVE Refined
  BY <1>1, <1>2, SameRefines
<1>3. ASSUME NEW s \in Slots,
             StartJob(s) \/ Advance(s) \/ Requeue(s) \/ Heartbeat(s)
               \/ NoticeLoss(s) \/ FinalizeFails(s) \/ PauseFails(s) \/ Abandon(s)
      PROVE  Refined
  <2>1. CASE StartJob(s) \/ LoseClaim(s) \/ BeginLost(s) \/ Attach(s) \/ GateTools(s)
               \/ EnterTurn(s) \/ HoldComputer(s) \/ PauseFails(s) \/ NoticeLoss(s) \/ Abandon(s)
    BY <1>2, <2>1 DEF StartJob, LoseClaim, BeginLost, Attach, GateTools, EnterTurn, HoldComputer,
                      PauseFails, NoticeLoss, Abandon
  <2>2. CASE Claim(s)
    BY <2>2, ClaimRefines
  <2>3. CASE Begin(s)
    <3>1. /\ row.status = "leased" /\ row'.status = "running"
          /\ row'.owner = row.owner /\ row'.lease = row.lease
      BY <1>1, <2>3 DEF Begin, Rows
    <3> QED
      BY <1>1, <3>1, SameRefines
  <2>4. CASE NoticeRelease(s) \/ Requeue(s) \/ FinalizeFails(s)
    BY <2>4, GiveBackRefines DEF NoticeRelease, Requeue, FinalizeFails
  <2>5. CASE EndsTurn(s)
    BY <2>5, EndingRefines
  <2>6. CASE Heartbeat(s)
    <3>1. /\ row.status = "running" /\ row'.status = "running"
          /\ row'.owner = row.owner /\ row'.lease = "live"
      BY <1>1, <2>6 DEF Heartbeat, Fenced, Rows
    <3>2. Phase = "working" /\ Phase' = "working" /\ Working /\ Working'
      BY <3>1, PhaseOf, NextPhaseOf DEF Working
    <3>3. Lifecycle!Renew
      BY <3>1, <3>2 DEF Lifecycle!Renew
    <3> QED
      BY <3>3 DEF Refined, Lifecycle!Next
  <2> QED
    BY <1>3, <2>1, <2>2, <2>3, <2>4, <2>5, <2>6 DEF Advance
<1>4. CASE User \/ ReleaseControl
  <2>1. CASE Answer
    <3>1. row.status \in Waiting /\ row'.status = "queued"
      BY <1>1, <2>1 DEF Answer, Rows, Waiting
    <3> QED
      BY <3>1, LeaveRefines
  <2>2. CASE Steer \/ ListForRemoval \/ CancelListed
    BY <1>2, <2>2 DEF Steer, ListForRemoval, CancelListed
  <2>3. CASE ReleaseControl
    <3>1. CASE row.status = "waiting_takeover" /\ row' # row
      <4>1. row'.status = "queued"
        BY <1>1, <2>3, <3>1 DEF ReleaseControl, Rows
      <4> QED
        BY <3>1, <4>1, LeaveRefines DEF Waiting
    <3>2. CASE row.status # "waiting_takeover"
      <4>1. row'.status = row.status /\ row'.owner = row.owner /\ row'.lease = row.lease
        BY <1>1, <2>3, <3>2 DEF ReleaseControl, Rows
      <4> QED
        BY <1>1, <4>1, SameRefines
    <3> QED
      BY <1>2, <3>1, <3>2
  <2>4. CASE Stop \/ Clear
    <3>1. Released(row) \in Rows
      BY <1>1, ReleasedShape
    <3>2. row.status \in ActiveStatuses /\ row'.status = "cancelled"
      BY <1>1, <2>4, <3>1 DEF Stop, Clear, Rows
    <3> QED
      BY <3>2, LeaveRefines
  <2> QED
    BY <1>4, <2>1, <2>2, <2>3, <2>4 DEF User
<1>5. CASE (\E w \in Workers : Crash(w)) \/ Reconcile
  BY <1>2, <1>5 DEF Crash, Reconcile
<1>6. CASE LapseUnderOwner \/ LapseAbandoned
  <2>1. /\ row.status \in {"leased", "running"} /\ row'.status = row.status
        /\ row'.owner = row.owner /\ row'.lease = "lapsed"
    BY <1>1, <1>6 DEF LapseUnderOwner, LapseAbandoned, Expired, Rows
  <2>2. Phase = "working" /\ Phase' = "working" /\ Working /\ Working'
    BY <2>1, PhaseOf, NextPhaseOf DEF Working
  <2>3. Lifecycle!Expire
    BY <2>1, <2>2 DEF Lifecycle!Expire
  <2> QED
    BY <2>3 DEF Refined, Lifecycle!Next
<1>7. CASE UNCHANGED vars
  BY <1>2, <1>7 DEF vars
<1>8. CASE Screen \/ Machine
  BY <1>2, <1>8, ComputerAlone
<1> QED
  BY <1>3, <1>4, <1>5, <1>6, <1>7, <1>8 DEF Next

\* The initial states map to the initial state of the lifecycle.
LEMMA InitRefines == Init => Lifecycle!Init
<1> SUFFICES ASSUME Init PROVE Lifecycle!Init
  OBVIOUS
<1>1. row.status = "queued"
  BY DEF Init
<1>2. Phase = "ready" /\ ~Working
  BY <1>1, PhaseOf DEF Working
<1> QED
  BY <1>2 DEF Lifecycle!Init

\* The detailed run implements the lifecycle it promises: one worker at a
\* time, replaced only after expiring; pauses, resumptions and ends as stated,
\* as long as its bot is not removed.
THEOREM Refinement == ~Removable => (Spec => LifecycleSpec)
<1> SUFFICES ASSUME ~Removable PROVE Spec => LifecycleSpec
  OBVIOUS
<1>1. Inv /\ [Next]_vars => [Lifecycle!Next]_(Lifecycle!lifecycle)
  BY StepRefines DEF Refined
<1> QED
  BY <1>1, InitRefines, Invariance, PTL DEF Spec, LifecycleSpec, Lifecycle!Spec
=============================================================================
