------------------------- MODULE ComputerLeaseProofs -------------------------
(***************************************************************************)
(* The shape of a computer, the reservation by its updates, the sole       *)
(* provisioner, that no sandbox is left running unknown, and that a turn   *)
(* keeps its sandbox: proved of ComputerLease for any number of workers,   *)
(* bots, sandboxes, updates and operations.                                *)
(*                                                                         *)
(* The argument of the sole provisioner: whoever holds the booting claim   *)
(* wrote the row last, so every other worker that could still claim it     *)
(* read it afterwards; and such a reading goes on to a claim only if the   *)
(* claim was old, which it is not while its holder is at work, unless      *)
(* Slow: claims may run out while their holder lives.                      *)
(*                                                                         *)
(* The argument of the sandboxes: at every step the row may let go of one  *)
(* only to a worker that has it, to its provider's halt, or adrift; and    *)
(* what a worker has in hand it keeps until the row or adrift takes it.    *)
(*                                                                         *)
(* The argument of the turns: unless Slow, one worker at most has claimed  *)
(* the row to put the computer to rest (Stamps); before it reaches the     *)
(* provider it has seen that no turn works there, and no turn begins to    *)
(* while the row is claimed (Kept); and every turn that works has the      *)
(* sandbox that the row names (Known, Kept).                               *)
(***************************************************************************)
EXTENDS ComputerLease, TLAPS

-----------------------------------------------------------------------------
(* The inductive invariant.                                                *)

\* A record of a job that a worker may have.
Good(rec) ==
  /\ rec \in Job
  /\ rec.step \in {"boxed", "using"} => rec.box \in Boxes
  /\ rec.step = "take" => rec.bot \in Bots
  /\ rec.upd \in DOMAIN updates \cup {NoUpdate}

JobsOK ==
  /\ computer \in Row
  /\ job \in [Workers -> Job]
  /\ \A w \in Workers : Good(job[w])

Statuses == {"queued", "running", "interrupted", "completed", "failed"}
BoxStates == {"none", "running", "stopped", "gone"}

StoreOK ==
  /\ boxes \in [Boxes -> BoxStates]
  /\ leases \in [Bots -> Lease] /\ runs \in [Bots -> Run]
  /\ \A b \in Bots : runs[b].by # Nobody => runs[b].status = "leased"
  /\ updates \in Seq(Statuses)
  /\ adrift \subseteq Boxes /\ begun \in Nat /\ events \in Nat

\* A worker that holds the booting claim, and one that could take it over.
Boots(rec) == rec.step \in {"boot", "boxed"} /\ rec.mine
Stalks(rec) == rec.step \in {"await", "claim"} /\ rec.mine /\ rec.seen = "booting"

\* A booting claim is not old while its holder is at work, and nobody has read it
\* in order to take it over.
Alone ==
  computer.state = "booting" =>
    /\ \A x \in Workers : Boots(job[x]) => ~computer.old
    /\ \A x, w \in Workers : x # w /\ Boots(job[x]) => ~Stalks(job[w])

IInv == JobsOK /\ StoreOK /\ ReservationShape /\ (~Slow => Alone)

-----------------------------------------------------------------------------
(* The ways a step changes the row and the jobs.                           *)

\* One worker goes on, without a write to the row.
Quietly(w, rec) ==
  /\ Good(rec) /\ rec.step # "boot"
  /\ rec.step = "boxed" /\ rec.mine => Boots(job[w])
  /\ computer.state = "booting" /\ Stalks(rec) => computer.old \/ Stalks(job[w])

Quiet(w, rec) == Put(w, rec) /\ computer' = computer /\ Quietly(w, rec)

\* A worker, or somebody who is none, writes the row.
Loud(w, row, rec) ==
  /\ Write(w, row, rec) /\ row \in Row /\ Good(rec)
  /\ rec.step = "boot" => At(w, "claim") /\ Claimable(w)

\* No worker goes on, though time passes.
Still ==
  /\ job' = job
  /\ \/ computer' = computer
     \/ computer' = [computer EXCEPT !.control = "lapsed"]
     \/ /\ computer' = [computer EXCEPT !.old = TRUE]
        /\ Slow \/ \A w \in Workers : job[w].step \notin ClaimSteps

Moves(w) == \E rec : Quiet(w, rec) \/ \E row : Loud(w, row, rec)

LEMMA RowFacts ==
  ASSUME NEW row \in Row
  PROVE  /\ [row EXCEPT !.old = FALSE] \in Row
         /\ [row EXCEPT !.old = FALSE].state = row.state
         /\ [row EXCEPT !.old = FALSE].maintenance = row.maintenance
         /\ [row EXCEPT !.old = FALSE].old = FALSE
BY DEF Row

\* A worker with another stamp or another flag has the same job.
LEMMA Restamped ==
  ASSUME NEW rec, Good(rec), NEW bit \in BOOLEAN
  PROVE  /\ Good([rec EXCEPT !.mine = bit]) /\ Good([rec EXCEPT !.flag = bit])
         /\ [rec EXCEPT !.mine = bit].step = rec.step
         /\ [rec EXCEPT !.flag = bit].step = rec.step
<1> DEFINE stamped == [rec EXCEPT !.mine = bit]
           flagged == [rec EXCEPT !.flag = bit]
<1>0. rec \in Job
  BY DEF Good
<1>1. stamped \in Job /\ flagged \in Job
  BY <1>0 DEF Job
<1>2. /\ stamped.step = rec.step /\ stamped.box = rec.box
      /\ stamped.bot = rec.bot /\ stamped.upd = rec.upd
  BY <1>0 DEF Job
<1>3. /\ flagged.step = rec.step /\ flagged.box = rec.box
      /\ flagged.bot = rec.bot /\ flagged.upd = rec.upd
  BY <1>0 DEF Job
<1> HIDE DEF stamped, flagged
<1>4. Good(stamped) /\ Good(flagged)
  BY <1>1, <1>2, <1>3 DEF Good
<1> QED
  BY <1>2, <1>3, <1>4 DEF stamped, flagged

\* A worker whose stamp is void has the same job.
LEMMA Unstamped ==
  ASSUME NEW rec, Good(rec)
  PROVE  /\ Good([rec EXCEPT !.mine = FALSE])
         /\ [rec EXCEPT !.mine = FALSE].step = rec.step
         /\ ~[rec EXCEPT !.mine = FALSE].mine
<1>1. rec \in Job
  BY DEF Good
<1>2. ~[rec EXCEPT !.mine = FALSE].mine
  BY <1>1 DEF Job
<1> QED
  BY <1>2, Restamped

LEMMA QuietKeeps ==
  ASSUME IInv, NEW w \in Workers, NEW rec, Quiet(w, rec), DOMAIN updates \subseteq DOMAIN updates'
  PROVE  JobsOK' /\ (~Slow => Alone')
<1>1. /\ job' \in [Workers -> Job] /\ computer' = computer
      /\ \A x \in Workers : job'[x] = IF x = w THEN rec ELSE job[x]
  BY DEF IInv, JobsOK, Quiet, Quietly, Put, Good
<1>2. \A x \in Workers : Good(job'[x])
  BY <1>1 DEF IInv, JobsOK, Quiet, Quietly
<1>3. JobsOK'
  BY <1>1, <1>2 DEF IInv, JobsOK, Good
<1>4. ASSUME ~Slow, computer.state = "booting"
      PROVE  /\ \A x \in Workers : Boots(job'[x]) => ~computer.old
             /\ \A x, v \in Workers : x # v /\ Boots(job'[x]) => ~Stalks(job'[v])
  <2>1. Boots(rec) => Boots(job[w])
    BY DEF Quiet, Quietly, Boots
  <2>2. Stalks(rec) => computer.old \/ Stalks(job[w])
    BY <1>4 DEF Quiet, Quietly
  <2>3. Alone
    BY <1>4 DEF IInv
  <2>4. \A x \in Workers : Boots(job'[x]) => Boots(job[x])
    BY <1>1, <2>1
  <2>5. \A x \in Workers : Boots(job'[x]) => ~computer.old
    BY <1>4, <2>3, <2>4 DEF Alone
  <2>6. \A v \in Workers : Stalks(job'[v]) => computer.old \/ Stalks(job[v])
    BY <1>1, <2>2
  <2> QED
    BY <1>4, <2>3, <2>4, <2>5, <2>6 DEF Alone
<1>5. ~Slow => Alone'
  BY <1>1, <1>4 DEF Alone, Boots, Stalks
<1> QED
  BY <1>3, <1>5

LEMMA LoudKeeps ==
  ASSUME IInv, NEW w, NEW row, NEW rec, Loud(w, row, rec),
         DOMAIN updates \subseteq DOMAIN updates'
  PROVE  JobsOK' /\ (~Slow => Alone')
<1>1. /\ computer' = [row EXCEPT !.old = FALSE]
      /\ job' = [x \in Workers |-> IF x = w THEN rec ELSE [job[x] EXCEPT !.mine = FALSE]]
      /\ row \in Row /\ Good(rec)
  BY DEF Loud, Write
<1>2. computer' \in Row /\ ~computer'.old
  BY <1>1, RowFacts
<1>3. \A x \in Workers : /\ Good(job'[x])
                         /\ x # w => ~job'[x].mine
  BY <1>1, Unstamped DEF IInv, JobsOK
<1>4. JobsOK'
  <2>1. \A x \in Workers : job'[x] \in Job
    BY <1>3 DEF Good
  <2>2. job' \in [Workers -> Job]
    BY <1>1, <2>1
  <2>3. \A x \in Workers : Good(job[x])'
    BY <1>3 DEF Good
  <2> QED
    BY <1>2, <2>2, <2>3 DEF JobsOK
<1>5. Alone'
  BY <1>2, <1>3 DEF Alone, Boots, Stalks
<1> QED
  BY <1>4, <1>5

LEMMA StillKeeps ==
  ASSUME IInv, Still, DOMAIN updates \subseteq DOMAIN updates'
  PROVE  JobsOK' /\ (~Slow => Alone')
<1>1. \A w \in Workers : Good(job[w])'
  BY DEF IInv, JobsOK, Still, Good
<1>2. computer' \in Row /\ computer'.state = computer.state
  BY DEF IInv, JobsOK, Still, Row
<1>3. JobsOK'
  BY <1>1, <1>2 DEF IInv, JobsOK, Still
<1>4. ASSUME ~Slow, NEW x \in Workers, Boots(job[x])
      PROVE  computer'.old = computer.old
  <2>1. job[x].step \in ClaimSteps
    BY <1>4 DEF Boots, ClaimSteps
  <2> QED
    BY <1>4, <2>1 DEF Still, IInv, JobsOK, Row
<1>5. ~Slow => Alone'
  BY <1>2, <1>4 DEF IInv, Alone, Boots, Stalks, Still
<1> QED
  BY <1>3, <1>5

-----------------------------------------------------------------------------
(* The ways a step leaves the rest of the state.                           *)

\* A worker moves, and no reservation does.
Moved(w) ==
  /\ Moves(w) /\ StoreOK'
  /\ updates' = updates /\ computer'.maintenance = computer.maintenance

LEMMA StepNames ==
  {"idle", "take", "validate", "using", "completed", "failed", "enter", "await", "claim",
   "boot", "boxed", "undo", "record", "look", "seize", "seized", "clear", "vacate", "broken",
   "doze", "saving", "halt", "rest", "shut", "shutting", "halting", "halted"} \subseteq Steps
BY DEF Steps, ProvisionSteps, ReplaceSteps

LEMMA States ==
  /\ "running" \in Settled /\ "stopped" \in Settled /\ "suspended" \in Settled
  /\ "error" \in Settled /\ "booting" \in Claimed /\ "suspending" \in Claimed
  /\ "booting" \notin Settled
BY DEF Settled, Claimed

LEMMA IdleGood == Good(Idle)
BY StepNames, States DEF Good, Idle, Job, NoBox, NoUpdate

LEMMA OperationGood ==
  ASSUME NEW op \in {"none", "turn", "boot", "reset", "update", "sleep", "stop"},
         NEW b \in Bots \cup {Nobody}, NEW step \in Steps \ {"boxed", "using"},
         step = "take" => b \in Bots
  PROVE  /\ Good(Operation(op, b, step)) /\ Operation(op, b, step).step = step
         /\ Operation(op, b, step).op = op /\ ~Operation(op, b, step).mine
         /\ Operation(op, b, step).bot = b
BY StepNames, States DEF Good, Operation, Idle, Job, NoBox, NoUpdate

LEMMA TakeGood ==
  ASSUME NEW b \in Bots, NEW op \in {"turn", "boot", "reset"}
  PROVE  Good(Operation(op, b, "take")) /\ Operation(op, b, "take").step = "take"
<1>1. "take" \in Steps \ {"boxed", "using"}
  BY StepNames
<1> QED
  BY <1>1, OperationGood

LEMMA JobOf ==
  ASSUME IInv, NEW w \in Workers
  PROVE  Good(job[w]) /\ job[w] \in Job
BY DEF IInv, JobsOK, Good

LEMMA GotoGood ==
  ASSUME IInv, NEW w \in Workers, NEW step \in Steps \ {"boxed", "using", "take"}
  PROVE  /\ Good(Goto(w, step)) /\ Good(Holding(w, step))
         /\ Goto(w, step).step = step /\ Holding(w, step).step = step
         /\ Goto(w, step).mine = job[w].mine /\ Goto(w, step).seen = job[w].seen
BY JobOf DEF Good, Goto, Holding, Job

LEMMA EndedGood ==
  ASSUME IInv, NEW w \in Workers, NEW ok \in BOOLEAN
  PROVE  /\ Good(Ended(w, ok)) /\ Ended(w, ok).step \in {"idle", "completed", "failed"}
<1>1. CASE job[w].op = "update"
  <2> DEFINE step == IF ok THEN "completed" ELSE "failed"
             rec == Operation("update", job[w].bot, step)
  <2>1. job[w].bot \in Bots \cup {Nobody} /\ job[w].upd \in Nat
        /\ job[w].upd \in DOMAIN updates \cup {NoUpdate}
    BY JobOf DEF Job, Good
  <2>2. step \in Steps \ {"boxed", "using", "take"} /\ step \in {"completed", "failed"}
    BY StepNames
  <2>3. Good(rec) /\ rec.step = step
    BY <2>1, <2>2, OperationGood
  <2>4. Ended(w, ok) = [rec EXCEPT !.upd = job[w].upd]
    BY <1>1 DEF Ended
  <2> HIDE DEF rec
  <2> QED
    BY <2>1, <2>2, <2>3, <2>4 DEF Good, Job
<1>2. CASE job[w].op # "update"
  BY <1>2, IdleGood DEF Ended, Idle
<1> QED
  BY <1>1, <1>2

\* Steps that neither provision nor stalk.
LEMMA Plainly ==
  ASSUME NEW w, NEW rec, Good(rec), rec.step \notin {"boot", "boxed", "await", "claim"}
  PROVE  Quietly(w, rec)
BY DEF Quietly, Stalks

LEMMA LeasesGiven ==
  ASSUME IInv, NEW w \in Workers, NEW statuses, statuses \subseteq {"queued", "none"},
         GiveBack(w, statuses)
  PROVE  /\ leases' \in [Bots -> Lease] /\ runs' \in [Bots -> Run]
         /\ \A b \in Bots : runs'[b].by # Nobody => runs'[b].status = "leased"
<1>0. leases \in [Bots -> Lease] /\ runs \in [Bots -> Run]
      /\ \A b \in Bots : runs[b].by # Nobody => runs[b].status = "leased"
  BY DEF IInv, StoreOK
<1>1. leases' \in [Bots -> Lease]
  BY <1>0 DEF GiveBack, Released, Lease
<1>2. CASE OwnsRun(w)
  <2>1. PICK s \in statuses :
          runs' = [runs EXCEPT ![job[w].bot] = [NoRun EXCEPT !.status = s, !.held = @ /\ s = "queued"]]
    BY <1>2 DEF GiveBack
  <2> DEFINE run == [NoRun EXCEPT !.status = s, !.held = @ /\ s = "queued"]
  <2>2. run \in Run /\ run.by = Nobody
    BY <2>1 DEF NoRun, Run
  <2> HIDE DEF run
  <2>3. runs' = [runs EXCEPT ![job[w].bot] = run]
    BY <2>1 DEF run
  <2> QED
    BY <1>0, <1>1, <2>2, <2>3
<1>3. CASE ~OwnsRun(w)
  BY <1>0, <1>1, <1>3 DEF GiveBack
<1> QED
  BY <1>2, <1>3

LEMMA LeaveMoves ==
  ASSUME IInv, NEW w \in Workers, NEW ok \in BOOLEAN,
         NEW statuses, statuses \subseteq {"queued", "none"}, Leave(w, ok, statuses)
  PROVE  Moved(w)
<1>1. Quietly(w, Ended(w, ok))
  BY EndedGood, Plainly
<1>2. Moves(w)
  BY <1>1 DEF Leave, Moves, Quiet
<1>3. StoreOK'
  BY LeasesGiven DEF Leave, IInv, StoreOK
<1> QED
  BY <1>2, <1>3 DEF Moved, Leave

LEMMA WriteAndLeaveMoves ==
  ASSUME IInv, NEW w \in Workers, NEW row \in Row, row.maintenance = computer.maintenance,
         NEW statuses, statuses \subseteq {"queued", "none"}, WriteAndLeave(w, row, statuses)
  PROVE  Moved(w)
<1>1. Loud(w, row, Ended(w, FALSE))
  BY EndedGood DEF Loud, WriteAndLeave
<1>2. Moves(w)
  BY <1>1 DEF Moves
<1>3. StoreOK'
  BY LeasesGiven DEF WriteAndLeave, IInv, StoreOK
<1>4. computer'.maintenance = computer.maintenance
  BY RowFacts DEF WriteAndLeave, Write
<1> QED
  BY <1>2, <1>3, <1>4 DEF Moved, WriteAndLeave

LEMMA ProceedMoves ==
  ASSUME IInv, NEW w \in Workers, NEW rec, Quietly(w, rec), Proceed(w, rec)
  PROVE  Moved(w)
<1>1. Moves(w)
  BY DEF Proceed, Moves, Quiet
<1>2. StoreOK'
  BY DEF Proceed, IInv, StoreOK
<1> QED
  BY <1>1, <1>2 DEF Moved, Proceed

LEMMA ProviderMoves ==
  ASSUME IInv, NEW w \in Workers, NEW rec, Quietly(w, rec),
         NEW to \in [Boxes -> BoxStates], Provider(w, to, rec)
  PROVE  Moved(w)
<1>1. Moves(w)
  BY DEF Provider, Moves, Quiet
<1>2. StoreOK'
  BY DEF Provider, IInv, StoreOK
<1> QED
  BY <1>1, <1>2 DEF Moved, Provider

LEMMA AdvanceMoves ==
  ASSUME IInv, NEW w \in Workers, NEW row \in Row, row.maintenance = computer.maintenance,
         NEW rec, Good(rec), rec.step = "boot" => At(w, "claim") /\ Claimable(w),
         Advance(w, row, rec)
  PROVE  Moved(w)
<1>1. Moves(w)
  BY DEF Advance, Moves, Loud
<1>2. StoreOK'
  BY DEF Advance, IInv, StoreOK
<1>3. computer'.maintenance = computer.maintenance
  BY RowFacts DEF Advance, Write
<1> QED
  BY <1>1, <1>2, <1>3 DEF Moved, Advance

\* The row in another state, or without its sandbox.
LEMMA RowMoved ==
  ASSUME IInv, NEW state \in Settled \cup Claimed
  PROVE  /\ computer \in Row
         /\ [computer EXCEPT !.state = state] \in Row
         /\ [computer EXCEPT !.state = state].maintenance = computer.maintenance
         /\ [computer EXCEPT !.state = state, !.control = "none"] \in Row
         /\ [computer EXCEPT !.state = state, !.control = "none"].maintenance = computer.maintenance
BY DEF IInv, JobsOK, Row

-----------------------------------------------------------------------------
(* Turns and their leases.                                                 *)

LEMMA GotoPlainly ==
  ASSUME IInv, NEW w \in Workers,
         NEW step \in Steps \ {"boot", "boxed", "using", "take", "await", "claim"}
  PROVE  Quietly(w, Goto(w, step))
BY GotoGood, Plainly

LEMMA LeaseSteps ==
  ASSUME IInv, NEW w \in Workers, Take(w) \/ Validate(w) \/ FinishTurn(w)
  PROVE  Moved(w)
<1>0. Busy \subseteq {"queued", "none"} /\ Failed \subseteq {"queued", "none"}
  BY DEF Busy, Failed
<1>1. Quietly(w, AfterLease(w))
  BY GotoPlainly, StepNames DEF AfterLease
<1>2. CASE Validate(w)
  BY <1>0, <1>1, <1>2, LeaveMoves, ProceedMoves DEF Validate
<1>3. CASE FinishTurn(w)
  BY <1>0, <1>3, LeaveMoves DEF FinishTurn
<1>4. CASE Take(w)
  <2> DEFINE b == job[w].bot
             new == [by |-> w, fence |-> leases[b].fence + 1, live |-> TRUE]
             rec == [Goto(w, "validate") EXCEPT !.fence = leases[b].fence + 1]
  <2>1. CASE /\ leases' = [leases EXCEPT ![b] = [by |-> w, fence |-> @.fence + 1, live |-> TRUE]]
             /\ Put(w, rec) /\ UNCHANGED runs /\ UNCHANGED Others
    <3>1. b \in Bots /\ leases[b].fence + 1 \in Nat
      <4>1. b \in Bots
        BY <1>4, JobOf DEF Take, At, Good
      <4> QED
        BY <4>1 DEF IInv, StoreOK, Lease
    <3>2. leases' \in [Bots -> Lease]
      <4>1. new \in Lease
        BY <3>1 DEF Lease
      <4>2. leases' = [leases EXCEPT ![b] = new]
        BY <2>1, <3>1 DEF IInv, StoreOK
      <4> HIDE DEF new
      <4> QED
        BY <4>1, <4>2 DEF IInv, StoreOK
    <3>3. Good(rec) /\ rec.step = "validate"
      <4>1. Good(Goto(w, "validate")) /\ Goto(w, "validate").step = "validate"
        BY GotoGood, StepNames
      <4> QED
        BY <3>1, <4>1 DEF Good, Job
    <3>4. Quietly(w, rec)
      BY <3>3, Plainly
    <3> HIDE DEF rec
    <3>5. Moves(w)
      BY <2>1, <3>4 DEF Moves, Quiet, Others
    <3>6. StoreOK'
      BY <2>1, <3>2 DEF IInv, StoreOK, Others
    <3> QED
      BY <2>1, <3>5, <3>6 DEF Moved, Others
  <2> QED
    BY <1>0, <1>1, <1>4, <2>1, LeaveMoves, ProceedMoves DEF Take
<1> QED
  BY <1>2, <1>3, <1>4

-----------------------------------------------------------------------------
(* Booting.                                                                *)

LEMMA GiveUpMoves ==
  ASSUME IInv, NEW w \in Workers, GiveUp(w)
  PROVE  Moved(w)
<1>1. CASE Replaces(w)
  <2> DEFINE rec == [Goto(w, "broken") EXCEPT
                       !.mine = @ /\ (At(w, "enter") \/ job[w].seen \notin Claimed)]
  <2>1. Good(Goto(w, "broken")) /\ Goto(w, "broken").step = "broken"
    BY GotoGood, StepNames
  <2>0. (Goto(w, "broken").mine /\ (At(w, "enter") \/ job[w].seen \notin Claimed)) \in BOOLEAN
    OBVIOUS
  <2>2. Good(rec) /\ rec.step = "broken"
    BY <2>0, <2>1, Restamped
  <2>3. Quietly(w, rec)
    BY <2>2, Plainly
  <2>4. Proceed(w, rec)
    BY <1>1 DEF GiveUp
  <2> HIDE DEF rec
  <2> QED
    BY <2>3, <2>4, ProceedMoves
<1>2. CASE ~Replaces(w)
  BY <1>2, LeaveMoves DEF GiveUp, Busy
<1> QED
  BY <1>1, <1>2

\* What a worker knows of the row it has read.
LEMMA SeenGood ==
  ASSUME IInv, NEW w \in Workers, NEW step \in Steps \ {"boxed", "using", "take"}
  PROVE  /\ Good(Seen(w, step)) /\ Seen(w, step).step = step
         /\ Seen(w, step).seen = computer.state /\ Seen(w, step).mine = job[w].mine
<1>1. Good(job[w]) /\ job[w] \in Job
  BY JobOf
<1>2. computer.state \in Settled \cup Claimed /\ computer.ref \in Boxes \cup {NoBox}
      /\ computer.maintenance \in Nat
  BY DEF IInv, JobsOK, Row
<1>3. step \in Steps
  OBVIOUS
<1>4. Seen(w, step) \in Job
  BY ONLY <1>1, <1>2, <1>3 DEF Seen, Job
<1>5. /\ Seen(w, step).step = step /\ Seen(w, step).seen = computer.state
      /\ Seen(w, step).mine = job[w].mine /\ Seen(w, step).upd = job[w].upd
  BY ONLY <1>1 DEF Seen, Job
<1> QED
  BY <1>1, <1>4, <1>5 DEF Good

LEMMA EnterSteps ==
  ASSUME IInv, NEW w \in Workers, Observe(w) \/ Await(w) \/ Claim(w)
  PROVE  Moved(w)
<1>1. CASE Observe(w)
  <2>1. CASE GiveUp(w)
    BY <2>1, GiveUpMoves
  <2>2. CASE computer.state \in Settled /\ Proceed(w, Seen(w, "claim"))
    <3>1. Good(Seen(w, "claim")) /\ Seen(w, "claim").step = "claim"
      BY SeenGood, StepNames
    <3>2. Quietly(w, Seen(w, "claim"))
      BY <2>2, <3>1, States DEF Quietly
    <3> QED
      BY <2>2, <3>2, ProceedMoves
  <2>3. CASE /\ ~(computer.state = "booting" /\ (~computer.old \/ LiveRunElsewhere(w)))
             /\ Proceed(w, [Seen(w, "await") EXCEPT !.mine = TRUE, !.flag = computer.old])
    <3> DEFINE rec == [Seen(w, "await") EXCEPT !.mine = TRUE, !.flag = computer.old]
    <3>1. Good(Seen(w, "await")) /\ Seen(w, "await").step = "await" /\ computer.old \in BOOLEAN
      BY SeenGood, StepNames DEF IInv, JobsOK, Row
    <3>2. Good(rec) /\ rec.step = "await"
      BY <3>1 DEF Good, Job
    <3>3. Quietly(w, rec)
      BY <2>3, <3>2 DEF Quietly
    <3> HIDE DEF rec
    <3> QED
      BY <2>3, <3>3, ProceedMoves DEF rec
  <2> QED
    BY <1>1, <2>1, <2>2, <2>3 DEF Observe
<1>2. CASE Await(w)
  <2>1. CASE GiveUp(w)
    BY <2>1, GiveUpMoves
  <2>2. CASE /\ computer.state = "booting" => job[w].seen = "booting"
             /\ Proceed(w, Seen(w, "claim"))
    <3>1. /\ Good(Seen(w, "claim")) /\ Seen(w, "claim").step = "claim"
          /\ Seen(w, "claim").mine = job[w].mine
      BY SeenGood, StepNames
    <3>2. Quietly(w, Seen(w, "claim"))
      BY <1>2, <2>2, <3>1 DEF Quietly, Stalks, Await, At
    <3> QED
      BY <2>2, <3>2, ProceedMoves
  <2>3. computer.state = "booting" =>
          \/ GiveUp(w)
          \/ job[w].seen = "booting" /\ Proceed(w, Seen(w, "claim"))
    BY <1>2 DEF Await
  <2>4. GiveUp(w) \/ Proceed(w, Seen(w, "claim"))
    BY <1>2 DEF Await
  <2> QED
    BY <2>1, <2>2, <2>3, <2>4
<1>3. CASE Claim(w)
  <2>1. CASE GiveUp(w)
    BY <2>1, GiveUpMoves
  <2>2. CASE /\ Claimable(w)
             /\ Advance(w, [computer EXCEPT !.state = "booting"],
                        [Holding(w, "boot") EXCEPT !.flag = FALSE])
    <3> DEFINE rec == [Holding(w, "boot") EXCEPT !.flag = FALSE]
               row == [computer EXCEPT !.state = "booting"]
    <3>1. Good(Holding(w, "boot")) /\ Holding(w, "boot").step = "boot"
      BY GotoGood, StepNames
    <3>2. Good(rec)
      BY <3>1, Restamped
    <3>3. row \in Row /\ row.maintenance = computer.maintenance
      BY RowMoved, States
    <3> HIDE DEF rec, row
    <3> QED
      BY <1>3, <2>2, <3>2, <3>3, AdvanceMoves DEF Claim, rec, row
  <2> QED
    BY <1>3, <2>1, <2>2 DEF Claim
<1> QED
  BY <1>1, <1>2, <1>3

LEMMA BootSteps ==
  ASSUME IInv, NEW w \in Workers, Provide(w) \/ Activate(w) \/ Fail(w) \/ Undo(w) \/ Record(w)
  PROVE  Moved(w)
<1>0. /\ computer \in Row /\ boxes \in [Boxes -> BoxStates]
      /\ job[w] \in Job /\ Good(job[w])
  BY JobOf DEF IInv, JobsOK, StoreOK
<1>a. Quietly(w, Goto(w, "undo")) /\ Quietly(w, Goto(w, "record"))
  BY GotoPlainly, StepNames
<1>1. CASE Provide(w)
  <2>1. PICK b \in IF job[w].ref # NoBox /\ boxes[job[w].ref] # "gone" THEN {job[w].ref} ELSE Unused :
          Provider(w, [boxes EXCEPT ![b] = "running"], [Goto(w, "boxed") EXCEPT !.box = b])
    BY <1>1 DEF Provide
  <2> DEFINE rec == [Goto(w, "boxed") EXCEPT !.box = b]
             to == [boxes EXCEPT ![b] = "running"]
  <2>2. b \in Boxes
    BY <1>0, <2>1 DEF Job, Unused
  <2>3. to \in [Boxes -> BoxStates]
    BY <1>0 DEF BoxStates
  <2>4. Good(rec) /\ rec.step = "boxed" /\ rec.mine = job[w].mine
    <3>1. [job[w] EXCEPT !.step = "boxed", !.box = b] \in Job
      BY <1>0, <2>2, StepNames DEF Job
    <3>2. rec = [job[w] EXCEPT !.step = "boxed", !.box = b]
      BY <1>0 DEF Goto, Job
    <3> QED
      BY <1>0, <2>2, <3>1, <3>2 DEF Good, Job
  <2>5. Quietly(w, rec)
    BY <1>1, <2>4 DEF Quietly, Boots, Stalks, Provide, At
  <2>6. Provider(w, to, rec)
    BY <2>1
  <2> HIDE DEF rec, to
  <2> QED
    BY <2>3, <2>5, <2>6, ProviderMoves
<1>2. CASE Activate(w)
  <2> DEFINE row == [computer EXCEPT !.state = "running", !.ref = job[w].box]
             rec == [Operation("turn", job[w].bot, "using")
                       EXCEPT !.box = job[w].box, !.fence = job[w].fence]
  <2>1. job[w].box \in Boxes
    BY <1>0, <1>2 DEF Activate, At, Good
  <2>2. row \in Row /\ row.maintenance = computer.maintenance
    BY <1>0, <2>1, States DEF Row
  <2>3. Good(rec) /\ rec.step = "using"
    <3>1. job[w].bot \in Bots \cup {Nobody} /\ job[w].fence \in Nat
      BY <1>0 DEF Job
    <3> QED
      BY <2>1, <3>1, StepNames, States DEF Good, Job, Operation, Idle, NoBox, NoUpdate
  <2>4. CASE Proceed(w, Goto(w, "undo"))
    BY <1>a, <2>4, ProceedMoves
  <2>5. CASE Advance(w, row, rec)
    <3> HIDE DEF row, rec
    <3> QED
      BY <2>2, <2>3, <2>5, AdvanceMoves
  <2>6. CASE /\ Write(w, row, Ended(w, TRUE)) /\ leases' = Released(w)
             /\ UNCHANGED <<boxes, runs, updates, adrift, begun, events>>
    <3> HIDE DEF row
    <3>1. Good(Ended(w, TRUE)) /\ Ended(w, TRUE).step # "boot"
      BY EndedGood
    <3>2. Moves(w)
      BY <2>2, <2>6, <3>1 DEF Moves, Loud
    <3>3. leases' \in [Bots -> Lease]
      BY <2>6 DEF Released, Lease, IInv, StoreOK
    <3>4. StoreOK'
      BY <2>6, <3>3 DEF IInv, StoreOK
    <3>5. computer'.maintenance = computer.maintenance
      BY <2>2, <2>6, RowFacts DEF Write
    <3> QED
      BY <2>6, <3>2, <3>4, <3>5 DEF Moved
  <2> QED
    BY <1>2, <2>4, <2>5, <2>6 DEF Activate
<1>3. CASE Fail(w)
  BY <1>a, <1>3, ProceedMoves DEF Fail
<1>4. CASE Undo(w)
  <2>1. [boxes EXCEPT ![job[w].box] = RolledBack(w)] \in [Boxes -> BoxStates]
    BY <1>0 DEF RolledBack, BoxStates
  <2> QED
    BY <1>a, <1>4, <2>1, ProceedMoves, ProviderMoves DEF Undo
<1>5. CASE Record(w)
  <2> DEFINE state == IF Reconnecting(w) THEN "running" ELSE "error"
             row == [computer EXCEPT !.state = state]
  <2>1. state \in Settled
    BY States
  <2> HIDE DEF state
  <2>2. row \in Row /\ row.maintenance = computer.maintenance
    BY <2>1, RowMoved
  <2>3. WriteAndLeave(w, row, Failed) \/ Leave(w, FALSE, Failed)
    BY <1>5 DEF Record, state
  <2> HIDE DEF row
  <2> QED
    BY <2>2, <2>3, LeaveMoves, WriteAndLeaveMoves DEF Failed
<1> QED
  BY <1>1, <1>2, <1>3, <1>4, <1>5

-----------------------------------------------------------------------------
(* Replacing.                                                              *)

LEMMA SeizeSteps ==
  ASSUME IInv, NEW w \in Workers, Look(w) \/ Seize(w) \/ Recheck(w)
  PROVE  Moved(w)
<1>0. Busy \subseteq {"queued", "none"} /\ job[w] \in Job
  BY JobOf DEF Busy
<1>1. CASE Look(w)
  <2> DEFINE rec == [Seen(w, "seize") EXCEPT !.mine = TRUE]
  <2>1. Good(Seen(w, "seize")) /\ Seen(w, "seize").step = "seize"
    BY SeenGood, StepNames
  <2>2. Good(rec) /\ rec.step = "seize"
    BY <2>1 DEF Good, Job
  <2>3. Quietly(w, rec)
    BY <2>2, Plainly
  <2>4. Leave(w, FALSE, Busy) \/ Proceed(w, rec)
    BY <1>1 DEF Look
  <2> HIDE DEF rec
  <2> QED
    BY <1>0, <2>3, <2>4, LeaveMoves, ProceedMoves
<1>2. CASE Seize(w)
  <2> DEFINE row == [computer EXCEPT !.state = "suspending"]
  <2>1. row \in Row /\ row.maintenance = computer.maintenance
    BY RowMoved, States
  <2>2. Good(Holding(w, "seized")) /\ Holding(w, "seized").step = "seized"
    BY GotoGood, StepNames
  <2>3. Leave(w, FALSE, Busy) \/ Advance(w, row, Holding(w, "seized"))
    BY <1>2 DEF Seize
  <2> HIDE DEF row
  <2> QED
    BY <1>0, <2>1, <2>2, <2>3, LeaveMoves, AdvanceMoves
<1>3. CASE Recheck(w)
  <2> DEFINE row == [computer EXCEPT !.state = job[w].seen]
  <2>1. row \in Row /\ row.maintenance = computer.maintenance
    <3>1. job[w].seen \in Settled \cup Claimed
      BY <1>0 DEF Job
    <3> QED
      BY <3>1, RowMoved
  <2>2. Quietly(w, Goto(w, "clear"))
    BY GotoPlainly, StepNames
  <2>3. Proceed(w, Goto(w, "clear")) \/ WriteAndLeave(w, row, Busy) \/ Leave(w, FALSE, Busy)
    BY <1>3 DEF Recheck
  <2> HIDE DEF row
  <2> QED
    BY <1>0, <2>1, <2>2, <2>3, LeaveMoves, WriteAndLeaveMoves, ProceedMoves
<1> QED
  BY <1>1, <1>2, <1>3

LEMMA VacateSteps ==
  ASSUME IInv, NEW w \in Workers, Clear(w) \/ Vacate(w) \/ Broken(w)
  PROVE  Moved(w)
<1>0. /\ Busy \subseteq {"queued", "none"} /\ job[w] \in Job /\ computer \in Row
      /\ boxes \in [Boxes -> BoxStates]
  BY JobOf DEF Busy, IInv, JobsOK, StoreOK
<1>a. Quietly(w, Goto(w, "vacate")) /\ Quietly(w, Goto(w, "broken"))
  BY GotoPlainly, StepNames
<1>1. CASE Clear(w)
  <2>1. [boxes EXCEPT ![job[w].ref] = "gone"] \in [Boxes -> BoxStates]
    BY <1>0 DEF BoxStates
  <2> QED
    BY <1>a, <1>1, <2>1, ProceedMoves, ProviderMoves DEF Clear
<1>2. CASE Vacate(w)
  <2> DEFINE row == [computer EXCEPT !.state = "stopped", !.ref = NoBox, !.control = "none"]
             rec == [Holding(w, "enter") EXCEPT !.seen = "stopped", !.ref = NoBox]
  <2>1. CASE /\ Write(w, row, rec)
             /\ adrift' = adrift \cup ({computer.ref} \ {job[w].ref, NoBox})
             /\ UNCHANGED <<boxes, leases, runs, updates, begun, events>>
    <3>1. row \in Row /\ row.maintenance = computer.maintenance
      BY <1>0, States DEF Row
    <3>2. Good(rec) /\ rec.step = "enter"
      <4>1. Good(Holding(w, "enter")) /\ Holding(w, "enter").step = "enter"
        BY GotoGood, StepNames
      <4> QED
        BY <4>1, States DEF Good, Job
    <3> HIDE DEF row, rec
    <3>3. Moves(w)
      BY <2>1, <3>1, <3>2 DEF Moves, Loud
    <3>4. adrift' \subseteq Boxes
      BY <1>0, <2>1 DEF IInv, StoreOK, Row
    <3>5. StoreOK'
      BY <2>1, <3>4 DEF IInv, StoreOK
    <3>6. computer'.maintenance = computer.maintenance
      BY <2>1, <3>1, RowFacts DEF Write
    <3> QED
      BY <2>1, <3>3, <3>5, <3>6 DEF Moved
  <2>2. CASE Proceed(w, Goto(w, "broken"))
    BY <1>a, <2>2, ProceedMoves
  <2> QED
    BY <1>2, <2>1, <2>2 DEF Vacate
<1>3. CASE Broken(w)
  <2> DEFINE row == [computer EXCEPT !.state = "error"]
  <2>1. row \in Row /\ row.maintenance = computer.maintenance
    BY RowMoved, States
  <2>2. WriteAndLeave(w, row, Busy) \/ Leave(w, FALSE, Busy)
    BY <1>3 DEF Broken
  <2> HIDE DEF row
  <2> QED
    BY <1>0, <2>1, <2>2, LeaveMoves, WriteAndLeaveMoves
<1> QED
  BY <1>1, <1>2, <1>3

-----------------------------------------------------------------------------
(* Sleeping and stopping.                                                  *)

LEMMA SleepSteps ==
  ASSUME IInv, NEW w \in Workers, Doze(w) \/ Saving(w) \/ Halt(w) \/ Rest(w)
  PROVE  Moved(w)
<1>0. /\ job[w] \in Job /\ boxes \in [Boxes -> BoxStates]
  BY JobOf DEF IInv, StoreOK
<1>a. \A state \in Settled \cup Claimed :
        /\ [computer EXCEPT !.state = state] \in Row
        /\ [computer EXCEPT !.state = state].maintenance = computer.maintenance
        /\ [computer EXCEPT !.state = state, !.control = "none"] \in Row
        /\ [computer EXCEPT !.state = state, !.control = "none"].maintenance = computer.maintenance
  BY RowMoved
<1>b. ASSUME WakeAgain(w) PROVE Moved(w)
  <2> DEFINE row == [computer EXCEPT !.state = "running"]
  <2>1. row \in Row /\ row.maintenance = computer.maintenance
    BY <1>a, States
  <2>2. WriteAndLeave(w, row, {}) \/ Leave(w, FALSE, {})
    BY <1>b DEF WakeAgain
  <2> HIDE DEF row
  <2> QED
    BY <2>1, <2>2, LeaveMoves, WriteAndLeaveMoves
<1>1. CASE Doze(w)
  <2> DEFINE row == [computer EXCEPT !.state = "suspending"]
  <2>1. row \in Row /\ row.maintenance = computer.maintenance
    BY <1>a, States
  <2>2. Good(Holding(w, "saving")) /\ Holding(w, "saving").step = "saving"
    BY GotoGood, StepNames
  <2>3. Leave(w, FALSE, {}) \/ Advance(w, row, Holding(w, "saving"))
    BY <1>1 DEF Doze
  <2> HIDE DEF row
  <2> QED
    BY <2>1, <2>2, <2>3, LeaveMoves, AdvanceMoves
<1>2. CASE Saving(w)
  <2>1. Quietly(w, Goto(w, "halt"))
    BY GotoPlainly, StepNames
  <2> QED
    BY <1>2, <1>b, <2>1, ProceedMoves DEF Saving
<1>3. CASE Halt(w)
  <2> DEFINE to == [boxes EXCEPT ![job[w].ref] = IF @ = "running" THEN "stopped" ELSE @]
  <2>1. Quietly(w, Goto(w, "rest"))
    BY GotoPlainly, StepNames
  <2>2. to \in [Boxes -> BoxStates]
    BY <1>0 DEF BoxStates
  <2>3. Provider(w, to, Goto(w, "rest")) \/ WakeAgain(w)
    BY <1>3 DEF Halt
  <2> HIDE DEF to
  <2> QED
    BY <1>b, <2>1, <2>2, <2>3, ProviderMoves
<1>4. CASE Rest(w)
  <2> DEFINE row == [computer EXCEPT !.state = "suspended", !.control = "none"]
  <2>1. row \in Row /\ row.maintenance = computer.maintenance
    BY <1>a, States
  <2>2. WriteAndLeave(w, row, {}) \/ Leave(w, FALSE, {})
    BY <1>4 DEF Rest
  <2> HIDE DEF row
  <2> QED
    BY <2>1, <2>2, LeaveMoves, WriteAndLeaveMoves
<1> QED
  BY <1>1, <1>2, <1>3, <1>4

LEMMA StopSteps ==
  ASSUME IInv, NEW w \in Workers, Shut(w) \/ Halting(w) \/ Halted(w)
  PROVE  Moved(w)
<1>0. /\ job[w] \in Job /\ boxes \in [Boxes -> BoxStates]
  BY JobOf DEF IInv, StoreOK
<1>1. CASE Shut(w)
  <2> DEFINE row == [computer EXCEPT !.state = "suspending"]
             rec == [Holding(w, "shutting") EXCEPT !.flag = job[w].seen # computer.state]
  <2>1. row \in Row /\ row.maintenance = computer.maintenance
    BY RowMoved, States
  <2>2. Good(rec) /\ rec.step = "shutting"
    <3>1. Good(Holding(w, "shutting")) /\ Holding(w, "shutting").step = "shutting"
      BY GotoGood, StepNames
    <3> QED
      BY <3>1 DEF Good, Job
  <2>3. Leave(w, FALSE, {}) \/ Advance(w, row, rec)
    BY <1>1 DEF Shut
  <2> HIDE DEF row, rec
  <2> QED
    BY <2>1, <2>2, <2>3, LeaveMoves, AdvanceMoves
<1>2. CASE Halting(w)
  <2> DEFINE to == [boxes EXCEPT ![job[w].ref] = IF @ = "running" THEN "stopped" ELSE @]
             row == [computer EXCEPT !.state = "error"]
  <2>1. Quietly(w, Goto(w, "halted"))
    BY GotoPlainly, StepNames
  <2>2. to \in [Boxes -> BoxStates]
    BY <1>0 DEF BoxStates
  <2>3. row \in Row /\ row.maintenance = computer.maintenance
    BY RowMoved, States
  <2>4. \/ Provider(w, to, Goto(w, "halted")) \/ Proceed(w, Goto(w, "halted"))
        \/ WriteAndLeave(w, row, {}) \/ Leave(w, FALSE, {})
    BY <1>2 DEF Halting, InSuspending
  <2> HIDE DEF to, row
  <2> QED
    BY <2>1, <2>2, <2>3, <2>4, ProviderMoves, ProceedMoves, LeaveMoves, WriteAndLeaveMoves
<1>3. CASE Halted(w)
  <2> DEFINE row == [computer EXCEPT !.state = "stopped", !.control = "none"]
  <2>1. row \in Row /\ row.maintenance = computer.maintenance
    BY RowMoved, States
  <2>2. WriteAndLeave(w, row, {})
    BY <1>3 DEF Halted
  <2> HIDE DEF row
  <2> QED
    BY <2>1, <2>2, WriteAndLeaveMoves
<1> QED
  BY <1>1, <1>2, <1>3

LEMMA ShuttingStep ==
  ASSUME IInv, NEW w \in Workers, Shutting(w)
  PROVE  Moved(w)
<1>0. /\ job[w] \in Job /\ computer \in Row /\ leases \in [Bots -> Lease] /\ adrift \subseteq Boxes
  BY JobOf DEF IInv, JobsOK, StoreOK
<1>1. CASE PutBack(w)
  <2> DEFINE row == [computer EXCEPT !.state = job[w].seen]
  <2>1. row \in Row /\ row.maintenance = computer.maintenance
    <3>1. job[w].seen \in Settled \cup Claimed
      BY <1>0 DEF Job
    <3> QED
      BY <3>1, RowMoved
  <2>2. CASE /\ Write(w, row, Idle)
             /\ adrift' = IF job[w].flag THEN adrift \cup ({computer.ref} \ {NoBox}) ELSE adrift
             /\ UNCHANGED <<boxes, leases, runs, updates, begun, events>>
    <3> HIDE DEF row
    <3>1. Idle.step # "boot"
      BY DEF Idle
    <3>2. Moves(w)
      BY <2>1, <2>2, <3>1, IdleGood DEF Moves, Loud
    <3>3. adrift' \subseteq Boxes
      BY <1>0, <2>2 DEF Row
    <3>4. StoreOK'
      BY <2>2, <3>3 DEF IInv, StoreOK
    <3>5. computer'.maintenance = computer.maintenance
      BY <2>1, <2>2, RowFacts DEF Write
    <3> QED
      BY <2>2, <3>2, <3>4, <3>5 DEF Moved
  <2> QED
    BY <1>1, <2>2, LeaveMoves DEF PutBack
<1>2. CASE /\ leases' = [leases EXCEPT ![job[w].bot] = Absent]
           /\ adrift' = IF ~Team /\ InUse(computer.ref) # {} THEN adrift \cup {computer.ref} ELSE adrift
           /\ Put(w, Goto(w, "halting"))
           /\ UNCHANGED <<computer, boxes, runs, updates, begun, events>>
  <2>1. Quietly(w, Goto(w, "halting"))
    BY GotoPlainly, StepNames
  <2>2. Moves(w)
    BY <1>2, <2>1 DEF Moves, Quiet
  <2>3. leases' \in [Bots -> Lease]
    <3>1. Absent \in Lease
      BY DEF Absent, Lease
    <3> QED
      BY <1>0, <1>2, <3>1
  <2>4. adrift' \subseteq Boxes
    <3>1. ASSUME InUse(computer.ref) # {} PROVE computer.ref \in Boxes
      <4>1. PICK x \in Workers : At(x, "using") /\ job[x].box = computer.ref
        BY <3>1 DEF InUse
      <4> QED
        BY <4>1, JobOf DEF At, Good
    <3> QED
      BY <1>0, <1>2, <3>1
  <2>5. StoreOK'
    BY <1>2, <2>3, <2>4 DEF IInv, StoreOK
  <2> QED
    BY <1>2, <2>2, <2>5 DEF Moved
<1> QED
  BY <1>1, <1>2 DEF Shutting

-----------------------------------------------------------------------------
(* What begins and ends an operation, and what the world does.             *)

LEMMA HandAndCrash ==
  ASSUME IInv, NEW w \in Workers, HandOver(w) \/ Crash(w)
  PROVE  Moved(w)
<1>0. /\ leases \in [Bots -> Lease] /\ runs \in [Bots -> Run] /\ adrift \subseteq Boxes
      /\ \A b \in Bots : runs[b].by # Nobody => runs[b].status = "leased"
      /\ job[w] \in Job /\ events \in Nat
  BY JobOf DEF IInv, StoreOK
<1>1. Quietly(w, Idle)
  BY IdleGood, Plainly DEF Idle
<1>2. CASE HandOver(w)
  <2>1. Moves(w)
    BY <1>1, <1>2 DEF HandOver, Others, Moves, Quiet
  <2>2. leases' \in [Bots -> Lease]
    BY <1>0, <1>2 DEF HandOver, Lease
  <2>3. /\ runs' \in [Bots -> Run]
        /\ \A b \in Bots : runs'[b].by # Nobody => runs'[b].status = "leased"
    <3> DEFINE run == HandedRun(w)
    <3>1. run \in Run /\ run.by = Nobody
      BY DEF HandedRun, Run
    <3>2. runs' = [runs EXCEPT ![job[w].bot] = run]
      BY <1>2 DEF HandOver
    <3> HIDE DEF run
    <3> QED
      BY <1>0, <3>1, <3>2
  <2>4. StoreOK'
    BY <1>2, <2>2, <2>3 DEF HandOver, Others, IInv, StoreOK
  <2> QED
    BY <1>2, <2>1, <2>4 DEF Moved, HandOver, Others
<1>3. CASE Crash(w)
  <2>1. Moves(w)
    BY <1>1, <1>3 DEF Crash, Moves, Quiet
  <2>2. leases' \in [Bots -> Lease]
    BY <1>0, <1>3 DEF Crash, Lease
  <2>3. /\ runs' \in [Bots -> Run]
        /\ \A b \in Bots : runs'[b].by # Nobody => runs'[b].status = "leased"
    <3>1. runs' = [b \in Bots |-> IF runs[b].by = w THEN [runs[b] EXCEPT !.by = Nobody] ELSE runs[b]]
      BY <1>3 DEF Crash
    <3>2. \A b \in Bots : /\ [runs[b] EXCEPT !.by = Nobody] \in Run
                          /\ [runs[b] EXCEPT !.by = Nobody].by = Nobody
      BY <1>0 DEF Run
    <3> QED
      BY <1>0, <3>1, <3>2
  <2>4. adrift' \subseteq Boxes /\ events' \in Nat
    BY <1>0, <1>3 DEF Crash, Job
  <2>5. StoreOK'
    BY <1>3, <2>2, <2>3, <2>4 DEF Crash, IInv, StoreOK
  <2> QED
    BY <1>3, <2>1, <2>5 DEF Moved, Crash
<1> QED
  BY <1>2, <1>3

LEMMA BeginMoves ==
  ASSUME IInv, NEW w \in Workers, NEW rec, Good(rec),
         rec.step \notin {"boot", "boxed", "await", "claim"},
         Begin(w, rec), UNCHANGED Unmoved, UNCHANGED <<leases, updates>>,
         runs' \in [Bots -> Run],
         \A b \in Bots : runs'[b].by # Nobody => runs'[b].status = "leased"
  PROVE  Moved(w)
<1>1. Quietly(w, rec)
  BY Plainly
<1>2. Moves(w)
  BY <1>1 DEF Begin, Moves, Quiet, Unmoved
<1>3. StoreOK'
  BY DEF Begin, Unmoved, IInv, StoreOK
<1> QED
  BY <1>2, <1>3 DEF Moved, Unmoved

LEMMA StartSteps ==
  ASSUME IInv, NEW w \in Workers, NEW b \in computer.bots,
         StartTurn(w, b) \/ StartManual(w, b) \/ StartStop(w, b)
  PROVE  Moved(w)
<1>0. /\ runs \in [Bots -> Run] /\ b \in Bots /\ computer \in Row
      /\ \A x \in Bots : runs[x].by # Nobody => runs[x].status = "leased"
  BY DEF IInv, JobsOK, StoreOK, Row
<1>1. CASE StartTurn(w, b)
  <2>1. /\ runs' \in [Bots -> Run]
        /\ \A x \in Bots : runs'[x].by # Nobody => runs'[x].status = "leased"
    BY <1>0, <1>1 DEF StartTurn, Run
  <2>2. Good(Operation("turn", b, "take")) /\ Operation("turn", b, "take").step = "take"
    BY <1>0, TakeGood
  <2> QED
    BY <1>1, <2>1, <2>2, BeginMoves DEF StartTurn
<1>2. CASE StartManual(w, b)
  <2>1. PICK op \in {"boot", "reset"} : Begin(w, Operation(op, b, "take"))
    BY <1>2 DEF StartManual
  <2>2. Good(Operation(op, b, "take")) /\ Operation(op, b, "take").step = "take"
    BY <1>0, TakeGood
  <2> QED
    BY <1>0, <1>2, <2>1, <2>2, BeginMoves DEF StartManual
<1>3. CASE StartStop(w, b)
  <2> DEFINE rec == [Operation("stop", b, "shut")
                       EXCEPT !.seen = computer.state, !.ref = computer.ref]
  <2>0. "shut" \in Steps \ {"boxed", "using"} /\ b \in Bots \cup {Nobody}
    BY <1>0, StepNames
  <2>1. Good(Operation("stop", b, "shut")) /\ Operation("stop", b, "shut").step = "shut"
    BY <2>0, OperationGood
  <2>2. Good(rec) /\ rec.step = "shut"
    <3> DEFINE base == Operation("stop", b, "shut")
    <3>1. base \in Job /\ base.step = "shut" /\ base.upd \in DOMAIN updates \cup {NoUpdate}
      BY <2>1 DEF Good
    <3>2. computer.state \in Settled \cup Claimed /\ computer.ref \in Boxes \cup {NoBox}
      BY <1>0 DEF Row
    <3>3. rec = [base EXCEPT !.seen = computer.state, !.ref = computer.ref]
      OBVIOUS
    <3> HIDE DEF base, rec
    <3>4. rec \in Job /\ rec.step = "shut" /\ rec.upd = base.upd
      BY ONLY <3>1, <3>2, <3>3 DEF Job
    <3> QED
      BY <3>1, <3>4 DEF Good
  <2>3. Begin(w, rec)
    BY <1>3 DEF StartStop
  <2> HIDE DEF rec
  <2> QED
    BY <1>0, <1>3, <2>2, <2>3, BeginMoves DEF StartStop
<1> QED
  BY <1>1, <1>2, <1>3

LEMMA StartSleepStep ==
  ASSUME IInv, NEW w \in Workers, StartSleep(w)
  PROVE  Moved(w)
<1> DEFINE rec == [Operation("sleep", Nobody, "doze")
                     EXCEPT !.ref = computer.ref, !.mine = TRUE,
                            !.flag = computer.control = "held"]
<1>0. /\ runs \in [Bots -> Run] /\ computer \in Row
      /\ \A x \in Bots : runs[x].by # Nobody => runs[x].status = "leased"
  BY DEF IInv, JobsOK, StoreOK
<1>1. Good(Operation("sleep", Nobody, "doze")) /\ Operation("sleep", Nobody, "doze").step = "doze"
  <2>1. "doze" \in Steps \ {"boxed", "using"} /\ Nobody \in Bots \cup {Nobody}
    BY StepNames
  <2> QED
    BY <2>1, OperationGood
<1>2. Good(rec) /\ rec.step = "doze"
  <2> DEFINE base == Operation("sleep", Nobody, "doze")
  <2>1. base \in Job /\ base.step = "doze" /\ base.upd \in DOMAIN updates \cup {NoUpdate}
    BY <1>1 DEF Good
  <2>2. computer.ref \in Boxes \cup {NoBox} /\ (computer.control = "held") \in BOOLEAN
    BY <1>0 DEF Row
  <2> HIDE DEF base
  <2>3. [base EXCEPT !.ref = computer.ref, !.mine = TRUE, !.flag = computer.control = "held"] \in Job
    BY ONLY <2>1, <2>2 DEF Job
  <2>4. /\ rec = [base EXCEPT !.ref = computer.ref, !.mine = TRUE, !.flag = computer.control = "held"]
    BY DEF base
  <2>5. rec.step = base.step /\ rec.upd = base.upd
    BY ONLY <2>1, <2>4 DEF Job
  <2> QED
    BY <2>1, <2>3, <2>4, <2>5 DEF Good
<1>3. Begin(w, rec)
  BY DEF StartSleep
<1> HIDE DEF rec
<1> QED
  BY <1>0, <1>2, <1>3, BeginMoves DEF StartSleep

\* No worker goes on, and no reservation moves.
Passed ==
  /\ Still /\ StoreOK'
  /\ updates' = updates /\ computer'.maintenance = computer.maintenance

LEMMA BotSteps ==
  ASSUME IInv, NEW b \in computer.bots,
         NewRun(b) \/ Return(b) \/ Cancel(b) \/ ExpireRun(b) \/ ExpireLease(b)
  PROVE  Passed
<1>0. /\ runs \in [Bots -> Run] /\ leases \in [Bots -> Lease] /\ b \in Bots /\ events \in Nat
      /\ \A x \in Bots : runs[x].by # Nobody => runs[x].status = "leased"
  BY DEF IInv, JobsOK, StoreOK, Row
<1>1. NoRun \in Run /\ NoRun.by = Nobody
  BY DEF NoRun, Run
<1>2. ASSUME NEW run \in Run, run.by = Nobody, SetRun(b, run), UNCHANGED <<leases, job>>
      PROVE  Passed
  <2>1. StoreOK'
    BY <1>0, <1>2 DEF SetRun, Others, IInv, StoreOK
  <2> QED
    BY <1>2, <2>1 DEF Passed, Still, SetRun, Others
<1>3. CASE NewRun(b)
  <2>1. [NoRun EXCEPT !.status = "queued"] \in Run /\ [NoRun EXCEPT !.status = "queued"].by = Nobody
    BY DEF NoRun, Run
  <2> QED
    BY <1>2, <1>3, <2>1 DEF NewRun
<1>4. CASE Return(b)
  <2> DEFINE run == [NoRun EXCEPT !.status = "queued", !.held = TRUE]
  <2>1. run \in Run /\ run.by = Nobody
    BY DEF NoRun, Run
  <2> QED
    BY <1>2, <1>4, <2>1 DEF Return
<1>5. CASE Cancel(b)
  <2>1. runs' \in [Bots -> Run] /\ \A x \in Bots : runs'[x].by # Nobody => runs'[x].status = "leased"
    BY <1>0, <1>1, <1>5 DEF Cancel
  <2>2. leases' \in [Bots -> Lease]
    BY <1>0, <1>5 DEF Cancel, Lease, LeasedToRun
  <2>3. StoreOK'
    BY <1>0, <1>5, <2>1, <2>2 DEF Cancel, IInv, StoreOK
  <2> QED
    BY <1>5, <2>3 DEF Passed, Still, Cancel
<1>6. CASE ExpireRun(b)
  <2> DEFINE run == [runs[b] EXCEPT !.status = "queued", !.by = Nobody]
  <2>1. run \in Run /\ run.by = Nobody
    BY <1>0 DEF Run
  <2>2. SetRun(b, run) /\ UNCHANGED <<leases, job>>
    BY <1>6 DEF ExpireRun
  <2> HIDE DEF run
  <2> QED
    BY <1>2, <2>1, <2>2
<1>7. CASE ExpireLease(b)
  <2>1. leases' \in [Bots -> Lease]
    BY <1>0, <1>7 DEF ExpireLease, Lease
  <2>2. StoreOK'
    BY <1>7, <2>1 DEF ExpireLease, Others, IInv, StoreOK
  <2> QED
    BY <1>7, <2>2 DEF Passed, Still, ExpireLease, Others
<1> QED
  BY <1>3, <1>4, <1>5, <1>6, <1>7

LEMMA ScreenSteps ==
  ASSUME IInv, (\E b \in computer.bots : Grant(b)) \/ EndControl
  PROVE  Moved(Nobody)
<1>1. PICK control \in {"none", "held"} :
        /\ Write(Nobody, [computer EXCEPT !.control = control], Idle)
        /\ UNCHANGED <<boxes, leases, runs, updates, adrift, begun>>
        /\ events' \in Nat
  BY DEF Grant, EndControl, SetControl, IInv, StoreOK
<1> DEFINE row == [computer EXCEPT !.control = control]
<1>2. row \in Row /\ row.maintenance = computer.maintenance
  BY DEF IInv, JobsOK, Row
<1> HIDE DEF row
<1>3. Write(Nobody, row, Idle) /\ Idle.step # "boot"
  BY <1>1 DEF row, Idle
<1>4. Moves(Nobody)
  BY <1>2, <1>3, IdleGood DEF Moves, Loud
<1>5. StoreOK'
  BY <1>1 DEF IInv, StoreOK
<1>6. computer'.maintenance = computer.maintenance
  BY <1>2, <1>3, RowFacts DEF Write
<1> QED
  BY <1>1, <1>4, <1>5, <1>6 DEF Moved

LEMMA TimeSteps ==
  ASSUME IInv, Lapse \/ GrowOld
  PROVE  Passed
<1>1. Still /\ UNCHANGED <<boxes, leases, runs, updates, adrift, begun, events>>
  BY DEF Lapse, GrowOld, Still
<1>2. computer'.maintenance = computer.maintenance
  BY DEF Lapse, GrowOld, IInv, JobsOK, Row
<1>3. StoreOK'
  BY <1>1 DEF IInv, StoreOK
<1> QED
  BY <1>1, <1>2, <1>3 DEF Passed

\* A worker's steps, but the last one of an update.
LEMMA WorkerSteps ==
  ASSUME IInv, NEW w \in Workers,
         Continue(w) \/ HandOver(w) \/ Fail(w) \/ Crash(w) \/ StartSleep(w), ~FinishUpdate(w)
  PROVE  Moved(w)
BY LeaseSteps, EnterSteps, BootSteps, SeizeSteps, VacateSteps, SleepSteps, StopSteps,
   ShuttingStep, HandAndCrash, StartSleepStep
   DEF Continue

-----------------------------------------------------------------------------
(* Updates.                                                                *)

\* What a step of an update does.
Updated ==
  /\ (\E w \in Workers \cup {Nobody} : Moves(w)) \/ Still
  /\ StoreOK' /\ ReservationShape' /\ DOMAIN updates \subseteq DOMAIN updates'

LEMMA UpdateFacts ==
  ASSUME IInv
  PROVE  /\ updates \in Seq(Statuses) /\ Len(updates) \in Nat
         /\ DOMAIN updates = 1..Len(updates) /\ NoUpdate \notin DOMAIN updates
         /\ \A u \in DOMAIN updates : updates[u] \in Statuses
         /\ computer \in Row /\ computer.maintenance \in Nat
BY DEF IInv, StoreOK, JobsOK, Row, NoUpdate

LEMMA StatusSet ==
  ASSUME IInv, NEW u, NEW status \in Statuses, SetUpdate(u, status)
  PROVE  /\ updates' \in Seq(Statuses) /\ DOMAIN updates' = DOMAIN updates
         /\ \A v \in DOMAIN updates : updates'[v] = IF v = u THEN status ELSE updates[v]
<1>1. /\ DOMAIN updates' = DOMAIN updates
      /\ \A v \in DOMAIN updates : updates'[v] = IF v = u THEN status ELSE updates[v]
      /\ updates' = [v \in DOMAIN updates |-> updates'[v]]
  BY UpdateFacts DEF SetUpdate
<1>2. updates' \in [1..Len(updates) -> Statuses]
  BY <1>1, UpdateFacts
<1> QED
  BY <1>1, <1>2, UpdateFacts

LEMMA QueueUpdateStep ==
  ASSUME IInv, QueueUpdate
  PROVE  Updated
<1> DEFINE row == [computer EXCEPT !.maintenance = Len(updates) + 1]
<1>1. row \in Row /\ row.maintenance = Len(updates) + 1
  BY UpdateFacts DEF Row
<1>2. Write(Nobody, row, Idle) /\ Idle.step # "boot"
  BY DEF QueueUpdate, Idle
<1> HIDE DEF row
<1>3. Moves(Nobody)
  BY <1>1, <1>2, IdleGood DEF Moves, Loud
<1>4. computer'.maintenance = Len(updates) + 1
  BY <1>1, <1>2, RowFacts DEF Write
<1>5. /\ updates' \in Seq(Statuses) /\ DOMAIN updates' = DOMAIN updates \cup {Len(updates) + 1}
      /\ \A u \in DOMAIN updates : updates'[u] = updates[u]
      /\ updates'[Len(updates) + 1] = "queued"
  BY UpdateFacts DEF QueueUpdate, Statuses
<1>6. StoreOK'
  BY <1>5 DEF QueueUpdate, IInv, StoreOK
<1>7. computer.maintenance = NoUpdate
  BY DEF QueueUpdate, Reservable
<1>8. ASSUME NEW u \in DOMAIN updates'
      PROVE  computer'.maintenance = u <=> updates'[u] \in {"queued", "running", "interrupted"}
  <2>1. CASE u \in DOMAIN updates
    <3>1. u # Len(updates) + 1 /\ u # NoUpdate
      BY <2>1, UpdateFacts
    <3> QED
      BY <1>4, <1>5, <1>7, <2>1, <3>1 DEF IInv, ReservationShape
  <2>2. CASE u = Len(updates) + 1
    BY <1>4, <1>5, <2>2
  <2> QED
    BY <1>5, <2>1, <2>2
<1>9. ReservationShape'
  BY <1>8 DEF ReservationShape
<1> QED
  BY <1>3, <1>5, <1>6, <1>9 DEF Updated

LEMMA PerformStep ==
  ASSUME IInv, NEW w \in Workers, NEW u \in DOMAIN updates, PerformUpdate(w, u)
  PROVE  Updated
<1>0. /\ updates[u] = "queued" /\ SetUpdate(u, "running") /\ computer' = computer
      /\ UNCHANGED <<runs, leases, boxes, adrift, events>>
  BY DEF PerformUpdate, Performable, Unmoved
<1>1. PICK b \in computer.bots : Begin(w, [Operation("update", b, "look") EXCEPT !.upd = u])
  BY DEF PerformUpdate
<1> DEFINE rec == [Operation("update", b, "look") EXCEPT !.upd = u]
<1>2. Good(rec) /\ rec.step = "look"
  <2>1. b \in Bots /\ u \in Nat
    BY UpdateFacts DEF Row
  <2>2. Good(Operation("update", b, "look")) /\ Operation("update", b, "look").step = "look"
    BY <2>1, OperationGood, StepNames
  <2> QED
    BY <2>1, <2>2 DEF Good, Job
<1>3. Quietly(w, rec)
  BY <1>2, Plainly
<1> HIDE DEF rec
<1>4. Begin(w, rec)
  BY <1>1 DEF rec
<1>5. Moves(w)
  BY <1>0, <1>3, <1>4 DEF Begin, Moves, Quiet
<1>6. /\ updates' \in Seq(Statuses) /\ DOMAIN updates' = DOMAIN updates
      /\ \A v \in DOMAIN updates : updates'[v] = IF v = u THEN "running" ELSE updates[v]
  BY <1>0, StatusSet DEF Statuses
<1>7. StoreOK'
  BY <1>0, <1>4, <1>6 DEF Begin, IInv, StoreOK
<1>8. ReservationShape'
  BY <1>0, <1>6 DEF IInv, ReservationShape
<1> QED
  BY <1>5, <1>6, <1>7, <1>8 DEF Updated

LEMMA InterruptStep ==
  ASSUME IInv, NEW u \in DOMAIN updates, Interrupt(u)
  PROVE  Updated
<1>1. /\ updates' \in Seq(Statuses) /\ DOMAIN updates' = DOMAIN updates
      /\ \A v \in DOMAIN updates : updates'[v] = IF v = u THEN "interrupted" ELSE updates[v]
  BY StatusSet DEF Interrupt, Statuses
<1>2. StoreOK'
  BY <1>1 DEF Interrupt, IInv, StoreOK
<1>3. ReservationShape'
  BY <1>1 DEF Interrupt, IInv, ReservationShape
<1>4. Still
  BY DEF Interrupt, Still
<1> QED
  BY <1>1, <1>2, <1>3, <1>4 DEF Updated

LEMMA ReleaseStep ==
  ASSUME IInv, NEW u \in DOMAIN updates, ReleaseInterrupted(u)
  PROVE  Updated
<1> DEFINE row == [computer EXCEPT !.maintenance = NoUpdate, !.state = "error"]
<1>1. row \in Row /\ row.maintenance = NoUpdate
  BY UpdateFacts, States DEF Row, NoUpdate
<1>2. Write(Nobody, row, Idle) /\ Idle.step # "boot"
  BY DEF ReleaseInterrupted, Idle
<1> HIDE DEF row
<1>3. Moves(Nobody)
  BY <1>1, <1>2, IdleGood DEF Moves, Loud
<1>4. computer'.maintenance = NoUpdate
  BY <1>1, <1>2, RowFacts DEF Write
<1>5. /\ updates' \in Seq(Statuses) /\ DOMAIN updates' = DOMAIN updates
      /\ \A v \in DOMAIN updates : updates'[v] = IF v = u THEN "failed" ELSE updates[v]
  BY StatusSet DEF ReleaseInterrupted, Statuses
<1>6. StoreOK'
  BY <1>5 DEF ReleaseInterrupted, IInv, StoreOK
<1>7. ReservationShape'
  BY <1>4, <1>5, UpdateFacts DEF ReleaseInterrupted, IInv, ReservationShape
<1> QED
  BY <1>3, <1>5, <1>6, <1>7 DEF Updated

LEMMA FinishStep ==
  ASSUME IInv, NEW w \in Workers, FinishUpdate(w)
  PROVE  Updated
<1> DEFINE u == job[w].upd
           status == job[w].step
<1>0. u \in DOMAIN updates \cup {NoUpdate} /\ status \in Statuses /\ status \in {"completed", "failed"}
  BY JobOf DEF Good, FinishUpdate, Statuses
<1>1. CASE /\ updates[u] \in {"running", "interrupted"}
           /\ SetUpdate(u, status) /\ Write(w, Unreserved(u), Idle)
  <2> DEFINE row == Unreserved(u)
  <2>1. row \in Row /\ row.maintenance = IF computer.maintenance = u THEN NoUpdate ELSE computer.maintenance
    BY UpdateFacts DEF Unreserved, Row, NoUpdate
  <2>2. Write(w, row, Idle) /\ Idle.step # "boot"
    BY <1>1 DEF Idle
  <2> HIDE DEF row
  <2>3. Moves(w)
    BY <2>1, <2>2, IdleGood DEF Moves, Loud
  <2>4. computer'.maintenance = IF computer.maintenance = u THEN NoUpdate ELSE computer.maintenance
    BY <2>1, <2>2, RowFacts DEF Write
  <2>5. /\ updates' \in Seq(Statuses) /\ DOMAIN updates' = DOMAIN updates
        /\ \A v \in DOMAIN updates : updates'[v] = IF v = u THEN status ELSE updates[v]
    BY <1>0, <1>1, StatusSet
  <2>6. StoreOK'
    BY <2>5 DEF FinishUpdate, IInv, StoreOK
  <2>7. u \in DOMAIN updates => computer.maintenance = u
    BY <1>1 DEF IInv, ReservationShape
  <2>8. ASSUME NEW v \in DOMAIN updates
        PROVE  computer'.maintenance = v <=> updates'[v] \in {"queued", "running", "interrupted"}
    <3>1. computer.maintenance = v <=> updates[v] \in {"queued", "running", "interrupted"}
      BY DEF IInv, ReservationShape
    <3>2. v # NoUpdate
      BY UpdateFacts
    <3>3. CASE v = u
      BY <1>0, <2>4, <2>5, <2>7, <3>2, <3>3
    <3>4. CASE v # u
      <4>1. computer'.maintenance = v <=> computer.maintenance = v
        BY <2>4, <3>2, <3>4
      <4> QED
        BY <2>5, <3>1, <3>4, <4>1
    <3> QED
      BY <3>3, <3>4
  <2>9. ReservationShape'
    BY <2>5, <2>8 DEF ReservationShape
  <2> QED
    BY <2>3, <2>5, <2>6, <2>9 DEF Updated
<1>2. CASE UNCHANGED <<updates, computer>> /\ Put(w, Idle)
  <2>1. Quietly(w, Idle)
    BY IdleGood, Plainly DEF Idle
  <2>2. Moves(w)
    BY <1>2, <2>1 DEF Moves, Quiet
  <2>3. StoreOK'
    BY <1>2 DEF FinishUpdate, IInv, StoreOK
  <2>4. ReservationShape'
    BY <1>2 DEF IInv, ReservationShape
  <2> QED
    BY <1>2, <2>2, <2>3, <2>4 DEF Updated
<1> QED
  BY <1>1, <1>2 DEF FinishUpdate

-----------------------------------------------------------------------------
(* The theorems.                                                           *)

LEMMA MovedUpdates ==
  ASSUME IInv, (\E w \in Workers \cup {Nobody} : Moved(w)) \/ Passed
  PROVE  Updated
<1>1. /\ updates' = updates /\ computer'.maintenance = computer.maintenance /\ StoreOK'
      /\ (\E w \in Workers \cup {Nobody} : Moves(w)) \/ Still
  BY DEF Moved, Passed
<1>2. ReservationShape'
  BY <1>1 DEF IInv, ReservationShape
<1> QED
  BY <1>1, <1>2 DEF Updated

LEMMA NextUpdates ==
  ASSUME IInv, [Next]_vars
  PROVE  Updated
<1>1. CASE UNCHANGED vars
  <2>1. Still /\ StoreOK' /\ updates' = updates /\ computer' = computer
    BY <1>1 DEF vars, Still, IInv, StoreOK
  <2> QED
    BY <2>1, MovedUpdates DEF Passed
<1>2. ASSUME NEW w \in Workers,
             Continue(w) \/ HandOver(w) \/ Fail(w) \/ Crash(w) \/ StartSleep(w)
      PROVE  Updated
  BY <1>2, WorkerSteps, FinishStep, MovedUpdates
<1>3. ASSUME NEW w \in Workers, NEW b \in computer.bots,
             StartTurn(w, b) \/ StartManual(w, b) \/ StartStop(w, b)
      PROVE  Updated
  BY <1>3, StartSteps, MovedUpdates
<1>4. ASSUME NEW b \in computer.bots,
             NewRun(b) \/ Return(b) \/ Cancel(b) \/ ExpireRun(b) \/ ExpireLease(b)
      PROVE  Updated
  BY <1>4, BotSteps, MovedUpdates
<1>5. CASE (\E b \in computer.bots : Grant(b)) \/ EndControl
  BY <1>5, ScreenSteps, MovedUpdates
<1>6. CASE Lapse \/ GrowOld
  BY <1>6, TimeSteps, MovedUpdates
<1>7. CASE QueueUpdate
  BY <1>7, QueueUpdateStep
<1>8. ASSUME NEW u \in DOMAIN updates, Interrupt(u) \/ ReleaseInterrupted(u)
      PROVE  Updated
  BY <1>8, InterruptStep, ReleaseStep
<1>9. ASSUME NEW u \in DOMAIN updates, NEW w \in Workers, PerformUpdate(w, u) PROVE Updated
  BY <1>9, PerformStep
<1> QED
  BY <1>1, <1>2, <1>3, <1>4, <1>5, <1>6, <1>7, <1>8, <1>9 DEF Next

LEMMA InitIInv == Init => IInv
<1> SUFFICES ASSUME Init PROVE IInv
  OBVIOUS
<1>1. computer \in Row /\ computer.state # "booting" /\ computer.maintenance = NoUpdate
  BY BoundsAssumption, States DEF Init, Row, Boxes, NoUpdate
<1>2. JobsOK
  <2>1. \A w \in Workers : job[w] = Idle
    BY DEF Init
  <2>2. job \in [Workers -> Job]
    BY IdleGood DEF Init, Good
  <2> QED
    BY <1>1, <2>1, <2>2, IdleGood DEF JobsOK
<1>3. StoreOK
  <2>1. boxes \in [Boxes -> BoxStates]
    BY DEF Init, BoxStates
  <2>2. leases \in [Bots -> Lease]
    BY DEF Init, Absent, Lease
  <2>3. runs \in [Bots -> Run] /\ \A b \in Bots : runs[b].by = Nobody
    BY DEF Init, NoRun, Run
  <2> QED
    BY <2>1, <2>2, <2>3 DEF Init, StoreOK
<1>4. ReservationShape /\ Alone
  BY <1>1 DEF Init, ReservationShape, Alone
<1> QED
  BY <1>2, <1>3, <1>4 DEF IInv

LEMMA NextIInv == IInv /\ [Next]_vars => IInv'
<1> SUFFICES ASSUME IInv, [Next]_vars PROVE IInv'
  OBVIOUS
<1>1. Updated
  BY NextUpdates
<1>2. JobsOK' /\ (~Slow => Alone')
  <2>1. CASE Still
    BY <1>1, <2>1, StillKeeps DEF Updated
  <2>2. ASSUME NEW w \in Workers \cup {Nobody}, NEW rec, NEW row, Loud(w, row, rec)
        PROVE  JobsOK' /\ (~Slow => Alone')
    BY <1>1, <2>2, LoudKeeps DEF Updated
  <2>3. ASSUME NEW w \in Workers, NEW rec, Quiet(w, rec)
        PROVE  JobsOK' /\ (~Slow => Alone')
    BY <1>1, <2>3, QuietKeeps DEF Updated
  <2>4. ASSUME NEW rec, Quiet(Nobody, rec) PROVE Still
    <3>1. Nobody \notin Workers
      BY NamesAssumption
    <3>2. job \in [Workers -> Job]
      BY DEF IInv, JobsOK
    <3>3. job' = [job EXCEPT ![Nobody] = rec] /\ computer' = computer
      BY <2>4 DEF Quiet, Put
    <3>4. job' = job
      BY <3>1, <3>2, <3>3
    <3> QED
      BY <3>3, <3>4 DEF Still
  <2> QED
    BY <1>1, <2>1, <2>2, <2>3, <2>4 DEF Updated, Moves
<1> QED
  BY <1>1, <1>2 DEF IInv, Updated

\* The invariant that the other theorems rest on.
THEOREM Invariance == Spec => []IInv
BY InitIInv, NextIInv, PTL DEF Spec

\* Every variable keeps its shape, and only a leased run belongs to a worker.
THEOREM TypeCorrect == Spec => []TypeOK
<1>1. IInv => TypeOK
  BY DEF IInv, JobsOK, StoreOK, TypeOK, Statuses, BoxStates
<1> QED
  BY <1>1, Invariance, PTL

\* A computer is reserved for an update if and only if that update is not over:
\* queueing, finishing and releasing an update write both rows in one transaction.
THEOREM ReservationHolds == Spec => []ReservationShape
<1>1. IInv => ReservationShape
  BY DEF IInv
<1> QED
  BY <1>1, Invariance, PTL

\* Nobody takes the booting claim of a worker that is with the provider, as long as
\* claims do not run out while their holder lives: the claim of provisionComputer.
THEOREM SoleProvisionerHolds == ~Slow => (Spec => SoleProvisioner)
<1> SUFFICES ASSUME ~Slow PROVE Spec => SoleProvisioner
  OBVIOUS
<1> DEFINE Apart ==
      \A x, w \in Workers :
        x # w /\ job[x].step \in {"boot", "boxed"} /\ StillClaimed(x) /\ At(w, "claim")
          => job'[w].step # "boot"
<1>1. IInv /\ [Next]_vars => Apart
  <2> SUFFICES ASSUME IInv, [Next]_vars, NEW x \in Workers, NEW w \in Workers, x # w,
                      job[x].step \in {"boot", "boxed"}, StillClaimed(x), At(w, "claim"),
                      job'[w].step = "boot"
               PROVE  FALSE
    OBVIOUS
  <2>1. /\ (\E v \in Workers \cup {Nobody} : Moves(v)) \/ Still
    BY NextUpdates DEF Updated
  <2>2. Good(job[w]) /\ job[w].step = "claim"
    BY JobOf DEF At
  <2>3. ~Still
    BY <2>2 DEF Still
  <2>4. ASSUME NEW v \in Workers \cup {Nobody}, NEW rec, Quiet(v, rec) PROVE FALSE
    BY <2>2, <2>4 DEF Quiet, Quietly, Put, IInv, JobsOK
  <2>5. ASSUME NEW v \in Workers \cup {Nobody}, NEW row, NEW rec, Loud(v, row, rec) PROVE FALSE
    <3>1. job'[w] = IF w = v THEN rec ELSE [job[w] EXCEPT !.mine = FALSE]
      BY <2>5 DEF Loud, Write
    <3>2. w = v /\ rec.step = "boot"
      BY <2>2, <3>1, Unstamped
    <3>3. Claimable(w)
      BY <2>5, <3>2 DEF Loud
    <3>4. computer.state = "booting" /\ job[w].seen = "booting" /\ job[x].mine
      BY <3>3 DEF StillClaimed, Claimable
    <3>5. Stalks(job[w]) /\ Boots(job[x])
      BY <2>2, <3>3, <3>4, States DEF Claimable, Stalks, Boots
    <3>6. Alone
      BY DEF IInv
    <3> QED
      BY <3>4, <3>5, <3>6 DEF Alone
  <2> QED
    BY <2>1, <2>3, <2>4, <2>5 DEF Moves
<1>2. Spec => []IInv /\ [][Next]_vars
  BY Invariance, PTL DEF Spec
<1> HIDE DEF Apart
<1>3. IInv /\ [Next]_vars => [Apart]_vars
  BY <1>1
<1>4. Spec => [][Apart]_vars
  BY <1>2, <1>3, PTL
<1> QED
  BY <1>4 DEF Apart, SoleProvisioner

-----------------------------------------------------------------------------
(* No sandbox is left running unknown to the row.                          *)
(*                                                                         *)
(* The row gives up a sandbox only when it names another (Activate) or     *)
(* none (Vacate).  Either comes from a worker that was given a fresh       *)
(* sandbox because the old one was gone, or that has destroyed the old one *)
(* itself; and a worker that leaves its sandbox alone after a failed       *)
(* reconnect has the one the row named when it claimed the row, which is   *)
(* named still, gone, or counted as adrift.                                *)

\* Gone, or no sandbox at all.
Lost(b) == b = NoBox \/ boxes[b] = "gone"

\* What a worker with the provider knows of the sandbox it began with.
Traced(w) ==
  /\ job[w].step = "boxed" => job[w].ref = job[w].box \/ Lost(job[w].ref)
  /\ job[w].step = "vacate" => Lost(job[w].ref)
  /\ job[w].step \in {"boot", "boxed", "undo"} /\ Reconnecting(w) =>
       job[w].ref = computer.ref \/ Lost(job[w].ref) \/ job[w].ref \in adrift

Accounted == NoneAdrift /\ \A w \in Workers : Traced(w)

\* A worker goes on with the same sandboxes in the same step, or has let go of
\* the one in its hand where it does no harm.
Same(w) ==
  /\ job'[w].step = job[w].step /\ job'[w].box = job[w].box
  /\ job'[w].ref = job[w].ref /\ job'[w].seen = job[w].seen

Safe(b) == b \in {computer'.ref, NoBox} \cup InHand' \cup adrift' \/ boxes'[b] # "running"

Carries(w) ==
  /\ Traced(w)'
  /\ job[w].step \in {"boxed", "undo"} => Safe(job[w].box)

\* What a step must not do: wake a sandbox that is gone, forget one that is
\* adrift, give up the row's sandbox while it may run, or start one in nobody's hand.
Careful ==
  /\ \A b \in Boxes : boxes[b] = "gone" => boxes'[b] = "gone"
  /\ adrift \subseteq adrift'
  /\ computer.ref = computer'.ref \/ computer.ref \in adrift' \/ Lost(computer.ref)
  /\ \A b \in Boxes : boxes'[b] = "running" => boxes[b] = "running" \/ b \in InHand'
  /\ \A w \in Workers : Same(w) \/ Carries(w)

LEMMA RefShape ==
  ASSUME IInv
  PROVE  /\ computer.ref \in Boxes \cup {NoBox} /\ NoBox \notin Boxes
         /\ \A w \in Workers : job[w].ref \in Boxes \cup {NoBox} /\ job[w].box \in Boxes \cup {NoBox}
<1>1. computer.ref \in Boxes \cup {NoBox} /\ \A w \in Workers : job[w] \in Job
  BY DEF IInv, JobsOK, Row
<1>2. NoBox \notin Boxes
  BY BoundsAssumption DEF Boxes, NoBox
<1> QED
  BY <1>1, <1>2 DEF Job

LEMMA CarefulKeeps ==
  ASSUME IInv, Accounted, Careful
  PROVE  Accounted'
<1>1. ASSUME NEW b \in Boxes, boxes'[b] = "running"
      PROVE  b \in {computer'.ref} \cup InHand' \cup adrift'
  <2>0. b # NoBox /\ boxes[b] # "gone"
    BY <1>1, RefShape DEF Careful
  <2>1. CASE boxes[b] # "running"
    BY <1>1, <2>1 DEF Careful
  <2>2. CASE boxes[b] = "running"
    <3>1. b = computer.ref \/ b \in InHand \/ b \in adrift
      BY <2>2 DEF Accounted, NoneAdrift
    <3>2. CASE b = computer.ref
      BY <2>0, <3>2 DEF Careful, Lost
    <3>3. CASE b \in adrift
      BY <3>3 DEF Careful
    <3>4. CASE b \in InHand
      <4>1. PICK w \in Workers : job[w].step \in {"boxed", "undo"} /\ job[w].box = b
        BY <3>4 DEF InHand
      <4>2. CASE Same(w)
        BY <4>1, <4>2 DEF Same, InHand
      <4>3. CASE Carries(w)
        BY <1>1, <2>0, <4>1, <4>3 DEF Carries, Safe
      <4> QED
        BY <4>2, <4>3 DEF Careful
    <3> QED
      BY <3>1, <3>2, <3>3, <3>4
  <2> QED
    BY <2>1, <2>2
<1>2. ASSUME NEW b \in Boxes \cup {NoBox}, Lost(b) PROVE Lost(b)'
  BY <1>2 DEF Careful, Lost
<1>3. ASSUME NEW w \in Workers, Same(w) PROVE Traced(w)'
  <2>1. job[w].ref \in Boxes \cup {NoBox} /\ Traced(w)
    BY RefShape DEF Accounted
  <2>2. Lost(job[w].ref) => Lost(job[w].ref)'
    BY <1>3, <2>1, RefShape DEF Same, Careful, Lost
  <2>3. Reconnecting(w)' => Reconnecting(w)
    BY <1>3 DEF Same, Reconnecting
  <2>4. job[w].ref = computer.ref => \/ job'[w].ref = computer'.ref \/ job'[w].ref \in adrift'
                                     \/ Lost(job[w].ref)
    BY <1>3 DEF Same, Careful
  <2>5. job[w].ref \in adrift => job'[w].ref \in adrift'
    BY <1>3 DEF Same, Careful
  <2>6. /\ job'[w].step = "boxed" => job'[w].ref = job'[w].box \/ Lost(job[w].ref)
        /\ job'[w].step = "vacate" => Lost(job[w].ref)
        /\ job'[w].step \in {"boot", "boxed", "undo"} /\ Reconnecting(w) =>
             job[w].ref = computer.ref \/ Lost(job[w].ref) \/ job[w].ref \in adrift
    BY <1>3, <2>1 DEF Same, Traced
  <2> QED
    BY <2>2, <2>3, <2>4, <2>5, <2>6 DEF Traced
<1>4. \A w \in Workers : Traced(w)'
  BY <1>3 DEF Careful, Carries
<1> QED
  BY <1>1, <1>4 DEF Accounted, NoneAdrift

\* The steps in which a worker answers for a sandbox.
Handling == {"boot", "boxed", "undo", "vacate"}

\* Whoever moves, the other workers keep their sandboxes.
LEMMA OthersSame ==
  ASSUME IInv, NEW w, NEW rec, Put(w, rec) \/ \E row : Write(w, row, rec)
  PROVE  /\ \A x \in Workers \ {w} : Same(x)
         /\ w \in Workers => job'[w] = rec
<1>1. job \in [Workers -> Job] /\ \A x \in Workers : job[x] \in Job
  BY DEF IInv, JobsOK
<1>2. CASE Put(w, rec)
  BY <1>1, <1>2 DEF Put, Same
<1>3. CASE \E row : Write(w, row, rec)
  <2>1. \A x \in Workers : job'[x] = IF x = w THEN rec ELSE [job[x] EXCEPT !.mine = FALSE]
    BY <1>3 DEF Write
  <2>2. ASSUME NEW x \in Workers \ {w} PROVE Same(x)
    <3> DEFINE old == job[x]
               new == [old EXCEPT !.mine = FALSE]
    <3>1. old \in Job /\ job'[x] = new
      BY <1>1, <2>1
    <3>2. new.step = old.step /\ new.box = old.box /\ new.ref = old.ref /\ new.seen = old.seen
      BY <3>1 DEF Job
    <3> QED
      BY <3>1, <3>2 DEF Same
  <2> QED
    BY <2>1, <2>2
<1> QED
  BY <1>2, <1>3

\* A step that touches no sandbox and neither takes one in hand nor lets one go.
LEMMA Aside ==
  ASSUME IInv, NEW w, NEW rec, Put(w, rec) \/ \E row : Write(w, row, rec),
         boxes' = boxes, computer'.ref = computer.ref, adrift \subseteq adrift',
         w \in Workers => job[w].step \notin {"boxed", "undo"} /\ rec.step \notin Handling
  PROVE  Careful
<1>1. \A x \in Workers \ {w} : Same(x)
  BY OthersSame
<1>2. w \in Workers => Carries(w)
  BY OthersSame DEF Carries, Traced, Handling
<1> QED
  BY <1>1, <1>2 DEF Careful

\* Nothing happens to the sandboxes.
LEMMA NothingMoves ==
  ASSUME job' = job, boxes' = boxes, computer'.ref = computer.ref, adrift' = adrift
  PROVE  Careful
BY DEF Careful, Same

LEMMA RefKept ==
  ASSUME IInv
  PROVE  /\ \A state : [computer EXCEPT !.state = state].ref = computer.ref
         /\ \A state : [computer EXCEPT !.state = state, !.control = "none"].ref = computer.ref
         /\ \A control : [computer EXCEPT !.control = control].ref = computer.ref
         /\ \A u : [computer EXCEPT !.maintenance = u].ref = computer.ref
         /\ \A u, state : [computer EXCEPT !.maintenance = u, !.state = state].ref = computer.ref
<1>1. computer \in Row
  BY DEF IInv, JobsOK
<1> QED
  BY <1>1 DEF Row

\* Renewing the stamp of a row keeps its sandbox.
LEMMA WrittenRef ==
  ASSUME NEW w, NEW row \in Row, NEW rec, Write(w, row, rec)
  PROVE  computer'.ref = row.ref
BY DEF Write, Row

LEMMA LeaveCareful ==
  ASSUME IInv, NEW w \in Workers, NEW ok \in BOOLEAN, NEW statuses, Leave(w, ok, statuses),
         job[w].step \notin {"boxed", "undo"}
  PROVE  Careful
BY Aside, EndedGood DEF Leave, Handling

LEMMA WriteAndLeaveCareful ==
  ASSUME IInv, NEW w \in Workers, NEW row \in Row, row.ref = computer.ref, NEW statuses,
         WriteAndLeave(w, row, statuses), job[w].step \notin {"boxed", "undo"}
  PROVE  Careful
<1>1. computer'.ref = computer.ref
  BY WrittenRef DEF WriteAndLeave
<1> QED
  BY <1>1, Aside, EndedGood DEF WriteAndLeave, Handling

LEMMA ProceedCareful ==
  ASSUME IInv, NEW w \in Workers, NEW rec, Proceed(w, rec),
         rec.step \notin Handling, job[w].step \notin {"boxed", "undo"}
  PROVE  Careful
BY Aside DEF Proceed

LEMMA AdvanceCareful ==
  ASSUME IInv, NEW w \in Workers, NEW row \in Row, row.ref = computer.ref, NEW rec,
         Advance(w, row, rec), rec.step \notin Handling, job[w].step \notin {"boxed", "undo"}
  PROVE  Careful
<1>1. computer'.ref = computer.ref
  BY WrittenRef DEF Advance
<1> QED
  BY <1>1, Aside DEF Advance

\* A row in another state names the same sandbox.
LEMMA RowKept ==
  ASSUME IInv, NEW state \in Settled \cup Claimed
  PROVE  /\ [computer EXCEPT !.state = state] \in Row
         /\ [computer EXCEPT !.state = state].ref = computer.ref
         /\ [computer EXCEPT !.state = state, !.control = "none"] \in Row
         /\ [computer EXCEPT !.state = state, !.control = "none"].ref = computer.ref
BY RowMoved, RefKept

-----------------------------------------------------------------------------
(* Steps beside the provider.                                              *)

LEMMA LeaseCareful ==
  ASSUME IInv, NEW w \in Workers, Take(w) \/ Validate(w) \/ FinishTurn(w) \/ HandOver(w)
  PROVE  Careful
<1>0. job[w].step \notin {"boxed", "undo"}
  BY DEF Take, Validate, FinishTurn, HandOver, At
<1>1. AfterLease(w).step \in {"look", "enter"}
  BY GotoGood, StepNames DEF AfterLease
<1>2. AfterLease(w).step \notin Handling
  BY <1>1 DEF Handling
<1>3. CASE Validate(w)
  BY <1>0, <1>2, <1>3, LeaveCareful, ProceedCareful DEF Validate
<1>4. CASE FinishTurn(w)
  BY <1>0, <1>4, LeaveCareful DEF FinishTurn
<1>5. CASE HandOver(w)
  <2>1. Put(w, Idle) /\ UNCHANGED Others /\ Idle.step = "idle"
    BY <1>5 DEF HandOver, Idle
  <2> QED
    BY <1>0, <2>1, Aside DEF Others, Handling
<1>6. CASE Take(w)
  <2> DEFINE b == job[w].bot
             rec == [Goto(w, "validate") EXCEPT !.fence = leases[b].fence + 1]
  <2>1. CASE Put(w, rec) /\ UNCHANGED Others
    <3>1. Goto(w, "validate") \in Job /\ Goto(w, "validate").step = "validate"
      BY GotoGood, StepNames DEF Good
    <3>2. rec.step = "validate"
      BY <3>1 DEF Job
    <3> HIDE DEF rec
    <3> QED
      BY <1>0, <2>1, <3>2, Aside DEF Others, Handling
  <2> QED
    BY <1>0, <1>2, <1>6, <2>1, LeaveCareful, ProceedCareful DEF Take
<1> QED
  BY <1>3, <1>4, <1>5, <1>6

LEMMA GiveUpCareful ==
  ASSUME IInv, NEW w \in Workers, GiveUp(w), job[w].step \notin {"boxed", "undo"}
  PROVE  Careful
<1>1. CASE Replaces(w)
  <2> DEFINE rec == [Goto(w, "broken") EXCEPT
                       !.mine = @ /\ (At(w, "enter") \/ job[w].seen \notin Claimed)]
  <2>1. Goto(w, "broken") \in Job /\ Goto(w, "broken").step = "broken"
    BY GotoGood, StepNames DEF Good
  <2>2. rec.step = "broken"
    BY <2>1 DEF Job
  <2>3. Proceed(w, rec)
    BY <1>1 DEF GiveUp
  <2> HIDE DEF rec
  <2> QED
    BY <2>2, <2>3, ProceedCareful DEF Handling
<1>2. CASE ~Replaces(w)
  BY <1>2, LeaveCareful DEF GiveUp
<1> QED
  BY <1>1, <1>2

LEMMA EnterCareful ==
  ASSUME IInv, NEW w \in Workers, Observe(w) \/ Await(w)
  PROVE  Careful
<1>0. job[w].step \notin {"boxed", "undo"}
  BY DEF Observe, Await, At
<1>1. /\ Seen(w, "claim").step = "claim" /\ Seen(w, "await").step = "await"
      /\ Seen(w, "await") \in Job
  BY SeenGood, StepNames DEF Good
<1> DEFINE rec == [Seen(w, "await") EXCEPT !.mine = TRUE, !.flag = computer.old]
<1>2. rec.step = "await"
  BY <1>1 DEF Job
<1>3. GiveUp(w) \/ Proceed(w, Seen(w, "claim")) \/ Proceed(w, rec)
  BY DEF Observe, Await
<1> HIDE DEF rec
<1> QED
  BY <1>0, <1>1, <1>2, <1>3, GiveUpCareful, ProceedCareful DEF Handling

LEMMA RecordCareful ==
  ASSUME IInv, NEW w \in Workers, Record(w)
  PROVE  Careful
<1>0. job[w].step \notin {"boxed", "undo"}
  BY DEF Record, At
<1> DEFINE state == IF Reconnecting(w) THEN "running" ELSE "error"
           row == [computer EXCEPT !.state = state]
<1>1. state \in Settled
  BY States
<1> HIDE DEF state
<1>2. row \in Row /\ row.ref = computer.ref
  BY <1>1, RowKept
<1>3. WriteAndLeave(w, row, Failed) \/ Leave(w, FALSE, Failed)
  BY DEF Record, state
<1> HIDE DEF row
<1> QED
  BY <1>0, <1>2, <1>3, LeaveCareful, WriteAndLeaveCareful

LEMMA SeizeCareful ==
  ASSUME IInv, NEW w \in Workers, Look(w) \/ Seize(w) \/ Recheck(w) \/ Broken(w)
  PROVE  Careful
<1>0. job[w].step \notin {"boxed", "undo"} /\ job[w].seen \in Settled \cup Claimed
  BY JobOf DEF Look, Seize, Recheck, Broken, At, Job
<1> DEFINE rec == [Seen(w, "seize") EXCEPT !.mine = TRUE]
           row(state) == [computer EXCEPT !.state = state]
<1>1. rec.step = "seize" /\ Holding(w, "seized").step = "seized" /\ Goto(w, "clear").step = "clear"
  <2>1. Seen(w, "seize") \in Job /\ Seen(w, "seize").step = "seize"
    BY SeenGood, StepNames DEF Good
  <2>2. rec.step = "seize"
    BY <2>1 DEF Job
  <2> QED
    BY <2>2, GotoGood, StepNames
<1>2. \A state \in Settled \cup Claimed : row(state) \in Row /\ row(state).ref = computer.ref
  BY RowKept
<1>3. \/ Leave(w, FALSE, Busy) \/ Proceed(w, rec) \/ Proceed(w, Goto(w, "clear"))
      \/ Advance(w, row("suspending"), Holding(w, "seized"))
      \/ \E state \in {job[w].seen, "error"} : WriteAndLeave(w, row(state), Busy)
  BY DEF Look, Seize, Recheck, Broken
<1>4. {"suspending", "error", job[w].seen} \subseteq Settled \cup Claimed
  BY <1>0, States
<1> HIDE DEF rec, row
<1> QED
  BY <1>0, <1>1, <1>2, <1>3, <1>4, LeaveCareful, ProceedCareful, AdvanceCareful,
     WriteAndLeaveCareful DEF Handling

LEMMA SleepCareful ==
  ASSUME IInv, NEW w \in Workers,
         \/ Doze(w) \/ Saving(w) \/ Rest(w) \/ Shut(w) \/ Halted(w)
         \/ (WakeAgain(w) /\ At(w, "halt"))
         \/ (InSuspending(w, "error") /\ At(w, "halting"))
  PROVE  Careful
<1>0. job[w].step \notin {"boxed", "undo"}
  BY DEF Doze, Saving, Rest, Shut, Halted, At
<1> DEFINE row(state) == [computer EXCEPT !.state = state]
           ended(state) == [computer EXCEPT !.state = state, !.control = "none"]
           rec == [Holding(w, "shutting") EXCEPT !.flag = job[w].seen # computer.state]
<1>1. \A state \in Settled \cup Claimed :
        row(state) \in Row /\ ended(state) \in Row
          /\ row(state).ref = computer.ref /\ ended(state).ref = computer.ref
  BY RowKept
<1>2. rec.step = "shutting" /\ Holding(w, "saving").step = "saving" /\ Goto(w, "halt").step = "halt"
  <2>1. Holding(w, "shutting") \in Job /\ Holding(w, "shutting").step = "shutting"
    BY GotoGood, StepNames DEF Good
  <2>2. rec.step = "shutting"
    BY <2>1 DEF Job
  <2> QED
    BY <2>2, GotoGood, StepNames
<1>3. \/ Leave(w, FALSE, {}) \/ Proceed(w, Goto(w, "halt"))
      \/ Advance(w, row("suspending"), Holding(w, "saving")) \/ Advance(w, row("suspending"), rec)
      \/ \E state \in {"running", "error"} : WriteAndLeave(w, row(state), {})
      \/ \E state \in {"suspended", "stopped"} : WriteAndLeave(w, ended(state), {})
  BY DEF Doze, Saving, WakeAgain, Rest, Shut, InSuspending, Halted
<1>4. {"running", "error", "suspended", "stopped", "suspending"} \subseteq Settled \cup Claimed
  BY States
<1> HIDE DEF row, ended, rec
<1> QED
  BY <1>0, <1>1, <1>2, <1>3, <1>4, LeaveCareful, ProceedCareful, AdvanceCareful,
     WriteAndLeaveCareful DEF Handling

LEMMA ShuttingCareful ==
  ASSUME IInv, NEW w \in Workers, Shutting(w)
  PROVE  Careful
<1>0. job[w].step \notin {"boxed", "undo"} /\ job[w].seen \in Settled \cup Claimed
  BY JobOf DEF Shutting, At, Job
<1>1. CASE PutBack(w)
  <2> DEFINE row == [computer EXCEPT !.state = job[w].seen]
  <2>1. row \in Row /\ row.ref = computer.ref
    BY <1>0, RowKept
  <2>2. CASE Write(w, row, Idle) /\ adrift \subseteq adrift' /\ boxes' = boxes
    <3> HIDE DEF row
    <3>1. computer'.ref = computer.ref /\ Idle.step = "idle"
      BY <2>1, <2>2, WrittenRef DEF Idle
    <3> QED
      BY <1>0, <2>2, <3>1, Aside DEF Handling
  <2> QED
    BY <1>0, <1>1, <2>2, LeaveCareful DEF PutBack
<1>2. CASE Put(w, Goto(w, "halting")) /\ adrift \subseteq adrift' /\ UNCHANGED <<computer, boxes>>
  <2>1. Goto(w, "halting").step = "halting"
    BY GotoGood, StepNames
  <2> QED
    BY <1>0, <1>2, <2>1, Aside DEF Handling
<1> QED
  BY <1>1, <1>2 DEF Shutting

LEMMA BeginCareful ==
  ASSUME IInv, NEW w \in Workers,
         \/ StartSleep(w)
         \/ \E b \in computer.bots : StartTurn(w, b) \/ StartManual(w, b) \/ StartStop(w, b)
         \/ \E u \in DOMAIN updates : PerformUpdate(w, u)
  PROVE  Careful
<1>0. computer.bots \subseteq Bots /\ computer.state \in Settled \cup Claimed
      /\ computer.ref \in Boxes \cup {NoBox} /\ computer.control \in {"none", "held", "lapsed"}
  BY DEF IInv, JobsOK, Row
<1>1. PICK rec : Begin(w, rec) /\ rec.step \in {"take", "shut", "look", "doze"}
  <2>1. ASSUME NEW b \in computer.bots, StartTurn(w, b) \/ StartManual(w, b)
        PROVE  \E rec : Begin(w, rec) /\ rec.step = "take"
    <3>1. "take" \in Steps \ {"boxed", "using"} /\ b \in Bots
      BY <1>0, StepNames
    <3>2. /\ Operation("turn", b, "take").step = "take"
          /\ Operation("boot", b, "take").step = "take"
          /\ Operation("reset", b, "take").step = "take"
      BY <3>1, OperationGood
    <3> QED
      BY <2>1, <3>2 DEF StartTurn, StartManual
  <2>2. ASSUME NEW b \in computer.bots, StartStop(w, b)
        PROVE  \E rec : Begin(w, rec) /\ rec.step = "shut"
    <3> DEFINE base == Operation("stop", b, "shut")
               rec == [base EXCEPT !.seen = computer.state, !.ref = computer.ref]
    <3>0. "shut" \in Steps \ {"boxed", "using"} /\ b \in Bots \cup {Nobody}
      BY <1>0, StepNames
    <3>1. base \in Job /\ base.step = "shut"
      BY <3>0, OperationGood DEF Good
    <3> HIDE DEF base
    <3>2. rec.step = "shut"
      BY <3>1 DEF Job
    <3>3. Begin(w, rec)
      BY <2>2 DEF StartStop, base
    <3> QED
      BY <3>2, <3>3
  <2>3. ASSUME NEW u \in DOMAIN updates, PerformUpdate(w, u)
        PROVE  \E rec : Begin(w, rec) /\ rec.step = "look"
    <3>1. PICK b \in computer.bots : Begin(w, [Operation("update", b, "look") EXCEPT !.upd = u])
      BY <2>3 DEF PerformUpdate
    <3> DEFINE base == Operation("update", b, "look")
               rec == [base EXCEPT !.upd = u]
    <3>0. "look" \in Steps \ {"boxed", "using"} /\ b \in Bots \cup {Nobody}
      BY <1>0, StepNames
    <3>2. base \in Job /\ base.step = "look"
      BY <3>0, OperationGood DEF Good
    <3>3. Begin(w, rec)
      BY <3>1
    <3> HIDE DEF base
    <3>4. rec.step = "look"
      BY <3>2 DEF Job
    <3> QED
      BY <3>3, <3>4
  <2>4. ASSUME StartSleep(w) PROVE \E rec : Begin(w, rec) /\ rec.step = "doze"
    <3> DEFINE base == Operation("sleep", Nobody, "doze")
               rec == [base EXCEPT !.ref = computer.ref, !.mine = TRUE,
                                   !.flag = computer.control = "held"]
    <3>1. "doze" \in Steps \ {"boxed", "using"} /\ Nobody \in Bots \cup {Nobody}
      BY StepNames
    <3>2. base \in Job /\ base.step = "doze"
      BY <3>1, OperationGood DEF Good
    <3>3. Begin(w, rec)
      BY <2>4 DEF StartSleep
    <3> HIDE DEF base
    <3>4. rec.step = "doze"
      BY <3>2 DEF Job
    <3> QED
      BY <3>3, <3>4
  <2> QED
    BY <2>1, <2>2, <2>3, <2>4
<1>2. UNCHANGED Unmoved /\ Put(w, rec) /\ job[w].step = "idle"
  BY <1>1 DEF StartSleep, StartTurn, StartManual, StartStop, PerformUpdate, Begin, At
<1> QED
  BY <1>1, <1>2, Aside DEF Unmoved, Handling

LEMMA FinishCareful ==
  ASSUME IInv, NEW w \in Workers, FinishUpdate(w)
  PROVE  Careful
<1>0. job[w].step \notin {"boxed", "undo"} /\ Idle.step = "idle"
  BY DEF FinishUpdate, Idle
<1>1. boxes' = boxes /\ adrift' = adrift
      /\ (Put(w, Idle) \/ \E row : Write(w, row, Idle)) /\ computer'.ref = computer.ref
  <2>1. Unreserved(job[w].upd) \in Row /\ Unreserved(job[w].upd).ref = computer.ref
    BY UpdateFacts DEF Unreserved, Row, NoUpdate
  <2>2. CASE Write(w, Unreserved(job[w].upd), Idle)
    <3> DEFINE row == Unreserved(job[w].upd)
    <3> HIDE DEF row
    <3>1. Write(w, row, Idle) /\ row \in Row /\ row.ref = computer.ref
      BY <2>1, <2>2 DEF row
    <3> QED
      BY <3>1, WrittenRef DEF FinishUpdate
  <2> QED
    BY <2>2 DEF FinishUpdate
<1> QED
  BY <1>0, <1>1, Aside DEF Handling

\* What is written by nobody who works at the computer.
LEMMA WorldCareful ==
  ASSUME IInv,
         \/ (\E b \in computer.bots : Grant(b)) \/ EndControl \/ QueueUpdate
         \/ \E u \in DOMAIN updates : ReleaseInterrupted(u)
  PROVE  Careful
<1>1. PICK row \in Row : row.ref = computer.ref /\ Write(Nobody, row, Idle)
  <2>1. /\ \A control \in {"held", "none"} : [computer EXCEPT !.control = control] \in Row
        /\ \A u \in Nat : [computer EXCEPT !.maintenance = u] \in Row
        /\ [computer EXCEPT !.maintenance = NoUpdate, !.state = "error"] \in Row
        /\ Len(updates) + 1 \in Nat
    <3>1. computer \in Row /\ Len(updates) + 1 \in Nat
      BY UpdateFacts
    <3>2. \A control \in {"held", "none"} : [computer EXCEPT !.control = control] \in Row
      BY <3>1 DEF Row
    <3>3. \A u \in Nat : [computer EXCEPT !.maintenance = u] \in Row
      BY <3>1 DEF Row
    <3>4. [computer EXCEPT !.maintenance = NoUpdate, !.state = "error"] \in Row
      BY <3>1, States DEF Row, NoUpdate
    <3> QED
      BY <3>1, <3>2, <3>3, <3>4
  <2>2. \/ \E control \in {"held", "none"} : Write(Nobody, [computer EXCEPT !.control = control], Idle)
        \/ \E u \in Nat : Write(Nobody, [computer EXCEPT !.maintenance = u], Idle)
        \/ Write(Nobody, [computer EXCEPT !.maintenance = NoUpdate, !.state = "error"], Idle)
    BY <2>1 DEF Grant, EndControl, SetControl, QueueUpdate, ReleaseInterrupted
  <2> QED
    BY <2>1, <2>2, RefKept
<1>2. boxes' = boxes /\ adrift' = adrift
  BY DEF Grant, EndControl, SetControl, QueueUpdate, ReleaseInterrupted
<1>3. computer'.ref = computer.ref
  BY <1>1, WrittenRef
<1>4. Nobody \notin Workers
  BY NamesAssumption
<1> QED
  BY <1>1, <1>2, <1>3, <1>4, Aside

LEMMA PassingCareful ==
  ASSUME IInv,
         \/ \E b \in computer.bots : NewRun(b) \/ Return(b) \/ Cancel(b) \/ ExpireRun(b)
                                       \/ ExpireLease(b)
         \/ Lapse \/ GrowOld \/ (\E u \in DOMAIN updates : Interrupt(u))
         \/ UNCHANGED vars
  PROVE  Careful
<1>1. job' = job /\ boxes' = boxes /\ adrift' = adrift
  BY DEF NewRun, Return, Cancel, ExpireRun, ExpireLease, SetRun, Others, Lapse, GrowOld, Interrupt,
         vars
<1>2. computer'.ref = computer.ref
  BY DEF NewRun, Return, Cancel, ExpireRun, ExpireLease, SetRun, Others, Lapse, GrowOld, Interrupt,
         vars, IInv, JobsOK, Row
<1> QED
  BY <1>1, <1>2, NothingMoves

-----------------------------------------------------------------------------
(* Steps with the provider.                                                *)

\* A step of one worker is careful if it is so with the sandboxes and what the
\* worker carries.
LEMMA OneCareful ==
  ASSUME IInv, NEW w \in Workers, NEW rec, Put(w, rec) \/ \E row : Write(w, row, rec),
         adrift \subseteq adrift', Carries(w),
         \A b \in Boxes : boxes[b] = "gone" => boxes'[b] = "gone",
         computer.ref = computer'.ref \/ computer.ref \in adrift' \/ Lost(computer.ref),
         \A b \in Boxes : boxes'[b] = "running" => boxes[b] = "running" \/ b \in InHand'
  PROVE  Careful
<1>1. \A x \in Workers \ {w} : Same(x)
  BY OthersSame
<1> QED
  BY <1>1 DEF Careful

\* A step of a worker that keeps the row and the provider's sandboxes as they are.
LEMMA HandCareful ==
  ASSUME IInv, NEW w \in Workers, NEW rec, Put(w, rec), boxes' = boxes, adrift \subseteq adrift',
         computer' = computer, Carries(w)
  PROVE  Careful
BY OneCareful

\* What the record of a worker becomes when it only goes to another step.
LEMMA StepTo ==
  ASSUME IInv, NEW w \in Workers, NEW step \in Steps, Put(w, Goto(w, step))
  PROVE  /\ job'[w].step = step /\ job'[w].box = job[w].box /\ job'[w].ref = job[w].ref
         /\ job'[w].seen = job[w].seen /\ (Reconnecting(w)' <=> Reconnecting(w))
<1>1. job[w] \in Job /\ job'[w] = [job[w] EXCEPT !.step = step]
  BY JobOf, OthersSame DEF Goto
<1>2. /\ job'[w].step = step /\ job'[w].box = job[w].box /\ job'[w].ref = job[w].ref
      /\ job'[w].seen = job[w].seen
  BY <1>1 DEF Job
<1> QED
  BY <1>2 DEF Reconnecting

LEMMA ClaimCareful ==
  ASSUME IInv, NEW w \in Workers, Claim(w)
  PROVE  Careful
<1>0. job[w].step = "claim" /\ job[w] \in Job
  BY JobOf DEF Claim, At
<1>1. CASE GiveUp(w)
  BY <1>0, <1>1, GiveUpCareful
<1>2. CASE /\ Claimable(w)
           /\ Advance(w, [computer EXCEPT !.state = "booting"],
                      [Holding(w, "boot") EXCEPT !.flag = FALSE])
  <2> DEFINE row == [computer EXCEPT !.state = "booting"]
             rec == [Holding(w, "boot") EXCEPT !.flag = FALSE]
  <2>1. row \in Row /\ row.ref = computer.ref
    BY RowKept, States
  <2>2. rec.step = "boot" /\ rec.ref = job[w].ref /\ rec.seen = job[w].seen
    BY <1>0 DEF Holding, Job
  <2> HIDE DEF row, rec
  <2>3. Advance(w, row, rec)
    BY <1>2 DEF row, rec
  <2>4. computer'.ref = computer.ref /\ job'[w] = rec
    BY <2>1, <2>3, WrittenRef, OthersSame DEF Advance
  <2>5. job[w].seen # "booting" => computer.ref = job[w].ref
    BY <1>2 DEF Claimable
  <2>6. Carries(w)
    BY <1>0, <2>2, <2>4, <2>5 DEF Carries, Traced, Reconnecting
  <2> QED
    BY <2>3, <2>4, <2>6, OneCareful DEF Advance
<1> QED
  BY <1>1, <1>2 DEF Claim

LEMMA ProvideCareful ==
  ASSUME IInv, Accounted, NEW w \in Workers, Provide(w)
  PROVE  Careful
<1>0. /\ job[w].step = "boot" /\ job[w] \in Job /\ boxes \in [Boxes -> BoxStates]
      /\ job[w].ref \in Boxes \cup {NoBox} /\ Traced(w)
  BY JobOf, RefShape DEF Provide, At, IInv, StoreOK, Accounted
<1>1. PICK b \in IF job[w].ref # NoBox /\ boxes[job[w].ref] # "gone" THEN {job[w].ref} ELSE Unused :
        Provider(w, [boxes EXCEPT ![b] = "running"], [Goto(w, "boxed") EXCEPT !.box = b])
  BY DEF Provide
<1>2. b \in Boxes /\ boxes[b] # "gone" /\ (b # job[w].ref => Lost(job[w].ref) /\ boxes[b] = "none")
  BY <1>0, <1>1 DEF Unused, Lost
<1> DEFINE rec == [Goto(w, "boxed") EXCEPT !.box = b]
<1>3. rec.step = "boxed" /\ rec.box = b /\ rec.ref = job[w].ref /\ rec.seen = job[w].seen
  BY <1>0 DEF Goto, Job
<1> HIDE DEF rec
<1>4. Put(w, rec) /\ boxes' = [boxes EXCEPT ![b] = "running"] /\ UNCHANGED <<computer, adrift>>
  BY <1>1 DEF Provider, rec
<1>5. job'[w] = rec
  BY <1>4, OthersSame
<1>6. \A c \in Boxes : boxes'[c] = IF c = b THEN "running" ELSE boxes[c]
  BY <1>0, <1>4
<1>7. b \in InHand'
  BY <1>3, <1>5 DEF InHand
<1>8. Lost(job[w].ref) => Lost(job[w].ref)'
  BY <1>0, <1>2, <1>3, <1>5, <1>6 DEF Lost
<1>9. Carries(w)
  <2>1. job'[w].ref = job'[w].box \/ Lost(job[w].ref)'
    BY <1>2, <1>3, <1>5, <1>8
  <2>2. Reconnecting(w)' =>
          job'[w].ref = computer'.ref \/ Lost(job[w].ref)' \/ job'[w].ref \in adrift'
    BY <1>0, <1>3, <1>4, <1>5, <1>8 DEF Traced, Reconnecting
  <2> QED
    BY <1>0, <1>3, <1>5, <2>1, <2>2 DEF Carries, Traced
<1> QED
  BY <1>2, <1>4, <1>6, <1>7, <1>9, OneCareful

LEMMA ActivateCareful ==
  ASSUME IInv, Accounted, NEW w \in Workers, Activate(w) \/ Fail(w)
  PROVE  Careful
<1>0. /\ job[w].step \in {"boot", "boxed"} /\ job[w] \in Job /\ Good(job[w]) /\ Traced(w)
      /\ computer \in Row
  BY JobOf DEF Activate, Fail, At, Accounted, IInv, JobsOK
<1>1. CASE Proceed(w, Goto(w, "undo"))
  <2>1. Put(w, Goto(w, "undo")) /\ boxes' = boxes /\ adrift' = adrift /\ computer' = computer
    BY <1>1 DEF Proceed
  <2>2. /\ job'[w].step = "undo" /\ job'[w].box = job[w].box /\ job'[w].ref = job[w].ref
        /\ (Reconnecting(w)' <=> Reconnecting(w))
    BY <2>1, StepTo, StepNames
  <2>3. job[w].box \in InHand'
    BY <2>2 DEF InHand
  <2>4. Traced(w)'
    BY <1>0, <2>1, <2>2 DEF Traced, Lost
  <2>5. Carries(w)
    BY <2>3, <2>4 DEF Carries, Safe
  <2> QED
    BY <2>1, <2>5, HandCareful
<1> DEFINE row == [computer EXCEPT !.state = "running", !.ref = job[w].box]
           rec == [Operation("turn", job[w].bot, "using")
                     EXCEPT !.box = job[w].box, !.fence = job[w].fence]
<1>2. ASSUME NEW new \in {rec, Ended(w, TRUE)}, At(w, "boxed"), StillClaimed(w),
             Write(w, row, new), boxes' = boxes, adrift' = adrift
      PROVE  Careful
  <2>1. row \in Row /\ row.ref = job[w].box
    BY <1>0, <1>2, States DEF Row, At, Good
  <2>2. rec.step = "using" /\ Ended(w, TRUE).step \in {"idle", "completed", "failed"}
    BY EndedGood DEF Operation, Idle
  <2> HIDE DEF row, rec
  <2>3. computer'.ref = job[w].box /\ job'[w] = new
    BY <1>2, <2>1, WrittenRef, OthersSame
  <2>4. computer.ref = computer'.ref \/ Lost(computer.ref)
    BY <1>0, <1>2, <2>3 DEF StillClaimed, At, Traced
  <2>5. Carries(w)
    BY <1>2, <2>2, <2>3 DEF Carries, Traced, Safe
  <2> QED
    BY <1>2, <2>4, <2>5, OneCareful
<1>3. \/ Proceed(w, Goto(w, "undo"))
      \/ /\ At(w, "boxed") /\ StillClaimed(w) /\ boxes' = boxes /\ adrift' = adrift
         /\ Write(w, row, rec) \/ Write(w, row, Ended(w, TRUE))
  BY DEF Activate, Fail, Advance
<1> HIDE DEF row, rec
<1> QED
  BY <1>1, <1>2, <1>3

LEMMA UndoCareful ==
  ASSUME IInv, Accounted, NEW w \in Workers, Undo(w)
  PROVE  Careful
<1>0. /\ job[w].step = "undo" /\ job[w] \in Job /\ Traced(w) /\ boxes \in [Boxes -> BoxStates]
      /\ job[w].box \in Boxes \cup {NoBox}
  BY JobOf, RefShape DEF Undo, At, Accounted, IInv, StoreOK
<1>1. Put(w, Goto(w, "record")) /\ UNCHANGED <<computer, adrift>>
  BY DEF Undo, Provider, Proceed
<1>2. Traced(w)' /\ job'[w].step = "record"
  BY <1>1, StepTo, StepNames DEF Traced
<1>3. CASE job[w].box # NoBox /\ (~Reconnecting(w) \/ Fresh(w))
  <2>1. boxes' = [boxes EXCEPT ![job[w].box] = RolledBack(w)]
    BY <1>3 DEF Undo, Provider
  <2>2. /\ RolledBack(w) # "running"
        /\ boxes[job[w].box] = "gone" => RolledBack(w) = "gone"
    BY DEF RolledBack
  <2>3. \A b \in Boxes : boxes'[b] = IF b = job[w].box THEN RolledBack(w) ELSE boxes[b]
    BY <1>0, <2>1
  <2>4. Carries(w)
    BY <1>0, <1>2, <1>3, <2>2, <2>3 DEF Carries, Safe
  <2> QED
    BY <1>1, <2>2, <2>3, <2>4, OneCareful
<1>4. CASE ~(job[w].box # NoBox /\ (~Reconnecting(w) \/ Fresh(w)))
  <2>1. boxes' = boxes
    BY <1>4 DEF Undo, Proceed
  <2>2. job[w].box = NoBox \/ (Reconnecting(w) /\ job[w].box = job[w].ref)
    BY <1>4 DEF Fresh
  <2>3. Safe(job[w].box)
    BY <1>0, <1>1, <2>1, <2>2 DEF Safe, Traced, Lost
  <2>4. Carries(w)
    BY <1>2, <2>3 DEF Carries
  <2> QED
    BY <1>1, <2>1, <2>4, HandCareful
<1> QED
  BY <1>3, <1>4

LEMMA VacateCareful ==
  ASSUME IInv, Accounted, NEW w \in Workers, Clear(w) \/ Vacate(w)
  PROVE  Careful
<1>0. /\ job[w].step \in {"clear", "vacate"} /\ job[w] \in Job /\ Traced(w)
      /\ boxes \in [Boxes -> BoxStates] /\ job[w].ref \in Boxes \cup {NoBox} /\ computer \in Row
  BY JobOf, RefShape DEF Clear, Vacate, At, Accounted, IInv, StoreOK, JobsOK
<1>1. CASE Proceed(w, Goto(w, "broken"))
  <2>1. Goto(w, "broken").step = "broken"
    BY GotoGood, StepNames
  <2> QED
    BY <1>0, <1>1, <2>1, ProceedCareful DEF Handling
<1>2. CASE Clear(w) /\ ~Proceed(w, Goto(w, "broken"))
  <2>1. Put(w, Goto(w, "vacate")) /\ UNCHANGED <<computer, adrift>>
    BY <1>2 DEF Clear, Provider, Proceed
  <2>2. job'[w].step = "vacate" /\ job'[w].ref = job[w].ref
    BY <2>1, StepTo, StepNames
  <2>3. \/ job[w].ref = NoBox /\ boxes' = boxes
        \/ /\ job[w].ref # NoBox
           /\ \A b \in Boxes : boxes'[b] = IF b = job[w].ref THEN "gone" ELSE boxes[b]
    BY <1>0, <1>2 DEF Clear, Provider, Proceed
  <2>4. Lost(job[w].ref)'
    BY <1>0, <2>2, <2>3 DEF Lost
  <2>5. Carries(w)
    BY <1>0, <2>2, <2>4 DEF Carries, Traced
  <2> QED
    BY <2>1, <2>3, <2>5, OneCareful
<1>3. CASE Vacate(w) /\ ~Proceed(w, Goto(w, "broken"))
  <2> DEFINE row == [computer EXCEPT !.state = "stopped", !.ref = NoBox, !.control = "none"]
             rec == [Holding(w, "enter") EXCEPT !.seen = "stopped", !.ref = NoBox]
  <2>1. /\ Write(w, row, rec) /\ boxes' = boxes /\ At(w, "vacate")
        /\ adrift' = adrift \cup ({computer.ref} \ {job[w].ref, NoBox})
    BY <1>3 DEF Vacate
  <2>2. row \in Row /\ rec.step = "enter"
    BY <1>0, States DEF Row, Holding, Job
  <2> HIDE DEF row, rec
  <2>3. job'[w] = rec
    BY <2>1, OthersSame
  <2>4. computer.ref \in adrift' \/ Lost(computer.ref)
    BY <1>0, <2>1 DEF Traced, At, Lost
  <2>5. Carries(w)
    BY <1>0, <2>2, <2>3 DEF Carries, Traced
  <2> QED
    BY <2>1, <2>4, <2>5, OneCareful
<1> QED
  BY <1>1, <1>2, <1>3

LEMMA HaltCareful ==
  ASSUME IInv, NEW w \in Workers, Halt(w) \/ Halting(w)
  PROVE  Careful
<1>0. /\ job[w].step \in {"halt", "halting"} /\ boxes \in [Boxes -> BoxStates]
  BY DEF Halt, Halting, At, IInv, StoreOK
<1> DEFINE to == [boxes EXCEPT ![job[w].ref] = IF @ = "running" THEN "stopped" ELSE @]
<1>1. \/ WakeAgain(w) /\ At(w, "halt")
      \/ InSuspending(w, "error") /\ At(w, "halting")
      \/ Proceed(w, Goto(w, "halted"))
      \/ Provider(w, to, Goto(w, "rest"))
      \/ Provider(w, to, Goto(w, "halted"))
  <2>1. CASE Halt(w)
    BY <2>1, Zenon DEF Halt
  <2>2. CASE Halting(w)
    BY <2>2, Zenon DEF Halting
  <2> QED
    BY <2>1, <2>2
<1>2. /\ \A b \in Boxes : boxes[b] = "gone" => to[b] = "gone"
      /\ \A b \in Boxes : to[b] = "running" => boxes[b] = "running"
  BY <1>0
<1> HIDE DEF to
<1>3. ASSUME NEW step \in {"rest", "halted"}, Provider(w, to, Goto(w, step)) PROVE Careful
  <2>1. Put(w, Goto(w, step)) /\ boxes' = to /\ UNCHANGED <<computer, adrift>>
    BY <1>3 DEF Provider
  <2>2. job'[w].step = step
    BY <2>1, StepTo, StepNames
  <2>3. Carries(w)
    BY <1>0, <2>2 DEF Carries, Traced
  <2> QED
    BY <1>2, <2>1, <2>3, OneCareful
<1>4. CASE Proceed(w, Goto(w, "halted"))
  <2>1. Goto(w, "halted").step = "halted"
    BY GotoGood, StepNames
  <2> QED
    BY <1>0, <1>4, <2>1, ProceedCareful DEF Handling
<1> QED
  BY <1>1, <1>3, <1>4, SleepCareful

LEMMA CrashCareful ==
  ASSUME IInv, NEW w \in Workers, Crash(w)
  PROVE  Careful
<1>1. /\ Put(w, Idle) /\ boxes' = boxes /\ computer' = computer
      /\ adrift' = adrift \cup ({job[w].box} \ {NoBox})
  BY DEF Crash
<1>2. job'[w] = Idle /\ Idle.step = "idle"
  BY <1>1, OthersSame DEF Idle
<1>3. Carries(w)
  BY <1>1, <1>2 DEF Carries, Traced, Safe
<1> QED
  BY <1>1, <1>3, HandCareful

-----------------------------------------------------------------------------
\* Every step is careful.
LEMMA NextCareful ==
  ASSUME IInv, Accounted, [Next]_vars
  PROVE  Careful
<1>1. ASSUME NEW w \in Workers, Continue(w) PROVE Careful
  <2>1. CASE Take(w) \/ Validate(w) \/ FinishTurn(w)
    BY <2>1, LeaseCareful
  <2>2. CASE Observe(w) \/ Await(w) \/ Claim(w) \/ Provide(w) \/ Activate(w) \/ Undo(w) \/ Record(w)
    BY <2>2, EnterCareful, ClaimCareful, ProvideCareful, ActivateCareful, UndoCareful, RecordCareful
  <2>3. CASE Look(w) \/ Seize(w) \/ Recheck(w) \/ Clear(w) \/ Vacate(w) \/ Broken(w) \/ FinishUpdate(w)
    BY <2>3, SeizeCareful, VacateCareful, FinishCareful
  <2>4. CASE Doze(w) \/ Saving(w) \/ Rest(w) \/ Shut(w) \/ Halted(w)
    BY <2>4, SleepCareful
  <2>5. CASE Halt(w) \/ Halting(w) \/ Shutting(w)
    BY <2>5, ShuttingCareful, HaltCareful
  <2> QED
    BY <1>1, <2>1, <2>2, <2>3, <2>4, <2>5 DEF Continue
<1>2. ASSUME NEW w \in Workers, HandOver(w) \/ Fail(w) \/ Crash(w) PROVE Careful
  BY <1>2, LeaseCareful, ActivateCareful, CrashCareful
<1>3. ASSUME NEW w \in Workers,
             \/ StartSleep(w)
             \/ \E b \in computer.bots : StartTurn(w, b) \/ StartManual(w, b) \/ StartStop(w, b)
             \/ \E u \in DOMAIN updates : PerformUpdate(w, u)
      PROVE  Careful
  BY <1>3, BeginCareful
<1>4. ASSUME \/ (\E b \in computer.bots : Grant(b)) \/ EndControl \/ QueueUpdate
             \/ \E u \in DOMAIN updates : ReleaseInterrupted(u)
      PROVE  Careful
  BY <1>4, WorldCareful
<1>5. ASSUME \/ \E b \in computer.bots : NewRun(b) \/ Return(b) \/ Cancel(b) \/ ExpireRun(b)
                                           \/ ExpireLease(b)
             \/ Lapse \/ GrowOld \/ (\E u \in DOMAIN updates : Interrupt(u))
             \/ UNCHANGED vars
      PROVE  Careful
  BY <1>5, PassingCareful
<1> QED
  BY <1>1, <1>2, <1>3, <1>4, <1>5 DEF Next

LEMMA InitAccounted == Init => Accounted
<1> SUFFICES ASSUME Init PROVE Accounted
  OBVIOUS
<1>1. computer.ref = 1 /\ \A b \in Boxes : boxes[b] = "running" => b = 1
  BY DEF Init
<1>2. \A w \in Workers : job[w].step = "idle"
  BY DEF Init, Idle
<1> QED
  BY <1>1, <1>2 DEF Accounted, NoneAdrift, Traced

\* No sandbox is left running that the row does not name, unless a worker has it
\* in hand, crashed with it, or replaced the computer too late: what the row, the
\* rollback of provisionComputer and the recheck of replaceComputer are for.
THEOREM NoneAdriftHolds == Spec => []NoneAdrift
<1>1. IInv /\ Accounted /\ [Next]_vars => Accounted'
  BY NextCareful, CarefulKeeps
<1>2. Accounted => NoneAdrift
  BY DEF Accounted
<1> QED
  BY <1>1, <1>2, InitAccounted, Invariance, PTL DEF Spec

-----------------------------------------------------------------------------
(* A turn keeps its sandbox.                                               *)
(*                                                                         *)
(* Whoever may stop or destroy a sandbox has seen that no turn works at    *)
(* the computer, and has the row in a state in which none begins to.  So   *)
(* first: who has the row (Stamps), unless claims run out while their      *)
(* holder lives.                                                           *)

\* The steps of a worker that has claimed the row to put the computer to sleep, to stop
\* or to replace it, and of one that has claimed it to provision the computer.
Suspending == {"seized", "clear", "vacate", "saving", "halt", "rest",
               "shutting", "halting", "halted"}
Provisioning == {"boot", "boxed", "undo", "record"}
Resting == {"stopped", "suspended", "error"}

Suspends(w) == job[w].step \in Suspending
Sole(w) == \A x \in Workers \ {w} : ~Suspends(x)

\* What a worker knows of the row as long as nobody has written it.
Reads(rec, row) ==
  rec.mine =>
    /\ rec.step \notin {"take", "validate"}
    /\ rec.step = "enter" => row.state = "stopped"
    /\ rec.step = "doze" => row.state = "running"
    /\ rec.step \in {"await", "claim", "seize"} => rec.seen = row.state
    /\ rec.step = "claim" => rec.seen # "running"
    /\ rec.step \in {"claim", "seize"} /\ rec.seen \in Claimed => row.old
    /\ rec.step = "await" /\ (rec.flag \/ rec.seen = "booting") => row.old
    /\ rec.step \in Provisioning => row.state = "booting"

\* What it knows whatever was written.
Formed(rec) ==
  /\ rec.step = "await" => rec.seen \in Claimed
  /\ rec.step = "seize" => rec.maint \in {NoUpdate, rec.upd}
  /\ rec.op = "turn" => rec.bot \in Bots /\ rec.upd = NoUpdate

\* A claim to suspend is not old, and nobody else has one; nor has anybody while a
\* replacement that failed still has the stamp.
Ordered(w) ==
  /\ Reads(job[w], computer) /\ Formed(job[w])
  /\ Suspends(w) => /\ computer.state = "suspending" /\ ~computer.old
                    /\ computer.maintenance \in {NoUpdate, job[w].upd}
  /\ Suspends(w) \/ (At(w, "broken") /\ job[w].mine) => Sole(w)
Stamps == \A w \in Workers : Ordered(w)

\* What a record says of the step, and what changes when only its step does.
LEMMA Fields ==
  ASSUME NEW rec \in Job
  PROVE  /\ \A step : LET new == [rec EXCEPT !.step = step]
                      IN  /\ new.step = step /\ new.op = rec.op /\ new.bot = rec.bot
                          /\ new.seen = rec.seen /\ new.flag = rec.flag /\ new.ref = rec.ref
                          /\ new.maint = rec.maint /\ new.mine = rec.mine
                          /\ new.box = rec.box /\ new.fence = rec.fence /\ new.upd = rec.upd
         /\ \A step : LET new == [rec EXCEPT !.step = step, !.mine = TRUE]
                      IN  /\ new.step = step /\ new.op = rec.op /\ new.bot = rec.bot
                          /\ new.seen = rec.seen /\ new.flag = rec.flag /\ new.ref = rec.ref
                          /\ new.maint = rec.maint /\ new.mine
                          /\ new.box = rec.box /\ new.fence = rec.fence /\ new.upd = rec.upd
         /\ LET new == [rec EXCEPT !.mine = FALSE]
            IN  /\ new.step = rec.step /\ new.op = rec.op /\ new.bot = rec.bot
                /\ new.seen = rec.seen /\ new.flag = rec.flag /\ new.ref = rec.ref
                /\ new.maint = rec.maint /\ ~new.mine
                /\ new.box = rec.box /\ new.fence = rec.fence /\ new.upd = rec.upd
<1>1. \A step : LET new == [rec EXCEPT !.step = step]
                IN  /\ new.step = step /\ new.op = rec.op /\ new.bot = rec.bot
                    /\ new.seen = rec.seen /\ new.flag = rec.flag /\ new.ref = rec.ref
                    /\ new.maint = rec.maint /\ new.mine = rec.mine
                    /\ new.box = rec.box /\ new.fence = rec.fence /\ new.upd = rec.upd
  BY DEF Job
<1>2. \A step : LET new == [rec EXCEPT !.step = step, !.mine = TRUE]
                IN  /\ new.step = step /\ new.op = rec.op /\ new.bot = rec.bot
                    /\ new.seen = rec.seen /\ new.flag = rec.flag /\ new.ref = rec.ref
                    /\ new.maint = rec.maint /\ new.mine
                    /\ new.box = rec.box /\ new.fence = rec.fence /\ new.upd = rec.upd
  BY DEF Job
<1>3. LET new == [rec EXCEPT !.mine = FALSE]
      IN  /\ new.step = rec.step /\ new.op = rec.op /\ new.bot = rec.bot
          /\ new.seen = rec.seen /\ new.flag = rec.flag /\ new.ref = rec.ref
          /\ new.maint = rec.maint /\ ~new.mine
          /\ new.box = rec.box /\ new.fence = rec.fence /\ new.upd = rec.upd
  BY DEF Job
<1> QED
  BY <1>1, <1>2, <1>3

\* One worker goes on and the row is left alone.
LEMMA PutStamps ==
  ASSUME IInv, Stamps, NEW w \in Workers, NEW rec, Put(w, rec), computer' = computer,
         Reads(rec, computer), Formed(rec),
         rec.step \in Suspending => Suspends(w) /\ rec.upd = job[w].upd,
         rec.step = "broken" /\ rec.mine => Sole(w)
  PROVE  Stamps'
<1>1. /\ job' \in [Workers -> {job'[x] : x \in Workers}] /\ job'[w] = rec
      /\ \A x \in Workers \ {w} : job'[x] = job[x]
  BY DEF Put, IInv, JobsOK
<1>2. \A x \in Workers : Suspends(x)' => Suspends(x)
  BY <1>1 DEF Suspends
<1>3. \A x \in Workers : Sole(x) => Sole(x)'
  BY <1>2 DEF Sole
<1>4. Ordered(w)'
  <2>1. Suspends(w)' => Suspends(w) /\ rec.upd = job[w].upd
    BY <1>1 DEF Suspends
  <2>2. Ordered(w)
    BY DEF Stamps
  <2> QED
    BY <1>1, <1>3, <2>1, <2>2 DEF Ordered, At
<1>5. \A x \in Workers \ {w} : Ordered(x)'
  BY <1>1, <1>3 DEF Stamps, Ordered, Suspends, At
<1> QED
  BY <1>4, <1>5 DEF Stamps

\* Somebody writes the row: the other workers have read in vain.
LEMMA WriteStamps ==
  ASSUME IInv, Stamps, NEW w, NEW row \in Row, NEW rec, Write(w, row, rec),
         w \in Workers => Reads(rec, [row EXCEPT !.old = FALSE]) /\ Formed(rec) /\ rec.step # "broken",
         w \in Workers /\ rec.step \in Suspending =>
           row.state = "suspending" /\ row.maintenance \in {NoUpdate, rec.upd} /\ Sole(w),
         \A x \in Workers \ {w} : Suspends(x) =>
           row.state = "suspending" /\ row.maintenance \in {NoUpdate, job[x].upd}
  PROVE  Stamps'
<1>1. /\ computer' = [row EXCEPT !.old = FALSE] /\ ~computer'.old
      /\ computer'.state = row.state /\ computer'.maintenance = row.maintenance
  BY RowFacts DEF Write
<1>2. \A x \in Workers \ {w} : /\ job'[x] = [job[x] EXCEPT !.mine = FALSE] /\ ~job'[x].mine
                               /\ job'[x].step = job[x].step /\ job'[x].op = job[x].op
                               /\ job'[x].bot = job[x].bot /\ job'[x].upd = job[x].upd
                               /\ job'[x].seen = job[x].seen /\ job'[x].maint = job[x].maint
  BY JobOf, Fields DEF Write
<1>3. w \in Workers => job'[w] = rec
  BY DEF Write
<1>4. \A x \in Workers \ {w} : Suspends(x)' <=> Suspends(x)
  BY <1>2 DEF Suspends
<1>5. ASSUME NEW x \in Workers, Suspends(x)' PROVE Sole(x)'
  <2>1. CASE x = w
    <3>1. Sole(w)
      BY <1>3, <1>5, <2>1 DEF Suspends
    <3> QED
      BY <1>4, <2>1, <3>1 DEF Sole
  <2>2. CASE x # w
    <3>1. Suspends(x) /\ Sole(x)
      BY <1>4, <1>5, <2>2 DEF Stamps, Ordered
    <3>2. \A y \in Workers \ {x, w} : ~Suspends(y)'
      BY <1>4, <3>1 DEF Sole
    <3>3. w \in Workers => ~Suspends(w)'
      BY <1>3, <2>2, <3>1 DEF Sole, Suspends
    <3> QED
      BY <3>2, <3>3 DEF Sole
  <2> QED
    BY <2>1, <2>2
<1>6. ASSUME NEW x \in Workers \ {w} PROVE Ordered(x)'
  <2>1. Reads(job[x], computer)'
    BY <1>2 DEF Reads
  <2>2. Formed(job[x])'
    <3>1. Formed(job[x])
      BY DEF Stamps, Ordered
    <3> QED
      BY <1>2, <3>1 DEF Formed
  <2>3. Suspends(x)' => /\ computer'.state = "suspending" /\ ~computer'.old
                        /\ computer'.maintenance \in {NoUpdate, job'[x].upd}
    BY <1>1, <1>2, <1>4
  <2> QED
    BY <1>2, <1>5, <2>1, <2>2, <2>3 DEF Ordered
<1>7. w \in Workers => Ordered(w)'
  BY <1>1, <1>3, <1>5 DEF Ordered, At, Suspends
<1> QED
  BY <1>6, <1>7 DEF Stamps

\* Time passes.
LEMMA StillStamps ==
  ASSUME IInv, Stamps, ~Slow, Still PROVE Stamps'
<1>1. /\ job' = job /\ computer' \in Row /\ computer'.state = computer.state
      /\ computer'.maintenance = computer.maintenance
      /\ computer.old => computer'.old
  BY DEF Still, IInv, JobsOK, Row
<1>2. ASSUME NEW w \in Workers, Suspends(w) PROVE computer'.old = computer.old
  <2>1. job[w].step \in ClaimSteps
    BY <1>2 DEF Suspends, Suspending, ClaimSteps
  <2> QED
    BY <2>1 DEF Still, IInv, JobsOK, Row
<1>3. \A w \in Workers : Ordered(w) => Ordered(w)'
  BY <1>1, <1>2 DEF Ordered, Reads, Formed, Suspends, Sole, At
<1> QED
  BY <1>3 DEF Stamps

\* A worker without the stamp, or with a record that no reading is about.
Plain(rec) ==
  /\ rec.step \notin Suspending \cup Provisioning
                       \cup {"take", "validate", "enter", "doze", "await", "claim", "seize", "broken"}
  /\ rec.op # "turn"

LEMMA PlainOrdered ==
  ASSUME NEW rec, Plain(rec), NEW row
  PROVE  /\ Reads(rec, row) /\ Formed(rec)
         /\ rec.step \notin Suspending /\ rec.step # "broken"
BY DEF Plain, Reads, Formed

LEMMA EndedPlain ==
  ASSUME IInv, NEW w \in Workers, NEW ok \in BOOLEAN
  PROVE  Plain(Ended(w, ok)) /\ Plain(Idle)
<1>1. Ended(w, ok).step \in {"idle", "completed", "failed"}
  BY EndedGood
<1>2. Ended(w, ok).op # "turn" /\ Idle.step = "idle" /\ Idle.op = "none"
  BY DEF Ended, Operation, Idle
<1> QED
  BY <1>1, <1>2 DEF Plain, Suspending, Provisioning

\* While the computer is not being suspended, nobody suspends it.
LEMMA NotSuspending ==
  ASSUME Stamps, computer.state # "suspending"
  PROVE  \A x \in Workers : ~Suspends(x)
BY DEF Stamps, Ordered

LEMMA LeaveStamps ==
  ASSUME IInv, Stamps, NEW w \in Workers, NEW ok \in BOOLEAN, NEW statuses, Leave(w, ok, statuses)
  PROVE  Stamps'
BY PutStamps, EndedPlain, PlainOrdered DEF Leave

LEMMA WriteAndLeaveStamps ==
  ASSUME IInv, Stamps, NEW w \in Workers, NEW row \in Row, NEW statuses,
         WriteAndLeave(w, row, statuses), row.maintenance = computer.maintenance, Sole(w)
  PROVE  Stamps'
BY WriteStamps, EndedPlain, PlainOrdered DEF WriteAndLeave, Sole

\* A worker goes to a step in which it knows no more than before.
LEMMA GotoStamps ==
  ASSUME IInv, Stamps, NEW w \in Workers, NEW step \in Steps \ {"await", "seize", "take", "doze"},
         Put(w, Goto(w, step)), computer' = computer,
         job[w].mine =>
           /\ step \notin {"validate", "enter", "claim"}
           /\ step \in Provisioning => job[w].step \in Provisioning
           /\ step = "broken" => Sole(w),
         step \in Suspending => Suspends(w)
  PROVE  Stamps'
<1> DEFINE rec == Goto(w, step)
<1>1. job[w] \in Job /\ Ordered(w)
  BY JobOf DEF Stamps
<1>2. /\ rec.step = step /\ rec.mine = job[w].mine /\ rec.op = job[w].op
      /\ rec.bot = job[w].bot /\ rec.upd = job[w].upd
  BY <1>1, Fields DEF Goto
<1> HIDE DEF rec
<1>3. Formed(rec) /\ Reads(rec, computer)
  BY <1>1, <1>2 DEF Ordered, Formed, Reads
<1> QED
  BY <1>2, <1>3, PutStamps DEF rec

\* A worker that has claimed the row, and whose claim is written.
LEMMA HoldingStamps ==
  ASSUME IInv, Stamps, NEW w \in Workers, NEW row \in Row, NEW rec, Write(w, row, rec),
         rec.step \in Suspending, rec.op = job[w].op, rec.bot = job[w].bot, rec.upd = job[w].upd,
         row.state = "suspending", row.maintenance \in {NoUpdate, job[w].upd}, Sole(w)
  PROVE  Stamps'
<1>1. Formed(job[w])
  BY DEF Stamps, Ordered
<1>2. /\ Formed(rec) /\ Reads(rec, [row EXCEPT !.old = FALSE]) /\ rec.step # "broken"
  BY <1>1 DEF Formed, Reads, Suspending, Provisioning
<1> QED
  BY <1>2, WriteStamps DEF Sole

LEMMA LeaseStamps ==
  ASSUME IInv, Stamps, NEW w \in Workers,
         Take(w) \/ Validate(w) \/ FinishTurn(w) \/ HandOver(w) \/ Crash(w)
  PROVE  Stamps'
<1>1. job[w].step \in {"take", "validate"} => ~job[w].mine
  BY DEF Stamps, Ordered, Reads
<1>2. ASSUME job[w].step \in {"take", "validate"}, Put(w, AfterLease(w)), computer' = computer
      PROVE  Stamps'
  <2>1. \E step \in {"look", "enter"} : Put(w, Goto(w, step))
    BY <1>2 DEF AfterLease
  <2> QED
    BY <1>1, <1>2, <2>1, GotoStamps, StepNames DEF Suspending, Provisioning
<1>3. CASE Validate(w)
  BY <1>2, <1>3, LeaveStamps DEF Validate, At, Proceed
<1>4. CASE FinishTurn(w)
  BY <1>4, LeaveStamps DEF FinishTurn
<1>5. CASE HandOver(w) \/ Crash(w)
  <2>1. Put(w, Idle) /\ computer' = computer
    BY <1>5 DEF HandOver, Crash, Others
  <2> QED
    BY <2>1, PutStamps, EndedPlain, PlainOrdered
<1>6. CASE Take(w)
  <2> DEFINE rec == [Goto(w, "validate") EXCEPT !.fence = leases[job[w].bot].fence + 1]
  <2>1. ASSUME At(w, "take"), Put(w, rec), computer' = computer PROVE Stamps'
    <3>1. job[w] \in Job /\ Formed(job[w]) /\ ~job[w].mine
      BY <1>1, <2>1, JobOf DEF Stamps, Ordered, At
    <3>2. /\ rec.step = "validate" /\ ~rec.mine /\ rec.op = job[w].op /\ rec.bot = job[w].bot
          /\ rec.upd = job[w].upd
      BY <3>1 DEF Goto, Job
    <3> HIDE DEF rec
    <3>3. Formed(rec) /\ Reads(rec, computer)
      BY <3>1, <3>2 DEF Formed, Reads
    <3> QED
      BY <2>1, <3>2, <3>3, PutStamps DEF Suspending
  <2>2. \/ Leave(w, FALSE, Busy)
        \/ At(w, "take") /\ Put(w, AfterLease(w)) /\ computer' = computer
        \/ At(w, "take") /\ Put(w, rec) /\ computer' = computer
    BY <1>6 DEF Take, Proceed, Others
  <2> QED
    BY <1>2, <2>1, <2>2, LeaveStamps DEF At
<1> QED
  BY <1>3, <1>4, <1>5, <1>6

LEMMA GiveUpStamps ==
  ASSUME IInv, Stamps, NEW w \in Workers, job[w].step \in {"enter", "await", "claim"}, GiveUp(w)
  PROVE  Stamps'
<1>0. Ordered(w) /\ job[w] \in Job
  BY JobOf DEF Stamps
<1>1. CASE ~Replaces(w)
  BY <1>1, LeaveStamps DEF GiveUp
<1>2. CASE Replaces(w)
  <2> DEFINE rec == [Goto(w, "broken") EXCEPT
                       !.mine = @ /\ (At(w, "enter") \/ job[w].seen \notin Claimed)]
  <2>1. /\ rec.step = "broken" /\ rec.op = job[w].op /\ rec.bot = job[w].bot
        /\ rec.upd = job[w].upd
        /\ rec.mine => job[w].mine /\ (At(w, "enter") \/ job[w].seen \notin Claimed)
    BY <1>0 DEF Goto, Job
  <2>2. Put(w, rec) /\ computer' = computer
    BY <1>2 DEF GiveUp, Proceed
  <2> HIDE DEF rec
  <2>3. rec.mine => computer.state # "suspending"
    BY <1>0, <2>1 DEF Ordered, Formed, Reads, At, Claimed
  <2>4. rec.mine => Sole(w)
    BY <2>3, NotSuspending DEF Sole
  <2>5. Formed(rec) /\ Reads(rec, computer)
    BY <1>0, <2>1 DEF Ordered, Formed, Reads, Provisioning
  <2> QED
    BY <2>1, <2>2, <2>4, <2>5, PutStamps DEF Suspending
<1> QED
  BY <1>1, <1>2

LEMMA EnterStamps ==
  ASSUME IInv, Stamps, NEW w \in Workers, Observe(w) \/ Await(w)
  PROVE  Stamps'
<1>0. /\ Ordered(w) /\ job[w] \in Job /\ computer.state \in Settled \cup Claimed
      /\ job[w].step \in {"enter", "await"}
  BY JobOf DEF Stamps, Observe, Await, At, IInv, JobsOK, Row
<1> DEFINE seen == Seen(w, "claim")
           first == [Seen(w, "await") EXCEPT !.mine = TRUE, !.flag = computer.old]
<1>1. /\ seen.step = "claim" /\ seen.seen = computer.state /\ seen.mine = job[w].mine
      /\ seen.op = job[w].op /\ seen.bot = job[w].bot /\ seen.upd = job[w].upd
      /\ first.step = "await" /\ first.seen = computer.state /\ first.flag = computer.old
      /\ first.op = job[w].op /\ first.bot = job[w].bot /\ first.upd = job[w].upd
  BY <1>0 DEF Seen, Job
<1> HIDE DEF seen, first
<1>2. Formed(seen)
  BY <1>0, <1>1 DEF Ordered, Formed
<1>3. CASE Observe(w)
  <2>0. At(w, "enter")
    BY <1>3 DEF Observe
  <2>1. CASE GiveUp(w)
    BY <2>0, <2>1, GiveUpStamps DEF At
  <2>2. CASE computer.state \in Settled /\ Proceed(w, seen)
    <3>1. Reads(seen, computer)
      BY <1>0, <1>1, <2>0, <2>2 DEF Ordered, Reads, At, Settled, Claimed, Provisioning
    <3> QED
      BY <1>1, <1>2, <2>2, <3>1, PutStamps DEF Proceed, Suspending
  <2>3. CASE /\ computer.state \in Claimed /\ (computer.state = "booting" => computer.old)
             /\ Proceed(w, first)
    <3>1. Formed(first) /\ Reads(first, computer)
      BY <1>0, <1>1, <2>3 DEF Ordered, Formed, Reads, Provisioning
    <3> QED
      BY <1>1, <2>3, <3>1, PutStamps DEF Proceed, Suspending
  <2> QED
    BY <1>3, <2>1, <2>2, <2>3 DEF Observe, seen, first
<1>4. CASE Await(w)
  <2>0. job[w].step = "await" /\ job[w].seen \in Claimed
    BY <1>0, <1>4 DEF Await, At, Ordered, Formed
  <2>1. CASE GiveUp(w)
    BY <2>0, <2>1, GiveUpStamps
  <2>2. CASE /\ computer.state = "suspending" => job[w].seen = "suspending" /\ job[w].flag
             /\ computer.state = "booting" => job[w].seen = "booting"
             /\ Proceed(w, seen)
    <3>1. Reads(seen, computer)
      BY <1>0, <1>1, <2>0, <2>2 DEF Ordered, Reads, Settled, Claimed, Provisioning
    <3> QED
      BY <1>1, <1>2, <2>2, <3>1, PutStamps DEF Proceed, Suspending
  <2> QED
    BY <1>4, <2>1, <2>2 DEF Await, seen
<1> QED
  BY <1>3, <1>4


\* The row in another state.
LEMMA RowIn ==
  ASSUME IInv, NEW state \in Settled \cup Claimed
  PROVE  /\ computer \in Row
         /\ [computer EXCEPT !.state = state] \in Row
         /\ [computer EXCEPT !.state = state].state = state
         /\ [computer EXCEPT !.state = state].maintenance = computer.maintenance
         /\ [computer EXCEPT !.state = state].ref = computer.ref
         /\ [computer EXCEPT !.state = state].team = computer.team
         /\ [computer EXCEPT !.state = state, !.control = "none"] \in Row
         /\ [computer EXCEPT !.state = state, !.control = "none"].state = state
         /\ [computer EXCEPT !.state = state, !.control = "none"].maintenance = computer.maintenance
         /\ [computer EXCEPT !.state = state, !.control = "none"].ref = computer.ref
         /\ [computer EXCEPT !.state = state, !.control = "none"].team = computer.team
BY DEF IInv, JobsOK, Row

LEMMA ClaimStamps ==
  ASSUME IInv, Stamps, NEW w \in Workers, Claim(w)
  PROVE  Stamps'
<1>0. Ordered(w) /\ job[w] \in Job /\ job[w].step = "claim"
  BY JobOf DEF Stamps, Claim, At
<1>1. CASE GiveUp(w)
  BY <1>0, <1>1, GiveUpStamps
<1> DEFINE row == [computer EXCEPT !.state = "booting"]
           rec == [Holding(w, "boot") EXCEPT !.flag = FALSE]
<1>2. CASE Claimable(w) /\ Advance(w, row, rec)
  <2>1. row \in Row /\ row.state = "booting"
    BY RowIn, States
  <2>2. /\ rec.step = "boot" /\ rec.op = job[w].op /\ rec.bot = job[w].bot
        /\ rec.upd = job[w].upd
    BY <1>0 DEF Holding, Job
  <2>3. Write(w, row, rec)
    BY <1>2 DEF Advance
  <2> HIDE DEF row, rec
  <2>4. [row EXCEPT !.old = FALSE].state = "booting"
    BY <2>1, RowFacts
  <2>5. Reads(rec, [row EXCEPT !.old = FALSE]) /\ Formed(rec)
    BY <1>0, <2>2, <2>4 DEF Ordered, Formed, Reads
  <2>6. \A x \in Workers : ~Suspends(x)
    <3>1. ASSUME NEW x \in Workers, Suspends(x) PROVE FALSE
      <4>1. Ordered(x)
        BY DEF Stamps
      <4> QED
        BY <1>0, <1>2, <3>1, <4>1 DEF Ordered, Claimable, Reads, Claimed
    <3> QED
      BY <3>1
  <2> QED
    BY <2>1, <2>2, <2>3, <2>5, <2>6, WriteStamps DEF Suspending
<1> QED
  BY <1>1, <1>2 DEF Claim

LEMMA BootStamps ==
  ASSUME IInv, Stamps, NEW w \in Workers,
         Provide(w) \/ Activate(w) \/ Fail(w) \/ Undo(w) \/ Record(w)
  PROVE  Stamps'
<1>0. Ordered(w) /\ job[w] \in Job /\ job[w].step \in Provisioning
  BY JobOf DEF Stamps, Provide, Activate, Fail, Undo, Record, At, Provisioning
<1>1. ASSUME NEW step \in Provisioning, Put(w, Goto(w, step)), computer' = computer
      PROVE  Stamps'
  BY <1>0, <1>1, GotoStamps, StepNames DEF Provisioning, Suspending
<1>2. CASE Provide(w)
  <2>1. PICK b : Put(w, [Goto(w, "boxed") EXCEPT !.box = b]) /\ computer' = computer
    BY <1>2 DEF Provide, Provider
  <2> DEFINE rec == [Goto(w, "boxed") EXCEPT !.box = b]
  <2>2. /\ rec.step = "boxed" /\ rec.op = job[w].op /\ rec.bot = job[w].bot
        /\ rec.upd = job[w].upd /\ rec.mine = job[w].mine
    BY <1>0 DEF Goto, Job
  <2>3. Put(w, rec)
    BY <2>1
  <2> HIDE DEF rec
  <2>4. Reads(rec, computer) /\ Formed(rec)
    BY <1>0, <2>2 DEF Ordered, Formed, Reads
  <2> QED
    BY <2>1, <2>2, <2>3, <2>4, PutStamps DEF Suspending
<1>3. CASE Fail(w) \/ Undo(w)
  <2>1. \E step \in {"undo", "record"} : Put(w, Goto(w, step)) /\ computer' = computer
    BY <1>3 DEF Fail, Undo, Proceed, Provider
  <2> QED
    BY <1>1, <2>1 DEF Provisioning
<1>4. CASE Record(w)
  <2>1. CASE Leave(w, FALSE, Failed)
    BY <2>1, LeaveStamps
  <2> DEFINE state == IF Reconnecting(w) THEN "running" ELSE "error"
  <2>2. CASE StillClaimed(w) /\ WriteAndLeave(w, [computer EXCEPT !.state = state], Failed)
    <3>1. state \in Settled \cup Claimed
      BY States
    <3> HIDE DEF state
    <3>2. Sole(w)
      BY <2>2, NotSuspending DEF StillClaimed, Sole
    <3> QED
      BY <2>2, <3>1, <3>2, RowIn, WriteAndLeaveStamps
  <2> QED
    BY <1>4, <2>1, <2>2 DEF Record
<1>5. CASE Activate(w)
  <2> DEFINE row == [computer EXCEPT !.state = "running", !.ref = job[w].box]
             rec == [Operation("turn", job[w].bot, "using") EXCEPT !.box = job[w].box,
                                                                   !.fence = job[w].fence]
  <2>1. CASE Proceed(w, Goto(w, "undo"))
    BY <1>1, <2>1 DEF Proceed, Provisioning
  <2>2. CASE StillClaimed(w) /\ ((job[w].op = "turn" /\ Write(w, row, rec))
                                   \/ Write(w, row, Ended(w, TRUE)))
    <3>1. row \in Row
      BY <1>0, RefShape, States DEF IInv, JobsOK, Row
    <3>2. \A x \in Workers : ~Suspends(x)
      BY <2>2, NotSuspending DEF StillClaimed
    <3>3. rec.step = "using" /\ rec.op = "turn" /\ rec.bot = job[w].bot /\ rec.upd = NoUpdate
          /\ ~rec.mine
      BY DEF Operation, Idle
    <3> HIDE DEF row, rec
    <3>4. Reads(rec, [row EXCEPT !.old = FALSE]) /\ (job[w].op = "turn" => Formed(rec))
      BY <1>0, <3>3 DEF Ordered, Formed, Reads
    <3>5. CASE job[w].op = "turn" /\ Write(w, row, rec)
      BY <3>1, <3>2, <3>3, <3>4, <3>5, WriteStamps DEF Suspending
    <3>6. CASE Write(w, row, Ended(w, TRUE))
      BY <3>1, <3>2, <3>6, WriteStamps, EndedPlain, PlainOrdered
    <3> QED
      BY <2>2, <3>5, <3>6
  <2> QED
    BY <1>5, <2>1, <2>2 DEF Activate, Advance
<1> QED
  BY <1>2, <1>3, <1>4, <1>5

LEMMA SeizeStamps ==
  ASSUME IInv, Stamps, NEW w \in Workers, Look(w) \/ Seize(w) \/ Recheck(w)
  PROVE  Stamps'
<1>0. Ordered(w) /\ job[w] \in Job /\ job[w].step \in {"look", "seize", "seized"}
  BY JobOf DEF Stamps, Look, Seize, Recheck, At
<1>1. ASSUME Leave(w, FALSE, Busy) PROVE Stamps'
  BY <1>1, LeaveStamps
<1>2. CASE Look(w)
  <2> DEFINE rec == [Seen(w, "seize") EXCEPT !.mine = TRUE]
  <2>1. CASE /\ computer.maintenance \in {NoUpdate, job[w].upd}
             /\ computer.state \in Claimed => computer.old
             /\ Proceed(w, rec)
    <3>1. /\ rec.step = "seize" /\ rec.op = job[w].op /\ rec.bot = job[w].bot
          /\ rec.upd = job[w].upd /\ rec.seen = computer.state /\ rec.maint = computer.maintenance
      BY <1>0 DEF Seen, Job
    <3>2. Put(w, rec) /\ computer' = computer
      BY <2>1 DEF Proceed
    <3> HIDE DEF rec
    <3>3. Reads(rec, computer) /\ Formed(rec)
      BY <1>0, <2>1, <3>1 DEF Ordered, Formed, Reads, Provisioning
    <3> QED
      BY <3>1, <3>2, <3>3, PutStamps DEF Suspending
  <2> QED
    BY <1>1, <1>2, <2>1 DEF Look, Reserved
<1>3. CASE Seize(w)
  <2> DEFINE row == [computer EXCEPT !.state = "suspending"]
             rec == Holding(w, "seized")
  <2>1. CASE Seizable(w) /\ Advance(w, row, rec)
    <3>0. job[w].step = "seize"
      BY <1>3 DEF Seize, At
    <3>1. row \in Row /\ row.state = "suspending" /\ row.maintenance = computer.maintenance
      BY RowIn, States
    <3>2. /\ rec.step = "seized" /\ rec.op = job[w].op /\ rec.bot = job[w].bot
          /\ rec.upd = job[w].upd
      BY <1>0 DEF Holding, Job
    <3>3. Write(w, row, rec)
      BY <2>1 DEF Advance
    <3> HIDE DEF row, rec
    <3>4. computer.maintenance \in {NoUpdate, job[w].upd}
      BY <1>0, <2>1, <3>0 DEF Seizable, Ordered, Formed
    <3>5. ASSUME NEW x \in Workers, Suspends(x) PROVE FALSE
      <4>1. Ordered(x)
        BY DEF Stamps
      <4> QED
        BY <1>0, <2>1, <3>0, <3>5, <4>1 DEF Ordered, Seizable, Reads, Claimed
    <3> QED
      BY <3>1, <3>2, <3>3, <3>4, <3>5, HoldingStamps DEF Suspending, Sole
  <2> QED
    BY <1>1, <1>3, <2>1 DEF Seize
<1>4. CASE Recheck(w)
  <2>1. Suspends(w) /\ Sole(w)
    BY <1>0, <1>4 DEF Recheck, At, Suspends, Suspending, Ordered
  <2>2. CASE Proceed(w, Goto(w, "clear"))
    BY <2>1, <2>2, GotoStamps, StepNames DEF Proceed, Provisioning
  <2>3. CASE WriteAndLeave(w, [computer EXCEPT !.state = job[w].seen], Busy)
    <3>1. job[w].seen \in Settled \cup Claimed
      BY <1>0 DEF Job
    <3> QED
      BY <2>1, <2>3, <3>1, RowIn, WriteAndLeaveStamps
  <2> QED
    BY <1>1, <1>4, <2>2, <2>3 DEF Recheck
<1> QED
  BY <1>2, <1>3, <1>4

LEMMA VacateStamps ==
  ASSUME IInv, Stamps, NEW w \in Workers, Clear(w) \/ Vacate(w) \/ Broken(w)
  PROVE  Stamps'
<1>0. Ordered(w) /\ job[w] \in Job
  BY JobOf DEF Stamps
<1>1. ASSUME Suspends(w), NEW step \in {"vacate", "broken"}, Put(w, Goto(w, step)), computer' = computer
      PROVE  Stamps'
  BY <1>0, <1>1, GotoStamps, StepNames DEF Provisioning, Suspending, Ordered
<1>2. CASE Clear(w)
  <2>1. Suspends(w)
    BY <1>2 DEF Clear, At, Suspends, Suspending
  <2>2. \E step \in {"vacate", "broken"} : Put(w, Goto(w, step)) /\ computer' = computer
    BY <1>2 DEF Clear, Provider, Proceed
  <2> QED
    BY <1>1, <2>1, <2>2
<1>3. CASE Vacate(w)
  <2>1. Suspends(w) /\ Sole(w)
    BY <1>0, <1>3 DEF Vacate, At, Suspends, Suspending, Ordered
  <2> DEFINE row == [computer EXCEPT !.state = "stopped", !.ref = NoBox, !.control = "none"]
             rec == [Holding(w, "enter") EXCEPT !.seen = "stopped", !.ref = NoBox]
  <2>2. CASE Write(w, row, rec)
    <3>1. row \in Row /\ row.state = "stopped"
      BY States DEF IInv, JobsOK, Row
    <3>2. /\ rec.step = "enter" /\ rec.op = job[w].op /\ rec.bot = job[w].bot
          /\ rec.upd = job[w].upd
      BY <1>0 DEF Holding, Job
    <3> HIDE DEF row, rec
    <3>3. [row EXCEPT !.old = FALSE].state = "stopped"
      BY <3>1, RowFacts
    <3>4. Reads(rec, [row EXCEPT !.old = FALSE]) /\ Formed(rec)
      BY <1>0, <3>2, <3>3 DEF Ordered, Formed, Reads, Provisioning
    <3> QED
      BY <2>1, <2>2, <3>1, <3>2, <3>4, WriteStamps DEF Suspending, Sole
  <2>3. CASE Proceed(w, Goto(w, "broken"))
    BY <1>1, <2>1, <2>3 DEF Proceed
  <2> QED
    BY <1>3, <2>2, <2>3 DEF Vacate
<1>4. CASE Broken(w)
  <2>1. CASE job[w].mine /\ WriteAndLeave(w, [computer EXCEPT !.state = "error"], Busy)
    <3>1. Sole(w)
      BY <1>0, <1>4, <2>1 DEF Broken, Ordered
    <3> QED
      BY <2>1, <3>1, RowIn, States, WriteAndLeaveStamps
  <2>2. CASE Leave(w, FALSE, Busy)
    BY <2>2, LeaveStamps
  <2> QED
    BY <1>4, <2>1, <2>2 DEF Broken
<1> QED
  BY <1>2, <1>3, <1>4

LEMMA SleepStamps ==
  ASSUME IInv, Stamps, NEW w \in Workers,
         Doze(w) \/ Saving(w) \/ Halt(w) \/ Rest(w) \/ Shut(w) \/ Shutting(w) \/ Halting(w) \/ Halted(w)
  PROVE  Stamps'
<1>0. Ordered(w) /\ job[w] \in Job
  BY JobOf DEF Stamps
<1>a. ASSUME Leave(w, FALSE, {}) PROVE Stamps'
  BY <1>a, LeaveStamps
<1>b. ASSUME Suspends(w), NEW step \in Suspending, Put(w, Goto(w, step)), computer' = computer
      PROVE  Stamps'
  BY <1>b, GotoStamps, StepNames DEF Provisioning, Suspending
<1>c. ASSUME Suspends(w), NEW state \in Settled \cup Claimed,
             \/ WriteAndLeave(w, [computer EXCEPT !.state = state], {})
             \/ WriteAndLeave(w, [computer EXCEPT !.state = state, !.control = "none"], {})
      PROVE  Stamps'
  BY <1>0, <1>c, RowIn, WriteAndLeaveStamps DEF Ordered
<1>d. ASSUME computer.state # "suspending", computer.maintenance = NoUpdate, NEW rec,
             Write(w, [computer EXCEPT !.state = "suspending"], rec),
             rec.step \in Suspending, rec.op = job[w].op, rec.bot = job[w].bot, rec.upd = job[w].upd
      PROVE  Stamps'
  BY <1>d, RowIn, States, NotSuspending, HoldingStamps DEF Sole
<1>1. CASE Doze(w)
  <2> DEFINE rec == Holding(w, "saving")
  <2>1. /\ rec.step = "saving" /\ rec.op = job[w].op /\ rec.bot = job[w].bot
        /\ rec.upd = job[w].upd
    BY <1>0 DEF Holding, Job
  <2> HIDE DEF rec
  <2>2. CASE Dozable(w) /\ Advance(w, [computer EXCEPT !.state = "suspending"], rec)
    BY <1>d, <2>1, <2>2 DEF Dozable, Advance, Suspending
  <2> QED
    BY <1>1, <1>a, <2>2 DEF Doze, rec
<1>2. CASE Shut(w)
  <2> DEFINE rec == [Holding(w, "shutting") EXCEPT !.flag = job[w].seen # computer.state]
  <2>1. /\ rec.step = "shutting" /\ rec.op = job[w].op /\ rec.bot = job[w].bot
        /\ rec.upd = job[w].upd
    BY <1>0 DEF Holding, Job
  <2> HIDE DEF rec
  <2>2. CASE Shuttable(w) /\ Advance(w, [computer EXCEPT !.state = "suspending"], rec)
    BY <1>d, <2>1, <2>2 DEF Shuttable, Advance, Suspending
  <2> QED
    BY <1>2, <1>a, <2>2 DEF Shut, rec
<1>3. CASE Saving(w) \/ Halt(w) \/ Rest(w)
  <2>1. Suspends(w)
    BY <1>3 DEF Saving, Halt, Rest, At, Suspends, Suspending
  <2>2. \/ Leave(w, FALSE, {})
        \/ WriteAndLeave(w, [computer EXCEPT !.state = "running"], {})
        \/ WriteAndLeave(w, [computer EXCEPT !.state = "suspended", !.control = "none"], {})
        \/ \E step \in {"halt", "rest"} : Put(w, Goto(w, step)) /\ computer' = computer
    BY <1>3 DEF Saving, Halt, Rest, WakeAgain, Proceed, Provider
  <2> QED
    BY <1>a, <1>b, <1>c, <2>1, <2>2, States DEF Suspending
<1>4. CASE Halting(w) \/ Halted(w)
  <2>1. Suspends(w)
    BY <1>4 DEF Halting, Halted, At, Suspends, Suspending
  <2>2. \/ Leave(w, FALSE, {})
        \/ WriteAndLeave(w, [computer EXCEPT !.state = "error"], {})
        \/ WriteAndLeave(w, [computer EXCEPT !.state = "stopped", !.control = "none"], {})
        \/ Put(w, Goto(w, "halted")) /\ computer' = computer
    BY <1>4 DEF Halting, Halted, InSuspending, Proceed, Provider
  <2> QED
    BY <1>a, <1>b, <1>c, <2>1, <2>2, States DEF Suspending
<1>5. CASE Shutting(w)
  <2>1. Suspends(w) /\ job[w].seen \in Settled \cup Claimed /\ Sole(w)
    BY <1>0, <1>5 DEF Shutting, At, Suspends, Suspending, Job, Ordered
  <2>2. CASE Put(w, Goto(w, "halting")) /\ computer' = computer
    BY <1>b, <2>1, <2>2 DEF Suspending
  <2>3. CASE Write(w, [computer EXCEPT !.state = job[w].seen], Idle)
    BY <2>1, <2>3, RowIn, WriteStamps, EndedPlain, PlainOrdered DEF Sole
  <2> QED
    BY <1>5, <1>a, <2>2, <2>3 DEF Shutting, PutBack
<1> QED
  BY <1>1, <1>2, <1>3, <1>4, <1>5

LEMMA BeginStamps ==
  ASSUME IInv, Stamps, NEW w \in Workers,
         \/ StartSleep(w)
         \/ \E b \in computer.bots : StartTurn(w, b) \/ StartManual(w, b) \/ StartStop(w, b)
         \/ \E u \in DOMAIN updates : PerformUpdate(w, u)
  PROVE  Stamps'
<1>0. computer.bots \subseteq Bots /\ computer.state \in Settled \cup Claimed
      /\ computer.ref \in Boxes \cup {NoBox} /\ computer.control \in {"none", "held", "lapsed"}
  BY DEF IInv, JobsOK, Row
<1>1. PICK rec : /\ Begin(w, rec) /\ computer' = computer
                 /\ rec.step \in {"take", "shut", "look", "doze"}
                 /\ rec.mine => rec.step = "doze" /\ computer.state = "running"
                 /\ rec.op = "turn" => rec.bot \in Bots /\ rec.upd = NoUpdate
  <2>1. CASE StartSleep(w)
    <3> DEFINE rec == [Operation("sleep", Nobody, "doze")
                         EXCEPT !.ref = computer.ref, !.mine = TRUE,
                                !.flag = computer.control = "held"]
    <3>1. rec.step = "doze" /\ rec.op = "sleep"
      BY DEF Operation, Idle
    <3> HIDE DEF rec
    <3> QED
      BY <2>1, <3>1 DEF StartSleep, Unmoved, rec
  <2>2. ASSUME NEW b \in computer.bots, StartTurn(w, b) \/ StartManual(w, b) \/ StartStop(w, b)
        PROVE  \E rec : /\ Begin(w, rec) /\ computer' = computer
                        /\ rec.step \in {"take", "shut", "look", "doze"}
                        /\ rec.mine => rec.step = "doze" /\ computer.state = "running"
                        /\ rec.op = "turn" => rec.bot \in Bots /\ rec.upd = NoUpdate
    <3>1. \A op : LET rec == Operation(op, b, "take")
                  IN  rec.step = "take" /\ ~rec.mine /\ rec.bot = b /\ rec.upd = NoUpdate
      BY DEF Operation, Idle
    <3> DEFINE stop == [Operation("stop", b, "shut")
                          EXCEPT !.seen = computer.state, !.ref = computer.ref]
    <3>2. stop.step = "shut" /\ ~stop.mine /\ stop.op = "stop"
      BY DEF Operation, Idle
    <3>3. computer' = computer
      BY <2>2 DEF StartTurn, StartManual, StartStop, Unmoved
    <3> HIDE DEF stop
    <3>4. (\E op : Begin(w, Operation(op, b, "take"))) \/ Begin(w, stop)
      BY <2>2 DEF StartTurn, StartManual, StartStop, stop
    <3> QED
      BY <1>0, <3>1, <3>2, <3>3, <3>4
  <2>3. ASSUME NEW u \in DOMAIN updates, PerformUpdate(w, u)
        PROVE  \E rec : /\ Begin(w, rec) /\ computer' = computer
                        /\ rec.step \in {"take", "shut", "look", "doze"}
                        /\ rec.mine => rec.step = "doze" /\ computer.state = "running"
                        /\ rec.op = "turn" => rec.bot \in Bots /\ rec.upd = NoUpdate
    <3>1. PICK b \in computer.bots : Begin(w, [Operation("update", b, "look") EXCEPT !.upd = u])
      BY <2>3 DEF PerformUpdate
    <3> DEFINE rec == [Operation("update", b, "look") EXCEPT !.upd = u]
    <3>2. rec.step = "look" /\ ~rec.mine /\ rec.op = "update"
      BY DEF Operation, Idle
    <3> HIDE DEF rec
    <3>3. Begin(w, rec)
      BY <3>1 DEF rec
    <3> QED
      BY <2>3, <3>2, <3>3 DEF PerformUpdate, Unmoved
  <2> QED
    BY <2>1, <2>2, <2>3
<1>2. Reads(rec, computer) /\ Formed(rec) /\ rec.step \notin Suspending /\ rec.step # "broken"
  BY <1>1 DEF Reads, Formed, Suspending, Provisioning
<1> QED
  BY <1>1, <1>2, PutStamps DEF Begin

LEMMA FinishStamps ==
  ASSUME IInv, Stamps, NEW w \in Workers, FinishUpdate(w)
  PROVE  Stamps'
<1>1. CASE Put(w, Idle) /\ computer' = computer
  BY <1>1, PutStamps, EndedPlain, PlainOrdered
<1> DEFINE row == Unreserved(job[w].upd)
<1>2. CASE Write(w, row, Idle)
  <2>1. row \in Row /\ row.state = computer.state /\ row.maintenance \in {computer.maintenance, NoUpdate}
    BY UpdateFacts DEF Unreserved, Row, NoUpdate
  <2> HIDE DEF row
  <2>2. \A x \in Workers : Suspends(x) =>
          row.state = "suspending" /\ row.maintenance \in {NoUpdate, job[x].upd}
    BY <2>1 DEF Stamps, Ordered
  <2> QED
    BY <1>2, <2>1, <2>2, WriteStamps, EndedPlain, PlainOrdered
<1> QED
  BY <1>1, <1>2 DEF FinishUpdate

LEMMA WorldStamps ==
  ASSUME IInv, Stamps,
         \/ (\E b \in computer.bots : Grant(b)) \/ EndControl \/ QueueUpdate
         \/ \E u \in DOMAIN updates : ReleaseInterrupted(u)
  PROVE  Stamps'
<1>1. ASSUME NEW row \in Row, Write(Nobody, row, Idle),
             \A x \in Workers : Suspends(x) =>
               row.state = computer.state /\ row.maintenance = computer.maintenance
      PROVE  Stamps'
  <2>1. \A x \in Workers : Suspends(x) =>
          row.state = "suspending" /\ row.maintenance \in {NoUpdate, job[x].upd}
    BY <1>1 DEF Stamps, Ordered
  <2> QED
    BY <1>1, <2>1, NamesAssumption, WriteStamps
<1>2. CASE (\E b \in computer.bots : Grant(b)) \/ EndControl
  <2>1. PICK control \in {"held", "none"} : Write(Nobody, [computer EXCEPT !.control = control], Idle)
    BY <1>2 DEF Grant, EndControl, SetControl
  <2> DEFINE row == [computer EXCEPT !.control = control]
  <2>2. row \in Row /\ row.state = computer.state /\ row.maintenance = computer.maintenance
    BY DEF IInv, JobsOK, Row
  <2> HIDE DEF row
  <2> QED
    BY <1>1, <2>1, <2>2 DEF row
<1>3. CASE QueueUpdate
  <2> DEFINE row == [computer EXCEPT !.maintenance = Len(updates) + 1]
  <2>1. row \in Row
    BY UpdateFacts DEF Row
  <2>2. \A x \in Workers : ~Suspends(x)
    BY <1>3, NotSuspending, States DEF QueueUpdate, Reservable, Settled
  <2>3. Write(Nobody, row, Idle)
    BY <1>3 DEF QueueUpdate
  <2> QED
    BY <1>1, <2>1, <2>2, <2>3
<1>4. ASSUME NEW u \in DOMAIN updates, ReleaseInterrupted(u) PROVE Stamps'
  <2> DEFINE row == [computer EXCEPT !.maintenance = NoUpdate, !.state = "error"]
  <2>1. row \in Row
    BY UpdateFacts, States DEF Row, NoUpdate
  <2>2. computer.maintenance = u /\ u # NoUpdate /\ \A x \in Workers : job[x].upd # u
    BY <1>4, UpdateFacts DEF ReleaseInterrupted, Performing
  <2>3. \A x \in Workers : ~Suspends(x)
    BY <2>2 DEF Stamps, Ordered
  <2>4. Write(Nobody, row, Idle)
    BY <1>4 DEF ReleaseInterrupted
  <2> QED
    BY <1>1, <2>1, <2>3, <2>4
<1> QED
  BY <1>2, <1>3, <1>4

LEMMA NextStamps ==
  ASSUME IInv, Stamps, ~Slow, [Next]_vars
  PROVE  Stamps'
<1>1. ASSUME NEW w \in Workers, Continue(w) PROVE Stamps'
  <2>1. CASE Take(w) \/ Validate(w) \/ FinishTurn(w) \/ FinishUpdate(w)
    BY <2>1, LeaseStamps, FinishStamps
  <2>2. CASE Observe(w) \/ Await(w) \/ Claim(w) \/ Provide(w) \/ Activate(w) \/ Undo(w) \/ Record(w)
    BY <2>2, EnterStamps, ClaimStamps, BootStamps
  <2>3. CASE Look(w) \/ Seize(w) \/ Recheck(w) \/ Clear(w) \/ Vacate(w) \/ Broken(w)
    BY <2>3, SeizeStamps, VacateStamps
  <2>4. CASE \/ Doze(w) \/ Saving(w) \/ Halt(w) \/ Rest(w)
             \/ Shut(w) \/ Shutting(w) \/ Halting(w) \/ Halted(w)
    BY <2>4, SleepStamps
  <2> QED
    BY <1>1, <2>1, <2>2, <2>3, <2>4 DEF Continue
<1>2. ASSUME NEW w \in Workers, HandOver(w) \/ Fail(w) \/ Crash(w) PROVE Stamps'
  BY <1>2, LeaseStamps, BootStamps
<1>3. ASSUME NEW w \in Workers,
             \/ StartSleep(w)
             \/ \E b \in computer.bots : StartTurn(w, b) \/ StartManual(w, b) \/ StartStop(w, b)
             \/ \E u \in DOMAIN updates : PerformUpdate(w, u)
      PROVE  Stamps'
  BY <1>3, BeginStamps
<1>4. CASE \/ (\E b \in computer.bots : Grant(b)) \/ EndControl \/ QueueUpdate
           \/ \E u \in DOMAIN updates : ReleaseInterrupted(u)
  BY <1>4, WorldStamps
<1>5. CASE \/ \E b \in computer.bots : NewRun(b) \/ Return(b) \/ Cancel(b) \/ ExpireRun(b)
                                         \/ ExpireLease(b)
           \/ Lapse \/ GrowOld \/ (\E u \in DOMAIN updates : Interrupt(u))
           \/ UNCHANGED vars
  <2>1. Still
    BY <1>5, BotSteps, TimeSteps DEF Passed, Interrupt, vars, Still
  <2> QED
    BY <2>1, StillStamps
<1> QED
  BY <1>1, <1>2, <1>3, <1>4, <1>5 DEF Next

LEMMA InitStamps == Init => Stamps
<1> SUFFICES ASSUME Init PROVE Stamps
  OBVIOUS
<1>1. \A w \in Workers : job[w] = Idle
  BY DEF Init
<1>2. Idle.step = "idle" /\ ~Idle.mine /\ Idle.op = "none"
  BY DEF Idle
<1> QED
  BY <1>1, <1>2 DEF Stamps, Ordered, Reads, Formed, Suspends, Suspending, At

-----------------------------------------------------------------------------
(* A sandbox that a boot was given in place of a lost one is its own until *)
(* the row names it, and who works at the computer only stops working,     *)
(* until a boot ends.                                                      *)

\* The job of a worker that does not move, whose stamp may be void by now.
Like(x) == job'[x] = job[x] \/ job'[x] = [job[x] EXCEPT !.mine = FALSE]

\* A turn that works at the computer, and has not lost its run or lease; and one whose
\* sandbox nobody has lost or destroyed.
Turning(x) == At(x, "using") /\ OwnsRun(x) /\ KeepsLease(x)
Works(x) == Turning(x) /\ job[x].box \notin adrift /\ boxes[job[x].box] # "gone"
Vacant == \A x \in Workers : ~Works(x)

New(w) == job[w].step \in {"boxed", "undo"} /\ job[w].box # NoBox /\ Fresh(w)
Names(w) == {job[w].ref, job[w].box}
Boxed == {"boxed", "undo", "record", "using"}

Known ==
  /\ \A b \in Boxes : boxes[b] = "none" =>
       b # computer.ref /\ \A w \in Workers : b \notin Names(w)
  /\ \A w \in Workers : New(w) =>
       job[w].box # computer.ref /\ \A x \in Workers \ {w} : job[w].box \notin Names(x)
  /\ \A w \in Workers : job[w].step \notin Boxed => job[w].box = NoBox

\* What a step of w, or of somebody who is no worker, does to the sandboxes in hand,
\* unless it is given one or the row gets its own.
Hands(w) ==
  /\ \A x \in Workers \ {w} : Like(x)
  /\ \A b \in Boxes : boxes'[b] = "none" => boxes[b] = "none"
  /\ computer'.ref \in {computer.ref, NoBox}
  /\ w \in Workers =>
       /\ job'[w].ref \in {job[w].ref, computer.ref, NoBox}
       /\ job'[w].box \in {job[w].box, NoBox}
       /\ job'[w].step \in {"boxed", "undo"} =>
            job'[w].box = NoBox \/ (job[w].step \in {"boxed", "undo"} /\ job'[w].ref = job[w].ref)
       /\ job'[w].step \notin Boxed => job'[w].box = NoBox

\* Nobody begins to work, and under a reservation nobody gets beyond his first step.
Yields ==
  /\ \A x \in Workers : Turning(x)' => Turning(x) /\ job'[x].box = job[x].box
  /\ \A x \in Workers : OwnsRun(x)' => \/ At(x, "take")' \/ computer.maintenance = NoUpdate
                                       \/ OwnsRun(x) /\ ~At(x, "take")

Course(w) == Hands(w) /\ Yields

LEMMA LikeFacts ==
  ASSUME IInv, NEW x \in Workers, Like(x)
  PROVE  /\ job'[x].step = job[x].step /\ job'[x].op = job[x].op /\ job'[x].bot = job[x].bot
         /\ job'[x].seen = job[x].seen /\ job'[x].flag = job[x].flag /\ job'[x].ref = job[x].ref
         /\ job'[x].maint = job[x].maint /\ job'[x].box = job[x].box
         /\ job'[x].fence = job[x].fence /\ job'[x].upd = job[x].upd
         /\ job'[x].mine => job[x].mine
<1>1. job[x] \in Job
  BY JobOf
<1>2. CASE job'[x] = job[x]
  BY <1>2
<1>3. CASE job'[x] = [job[x] EXCEPT !.mine = FALSE]
  BY <1>1, <1>3, Fields
<1> QED
  BY <1>2, <1>3 DEF Like

LEMMA OthersLike ==
  ASSUME IInv, NEW w, NEW rec, Put(w, rec) \/ \E row : Write(w, row, rec)
  PROVE  \A x \in Workers \ {w} : Like(x)
<1>1. job \in [Workers -> Job]
  BY DEF IInv, JobsOK
<1>2. CASE Put(w, rec)
  BY <1>1, <1>2 DEF Put, Like
<1>3. CASE \E row : Write(w, row, rec)
  BY <1>3 DEF Write, Like
<1> QED
  BY <1>2, <1>3

LEMMA HandsKeeps ==
  ASSUME IInv, Known, NEW w, Hands(w)
  PROVE  Known'
<1>1. ASSUME NEW x \in Workers \ {w}
      PROVE  /\ Names(x)' = Names(x) /\ (New(x)' <=> New(x)) /\ job'[x].box = job[x].box
             /\ job'[x].step = job[x].step
  <2>1. Like(x)
    BY DEF Hands
  <2> QED
    BY <2>1, LikeFacts DEF Names, New, Fresh
<1>2. w \in Workers => Names(w)' \subseteq Names(w) \cup {computer.ref, NoBox}
  BY DEF Hands, Names
<1>3. w \in Workers /\ New(w)' => New(w) /\ job'[w].box = job[w].box
  BY DEF Hands, New, Fresh
<1>4. NoBox \notin Boxes
  BY RefShape
<1>5. \A b \in Boxes : boxes'[b] = "none" =>
        b # computer'.ref /\ \A x \in Workers : b \notin Names(x)'
  <2>1. ASSUME NEW b \in Boxes, boxes'[b] = "none"
        PROVE  b # computer'.ref /\ \A x \in Workers : b \notin Names(x)'
    <3>1. boxes[b] = "none" /\ b # NoBox
      BY <1>4, <2>1 DEF Hands
    <3>2. b # computer.ref /\ \A x \in Workers : b \notin Names(x)
      BY <3>1 DEF Known
    <3> QED
      BY <1>1, <1>2, <3>1, <3>2 DEF Hands
  <2> QED
    BY <2>1
<1>6. ASSUME NEW x \in Workers, New(x)'
      PROVE  job'[x].box # computer'.ref /\ \A y \in Workers \ {x} : job'[x].box \notin Names(y)'
  <2>1. New(x) /\ job'[x].box = job[x].box /\ job[x].box # NoBox
    BY <1>1, <1>3, <1>6 DEF New
  <2>2. job[x].box # computer.ref /\ \A y \in Workers \ {x} : job[x].box \notin Names(y)
    BY <2>1 DEF Known
  <2> QED
    BY <1>1, <1>2, <2>1, <2>2 DEF Hands
<1>7. ASSUME NEW x \in Workers, job'[x].step \notin Boxed PROVE job'[x].box = NoBox
  BY <1>1, <1>7 DEF Known, Hands
<1> QED
  BY <1>5, <1>6, <1>7 DEF Known

\* A boot is given the sandbox it asked for, or one that nobody knows.
LEMMA ProvideKnown ==
  ASSUME IInv, Known, NEW w \in Workers, Provide(w)
  PROVE  Known' /\ \A x \in Workers \ {w} : Like(x)
<1>0. job[w] \in Job /\ boxes \in [Boxes -> BoxStates] /\ NoBox \notin Boxes
      /\ job[w].ref \in Boxes \cup {NoBox}
  BY JobOf, RefShape DEF IInv, StoreOK
<1>1. PICK b \in IF job[w].ref # NoBox /\ boxes[job[w].ref] # "gone" THEN {job[w].ref} ELSE Unused :
        Provider(w, [boxes EXCEPT ![b] = "running"], [Goto(w, "boxed") EXCEPT !.box = b])
  BY DEF Provide
<1> DEFINE rec == [Goto(w, "boxed") EXCEPT !.box = b]
<1>2. rec.step = "boxed" /\ rec.box = b /\ rec.ref = job[w].ref
  BY <1>0 DEF Goto, Job
<1> HIDE DEF rec
<1>3. Put(w, rec) /\ boxes' = [boxes EXCEPT ![b] = "running"] /\ computer' = computer
  BY <1>1 DEF Provider, rec
<1>4. job'[w] = rec /\ \A x \in Workers \ {w} : Like(x)
  BY <1>3, OthersSame, OthersLike
<1>5. b \in Boxes /\ (b # job[w].ref => boxes[b] = "none")
  BY <1>0, <1>1 DEF Unused
<1>6. \A c \in Boxes : boxes'[c] = IF c = b THEN "running" ELSE boxes[c]
  BY <1>0, <1>3
<1>7. ASSUME NEW x \in Workers \ {w}
      PROVE  /\ Names(x)' = Names(x) /\ (New(x)' <=> New(x)) /\ job'[x].box = job[x].box
             /\ job'[x].step = job[x].step
  <2>1. Like(x)
    BY <1>4
  <2> QED
    BY <2>1, LikeFacts DEF Names, New, Fresh
<1>8. Names(w)' = {job[w].ref, b}
  BY <1>2, <1>4 DEF Names
<1>9. ASSUME NEW c \in Boxes, boxes'[c] = "none"
      PROVE  c # computer'.ref /\ \A x \in Workers : c \notin Names(x)'
  <2>1. c # b /\ boxes[c] = "none"
    BY <1>6, <1>9
  <2>2. c # computer.ref /\ \A x \in Workers : c \notin Names(x)
    BY <2>1 DEF Known
  <2>3. c # job[w].ref
    BY <2>2 DEF Names
  <2> QED
    BY <1>3, <1>7, <1>8, <2>1, <2>2, <2>3
<1>10. ASSUME NEW x \in Workers, New(x)'
       PROVE  job'[x].box # computer'.ref /\ \A y \in Workers \ {x} : job'[x].box \notin Names(y)'
  <2>1. CASE x = w
    <3>1. job'[x].box = b /\ b # job[w].ref
      BY <1>2, <1>4, <1>10, <2>1 DEF New, Fresh
    <3>2. boxes[b] = "none"
      BY <1>5, <3>1
    <3> QED
      BY <1>3, <1>5, <1>7, <2>1, <3>1, <3>2 DEF Known
  <2>2. CASE x # w
    <3>1. New(x) /\ job'[x].box = job[x].box
      BY <1>7, <1>10, <2>2
    <3>2. job[x].box # computer.ref /\ \A y \in Workers \ {x} : job[x].box \notin Names(y)
      BY <3>1 DEF Known
    <3>3. job[x].box # job[w].ref
      BY <2>2, <3>2 DEF Names
    <3>4. job[x].box # b
      <4>1. job[x].box \in Names(x)
        BY DEF Names
      <4> QED
        BY <1>5, <2>2, <3>3, <4>1 DEF Known
    <3> QED
      BY <1>3, <1>7, <1>8, <2>2, <3>1, <3>2, <3>3, <3>4
  <2> QED
    BY <2>1, <2>2
<1>11. ASSUME NEW x \in Workers, job'[x].step \notin Boxed PROVE job'[x].box = NoBox
  BY <1>2, <1>4, <1>7, <1>11 DEF Known, Boxed
<1> QED
  BY <1>4, <1>9, <1>10, <1>11 DEF Known

\* The row gets the sandbox of a boot.
LEMMA ActivateKnown ==
  ASSUME IInv, Known, NEW w \in Workers, NEW row \in Row, NEW rec, Write(w, row, rec),
         At(w, "boxed"), row.ref = job[w].box, rec.ref = NoBox, rec.box \in {job[w].box, NoBox},
         rec.step \notin {"boxed", "undo"}, rec.step \notin Boxed => rec.box = NoBox,
         boxes' = boxes
  PROVE  Known'
<1>1. computer'.ref = job[w].box /\ job'[w] = rec /\ \A x \in Workers \ {w} : Like(x)
  BY WrittenRef, OthersSame, OthersLike
<1>2. ASSUME NEW x \in Workers \ {w}
      PROVE  /\ Names(x)' = Names(x) /\ (New(x)' <=> New(x)) /\ job'[x].box = job[x].box
             /\ job'[x].step = job[x].step
  <2>1. Like(x)
    BY <1>1
  <2> QED
    BY <2>1, LikeFacts DEF Names, New, Fresh
<1>3. Names(w)' \subseteq {job[w].box, NoBox} /\ ~New(w)' /\ job[w].box \in Names(w)
  BY <1>1 DEF Names, New
<1>4. NoBox \notin Boxes
  BY RefShape
<1>5. ASSUME NEW b \in Boxes, boxes'[b] = "none"
      PROVE  b # computer'.ref /\ \A x \in Workers : b \notin Names(x)'
  <2>1. \A x \in Workers : b \notin Names(x)
    BY <1>5 DEF Known
  <2>2. b # job[w].box /\ b # NoBox
    BY <1>3, <1>4, <2>1
  <2> QED
    BY <1>1, <1>2, <1>3, <2>1, <2>2
<1>6. ASSUME NEW x \in Workers, New(x)'
      PROVE  job'[x].box # computer'.ref /\ \A y \in Workers \ {x} : job'[x].box \notin Names(y)'
  <2>1. x # w /\ New(x) /\ job'[x].box = job[x].box /\ job[x].box # NoBox
    BY <1>2, <1>3, <1>6 DEF New
  <2>2. \A y \in Workers \ {x} : job[x].box \notin Names(y)
    BY <2>1 DEF Known
  <2>3. job[x].box # job[w].box
    BY <1>3, <2>1, <2>2
  <2> QED
    BY <1>1, <1>2, <1>3, <2>1, <2>2, <2>3
<1>7. ASSUME NEW x \in Workers, job'[x].step \notin Boxed PROVE job'[x].box = NoBox
  BY <1>1, <1>2, <1>7 DEF Known
<1> QED
  BY <1>5, <1>6, <1>7 DEF Known

\* A worker whom the step gives no run and no lease.
LEMMA YieldsOther ==
  ASSUME IInv, Stamps, NEW x \in Workers, Like(x), computer'.team = computer.team,
         \A b \in Bots : runs'[b].by = x => runs[b].by = x,
         \A b \in Bots : leases'[b].by = x /\ leases'[b].live => leases'[b] = leases[b]
  PROVE  /\ OwnsRun(x)' => OwnsRun(x) /\ (At(x, "take") <=> At(x, "take")')
         /\ Turning(x)' => Turning(x) /\ job'[x].box = job[x].box
<1>1. /\ job'[x].step = job[x].step /\ job'[x].op = job[x].op /\ job'[x].bot = job[x].bot
      /\ job'[x].box = job[x].box /\ job'[x].fence = job[x].fence
  BY LikeFacts
<1>2. job[x].op = "turn" => job[x].bot \in Bots
  BY DEF Stamps, Ordered, Formed
<1>3. OwnsRun(x)' => OwnsRun(x)
  BY <1>1, <1>2 DEF OwnsRun
<1>4. OwnsRun(x)' /\ KeepsLease(x)' => KeepsLease(x)
  <2> SUFFICES ASSUME OwnsRun(x)', KeepsLease(x)', Team PROVE KeepsLease(x)
    BY DEF KeepsLease
  <2>1. job[x].bot \in Bots
    BY <1>2, <1>3 DEF OwnsRun
  <2>2. Team'
    BY DEF Team
  <2>3. /\ leases'[job[x].bot].by = x /\ leases'[job[x].bot].live
        /\ leases'[job[x].bot].fence = job[x].fence
    BY <1>1, <2>2 DEF KeepsLease, HasLease
  <2> QED
    BY <2>1, <2>3 DEF KeepsLease, HasLease
<1> QED
  BY <1>1, <1>3, <1>4 DEF Turning, At

\* Nobody else gets a run or a lease.
Ungiven(w) ==
  /\ \A b \in Bots, x \in Workers \ {w} : runs'[b].by = x => runs[b].by = x
  /\ \A b \in Bots, x \in Workers \ {w} :
       leases'[b].by = x /\ leases'[b].live => leases'[b] = leases[b]

\* Whoever moves takes no run and no lease for another, and does not begin to work.
LEMMA YieldsBy ==
  ASSUME IInv, Stamps, NEW w, \A x \in Workers \ {w} : Like(x), computer'.team = computer.team,
         Ungiven(w),
         w \in Workers =>
           /\ job'[w].step # "using"
           /\ OwnsRun(w)' => \/ At(w, "take")' \/ computer.maintenance = NoUpdate
                             \/ OwnsRun(w) /\ ~At(w, "take")
  PROVE  Yields
<1>1. \A x \in Workers \ {w} :
        /\ OwnsRun(x)' => OwnsRun(x) /\ (At(x, "take") <=> At(x, "take")')
        /\ Turning(x)' => Turning(x) /\ job'[x].box = job[x].box
  BY YieldsOther DEF Ungiven
<1>2. w \in Workers => ~Turning(w)'
  BY DEF Turning, At
<1> QED
  BY <1>1, <1>2 DEF Yields

\* A worker goes on, and the row stays or is written without another sandbox.
Touch(w, rec) ==
  \/ Put(w, rec) /\ computer' = computer
  \/ \E row \in Row : /\ Write(w, row, rec)
                      /\ row.team = computer.team /\ row.ref \in {computer.ref, NoBox}

LEMMA TouchFacts ==
  ASSUME IInv, NEW w, NEW rec, Touch(w, rec)
  PROVE  /\ \A x \in Workers \ {w} : Like(x)
         /\ w \in Workers => job'[w] = rec
         /\ computer'.team = computer.team /\ computer'.ref \in {computer.ref, NoBox}
<1>1. \A x \in Workers \ {w} : Like(x)
  BY OthersLike DEF Touch
<1>2. w \in Workers => job'[w] = rec
  BY OthersSame DEF Touch
<1>3. computer'.team = computer.team /\ computer'.ref \in {computer.ref, NoBox}
  <2>1. ASSUME NEW row \in Row, Write(w, row, rec) PROVE computer'.team = row.team /\ computer'.ref = row.ref
    BY <2>1 DEF Write, Row
  <2> QED
    BY <2>1 DEF Touch
<1> QED
  BY <1>1, <1>2, <1>3

\* What a worker has in its record when it goes on with its operation.
Follows(w, rec) ==
  /\ rec.op = job[w].op /\ rec.bot = job[w].bot /\ rec.box = job[w].box
  /\ rec.ref \in {job[w].ref, computer.ref, NoBox}
  /\ job[w].step # "take" /\ rec.step # "using"
  /\ rec.step \in {"boxed", "undo"} =>
       job[w].step \in {"boot", "boxed", "undo"} /\ rec.ref = job[w].ref
  /\ rec.step \notin Boxed => job[w].step \notin Boxed

LEMMA FollowsCourse ==
  ASSUME IInv, Stamps, Known, NEW w \in Workers, NEW rec, Touch(w, rec), Follows(w, rec),
         \A b \in Boxes : boxes'[b] = "none" => boxes[b] = "none",
         runs' = runs, Ungiven(w)
  PROVE  Course(w)
<1>1. /\ \A x \in Workers \ {w} : Like(x)
      /\ job'[w] = rec /\ computer'.team = computer.team /\ computer'.ref \in {computer.ref, NoBox}
  BY TouchFacts
<1>2. job[w].step \notin Boxed => job[w].box = NoBox
  BY DEF Known
<1>3. Hands(w)
  BY <1>1, <1>2 DEF Hands, Follows, Boxed
<1>4. OwnsRun(w)' => OwnsRun(w) /\ ~At(w, "take")
  BY <1>1 DEF OwnsRun, Follows, At
<1>5. Yields
  BY <1>1, <1>4, YieldsBy DEF Follows
<1> QED
  BY <1>3, <1>5 DEF Course

\* The record of a worker that begins or ends an operation.
Bare(rec) == rec.box = NoBox /\ rec.step \notin Boxed

LEMMA BareCourse ==
  ASSUME IInv, Stamps, NEW w, NEW rec, Touch(w, rec), Bare(rec),
         rec.ref \in {computer.ref, NoBox}, rec.op = "turn" => rec.step = "take",
         boxes' = boxes, Ungiven(w)
  PROVE  Course(w)
<1>1. /\ \A x \in Workers \ {w} : Like(x)
      /\ w \in Workers => job'[w] = rec
      /\ computer'.team = computer.team /\ computer'.ref \in {computer.ref, NoBox}
  BY TouchFacts
<1>2. Hands(w)
  BY <1>1 DEF Hands, Bare, Boxed
<1>3. w \in Workers => job'[w].step # "using" /\ (OwnsRun(w)' => At(w, "take")')
  BY <1>1 DEF OwnsRun, Bare, Boxed, At
<1>4. Yields
  BY <1>1, <1>3, YieldsBy
<1> QED
  BY <1>2, <1>4 DEF Course

LEMMA EndedBare ==
  ASSUME IInv, NEW w \in Workers, NEW ok \in BOOLEAN
  PROVE  /\ Bare(Ended(w, ok)) /\ Ended(w, ok).ref = NoBox /\ Ended(w, ok).op # "turn"
         /\ Bare(Idle) /\ Idle.ref = NoBox /\ Idle.op # "turn"
<1>1. Ended(w, ok).step \in {"idle", "completed", "failed"}
  BY EndedGood
<1>2. Ended(w, ok).box = NoBox /\ Ended(w, ok).ref = NoBox /\ Ended(w, ok).op # "turn"
  BY DEF Ended, Operation, Idle
<1> QED
  BY <1>1, <1>2 DEF Bare, Boxed, Idle

LEMMA GivenBack ==
  ASSUME IInv, Stamps, NEW w \in Workers, NEW statuses, GiveBack(w, statuses)
  PROVE  Ungiven(w)
<1>0. leases \in [Bots -> Lease] /\ runs \in [Bots -> Run] /\ Nobody \notin Workers
  BY NamesAssumption DEF IInv, StoreOK
<1>1. \A b \in Bots : leases'[b].live => leases'[b] = leases[b]
  BY <1>0 DEF GiveBack, Released, Lease
<1>2. CASE OwnsRun(w)
  <2>1. PICK s \in statuses :
          runs' = [runs EXCEPT ![job[w].bot] = [NoRun EXCEPT !.status = s, !.held = @ /\ s = "queued"]]
    BY <1>2 DEF GiveBack
  <2>2. [NoRun EXCEPT !.status = s, !.held = @ /\ s = "queued"].by = Nobody
    BY DEF NoRun
  <2>3. \A b \in Bots : runs'[b].by \in {Nobody, runs[b].by}
    BY <1>0, <2>1, <2>2
  <2> QED
    BY <1>0, <1>1, <2>3 DEF Ungiven
<1>3. CASE ~OwnsRun(w)
  BY <1>1, <1>3 DEF GiveBack, Ungiven
<1> QED
  BY <1>2, <1>3

LEMMA LeaveCourse ==
  ASSUME IInv, Stamps, NEW w \in Workers, NEW ok \in BOOLEAN, NEW statuses, Leave(w, ok, statuses)
  PROVE  Course(w)
BY EndedBare, GivenBack, BareCourse DEF Leave, Touch

LEMMA WriteAndLeaveCourse ==
  ASSUME IInv, Stamps, NEW w \in Workers, NEW row \in Row, NEW statuses,
         WriteAndLeave(w, row, statuses), row.team = computer.team, row.ref = computer.ref
  PROVE  Course(w)
BY EndedBare, GivenBack, BareCourse DEF WriteAndLeave, Touch

LEMMA ProceedCourse ==
  ASSUME IInv, Stamps, Known, NEW w \in Workers, NEW rec, Proceed(w, rec), Follows(w, rec)
  PROVE  Course(w)
BY FollowsCourse DEF Proceed, Touch, Ungiven

LEMMA AdvanceCourse ==
  ASSUME IInv, Stamps, Known, NEW w \in Workers, NEW row \in Row, NEW rec,
         Advance(w, row, rec), row.team = computer.team, row.ref \in {computer.ref, NoBox},
         Follows(w, rec)
  PROVE  Course(w)
BY FollowsCourse DEF Advance, Touch, Ungiven

LEMMA ProviderCourse ==
  ASSUME IInv, Stamps, Known, NEW w \in Workers, NEW rec, NEW to, Provider(w, to, rec),
         \A b \in Boxes : to[b] = "none" => boxes[b] = "none", Follows(w, rec)
  PROVE  Course(w)
BY FollowsCourse DEF Provider, Touch, Ungiven

\* A worker that only goes to another step.
LEMMA GotoFollows ==
  ASSUME IInv, NEW w \in Workers, NEW step, job[w].step # "take", step # "using",
         step \in {"boxed", "undo"} => job[w].step \in {"boot", "boxed", "undo"},
         step \notin Boxed => job[w].step \notin Boxed
  PROVE  Follows(w, Goto(w, step)) /\ Follows(w, Holding(w, step))
<1>1. job[w] \in Job
  BY JobOf
<1>2. LET rec == Goto(w, step)
      IN  /\ rec.step = step /\ rec.op = job[w].op /\ rec.bot = job[w].bot
          /\ rec.box = job[w].box /\ rec.ref = job[w].ref
  BY <1>1, Fields DEF Goto
<1>3. LET rec == Holding(w, step)
      IN  /\ rec.step = step /\ rec.op = job[w].op /\ rec.bot = job[w].bot
          /\ rec.box = job[w].box /\ rec.ref = job[w].ref
  BY <1>1, Fields DEF Holding
<1> QED
  BY <1>2, <1>3 DEF Follows

LEMMA SeenFollows ==
  ASSUME IInv, NEW w \in Workers, NEW step \in Steps \ Boxed, job[w].step \notin Boxed \cup {"take"}
  PROVE  Follows(w, Seen(w, step))
<1>1. job[w] \in Job
  BY JobOf
<1>2. /\ Seen(w, step).step = step /\ Seen(w, step).op = job[w].op
      /\ Seen(w, step).bot = job[w].bot /\ Seen(w, step).box = job[w].box
      /\ Seen(w, step).ref = computer.ref
  BY <1>1 DEF Seen, Job
<1> QED
  BY <1>2 DEF Follows, Boxed

-----------------------------------------------------------------------------
(* Whoever is about to stop or destroy the sandbox of the row, or to put   *)
(* the row to rest, has the computer to itself.                            *)

\* A record of a worker that has seen that no turn works at the computer.
Clearing(rec) ==
  \/ rec.step \in {"clear", "vacate", "halt", "rest", "halting", "halted"}
  \/ rec.step = "seized" /\ rec.seen \in Resting
  \/ rec.step = "shutting" /\ ~rec.flag /\ rec.seen \in Resting
  \/ /\ rec.mine
     /\ \/ rec.step = "broken"
        \/ rec.step = "claim" /\ rec.seen = "booting"
        \/ /\ rec.step \in Provisioning
           /\ rec.ref = NoBox \/ rec.seen \notin {"running", "suspending"}

Kept ==
  /\ \A w \in Workers : Clearing(job[w]) => Vacant
  /\ computer.state \in Resting => Vacant
  /\ computer.maintenance # NoUpdate => \A x \in Workers : OwnsRun(x) => At(x, "take")
  /\ \A x \in Workers : Works(x) => job[x].box = computer.ref

KInv == IInv /\ Accounted /\ Stamps /\ Known /\ Kept

\* What every step leaves in order, but the one that ends a boot.
Tidy(w) ==
  /\ Known' /\ Yields
  /\ \A x \in Workers \ {w} : Like(x)
  /\ w \in Workers /\ Clearing(job'[w]) => Vacant \/ Vacant'
  /\ computer'.state \in Resting => Vacant \/ Vacant'

LEMMA RunOf ==
  ASSUME IInv, Stamps, NEW x \in Workers, OwnsRun(x)
  PROVE  /\ job[x].bot \in Bots /\ job[x].op = "turn" /\ runs[job[x].bot].by = x
         /\ runs[job[x].bot].status = "leased"
<1>1. job[x].op = "turn" /\ runs[job[x].bot].by = x
  BY DEF OwnsRun
<1>2. job[x].bot \in Bots
  BY <1>1 DEF Stamps, Ordered, Formed
<1> QED
  BY <1>1, <1>2, NamesAssumption DEF IInv, StoreOK

LEMMA NoRunVacant ==
  ASSUME IInv, Stamps, \A b \in Bots : runs[b].status # "leased"
  PROVE  Vacant
BY RunOf DEF Vacant, Works, Turning

\* The step keeps the computer empty, and keeps who works at it at its sandbox.
LEMMA YieldsWorks ==
  ASSUME IInv, Careful, Yields, NEW x \in Workers, Works(x)'
  PROVE  Works(x) /\ job'[x].box = job[x].box
<1>1. Turning(x) /\ job'[x].box = job[x].box
  BY DEF Works, Yields
<1>2. job[x].step = "using" /\ job[x].box \in Boxes
  BY <1>1, JobOf DEF Turning, At, Good
<1> QED
  BY <1>1, <1>2 DEF Works, Careful

LEMMA PlacedKeeps ==
  ASSUME IInv, Careful, NEW x \in Workers, Works(x), Works(x)', job'[x].box = job[x].box,
         job[x].box = computer.ref
  PROVE  job'[x].box = computer'.ref
<1>1. job[x].step = "using" /\ job[x].box \in Boxes /\ NoBox \notin Boxes
  BY JobOf, RefShape DEF Works, Turning, At, Good
<1>2. computer.ref = computer'.ref \/ computer.ref \in adrift' \/ Lost(computer.ref)
  BY DEF Careful
<1> QED
  BY <1>1, <1>2 DEF Works, Lost

LEMMA TidyKeeps ==
  ASSUME KInv, Careful, NEW w, Tidy(w),
         \/ computer'.maintenance \in {computer.maintenance, NoUpdate}
         \/ \A x \in Workers : ~OwnsRun(x)'
  PROVE  Kept'
<1>0. IInv /\ Kept /\ Yields
  BY DEF KInv, Tidy
<1>1. Vacant => Vacant'
  BY <1>0, YieldsWorks DEF Vacant
<1>2. ASSUME NEW x \in Workers, Clearing(job'[x]) PROVE Vacant'
  <2>1. CASE x = w
    BY <1>1, <1>2, <2>1 DEF Tidy
  <2>2. CASE x # w
    <3>1. Like(x)
      BY <2>2 DEF Tidy
    <3>2. Clearing(job[x])
      BY <1>0, <1>2, <3>1, LikeFacts DEF Clearing
    <3> QED
      BY <1>0, <1>1, <3>2 DEF Kept
  <2> QED
    BY <2>1, <2>2
<1>3. computer'.state \in Resting => Vacant'
  BY <1>1 DEF Tidy
<1>4. ASSUME NEW x \in Workers, Works(x)' PROVE job'[x].box = computer'.ref
  BY <1>0, <1>4, YieldsWorks, PlacedKeeps DEF Kept
<1>5. ASSUME computer'.maintenance # NoUpdate, NEW x \in Workers, OwnsRun(x)' PROVE At(x, "take")'
  BY <1>0, <1>5 DEF Kept, Yields
<1> QED
  BY <1>2, <1>3, <1>4, <1>5 DEF Kept

LEMMA TouchTidy ==
  ASSUME KInv, NEW w, NEW rec, Touch(w, rec), Course(w),
         w \in Workers /\ Clearing(rec) => Vacant \/ Vacant',
         computer'.state \in Resting => computer.state \in Resting \/ Vacant \/ Vacant'
  PROVE  Tidy(w)
<1>1. Known' /\ Yields
  BY HandsKeeps DEF KInv, Course
<1>2. (\A x \in Workers \ {w} : Like(x)) /\ (w \in Workers => job'[w] = rec)
  BY TouchFacts DEF KInv
<1> QED
  BY <1>1, <1>2 DEF Tidy, KInv, Kept

LEMMA LeaveTidy ==
  ASSUME KInv, NEW w \in Workers, NEW ok \in BOOLEAN, NEW statuses, Leave(w, ok, statuses)
  PROVE  Tidy(w)
<1>1. Course(w)
  BY LeaveCourse DEF KInv
<1>2. Touch(w, Ended(w, ok)) /\ computer' = computer
  BY DEF Leave, Touch
<1>3. ~Clearing(Ended(w, ok))
  BY EndedGood DEF KInv, Clearing, Provisioning
<1> QED
  BY <1>1, <1>2, <1>3, TouchTidy

LEMMA WriteAndLeaveTidy ==
  ASSUME KInv, NEW w \in Workers, NEW row \in Row, NEW statuses,
         WriteAndLeave(w, row, statuses), row.team = computer.team, row.ref = computer.ref,
         row.state \in Resting => Vacant
  PROVE  Tidy(w)
<1>1. Course(w)
  BY WriteAndLeaveCourse DEF KInv
<1>2. Touch(w, Ended(w, FALSE))
  BY DEF WriteAndLeave, Touch
<1>3. ~Clearing(Ended(w, FALSE))
  BY EndedGood DEF KInv, Clearing, Provisioning
<1>4. computer'.state = row.state
  BY RowFacts DEF WriteAndLeave, Write
<1> QED
  BY <1>1, <1>2, <1>3, <1>4, TouchTidy

LEMMA ProceedTidy ==
  ASSUME KInv, NEW w \in Workers, NEW rec, Proceed(w, rec), Follows(w, rec),
         Clearing(rec) => Vacant
  PROVE  Tidy(w)
<1>1. Course(w)
  BY ProceedCourse DEF KInv
<1>2. Touch(w, rec) /\ computer' = computer
  BY DEF Proceed, Touch
<1> QED
  BY <1>1, <1>2, TouchTidy

LEMMA AdvanceTidy ==
  ASSUME KInv, NEW w \in Workers, NEW row \in Row, NEW rec, Advance(w, row, rec),
         row.team = computer.team, row.ref \in {computer.ref, NoBox}, Follows(w, rec),
         row.state \notin Resting, Clearing(rec) => Vacant
  PROVE  Tidy(w)
<1>1. Course(w)
  BY AdvanceCourse DEF KInv
<1>2. Touch(w, rec)
  BY DEF Advance, Touch
<1>3. computer'.state = row.state
  BY RowFacts DEF Advance, Write
<1> QED
  BY <1>1, <1>2, <1>3, TouchTidy

LEMMA ProviderTidy ==
  ASSUME KInv, NEW w \in Workers, NEW rec, NEW to, Provider(w, to, rec),
         \A b \in Boxes : to[b] = "none" => boxes[b] = "none", Follows(w, rec),
         Clearing(rec) => Vacant
  PROVE  Tidy(w)
<1>1. Course(w)
  BY ProviderCourse DEF KInv
<1>2. Touch(w, rec) /\ computer' = computer
  BY DEF Provider, Touch
<1> QED
  BY <1>1, <1>2, TouchTidy

\* The steps by which a turn gets and gives back its run and lease.
LEMMA LeaseTidy ==
  ASSUME KInv, NEW w \in Workers,
         Take(w) \/ Validate(w) \/ FinishTurn(w) \/ HandOver(w) \/ Crash(w)
  PROVE  Tidy(w)
<1>0. IInv /\ Stamps /\ Known /\ job[w] \in Job /\ leases \in [Bots -> Lease] /\ runs \in [Bots -> Run]
      /\ {Nobody, Held} \cap Workers = {}
  BY JobOf, NamesAssumption DEF KInv, IInv, StoreOK
<1>1. \A step \in {"look", "enter", "validate"} :
        LET rec == Goto(w, step)
        IN  /\ rec.step = step /\ rec.op = job[w].op /\ rec.bot = job[w].bot
            /\ rec.box = job[w].box /\ rec.ref = job[w].ref
  BY <1>0, Fields DEF Goto
<1>2. AfterLease(w) \in {Goto(w, "look"), Goto(w, "enter")}
  BY DEF AfterLease
<1>3. CASE Validate(w)
  <2>1. CASE Leave(w, FALSE, Busy)
    BY <2>1, LeaveTidy
  <2>2. CASE Proceed(w, AfterLease(w))
    <3>1. job[w].step = "validate"
      BY <1>3 DEF Validate, At
    <3>2. Follows(w, AfterLease(w)) /\ ~Clearing(AfterLease(w))
      BY <1>1, <1>2, <3>1 DEF Follows, Clearing, Provisioning, Boxed
    <3> QED
      BY <2>2, <3>2, ProceedTidy
  <2> QED
    BY <1>3, <2>1, <2>2 DEF Validate
<1>4. CASE FinishTurn(w)
  BY <1>4, LeaveTidy DEF FinishTurn
<1>5. CASE HandOver(w) \/ Crash(w)
  <2>1. Put(w, Idle) /\ computer' = computer /\ boxes' = boxes
    BY <1>5 DEF HandOver, Crash, Others
  <2>2. Touch(w, Idle) /\ ~Clearing(Idle)
    BY <2>1 DEF Touch, Clearing, Idle, Provisioning
  <2>3. Ungiven(w)
    <3>1. CASE HandOver(w)
      <4>0. HandedRun(w).by = Nobody
        BY DEF HandedRun
      <4>1. \A b \in Bots : runs'[b].by \in {Nobody, runs[b].by}
        BY <1>0, <3>1, <4>0 DEF HandOver
      <4>2. \A b \in Bots : leases'[b] = leases[b] \/ leases'[b].by = Held
        BY <1>0, <3>1 DEF HandOver, Lease
      <4> QED
        BY <1>0, <4>1, <4>2 DEF Ungiven
    <3>2. CASE Crash(w)
      <4>1. \A b \in Bots : runs'[b] = runs[b] \/ runs'[b].by = Nobody
        BY <1>0, <3>2 DEF Crash, Run
      <4>2. \A b \in Bots : leases'[b] = leases[b] \/ leases'[b].by = Nobody
        BY <1>0, <3>2 DEF Crash, Lease
      <4> QED
        BY <1>0, <4>1, <4>2 DEF Ungiven
    <3> QED
      BY <1>5, <3>1, <3>2
  <2>4. Course(w)
    BY <1>0, <2>1, <2>2, <2>3, EndedBare, BareCourse
  <2> QED
    BY <2>1, <2>2, <2>4, TouchTidy
<1>6. CASE Take(w)
  <2> DEFINE rec == [Goto(w, "validate") EXCEPT !.fence = leases[job[w].bot].fence + 1]
  <2>0. job[w].step = "take" /\ job[w].box = NoBox
    BY <1>0, <1>6 DEF Take, At, Known, Boxed
  <2>1. CASE Leave(w, FALSE, Busy)
    BY <2>1, LeaveTidy
  <2>2. /\ rec.step = "validate" /\ rec.op = job[w].op /\ rec.bot = job[w].bot
        /\ rec.box = job[w].box /\ rec.ref = job[w].ref
    BY <1>0 DEF Goto, Job
  <2> HIDE DEF rec
  <2>3. ASSUME NEW new \in {rec, AfterLease(w)}, Put(w, new), ~Reserved(w),
               UNCHANGED <<computer, boxes, runs>>,
               \A b \in Bots : leases'[b] = leases[b] \/ leases'[b].by = w
        PROVE  Tidy(w)
    <3>1. /\ new.step \in {"validate", "look", "enter"} /\ new.op = job[w].op
          /\ new.bot = job[w].bot /\ new.box = job[w].box /\ new.ref = job[w].ref
      BY <1>1, <1>2, <2>2, <2>3
    <3>2. Touch(w, new) /\ ~Clearing(new)
      BY <2>3, <3>1 DEF Touch, Clearing, Provisioning
    <3>3. job'[w] = new /\ \A x \in Workers \ {w} : Like(x)
      BY <1>0, <3>2, TouchFacts
    <3>4. Hands(w)
      BY <2>0, <2>3, <3>1, <3>3 DEF Hands, Boxed
    <3>5. OwnsRun(w)' => computer.maintenance = NoUpdate
      <4>1. job[w].op = "turn" => job[w].upd = NoUpdate
        BY <1>0 DEF Stamps, Ordered, Formed
      <4> QED
        BY <2>3, <3>1, <3>3, <4>1 DEF OwnsRun, Reserved
    <3>6. Yields
      BY <1>0, <2>3, <3>1, <3>3, <3>5, YieldsBy DEF Ungiven
    <3> QED
      BY <2>3, <3>2, <3>4, <3>6, TouchTidy DEF Course
  <2>4. CASE ~Reserved(w) /\ Proceed(w, AfterLease(w))
    BY <2>3, <2>4 DEF Proceed
  <2>5. CASE /\ ~Reserved(w) /\ Put(w, rec) /\ UNCHANGED runs /\ UNCHANGED Others
             /\ leases' = [leases EXCEPT ![job[w].bot] =
                             [by |-> w, fence |-> @.fence + 1, live |-> TRUE]]
    <3>1. \A b \in Bots : leases'[b] = leases[b] \/ leases'[b].by = w
      BY <1>0, <2>5
    <3> QED
      BY <2>3, <2>5, <3>1 DEF Others
  <2> QED
    BY <1>6, <2>1, <2>4, <2>5 DEF Take, rec
<1> QED
  BY <1>3, <1>4, <1>5, <1>6

\* Provisioning, up to the provider.
LEMMA GiveUpTidy ==
  ASSUME KInv, NEW w \in Workers, job[w].step \in {"enter", "await", "claim"}, GiveUp(w)
  PROVE  Tidy(w)
<1>0. Ordered(w) /\ job[w] \in Job /\ Kept /\ computer.state \in Settled \cup Claimed
  BY JobOf DEF KInv, Stamps, IInv, JobsOK, Row
<1>1. CASE ~Replaces(w)
  BY <1>1, LeaveTidy DEF GiveUp
<1>2. CASE Replaces(w)
  <2> DEFINE rec == [Goto(w, "broken") EXCEPT
                       !.mine = @ /\ (At(w, "enter") \/ job[w].seen \notin Claimed)]
  <2>1. /\ rec.step = "broken" /\ rec.op = job[w].op /\ rec.bot = job[w].bot
        /\ rec.box = job[w].box /\ rec.ref = job[w].ref
        /\ rec.mine => job[w].mine /\ (At(w, "enter") \/ job[w].seen \notin Claimed)
    BY <1>0 DEF Goto, Job
  <2>2. Proceed(w, rec)
    BY <1>2 DEF GiveUp
  <2> HIDE DEF rec
  <2>3. Follows(w, rec)
    BY <2>1 DEF Follows, Boxed
  <2>4. Clearing(rec) => Vacant
    <3> SUFFICES ASSUME Clearing(rec) PROVE Vacant
      OBVIOUS
    <3>1. rec.mine
      BY <2>1 DEF Clearing
    <3>2. computer.state \in Resting
      BY <1>0, <2>1, <3>1 DEF Ordered, Formed, Reads, At, Settled, Claimed, Resting
    <3> QED
      BY <1>0, <3>2 DEF Kept
  <2> QED
    BY <2>2, <2>3, <2>4, ProceedTidy
<1> QED
  BY <1>1, <1>2

LEMMA EnterTidy ==
  ASSUME KInv, NEW w \in Workers, Observe(w) \/ Await(w)
  PROVE  Tidy(w)
<1>0. /\ IInv /\ Stamps /\ job[w] \in Job /\ job[w].step \in {"enter", "await"}
  BY JobOf DEF KInv, Observe, Await, At
<1> DEFINE seen == Seen(w, "claim")
           first == [Seen(w, "await") EXCEPT !.mine = TRUE, !.flag = computer.old]
<1>1. /\ seen.step = "claim" /\ seen.seen = computer.state
      /\ first.step = "await" /\ first.op = job[w].op /\ first.bot = job[w].bot
      /\ first.box = job[w].box /\ first.ref = computer.ref
  BY <1>0 DEF Seen, Job
<1>2. Follows(w, seen)
  BY <1>0, SeenFollows, StepNames DEF Boxed
<1> HIDE DEF seen, first
<1>3. Follows(w, first)
  BY <1>0, <1>1 DEF Follows, Boxed
<1>4. CASE GiveUp(w)
  BY <1>0, <1>4, GiveUpTidy
<1>5. CASE Proceed(w, first)
  BY <1>1, <1>3, <1>5, ProceedTidy DEF Clearing, Provisioning
<1>6. CASE (computer.state = "booting" => ~LiveRunElsewhere(w)) /\ Proceed(w, seen)
  <2>1. Clearing(seen) => Vacant
    <3> SUFFICES ASSUME computer.state = "booting" PROVE Vacant
      BY <1>1 DEF Clearing, Provisioning
    <3>1. ASSUME NEW x \in Workers, Works(x) PROVE FALSE
      <4>1. /\ job[x].bot \in Bots /\ runs[job[x].bot].by = x
            /\ runs[job[x].bot].status = "leased" /\ job[x].step = "using"
        BY <1>0, <3>1, RunOf DEF Works, Turning, At
      <4> QED
        BY <1>0, <1>6, <4>1 DEF LiveRunElsewhere
    <3> QED
      BY <3>1 DEF Vacant
  <2> QED
    BY <1>2, <1>6, <2>1, ProceedTidy
<1>7. CASE Observe(w)
  BY <1>4, <1>5, <1>6, <1>7, States DEF Observe, seen, first
<1>8. CASE Await(w)
  BY <1>4, <1>6, <1>8 DEF Await, seen
<1> QED
  BY <1>7, <1>8

LEMMA ClaimTidy ==
  ASSUME KInv, NEW w \in Workers, Claim(w)
  PROVE  Tidy(w)
<1>0. IInv /\ Kept /\ Ordered(w) /\ job[w] \in Job /\ job[w].step = "claim"
  BY JobOf DEF KInv, Stamps, Claim, At
<1>1. CASE GiveUp(w)
  BY <1>0, <1>1, GiveUpTidy
<1> DEFINE row == [computer EXCEPT !.state = "booting"]
           rec == [Holding(w, "boot") EXCEPT !.flag = FALSE]
<1>2. CASE Claimable(w) /\ Advance(w, row, rec)
  <2>1. /\ row \in Row /\ row.state = "booting" /\ row.team = computer.team
        /\ row.ref = computer.ref
    BY <1>0, RowIn, States
  <2>2. /\ rec.step = "boot" /\ rec.op = job[w].op /\ rec.bot = job[w].bot
        /\ rec.box = job[w].box /\ rec.ref = job[w].ref /\ rec.seen = job[w].seen
    BY <1>0 DEF Holding, Job
  <2>3. Advance(w, row, rec)
    BY <1>2
  <2> HIDE DEF row, rec
  <2>4. Follows(w, rec)
    BY <1>0, <2>2 DEF Follows, Boxed
  <2>5. Clearing(rec) => Vacant
    <3> SUFFICES ASSUME job[w].ref = NoBox \/ job[w].seen \notin {"running", "suspending"}
                 PROVE  Vacant
      BY <2>2 DEF Clearing, Provisioning
    <3>1. CASE job[w].seen = "booting"
      BY <1>0, <1>2, <3>1 DEF Claimable, Claimed, Kept, Clearing
    <3>2. CASE job[w].seen \in Resting
      BY <1>0, <1>2, <3>2 DEF Claimable, Kept
    <3>3. CASE job[w].seen # "booting" /\ job[w].ref = NoBox
      <4>1. computer.ref = NoBox
        BY <1>2, <3>3 DEF Claimable
      <4>2. \A x \in Workers : At(x, "using") => job[x].box # NoBox
        BY <1>0, JobOf, RefShape DEF At, Good
      <4> QED
        BY <1>0, <4>1, <4>2 DEF Kept, Vacant, Works, Turning
    <3> QED
      BY <1>0, <3>1, <3>2, <3>3 DEF Job, Settled, Claimed, Resting
  <2> QED
    BY <2>1, <2>3, <2>4, <2>5, AdvanceTidy DEF Resting
<1> QED
  BY <1>1, <1>2 DEF Claim

\* With the provider.
LEMMA ProvideTidy ==
  ASSUME KInv, NEW w \in Workers, Provide(w)
  PROVE  Tidy(w)
<1>0. IInv /\ Stamps /\ Known /\ Kept /\ job[w] \in Job /\ job[w].step = "boot"
  BY JobOf DEF KInv, Provide, At
<1>1. PICK b, to : Provider(w, to, [Goto(w, "boxed") EXCEPT !.box = b])
  BY DEF Provide
<1> DEFINE rec == [Goto(w, "boxed") EXCEPT !.box = b]
<1>2. /\ rec.step = "boxed" /\ rec.op = job[w].op /\ rec.bot = job[w].bot
      /\ rec.seen = job[w].seen /\ rec.ref = job[w].ref /\ rec.mine = job[w].mine
  BY <1>0 DEF Goto, Job
<1> HIDE DEF rec
<1>3. Put(w, rec) /\ UNCHANGED <<computer, leases, runs>>
  BY <1>1 DEF Provider, rec
<1>4. Known' /\ \A x \in Workers \ {w} : Like(x)
  BY <1>0, ProvideKnown
<1>5. job'[w] = rec
  BY <1>0, <1>3, OthersSame
<1>6. OwnsRun(w)' => OwnsRun(w) /\ ~At(w, "take")
  BY <1>0, <1>2, <1>3, <1>5 DEF OwnsRun, At
<1>7. Yields
  BY <1>0, <1>2, <1>3, <1>4, <1>5, <1>6, YieldsBy DEF Ungiven
<1>8. Clearing(rec) => Clearing(job[w])
  BY <1>0, <1>2 DEF Clearing, Provisioning
<1> QED
  BY <1>0, <1>3, <1>4, <1>5, <1>7, <1>8 DEF Tidy, Kept

\* A boot fails.
LEMMA UndoTidy ==
  ASSUME KInv, NEW w \in Workers, Fail(w) \/ Undo(w) \/ Record(w)
                                    \/ (At(w, "boxed") /\ Proceed(w, Goto(w, "undo")))
  PROVE  Tidy(w)
<1>0. IInv /\ Kept /\ job[w] \in Job /\ job[w].step \in Provisioning
  BY JobOf DEF KInv, Fail, Undo, Record, At, Provisioning
<1>1. ASSUME NEW step \in {"undo", "record"}, step = "undo" => job[w].step \in {"boot", "boxed"}
      PROVE  Follows(w, Goto(w, step)) /\ (Clearing(Goto(w, step)) => Vacant)
  <2>1. Follows(w, Goto(w, step))
    BY <1>0, <1>1, GotoFollows DEF Provisioning, Boxed
  <2>2. /\ Goto(w, step).step = step /\ Goto(w, step).seen = job[w].seen
        /\ Goto(w, step).ref = job[w].ref /\ Goto(w, step).mine = job[w].mine
    BY <1>0, Fields DEF Goto
  <2>3. Clearing(Goto(w, step)) => Clearing(job[w])
    BY <1>0, <1>1, <2>2 DEF Clearing, Provisioning
  <2> QED
    BY <1>0, <2>1, <2>3 DEF Kept
<1>2. CASE Fail(w) \/ (At(w, "boxed") /\ Proceed(w, Goto(w, "undo")))
  BY <1>1, <1>2, ProceedTidy DEF Fail, At
<1>3. CASE Undo(w)
  <2>1. \A b \in Boxes : [boxes EXCEPT ![job[w].box] = RolledBack(w)][b] = "none" => boxes[b] = "none"
    BY <1>0 DEF RolledBack, IInv, StoreOK
  <2> QED
    BY <1>1, <1>3, <2>1, ProceedTidy, ProviderTidy DEF Undo
<1>4. CASE Record(w)
  <2>1. CASE Leave(w, FALSE, Failed)
    BY <2>1, LeaveTidy
  <2> DEFINE state == IF Reconnecting(w) THEN "running" ELSE "error"
             row == [computer EXCEPT !.state = state]
  <2>2. CASE StillClaimed(w) /\ WriteAndLeave(w, row, Failed)
    <3>1. state \in Settled \cup Claimed /\ (state \in Resting => ~Reconnecting(w))
      BY States DEF Resting
    <3>2. state \in Resting => Vacant
      BY <1>0, <2>2, <3>1 DEF StillClaimed, Reconnecting, Clearing, Kept
    <3> HIDE DEF state
    <3>3. row \in Row /\ row.state = state /\ row.team = computer.team /\ row.ref = computer.ref
      BY <1>0, <3>1, RowIn
    <3> HIDE DEF row
    <3> QED
      BY <2>2, <3>2, <3>3, WriteAndLeaveTidy
  <2> QED
    BY <1>4, <2>1, <2>2 DEF Record
<1> QED
  BY <1>2, <1>3, <1>4

\* A boot ends: nobody else is about to clear the computer.
LEMMA ActivateKeeps ==
  ASSUME KInv, Careful, NEW w \in Workers, Activate(w)
  PROVE  Known' /\ Kept'
<1>0. /\ IInv /\ Stamps /\ Known /\ Kept /\ Ordered(w) /\ job[w] \in Job /\ computer \in Row
      /\ At(w, "boxed") /\ job[w].box \in Boxes
  BY JobOf DEF KInv, Stamps, IInv, JobsOK, Activate, At, Good
<1>1. CASE Proceed(w, Goto(w, "undo"))
  <2>1. Tidy(w) /\ computer' = computer
    BY <1>0, <1>1, UndoTidy DEF Proceed
  <2> QED
    BY <2>1, TidyKeeps DEF Tidy
<1> DEFINE row == [computer EXCEPT !.state = "running", !.ref = job[w].box]
           rec == [Operation("turn", job[w].bot, "using") EXCEPT !.box = job[w].box,
                                                                 !.fence = job[w].fence]
<1>2. /\ row \in Row /\ row.state = "running" /\ row.ref = job[w].box
      /\ row.maintenance = computer.maintenance /\ row.team = computer.team
  BY <1>0, States DEF Row
<1>3. /\ rec.step = "using" /\ rec.op = "turn" /\ rec.bot = job[w].bot /\ rec.box = job[w].box
      /\ rec.ref = NoBox
  BY DEF Operation, Idle
<1> HIDE DEF row, rec
<1>4. ASSUME NEW new, new.step \in {"using", "idle", "completed", "failed"}, new.ref = NoBox,
             new.box = IF new.step = "using" THEN job[w].box ELSE NoBox,
             new.op = "turn" => job[w].op = "turn" /\ new.bot = job[w].bot,
             StillClaimed(w), Write(w, row, new), UNCHANGED <<boxes, runs, adrift>>,
             \A b \in Bots : leases'[b].live => leases'[b] = leases[b]
      PROVE  Known' /\ Kept'
  <2>1. /\ job'[w] = new /\ (\A x \in Workers \ {w} : Like(x) /\ ~job'[x].mine)
        /\ computer'.ref = job[w].box /\ computer'.team = computer.team
        /\ computer'.state = "running" /\ computer'.maintenance = computer.maintenance
    <3>1. \A x \in Workers \ {w} : job'[x] = [job[x] EXCEPT !.mine = FALSE]
      BY <1>4 DEF Write
    <3>2. ASSUME NEW x \in Workers \ {w} PROVE ~job'[x].mine
      <4>1. job[x] \in Job
        BY <1>0, JobOf
      <4>2. ~[job[x] EXCEPT !.mine = FALSE].mine
        BY <4>1, Fields
      <4> QED
        BY <3>1, <4>2
    <3>3. computer' = [row EXCEPT !.old = FALSE]
      BY <1>4 DEF Write
    <3>4. computer'.ref = row.ref /\ computer'.team = row.team
      BY <1>2, <3>3 DEF Row
    <3> QED
      BY <1>0, <1>2, <1>4, <3>1, <3>2, <3>3, <3>4, OthersSame, RowFacts DEF Like
  <2>2. Known'
    BY <1>0, <1>2, <1>4, ActivateKnown DEF Boxed
  <2>3. \A x \in Workers : ~Suspends(x)
    BY <1>0, <1>4, NotSuspending DEF StillClaimed
  <2>4. ASSUME NEW x \in Workers PROVE ~Clearing(job'[x])
    <3>1. CASE x = w
      BY <1>4, <2>1, <3>1 DEF Clearing, Provisioning
    <3>2. CASE x # w
      <4>1. job'[x].step = job[x].step /\ ~job'[x].mine
        BY <1>0, <2>1, <3>2, LikeFacts
      <4> QED
        BY <2>3, <4>1 DEF Clearing, Suspends, Suspending
    <3> QED
      BY <3>1, <3>2
  <2>5. ASSUME NEW x \in Workers \ {w}
        PROVE  /\ OwnsRun(x)' => OwnsRun(x) /\ (At(x, "take") <=> At(x, "take")')
               /\ Turning(x)' => Turning(x) /\ job'[x].box = job[x].box
    BY <1>0, <1>4, <2>1, YieldsOther
  <2>6. OwnsRun(w)' => OwnsRun(w) /\ ~At(w, "take")
    BY <1>0, <1>4, <2>1 DEF OwnsRun, At
  <2>7. ASSUME NEW x \in Workers, Works(x)' PROVE job'[x].box = computer'.ref
    <3>1. CASE x = w
      BY <1>4, <2>1, <2>7, <3>1 DEF Works, Turning, At
    <3>2. CASE x # w
      <4>1. Works(x) /\ job'[x].box = job[x].box
        BY <1>4, <2>5, <2>7, <3>2 DEF Works
      <4> QED
        BY <1>0, <2>7, <4>1, PlacedKeeps DEF Kept
    <3> QED
      BY <3>1, <3>2
  <2>8. ASSUME computer'.maintenance # NoUpdate, NEW x \in Workers, OwnsRun(x)' PROVE At(x, "take")'
    BY <1>0, <2>1, <2>5, <2>6, <2>8 DEF Kept
  <2> QED
    BY <2>1, <2>2, <2>4, <2>7, <2>8 DEF Kept, Resting
<1>5. CASE StillClaimed(w) /\ job[w].op = "turn" /\ Advance(w, row, rec)
  BY <1>3, <1>4, <1>5 DEF Advance
<1>6. CASE /\ StillClaimed(w) /\ Write(w, row, Ended(w, TRUE)) /\ leases' = Released(w)
           /\ UNCHANGED <<boxes, runs, updates, adrift, begun, events>>
  <2>1. \A b \in Bots : leases'[b].live => leases'[b] = leases[b]
    BY <1>0, <1>6 DEF Released, IInv, StoreOK, Lease
  <2> DEFINE new == Ended(w, TRUE)
  <2>2. /\ new.step \in {"idle", "completed", "failed"} /\ new.ref = NoBox /\ new.box = NoBox
        /\ new.op # "turn"
    BY <1>0, EndedGood, EndedBare DEF Bare
  <2>3. Write(w, row, new)
    BY <1>6
  <2> HIDE DEF new
  <2>4. new.box = IF new.step = "using" THEN job[w].box ELSE NoBox
    BY <2>2
  <2> QED
    BY <1>4, <1>6, <2>1, <2>2, <2>3, <2>4
<1> QED
  BY <1>1, <1>5, <1>6 DEF Activate, row, rec

\* A replacement.
LEMMA SeizeTidy ==
  ASSUME KInv, NEW w \in Workers, Look(w) \/ Seize(w) \/ Recheck(w)
  PROVE  Tidy(w)
<1>0. /\ IInv /\ Stamps /\ Kept /\ job[w] \in Job /\ job[w].step \in {"look", "seize", "seized"}
      /\ job[w].seen \in Settled \cup Claimed
  BY JobOf DEF KInv, Look, Seize, Recheck, At, Job
<1>1. ASSUME Leave(w, FALSE, Busy) PROVE Tidy(w)
  BY <1>1, LeaveTidy
<1>2. CASE Look(w)
  <2> DEFINE rec == [Seen(w, "seize") EXCEPT !.mine = TRUE]
  <2>1. /\ rec.step = "seize" /\ rec.op = job[w].op /\ rec.bot = job[w].bot
        /\ rec.box = job[w].box /\ rec.ref = computer.ref
    BY <1>0 DEF Seen, Job
  <2> HIDE DEF rec
  <2>2. Follows(w, rec) /\ ~Clearing(rec)
    BY <1>0, <2>1 DEF Follows, Boxed, Clearing, Provisioning
  <2>3. CASE Proceed(w, rec)
    BY <2>2, <2>3, ProceedTidy
  <2> QED
    BY <1>1, <1>2, <2>3 DEF Look, rec
<1>3. CASE Seize(w)
  <2> DEFINE row == [computer EXCEPT !.state = "suspending"]
             rec == Holding(w, "seized")
  <2>1. CASE Seizable(w) /\ Advance(w, row, rec)
    <3>1. /\ row \in Row /\ row.state = "suspending" /\ row.team = computer.team
          /\ row.ref = computer.ref
      BY <1>0, RowIn, States
    <3>0. Follows(w, rec)
      BY <1>0, GotoFollows DEF Boxed
    <3>2. rec.step = "seized" /\ rec.seen = job[w].seen
      BY <1>0, Fields DEF Holding
    <3>3. Advance(w, row, rec)
      BY <2>1
    <3> HIDE DEF row, rec
    <3>4. Clearing(rec) => Vacant
      BY <1>0, <2>1, <3>2 DEF Clearing, Provisioning, Seizable, Kept
    <3> QED
      BY <3>0, <3>1, <3>3, <3>4, AdvanceTidy DEF Resting
  <2> QED
    BY <1>1, <1>3, <2>1 DEF Seize
<1>4. CASE Recheck(w)
  <2>0. job[w].step = "seized"
    BY <1>4 DEF Recheck, At
  <2>1. CASE NobodyRuns /\ Proceed(w, Goto(w, "clear"))
    <3>1. Vacant
      BY <1>0, <2>1, NoRunVacant DEF NobodyRuns, ActiveRuns
    <3>2. Follows(w, Goto(w, "clear"))
      BY <1>0, GotoFollows DEF Boxed
    <3> QED
      BY <2>1, <3>1, <3>2, ProceedTidy
  <2>2. CASE WriteAndLeave(w, [computer EXCEPT !.state = job[w].seen], Busy)
    <3>1. job[w].seen \in Resting => Vacant
      BY <1>0, <2>0 DEF Clearing, Kept
    <3> QED
      BY <1>0, <2>2, <3>1, RowIn, WriteAndLeaveTidy
  <2> QED
    BY <1>1, <1>4, <2>1, <2>2 DEF Recheck
<1> QED
  BY <1>2, <1>3, <1>4

LEMMA VacateTidy ==
  ASSUME KInv, NEW w \in Workers, Clear(w) \/ Vacate(w) \/ Broken(w)
  PROVE  Tidy(w)
<1>0. /\ IInv /\ Stamps /\ Known /\ Kept /\ job[w] \in Job /\ boxes \in [Boxes -> BoxStates]
      /\ job[w].step \in {"clear", "vacate", "broken"}
  BY JobOf DEF KInv, IInv, StoreOK, Clear, Vacate, Broken, At
<1>1. job[w].step \in {"clear", "vacate"} => Vacant
  BY <1>0 DEF Kept, Clearing
<1>2. \A step \in {"vacate", "broken"} : Follows(w, Goto(w, step))
  BY <1>0, GotoFollows DEF Boxed
<1>3. CASE Clear(w)
  <2>0. Vacant
    BY <1>1, <1>3 DEF Clear, At
  <2>1. \A b \in Boxes : [boxes EXCEPT ![job[w].ref] = "gone"][b] = "none" => boxes[b] = "none"
    BY <1>0
  <2> QED
    BY <1>2, <1>3, <2>0, <2>1, ProceedTidy, ProviderTidy DEF Clear
<1>4. CASE Vacate(w)
  <2>0. Vacant
    BY <1>1, <1>4 DEF Vacate, At
  <2> DEFINE row == [computer EXCEPT !.state = "stopped", !.ref = NoBox, !.control = "none"]
             rec == [Holding(w, "enter") EXCEPT !.seen = "stopped", !.ref = NoBox]
  <2>1. CASE Write(w, row, rec) /\ UNCHANGED <<boxes, leases, runs, updates, begun, events>>
    <3>1. row \in Row /\ row.team = computer.team /\ row.ref = NoBox
      BY <1>0, States DEF IInv, JobsOK, Row
    <3>2. /\ rec.step = "enter" /\ rec.op = job[w].op /\ rec.bot = job[w].bot
          /\ rec.box = job[w].box /\ rec.ref = NoBox
      BY <1>0 DEF Holding, Job
    <3> HIDE DEF row, rec
    <3>3. Touch(w, rec) /\ Follows(w, rec)
      BY <1>0, <2>1, <3>1, <3>2 DEF Touch, Follows, Boxed
    <3>4. Course(w)
      BY <1>0, <2>1, <3>3, FollowsCourse DEF Ungiven
    <3> QED
      BY <2>0, <3>3, <3>4, TouchTidy
  <2>2. CASE Proceed(w, Goto(w, "broken"))
    BY <1>2, <2>0, <2>2, ProceedTidy
  <2> QED
    BY <1>4, <2>1, <2>2 DEF Vacate
<1>5. CASE Broken(w)
  <2>1. CASE job[w].mine /\ WriteAndLeave(w, [computer EXCEPT !.state = "error"], Busy)
    <3>1. Vacant
      BY <1>0, <1>5, <2>1 DEF Broken, At, Kept, Clearing
    <3> QED
      BY <1>0, <2>1, <3>1, RowIn, States, WriteAndLeaveTidy
  <2>2. CASE Leave(w, FALSE, Busy)
    BY <2>2, LeaveTidy
  <2> QED
    BY <1>5, <2>1, <2>2 DEF Broken
<1> QED
  BY <1>3, <1>4, <1>5

\* The idle job, and the user's stop.
LEMMA SleepTidy ==
  ASSUME KInv, NEW w \in Workers,
         Doze(w) \/ Saving(w) \/ Halt(w) \/ Rest(w) \/ Shut(w) \/ Halting(w) \/ Halted(w)
  PROVE  Tidy(w)
<1>0. /\ IInv /\ Stamps /\ Kept /\ job[w] \in Job /\ boxes \in [Boxes -> BoxStates]
  BY JobOf DEF KInv, IInv, StoreOK
<1>a. ASSUME Leave(w, FALSE, {}) PROVE Tidy(w)
  BY <1>a, LeaveTidy
<1>b. ASSUME NEW state \in Settled \cup Claimed, state \in Resting => Vacant,
             \/ WriteAndLeave(w, [computer EXCEPT !.state = state], {})
             \/ WriteAndLeave(w, [computer EXCEPT !.state = state, !.control = "none"], {})
      PROVE  Tidy(w)
  BY <1>0, <1>b, RowIn, WriteAndLeaveTidy
<1>c. ASSUME WakeAgain(w) PROVE Tidy(w)
  BY <1>a, <1>b, <1>c, States DEF WakeAgain, Resting
<1>d. ASSUME NEW rec, Advance(w, [computer EXCEPT !.state = "suspending"], rec),
             Follows(w, rec), Clearing(rec) => Vacant
      PROVE  Tidy(w)
  BY <1>0, <1>d, RowIn, States, AdvanceTidy DEF Resting
<1>e. \A b \in Boxes : [boxes EXCEPT ![job[w].ref] = IF @ = "running" THEN "stopped" ELSE @][b] = "none"
                         => boxes[b] = "none"
  BY <1>0
<1>1. CASE Doze(w)
  <2> DEFINE rec == Holding(w, "saving")
  <2>1. Follows(w, rec)
    BY <1>0, <1>1, GotoFollows DEF Doze, At, Boxed
  <2>2. rec.step = "saving"
    BY <1>0, Fields DEF Holding
  <2> HIDE DEF rec
  <2>3. CASE Advance(w, [computer EXCEPT !.state = "suspending"], rec)
    BY <1>d, <2>1, <2>2, <2>3 DEF Clearing, Provisioning
  <2> QED
    BY <1>1, <1>a, <2>3 DEF Doze, rec
<1>2. CASE Shut(w)
  <2> DEFINE rec == [Holding(w, "shutting") EXCEPT !.flag = job[w].seen # computer.state]
  <2>1. /\ rec.step = "shutting" /\ rec.op = job[w].op /\ rec.bot = job[w].bot
        /\ rec.box = job[w].box /\ rec.ref = job[w].ref /\ rec.seen = job[w].seen
        /\ rec.flag = (job[w].seen # computer.state)
    BY <1>0 DEF Holding, Job
  <2> HIDE DEF rec
  <2>2. Follows(w, rec)
    BY <1>2, <2>1 DEF Shut, At, Follows, Boxed
  <2>3. Clearing(rec) => Vacant
    BY <1>0, <2>1 DEF Clearing, Provisioning, Kept
  <2>4. CASE Advance(w, [computer EXCEPT !.state = "suspending"], rec)
    BY <1>d, <2>2, <2>3, <2>4
  <2> QED
    BY <1>2, <1>a, <2>4 DEF Shut, rec
<1>3. CASE Saving(w)
  <2>1. CASE Awake(job[w].flag) = {} /\ Proceed(w, Goto(w, "halt"))
    <3>1. \A b \in Bots : runs[b].status # "leased"
      BY <2>1 DEF Awake, ActiveRuns
    <3>2. Vacant
      BY <1>0, <3>1, NoRunVacant
    <3>3. Follows(w, Goto(w, "halt"))
      BY <1>0, <1>3, GotoFollows DEF Saving, At, Boxed
    <3> QED
      BY <2>1, <3>2, <3>3, ProceedTidy
  <2> QED
    BY <1>3, <1>c, <2>1 DEF Saving
<1>4. CASE Halt(w)
  <2>1. Vacant /\ Follows(w, Goto(w, "rest"))
    BY <1>0, <1>4, GotoFollows DEF Halt, At, Boxed, Kept, Clearing
  <2> QED
    BY <1>4, <1>c, <1>e, <2>1, ProviderTidy DEF Halt
<1>5. CASE Rest(w)
  <2>1. Vacant
    BY <1>0, <1>5 DEF Rest, At, Kept, Clearing
  <2> QED
    BY <1>5, <1>a, <1>b, <2>1, States DEF Rest
<1>6. CASE Halting(w)
  <2>1. Vacant /\ Follows(w, Goto(w, "halted"))
    BY <1>0, <1>6, GotoFollows DEF Halting, At, Boxed, Kept, Clearing
  <2>2. CASE InSuspending(w, "error")
    BY <1>a, <1>b, <2>1, <2>2, States DEF InSuspending
  <2> QED
    BY <1>6, <1>e, <2>1, <2>2, ProviderTidy, ProceedTidy DEF Halting
<1>7. CASE Halted(w)
  <2>1. Vacant
    BY <1>0, <1>7 DEF Halted, At, Kept, Clearing
  <2> QED
    BY <1>7, <1>b, <2>1, States DEF Halted
<1> QED
  BY <1>1, <1>2, <1>3, <1>4, <1>5, <1>6, <1>7

LEMMA ShuttingTidy ==
  ASSUME KInv, Careful, NEW w \in Workers, Shutting(w)
  PROVE  Tidy(w)
<1>0. /\ IInv /\ Stamps /\ Known /\ Kept /\ job[w] \in Job /\ job[w].step = "shutting"
      /\ leases \in [Bots -> Lease] /\ Nobody \notin Workers
  BY JobOf, NamesAssumption DEF KInv, IInv, StoreOK, Shutting, At
<1>1. CASE Leave(w, FALSE, {})
  BY <1>1, LeaveTidy
<1>2. CASE /\ Write(w, [computer EXCEPT !.state = job[w].seen], Idle)
           /\ adrift' = IF job[w].flag THEN adrift \cup ({computer.ref} \ {NoBox}) ELSE adrift
           /\ UNCHANGED <<boxes, leases, runs, updates, begun, events>>
  <2> DEFINE row == [computer EXCEPT !.state = job[w].seen]
  <2>1. /\ row \in Row /\ row.team = computer.team /\ row.ref = computer.ref
        /\ row.state = job[w].seen
    BY <1>0, RowIn DEF Job
  <2> HIDE DEF row
  <2>2. Touch(w, Idle) /\ ~Clearing(Idle)
    BY <1>2, <2>1 DEF row, Touch, Clearing, Idle, Provisioning
  <2>3. Course(w)
    BY <1>0, <1>2, <2>2, EndedBare, BareCourse DEF Ungiven
  <2>4. computer'.state = job[w].seen
    BY <1>2, <2>1, RowFacts DEF Write, row
  <2>5. job[w].seen \in Resting => Vacant \/ Vacant'
    <3>1. CASE ~job[w].flag
      BY <1>0, <3>1 DEF Kept, Clearing
    <3>2. CASE job[w].flag
      <4>1. ASSUME NEW x \in Workers, Works(x)' PROVE FALSE
        <5>1. Works(x) /\ job'[x].box = job[x].box
          BY <1>0, <2>3, <4>1, YieldsWorks DEF Course
        <5>2. job[x].box = computer.ref /\ job[x].box \in Boxes /\ NoBox \notin Boxes
          BY <1>0, <5>1, JobOf, RefShape DEF Kept, Works, Turning, At, Good
        <5> QED
          BY <1>2, <3>2, <4>1, <5>1, <5>2 DEF Works
      <4> QED
        BY <4>1 DEF Vacant
    <3> QED
      BY <3>1, <3>2
  <2> QED
    BY <2>2, <2>3, <2>4, <2>5, TouchTidy
<1>3. CASE /\ ~OthersRun(job[w].bot)
           /\ leases' = [leases EXCEPT ![job[w].bot] = Absent]
           /\ adrift' = IF ~Team /\ InUse(computer.ref) # {} THEN adrift \cup {computer.ref} ELSE adrift
           /\ Put(w, Goto(w, "halting"))
           /\ UNCHANGED <<computer, boxes, runs, updates, begun, events>>
  <2>1. Touch(w, Goto(w, "halting")) /\ Follows(w, Goto(w, "halting"))
    BY <1>0, <1>3, GotoFollows DEF Touch, Boxed
  <2>2. \A b \in Bots : leases'[b] = IF b = job[w].bot THEN Absent ELSE leases[b]
    BY <1>0, <1>3
  <2>3. Ungiven(w)
    BY <1>0, <1>3, <2>2 DEF Ungiven, Absent
  <2>4. Course(w)
    BY <1>0, <1>3, <2>1, <2>3, FollowsCourse
  <2>5. ASSUME NEW x \in Workers, Works(x)' PROVE FALSE
    <3>1. /\ Works(x) /\ job'[x].box = job[x].box /\ job'[x] = job[x]
      <4>1. Works(x) /\ job'[x].box = job[x].box
        BY <1>0, <2>4, <2>5, YieldsWorks DEF Course
      <4>2. x # w
        BY <1>0, <4>1 DEF Works, Turning, At
      <4> QED
        BY <1>0, <1>3, <4>1, <4>2 DEF Put, IInv, JobsOK
    <3>2. /\ job[x].bot \in Bots /\ runs[job[x].bot].status = "leased" /\ job[x].box = computer.ref
      BY <1>0, <3>1, RunOf DEF Kept, Works, Turning
    <3>3. job[x].bot = job[w].bot
      BY <1>3, <3>2 DEF OthersRun, ActiveRuns
    <3>4. ~Team
      <4>1. KeepsLease(x)' /\ ~leases'[job[x].bot].live
        BY <2>2, <2>5, <3>2, <3>3 DEF Works, Turning, Absent
      <4> QED
        BY <1>3, <3>1, <4>1 DEF KeepsLease, Team
    <3>5. x \in InUse(computer.ref)
      BY <3>1, <3>2 DEF InUse, Works, Turning
    <3> QED
      BY <1>3, <2>5, <3>1, <3>2, <3>4, <3>5 DEF Works
  <2> QED
    BY <1>3, <2>1, <2>4, <2>5, TouchTidy DEF Vacant
<1> QED
  BY <1>1, <1>2, <1>3 DEF Shutting, PutBack

\* Operations begin and end.
LEMMA BeginTidy ==
  ASSUME KInv, NEW w \in Workers,
         \/ StartSleep(w)
         \/ \E b \in computer.bots : StartTurn(w, b) \/ StartManual(w, b) \/ StartStop(w, b)
         \/ \E u \in DOMAIN updates : PerformUpdate(w, u)
  PROVE  Tidy(w)
<1>0. IInv /\ Stamps /\ computer.bots \subseteq Bots /\ runs \in [Bots -> Run]
  BY DEF KInv, IInv, JobsOK, StoreOK, Row
<1> DEFINE Begins(rec) == /\ Begin(w, rec) /\ UNCHANGED Unmoved
                          /\ rec.step \in {"take", "shut", "look", "doze"}
                          /\ rec.box = NoBox /\ rec.ref \in {computer.ref, NoBox}
                          /\ rec.op = "turn" => rec.step = "take"
<1>1. /\ \E rec : Begins(rec)
      /\ leases' = leases
      /\ \A b \in Bots : runs'[b] = runs[b] \/ runs'[b].by = w
  <2>1. CASE StartSleep(w)
    <3> DEFINE rec == [Operation("sleep", Nobody, "doze")
                         EXCEPT !.ref = computer.ref, !.mine = TRUE,
                                !.flag = computer.control = "held"]
    <3>1. rec.step = "doze" /\ rec.op = "sleep" /\ rec.box = NoBox /\ rec.ref = computer.ref
      BY DEF Operation, Idle
    <3> HIDE DEF rec
    <3>2. Begin(w, rec) /\ UNCHANGED Unmoved
      BY <2>1 DEF StartSleep, rec
    <3> QED
      BY <2>1, <3>1, <3>2 DEF StartSleep
  <2>2. ASSUME NEW b \in computer.bots, StartTurn(w, b) \/ StartManual(w, b) \/ StartStop(w, b)
        PROVE  /\ \E rec : Begins(rec)
               /\ leases' = leases
               /\ \A c \in Bots : runs'[c] = runs[c] \/ runs'[c].by = w
    <3>1. \A op : LET rec == Operation(op, b, "take")
                  IN  rec.step = "take" /\ rec.box = NoBox /\ rec.ref = NoBox
      BY DEF Operation, Idle
    <3> DEFINE stop == [Operation("stop", b, "shut")
                          EXCEPT !.seen = computer.state, !.ref = computer.ref]
    <3>2. stop.step = "shut" /\ stop.op = "stop" /\ stop.box = NoBox /\ stop.ref = computer.ref
      BY DEF Operation, Idle
    <3> HIDE DEF stop
    <3>3. /\ (\E op : Begin(w, Operation(op, b, "take"))) \/ Begin(w, stop)
          /\ UNCHANGED Unmoved /\ leases' = leases
      BY <2>2 DEF StartTurn, StartManual, StartStop, stop
    <3>4. \A c \in Bots : runs'[c] = runs[c] \/ runs'[c].by = w
      BY <1>0, <2>2 DEF StartTurn, StartManual, StartStop, Run
    <3> QED
      BY <3>1, <3>2, <3>3, <3>4
  <2>3. ASSUME NEW u \in DOMAIN updates, PerformUpdate(w, u)
        PROVE  /\ \E rec : Begins(rec)
               /\ leases' = leases
               /\ \A c \in Bots : runs'[c] = runs[c] \/ runs'[c].by = w
    <3>1. PICK b \in computer.bots : Begin(w, [Operation("update", b, "look") EXCEPT !.upd = u])
      BY <2>3 DEF PerformUpdate
    <3> DEFINE rec == [Operation("update", b, "look") EXCEPT !.upd = u]
    <3>2. rec.step = "look" /\ rec.op = "update" /\ rec.box = NoBox /\ rec.ref = NoBox
      BY DEF Operation, Idle
    <3> HIDE DEF rec
    <3>3. Begin(w, rec)
      BY <3>1 DEF rec
    <3> QED
      BY <2>3, <3>2, <3>3 DEF PerformUpdate
  <2> HIDE DEF Begins
  <2> QED
    BY <2>1, <2>2, <2>3
<1>2. PICK rec : Begins(rec)
  BY <1>1
<1>3. Touch(w, rec) /\ Bare(rec) /\ ~Clearing(rec) /\ computer' = computer /\ boxes' = boxes
  BY <1>2 DEF Begin, Unmoved, Touch, Bare, Boxed, Clearing, Provisioning
<1>4. Ungiven(w)
  BY <1>1 DEF Ungiven
<1>5. Course(w)
  BY <1>0, <1>2, <1>3, <1>4, BareCourse
<1> QED
  BY <1>3, <1>5, TouchTidy

LEMMA FinishTidy ==
  ASSUME KInv, NEW w \in Workers, FinishUpdate(w)
  PROVE  Tidy(w)
<1>0. IInv /\ Stamps /\ ~Clearing(Idle)
  BY DEF KInv, Clearing, Idle, Provisioning
<1> DEFINE row == Unreserved(job[w].upd)
<1>1. /\ row \in Row /\ row.state = computer.state /\ row.team = computer.team
      /\ row.ref = computer.ref
  BY <1>0, UpdateFacts DEF Unreserved, Row, NoUpdate
<1> HIDE DEF row
<1>2. (Put(w, Idle) /\ computer' = computer) \/ Write(w, row, Idle)
  BY DEF FinishUpdate, row
<1>3. Touch(w, Idle) /\ computer'.state = computer.state
  BY <1>1, <1>2, RowFacts DEF Touch, Write
<1>4. Course(w)
  BY <1>0, <1>3, EndedBare, BareCourse DEF FinishUpdate, Ungiven
<1> QED
  BY <1>0, <1>3, <1>4, TouchTidy

\* Others write the row.
LEMMA WorldTidy ==
  ASSUME KInv,
         \/ (\E b \in computer.bots : Grant(b)) \/ EndControl \/ QueueUpdate
         \/ \E u \in DOMAIN updates : ReleaseInterrupted(u)
  PROVE  Tidy(Nobody)
<1>0. IInv /\ Stamps /\ Kept /\ Nobody \notin Workers
  BY NamesAssumption DEF KInv
<1>1. PICK row \in Row : /\ Write(Nobody, row, Idle) /\ UNCHANGED <<boxes, leases, runs>>
                         /\ row.team = computer.team /\ row.ref = computer.ref
                         /\ row.state \in Resting => computer.state \in Resting \/ Vacant
  <2>1. CASE (\E b \in computer.bots : Grant(b)) \/ EndControl
    <3>1. PICK control \in {"held", "none"} :
            /\ Write(Nobody, [computer EXCEPT !.control = control], Idle)
            /\ UNCHANGED <<boxes, leases, runs>>
      BY <2>1 DEF Grant, EndControl, SetControl
    <3> DEFINE row == [computer EXCEPT !.control = control]
    <3>2. row \in Row /\ row.state = computer.state /\ row.team = computer.team /\ row.ref = computer.ref
      BY <1>0 DEF IInv, JobsOK, Row
    <3> QED
      BY <3>1, <3>2
  <2>2. CASE QueueUpdate
    <3> DEFINE row == [computer EXCEPT !.maintenance = Len(updates) + 1]
    <3>1. row \in Row /\ row.state = computer.state /\ row.team = computer.team /\ row.ref = computer.ref
      BY <1>0, UpdateFacts DEF Row
    <3> QED
      BY <2>2, <3>1 DEF QueueUpdate
  <2>3. ASSUME NEW u \in DOMAIN updates, ReleaseInterrupted(u)
        PROVE  \E row \in Row : /\ Write(Nobody, row, Idle) /\ UNCHANGED <<boxes, leases, runs>>
                                /\ row.team = computer.team /\ row.ref = computer.ref
                                /\ row.state \in Resting => computer.state \in Resting \/ Vacant
    <3> DEFINE row == [computer EXCEPT !.maintenance = NoUpdate, !.state = "error"]
    <3>1. row \in Row /\ row.team = computer.team /\ row.ref = computer.ref
      BY <1>0, UpdateFacts, States DEF Row, NoUpdate
    <3>2. computer.maintenance # NoUpdate
      BY <1>0, <2>3, UpdateFacts DEF ReleaseInterrupted
    <3>3. Vacant
      BY <1>0, <3>2 DEF Kept, Vacant, Works, Turning, At
    <3> QED
      BY <2>3, <3>1, <3>3 DEF ReleaseInterrupted
  <2> QED
    BY <2>1, <2>2, <2>3
<1>2. Touch(Nobody, Idle) /\ computer'.state = row.state
  BY <1>1, RowFacts DEF Touch, Write
<1>3. Bare(Idle) /\ Idle.ref = NoBox /\ Idle.op # "turn"
  BY DEF Bare, Boxed, Idle
<1>4. Course(Nobody)
  BY <1>0, <1>1, <1>2, <1>3, BareCourse DEF Ungiven
<1> QED
  BY <1>0, <1>1, <1>2, <1>4, TouchTidy

\* Runs and leases come and end without a worker, and time passes.
LEMMA PassingTidy ==
  ASSUME KInv,
         \/ \E b \in computer.bots : NewRun(b) \/ Return(b) \/ Cancel(b) \/ ExpireRun(b)
                                       \/ ExpireLease(b)
         \/ Lapse \/ GrowOld \/ (\E u \in DOMAIN updates : Interrupt(u))
         \/ UNCHANGED vars
  PROVE  Tidy(Nobody)
<1>0. /\ IInv /\ Stamps /\ Known /\ Kept /\ Nobody \notin Workers /\ computer \in Row
      /\ leases \in [Bots -> Lease] /\ runs \in [Bots -> Run] /\ computer.bots \subseteq Bots
  BY NamesAssumption DEF KInv, IInv, JobsOK, StoreOK, Row
<1>1. job' = job /\ boxes' = boxes
  BY DEF NewRun, Return, Cancel, ExpireRun, ExpireLease, SetRun, Others, Lapse, GrowOld, Interrupt,
         vars
<1>2. /\ computer'.ref = computer.ref /\ computer'.team = computer.team
      /\ computer'.state = computer.state
  BY <1>0 DEF NewRun, Return, Cancel, ExpireRun, ExpireLease, SetRun, Others, Lapse, GrowOld,
              Interrupt, vars, Row
<1>3. \A b \in Bots : runs'[b] = runs[b] \/ runs'[b].by = Nobody
  <2>1. /\ NoRun.by = Nobody /\ [NoRun EXCEPT !.status = "queued"].by = Nobody
        /\ [NoRun EXCEPT !.status = "queued", !.held = TRUE].by = Nobody
    BY DEF NoRun
  <2>2. ASSUME NEW b \in computer.bots,
               NewRun(b) \/ Return(b) \/ Cancel(b) \/ ExpireRun(b) \/ ExpireLease(b)
        PROVE  \A c \in Bots : runs'[c] = runs[c] \/ runs'[c].by = Nobody
    <3>1. CASE NewRun(b) \/ Return(b) \/ Cancel(b)
      BY <1>0, <2>1, <3>1 DEF NewRun, Return, Cancel, SetRun
    <3>2. CASE ExpireRun(b)
      <4>1. [runs[b] EXCEPT !.status = "queued", !.by = Nobody].by = Nobody
        BY <1>0 DEF Run
      <4> QED
        BY <1>0, <3>2, <4>1 DEF ExpireRun, SetRun
    <3>3. CASE ExpireLease(b)
      BY <3>3 DEF ExpireLease
    <3> QED
      BY <2>2, <3>1, <3>2, <3>3
  <2>3. CASE Lapse \/ GrowOld \/ (\E u \in DOMAIN updates : Interrupt(u)) \/ UNCHANGED vars
    BY <2>3 DEF Lapse, GrowOld, Interrupt, vars
  <2> QED
    BY <2>2, <2>3
<1>4. \A b \in Bots : leases'[b].live => leases'[b] = leases[b]
  <2>1. ASSUME NEW b \in computer.bots, NEW live \in BOOLEAN, live => leases[b].live,
               leases' = [leases EXCEPT ![b].live = live]
        PROVE  \A c \in Bots : leases'[c].live => leases'[c] = leases[c]
    <3>1. leases[b] \in Lease /\ leases'[b] = [leases[b] EXCEPT !.live = live]
      BY <1>0, <2>1
    <3>2. leases'[b].live => leases'[b] = leases[b]
      BY <2>1, <3>1 DEF Lease
    <3> QED
      BY <1>0, <2>1, <3>2
  <2>2. ASSUME NEW b \in computer.bots, Cancel(b)
        PROVE  \A c \in Bots : leases'[c].live => leases'[c] = leases[c]
    <3>1. (leases[b].live /\ ~LeasedToRun(b)) \in BOOLEAN
      OBVIOUS
    <3>2. leases' = [leases EXCEPT ![b].live = leases[b].live /\ ~LeasedToRun(b)]
      BY <1>0, <2>2 DEF Cancel
    <3> QED
      BY <2>1, <3>1, <3>2
  <2>3. ASSUME NEW b \in computer.bots, ExpireLease(b)
        PROVE  \A c \in Bots : leases'[c].live => leases'[c] = leases[c]
    BY <2>1, <2>3 DEF ExpireLease
  <2> QED
    BY <2>2, <2>3 DEF NewRun, Return, ExpireRun, SetRun, Lapse, GrowOld, Interrupt, vars
<1>5. (\A x \in Workers \ {Nobody} : Like(x)) /\ Ungiven(Nobody)
  BY <1>0, <1>1, <1>3, <1>4 DEF Like, Ungiven
<1>6. Hands(Nobody) /\ Yields
  BY <1>0, <1>1, <1>2, <1>5, YieldsBy DEF Hands
<1> QED
  BY <1>0, <1>2, <1>5, <1>6, HandsKeeps DEF Tidy, Kept

LEMMA NextKInv ==
  ASSUME KInv, ~Slow, [Next]_vars
  PROVE  KInv'
<1>0. IInv /\ Stamps /\ Accounted /\ Careful
  BY NextCareful DEF KInv
<1>1. IInv' /\ Stamps' /\ Accounted'
  BY <1>0, NextIInv, NextStamps, CarefulKeeps
<1>2. ASSUME NEW w, Tidy(w), \/ computer'.maintenance \in {computer.maintenance, NoUpdate}
                             \/ \A x \in Workers : ~OwnsRun(x)'
      PROVE  Known' /\ Kept'
  BY <1>0, <1>2, TidyKeeps DEF Tidy
<1>3. ASSUME NEW w \in Workers,
             Continue(w) \/ HandOver(w) \/ Fail(w) \/ Crash(w) \/ StartSleep(w)
      PROVE  Known' /\ Kept'
  <2>1. computer'.maintenance \in {computer.maintenance, NoUpdate}
    <3>1. CASE FinishUpdate(w)
      <4>1. /\ Unreserved(job[w].upd) \in Row
            /\ Unreserved(job[w].upd).maintenance \in {computer.maintenance, NoUpdate}
        BY <1>0, UpdateFacts DEF Unreserved, Row, NoUpdate
      <4> QED
        BY <3>1, <4>1, RowFacts DEF FinishUpdate, Write
    <3>2. CASE ~FinishUpdate(w)
      BY <1>0, <1>3, <3>2, WorkerSteps DEF Moved
    <3> QED
      BY <3>1, <3>2
  <2>2. CASE Take(w) \/ Validate(w) \/ FinishTurn(w) \/ HandOver(w) \/ Crash(w)
    BY <1>2, <2>1, <2>2, LeaseTidy
  <2>3. CASE Observe(w) \/ Await(w) \/ Claim(w) \/ Provide(w) \/ Undo(w) \/ Record(w) \/ Fail(w)
    BY <1>2, <2>1, <2>3, EnterTidy, ClaimTidy, ProvideTidy, UndoTidy
  <2>4. CASE Activate(w)
    BY <1>0, <2>4, ActivateKeeps
  <2>5. CASE Look(w) \/ Seize(w) \/ Recheck(w) \/ Clear(w) \/ Vacate(w) \/ Broken(w)
    BY <1>2, <2>1, <2>5, SeizeTidy, VacateTidy
  <2>6. CASE FinishUpdate(w)
    BY <1>2, <2>1, <2>6, FinishTidy
  <2>7. CASE Doze(w) \/ Saving(w) \/ Halt(w) \/ Rest(w) \/ Shut(w) \/ Halting(w) \/ Halted(w)
    BY <1>2, <2>1, <2>7, SleepTidy
  <2>8. CASE Shutting(w)
    BY <1>0, <1>2, <2>1, <2>8, ShuttingTidy
  <2>9. CASE StartSleep(w)
    BY <1>2, <2>1, <2>9, BeginTidy
  <2> QED
    BY <1>3, <2>2, <2>3, <2>4, <2>5, <2>6, <2>7, <2>8, <2>9 DEF Continue
<1>4. ASSUME NEW w \in Workers,
             \/ \E b \in computer.bots : StartTurn(w, b) \/ StartManual(w, b) \/ StartStop(w, b)
             \/ \E u \in DOMAIN updates : PerformUpdate(w, u)
      PROVE  Known' /\ Kept'
  <2>1. computer' = computer
    BY <1>4 DEF StartTurn, StartManual, StartStop, PerformUpdate, Unmoved
  <2> QED
    BY <1>2, <1>4, <2>1, BeginTidy
<1>5. ASSUME \/ (\E b \in computer.bots : Grant(b)) \/ EndControl
             \/ \E u \in DOMAIN updates : ReleaseInterrupted(u)
      PROVE  Known' /\ Kept'
  <2>1. computer'.maintenance \in {computer.maintenance, NoUpdate}
    <3>1. CASE (\E b \in computer.bots : Grant(b)) \/ EndControl
      BY <1>0, <3>1, ScreenSteps DEF Moved
    <3>2. ASSUME NEW u \in DOMAIN updates, ReleaseInterrupted(u)
          PROVE  computer'.maintenance = NoUpdate
      <4>1. /\ [computer EXCEPT !.maintenance = NoUpdate, !.state = "error"] \in Row
            /\ [computer EXCEPT !.maintenance = NoUpdate, !.state = "error"].maintenance = NoUpdate
        BY <1>0, UpdateFacts, States DEF Row, NoUpdate
      <4> QED
        BY <3>2, <4>1, RowFacts DEF ReleaseInterrupted, Write
    <3> QED
      BY <1>5, <3>1, <3>2
  <2> QED
    <3>1. Tidy(Nobody)
      BY <1>5, WorldTidy
    <3> QED
      BY <1>2, <2>1, <3>1
<1>6. ASSUME QueueUpdate PROVE Known' /\ Kept'
  <2>1. \A x \in Workers : ~OwnsRun(x)
    <3>1. ActiveRuns = {}
      BY <1>6 DEF QueueUpdate, Reservable
    <3> QED
      BY <1>0, <3>1, RunOf DEF ActiveRuns
  <2>2. ASSUME NEW x \in Workers, OwnsRun(x)' PROVE FALSE
    <3>1. Like(x) /\ runs' = runs
      BY <1>0, <1>6, NamesAssumption, OthersLike DEF QueueUpdate
    <3> QED
      BY <1>0, <2>1, <2>2, <3>1, LikeFacts DEF OwnsRun
  <2> QED
    <3>1. Tidy(Nobody)
      BY <1>6, WorldTidy
    <3> QED
      BY <1>2, <2>2, <3>1
<1>7. ASSUME \/ \E b \in computer.bots : NewRun(b) \/ Return(b) \/ Cancel(b) \/ ExpireRun(b)
                                           \/ ExpireLease(b)
             \/ Lapse \/ GrowOld \/ (\E u \in DOMAIN updates : Interrupt(u))
             \/ UNCHANGED vars
      PROVE  Known' /\ Kept'
  <2>1. computer'.maintenance = computer.maintenance
    BY <1>0, <1>7, BotSteps, TimeSteps DEF Passed, Interrupt, vars
  <2> QED
    <3>1. Tidy(Nobody)
      BY <1>7, PassingTidy
    <3> QED
      BY <1>2, <2>1, <3>1
<1>8. Known' /\ Kept'
  <2>1. CASE \E w \in Workers :
               \/ Continue(w) \/ HandOver(w) \/ Fail(w) \/ Crash(w) \/ StartSleep(w)
               \/ \E b \in computer.bots : StartTurn(w, b) \/ StartManual(w, b) \/ StartStop(w, b)
               \/ \E u \in DOMAIN updates : PerformUpdate(w, u)
    BY <1>3, <1>4, <2>1
  <2>2. CASE ~\E w \in Workers :
               \/ Continue(w) \/ HandOver(w) \/ Fail(w) \/ Crash(w) \/ StartSleep(w)
               \/ \E b \in computer.bots : StartTurn(w, b) \/ StartManual(w, b) \/ StartStop(w, b)
               \/ \E u \in DOMAIN updates : PerformUpdate(w, u)
    <3>1. UNCHANGED vars \/ Next
      OBVIOUS
    <3>2. ASSUME Next
          PROVE  \/ \E b \in computer.bots : Grant(b)
                 \/ \E b \in computer.bots : NewRun(b) \/ Return(b) \/ Cancel(b) \/ ExpireRun(b)
                                               \/ ExpireLease(b)
                 \/ QueueUpdate \/ Lapse \/ EndControl \/ GrowOld
                 \/ \E u \in DOMAIN updates : Interrupt(u) \/ ReleaseInterrupted(u)
      BY <2>2, <3>2, Zenon DEF Next
    <3> QED
      BY <1>5, <1>6, <1>7, <3>1, <3>2
  <2> QED
    BY <2>1, <2>2
<1> QED
  BY <1>1, <1>8 DEF KInv

LEMMA InitKInv == Init => KInv
<1> SUFFICES ASSUME Init PROVE KInv
  OBVIOUS
<1>1. /\ computer.ref = 1 /\ computer.state = "running" /\ computer.maintenance = NoUpdate
      /\ \A b \in Boxes : boxes[b] = IF b = 1 THEN "running" ELSE "none"
  BY DEF Init
<1>2. \A w \in Workers : job[w] = Idle
  BY DEF Init
<1>3. /\ Idle.step = "idle" /\ Idle.box = NoBox /\ Idle.ref = NoBox /\ ~Idle.mine
      /\ Idle.op = "none"
  BY DEF Idle
<1>4. IInv /\ Stamps /\ Accounted
  BY InitIInv, InitStamps, InitAccounted
<1>5. Known
  BY <1>1, <1>2, <1>3, <1>4, RefShape DEF Known, Names, New, Boxed
<1>6. Kept
  BY <1>1, <1>2, <1>3 DEF Kept, Clearing, Provisioning, Resting, OwnsRun, Works, Turning, At
<1> QED
  BY <1>4, <1>5, <1>6 DEF KInv

\* Who may stop or destroy a sandbox: a worker that has the computer to itself, one
\* that was given it for its own, and a boot that comes too late.
LEMMA StoppedBy ==
  ASSUME KInv, [Next]_vars, NEW b \in Boxes, boxes[b] = "running", boxes'[b] # "running"
  PROVE  \E w \in Workers :
           \/ Clearing(job[w])
           \/ At(w, "undo") /\ job[w].box = b /\ (~Reconnecting(w) \/ Fresh(w))
              /\ job'[w] # job[w]
<1>0. IInv /\ boxes \in [Boxes -> BoxStates]
  BY DEF KInv, IInv, StoreOK
<1>1. ASSUME NEW w \in Workers, Provide(w) PROVE FALSE
  <2>1. \E c : boxes' = [boxes EXCEPT ![c] = "running"]
    BY <1>1 DEF Provide, Provider
  <2> QED
    BY <1>0, <2>1
<1>2. ASSUME NEW w \in Workers, Undo(w)
      PROVE  At(w, "undo") /\ job[w].box = b /\ (~Reconnecting(w) \/ Fresh(w)) /\ job'[w] # job[w]
  <2>0. At(w, "undo")
    BY <1>2 DEF Undo
  <2>1. /\ ~Reconnecting(w) \/ Fresh(w)
        /\ boxes' = [boxes EXCEPT ![job[w].box] = RolledBack(w)] /\ Put(w, Goto(w, "record"))
    BY <1>2 DEF Undo, Provider, Proceed
  <2>2. job'[w].step = "record"
    BY <1>0, <2>1, StepTo, StepNames
  <2>3. job[w].box = b
    BY <1>0, <2>1
  <2>4. job'[w] # job[w]
    BY <2>0, <2>2 DEF At
  <2> QED
    BY <2>0, <2>1, <2>3, <2>4
<1>3. ASSUME NEW w \in Workers, Clear(w) \/ Halt(w) \/ Halting(w) PROVE Clearing(job[w])
  BY <1>3 DEF Clear, Halt, Halting, At, Clearing
<1>4. ASSUME NEW w \in Workers, Continue(w), boxes' # boxes
      PROVE  Provide(w) \/ Undo(w) \/ Clear(w) \/ Halt(w) \/ Halting(w)
  BY <1>4
     DEF Continue, Take, Validate, FinishTurn, Observe, Await, Claim, Activate, Record, Look, Seize,
         Recheck, Vacate, Broken, FinishUpdate, Doze, Saving, Rest, Shut, Shutting, Halted, GiveUp,
         Leave, WriteAndLeave, Proceed, Advance, WakeAgain, PutBack, Others
<1>5. \E w \in Workers : Continue(w)
  BY DEF Next, vars, HandOver, Fail, Crash, StartSleep, StartTurn, StartManual, StartStop, NewRun,
         Return, Cancel, ExpireRun, ExpireLease, Grant, QueueUpdate, Lapse, EndControl, GrowOld,
         Interrupt, ReleaseInterrupted, PerformUpdate, Proceed, Unmoved, SetRun, Others, SetControl
<1> QED
  BY <1>1, <1>2, <1>3, <1>4, <1>5

\* A turn that owns its run and its lease keeps its sandbox, as long as claims and leases
\* do not run out while their holder lives: nobody but a late rollback stops or destroys
\* it, of provisionComputer, replaceComputer, sleepComputerIfIdle and stop.
THEOREM SandboxKeptHolds == ~Slow => (Spec => SandboxKept)
<1> SUFFICES ASSUME ~Slow PROVE Spec => SandboxKept
  OBVIOUS
<1> DEFINE Keeps == \A b \in Boxes \ adrift :
                      InUse(b) # {} /\ boxes[b] = "running" /\ boxes'[b] # "running"
                        => \E w \in Workers : RollsBackLate(w) /\ job'[w] # job[w]
<1>1. KInv /\ [Next]_vars => Keeps
  <2> SUFFICES ASSUME KInv, [Next]_vars, NEW b \in Boxes \ adrift, NEW x \in InUse(b),
                      boxes[b] = "running", boxes'[b] # "running"
               PROVE  \E w \in Workers : RollsBackLate(w) /\ job'[w] # job[w]
    OBVIOUS
  <2>1. x \in Workers /\ job[x].box = b /\ Works(x)
    BY DEF InUse, Works, Turning
  <2>2. b = computer.ref
    BY <2>1 DEF KInv, Kept
  <2>3. \A w \in Workers : ~Clearing(job[w])
    BY <2>1 DEF KInv, Kept, Vacant
  <2>4. PICK w \in Workers : /\ At(w, "undo") /\ job[w].box = b
                             /\ ~Reconnecting(w) \/ Fresh(w)
                             /\ job'[w] # job[w]
    BY <2>3, StoppedBy
  <2>5. ~Fresh(w)
    <3>1. b # NoBox
      BY RefShape DEF KInv
    <3>2. SUFFICES ASSUME Fresh(w) PROVE FALSE
      OBVIOUS
    <3>3. New(w)
      BY <2>4, <3>1, <3>2 DEF New, At
    <3> QED
      BY <2>2, <2>4, <3>3 DEF KInv, Known
  <2>6. ~StillClaimed(w)
    BY <2>3, <2>4, <2>5 DEF StillClaimed, Clearing, Provisioning, Reconnecting, At
  <2> QED
    BY <2>4, <2>5, <2>6 DEF RollsBackLate
<1>2. Spec => []KInv /\ [][Next]_vars
  BY InitKInv, NextKInv, PTL DEF Spec
<1> HIDE DEF Keeps
<1>3. KInv /\ [Next]_vars => [Keeps]_vars
  BY <1>1
<1>4. Spec => [][Keeps]_vars
  BY <1>2, <1>3, PTL
<1> QED
  BY <1>4 DEF Keeps, SandboxKept

=============================================================================
