---------------------------- MODULE ComputerLease ----------------------------
(***************************************************************************)
(* One computer, the sandbox behind it, and everyone who moves it: turns   *)
(* and manual boots provision it, the idle job puts it to sleep, the user  *)
(* stops or resets it, and an update replaces it under a reservation.      *)
(*                                                                         *)
(* The row is moved by compare-and-set.  Its column updatedAt is the token *)
(* of a claim: every write to the row renews it.  Here each worker keeps   *)
(* instead whether the row still carries the stamp it read or wrote        *)
(* ("mine"), and the row keeps whether its stamp is old enough for a       *)
(* booting or suspending claim to count as abandoned ("old").              *)
(*                                                                         *)
(* Left out: the workspace (checkpoints, layout, screens), processes that  *)
(* keep an idle computer awake, rollbacks and recoveries that cannot       *)
(* destroy a sandbox, and what the user does with the screen: control is   *)
(* granted, lapses and ends in one step each.                              *)
(***************************************************************************)
EXTENDS Naturals, Sequences, FiniteSets

CONSTANTS
  Workers, Bots,
  Slow,        \* leases and claims may run out while their holder lives
  MaxBoxes, MaxFence, MaxEvents, MaxUpdates, MaxBegun, \* bounds
  Nobody, Held

ASSUME SlowAssumption == Slow \in BOOLEAN
ASSUME BoundsAssumption ==
  MaxBoxes \in Nat \ {0} /\ {MaxFence, MaxEvents, MaxUpdates, MaxBegun} \subseteq Nat
ASSUME NamesAssumption == {Nobody, Held} \cap Workers = {} /\ Nobody # Held /\ Nobody \notin Bots

VARIABLES
  computer,  \* the row, and the bots that use it
  boxes,     \* the provider's sandboxes
  leases,    \* the execution lease row of each bot; fence 0 is no row
  runs,      \* the active run of each bot, if any
  updates,   \* the status of every update asked for
  job,       \* what each worker process is doing
  adrift,    \* history: sandboxes the row lost track of, by the crash of the worker
             \* that had one in hand, by a refused stop that put back a stale state,
             \* or by a replacement that was asked for another sandbox; and the
             \* dedicated ones the user stopped under a turn
  begun,     \* operations begun
  events     \* crashes, cancellations, and grants of the screen

vars == <<computer, boxes, leases, runs, updates, job, adrift, begun, events>>

NoBox == 0
NoUpdate == 0
Boxes == 1..MaxBoxes

Settled == {"running", "stopped", "suspended", "error"}
Claimed == {"booting", "suspending"}

Row == [state : Settled \cup Claimed, ref : Boxes \cup {NoBox}, maintenance : Nat,
        control : {"none", "held", "lapsed"}, old : BOOLEAN, team : BOOLEAN,
        bots : SUBSET Bots]
Lease == [by : Workers \cup {Nobody, Held}, fence : Nat, live : BOOLEAN]
Run == [status : {"none", "queued", "leased", "handed"}, by : Workers \cup {Nobody},
        held : BOOLEAN]
ProvisionSteps == {"enter", "await", "claim", "boot", "boxed", "undo", "record"}
ReplaceSteps == {"look", "seize", "seized", "clear", "vacate", "broken"}
Steps == {"idle", "take", "validate", "using", "completed", "failed"}
           \cup ProvisionSteps \cup ReplaceSteps
           \cup {"doze", "saving", "halt", "rest"} \cup {"shut", "shutting", "halting", "halted"}
Job == [op : {"none", "turn", "boot", "reset", "update", "sleep", "stop"},
        bot : Bots \cup {Nobody}, step : Steps, seen : Settled \cup Claimed,
        flag : BOOLEAN, ref : Boxes \cup {NoBox}, maint : Nat, mine : BOOLEAN,
        box : Boxes \cup {NoBox}, fence : Nat, upd : Nat]

Idle == [op |-> "none", bot |-> Nobody, step |-> "idle", seen |-> "stopped", flag |-> FALSE,
         ref |-> NoBox, maint |-> NoUpdate, mine |-> FALSE, box |-> NoBox, fence |-> 0,
         upd |-> NoUpdate]

Operation(op, b, step) == [Idle EXCEPT !.op = op, !.bot = b, !.step = step]

\* Several bots share a team computer and lease it; a dedicated one has one bot
\* and no execution leases.
Team == computer.team

Absent == [by |-> Nobody, fence |-> 0, live |-> FALSE]
NoRun == [status |-> "none", by |-> Nobody, held |-> FALSE]

-----------------------------------------------------------------------------
(* Writing the row, and ending an operation.                               *)

Put(w, rec) == job' = [job EXCEPT ![w] = rec]

\* A write renews the stamp: the other workers' claims and reads are void.
Write(w, row, rec) ==
  /\ computer' = [row EXCEPT !.old = FALSE]
  /\ job' = [x \in Workers |-> IF x = w THEN rec ELSE [job[x] EXCEPT !.mine = FALSE]]

At(w, step) == job[w].step = step
Goto(w, step) == [job[w] EXCEPT !.step = step]
Holding(w, step) == [job[w] EXCEPT !.step = step, !.mine = TRUE]
Replaces(w) == job[w].op \in {"reset", "update"}
OwnsRun(w) == job[w].op = "turn" /\ runs[job[w].bot].by = w

ActiveRuns == {b \in Bots : runs[b].status # "none"}
OthersRun(bot) == ActiveRuns \ {bot} # {}
OtherLease(bot) == \E b \in Bots \ {bot} : leases[b].live

\* hasLiveForeignRunLease
LiveRunElsewhere(w) ==
  \E b \in Bots : runs[b].status = "leased" /\ ~(job[w].op = "turn" /\ runs[b].by = w)

HasLease(w, b) == b = job[w].bot /\ leases[b].by = w /\ leases[b].fence = job[w].fence

KeepsLease(w) == Team => HasLease(w, job[w].bot) /\ leases[job[w].bot].live

\* The turns that work in a sandbox and have not lost their run or lease.
InUse(b) == {x \in Workers : At(x, "using") /\ job[x].box = b /\ OwnsRun(x) /\ KeepsLease(x)}

HeldByNobodyElse(w) == \A b \in Bots : leases[b].live => HasLease(w, b)

Released(w) == [b \in Bots |-> IF HasLease(w, b) THEN [leases[b] EXCEPT !.live = FALSE]
                                                 ELSE leases[b]]

\* The operation is over: an update still has to be settled, a turn gives its
\* run back or ends it.
Ended(w, ok) ==
  IF job[w].op = "update"
  THEN [Operation("update", job[w].bot, IF ok THEN "completed" ELSE "failed")
          EXCEPT !.upd = job[w].upd]
  ELSE Idle

GiveBack(w, statuses) ==
  /\ leases' = Released(w)
  /\ IF OwnsRun(w)
     THEN \E s \in statuses :
            runs' = [runs EXCEPT ![job[w].bot] = [NoRun EXCEPT !.status = s,
                                                    !.held = @ /\ s = "queued"]]
     ELSE UNCHANGED runs

Busy == {"queued"}          \* requeueComputerRun
Failed == {"queued", "none"}

Leave(w, ok, statuses) ==
  /\ Put(w, Ended(w, ok)) /\ GiveBack(w, statuses)
  /\ UNCHANGED <<computer, boxes, updates, adrift, begun, events>>

WriteAndLeave(w, row, statuses) ==
  /\ Write(w, row, Ended(w, FALSE)) /\ GiveBack(w, statuses)
  /\ UNCHANGED <<boxes, updates, adrift, begun, events>>

Proceed(w, rec) ==
  Put(w, rec) /\ UNCHANGED <<computer, boxes, leases, runs, updates, adrift, begun, events>>

Advance(w, row, rec) ==
  Write(w, row, rec) /\ UNCHANGED <<boxes, leases, runs, updates, adrift, begun, events>>

Provider(w, to, rec) ==
  /\ boxes' = to /\ Put(w, rec)
  /\ UNCHANGED <<computer, leases, runs, updates, adrift, begun, events>>

-----------------------------------------------------------------------------
(* The bots' runs.                                                         *)

Others == <<computer, boxes, updates, adrift, begun, events>>

SetRun(b, run) == runs' = [runs EXCEPT ![b] = run] /\ UNCHANGED Others

NewRun(b) ==
  /\ runs[b].status = "none"
  /\ SetRun(b, [NoRun EXCEPT !.status = "queued"]) /\ UNCHANGED <<leases, job>>

\* The user gives the screen back: the run that waited for him goes on.
Return(b) ==
  /\ runs[b].status = "handed"
  /\ SetRun(b, [NoRun EXCEPT !.status = "queued", !.held = TRUE]) /\ UNCHANGED <<leases, job>>

\* Stopping the run from outside also expires its execution lease, by the run's
\* name; the worker does not know yet.
LeasedToRun(b) == ~\E w \in Workers : leases[b].by = w /\ job[w].op # "turn"

Cancel(b) ==
  /\ runs[b].status # "none"
  /\ events < MaxEvents /\ events' = events + 1
  /\ leases' = [leases EXCEPT ![b].live = @ /\ ~LeasedToRun(b)]
  /\ runs' = [runs EXCEPT ![b] = NoRun]
  /\ UNCHANGED <<computer, boxes, updates, job, adrift, begun>>

ExpireRun(b) ==
  /\ runs[b].status = "leased" /\ (runs[b].by = Nobody \/ Slow)
  /\ SetRun(b, [runs[b] EXCEPT !.status = "queued", !.by = Nobody]) /\ UNCHANGED <<leases, job>>

ExpireLease(b) ==
  /\ leases[b].live /\ (leases[b].by \notin Workers \/ Slow)
  /\ leases' = [leases EXCEPT ![b].live = FALSE]
  /\ UNCHANGED <<runs, job>> /\ UNCHANGED Others

\* A worker takes up an operation.
Begin(w, rec) == /\ At(w, "idle") /\ begun < MaxBegun /\ begun' = begun + 1 /\ Put(w, rec)

Unmoved == <<computer, boxes, adrift, events>>


StartTurn(w, b) ==
  /\ runs[b].status = "queued"
  /\ runs' = [runs EXCEPT ![b].status = "leased", ![b].by = w]
  /\ Begin(w, Operation("turn", b, "take")) /\ UNCHANGED <<leases, updates>> /\ UNCHANGED Unmoved

\* The handlers of boot and reset.
StartManual(w, b) ==
  /\ \/ computer.state # "running" /\ Begin(w, Operation("boot", b, "take"))
     \/ Begin(w, Operation("reset", b, "take"))
  /\ UNCHANGED <<runs, leases, updates>> /\ UNCHANGED Unmoved

FinishTurn(w) == At(w, "using") /\ Leave(w, TRUE, Failed)

HandedRun(w) == [status |-> "handed", by |-> Nobody, held |-> TRUE]

\* The turn pauses for the user's hands and keeps its lease for the day.
HandOver(w) ==
  /\ At(w, "using") /\ OwnsRun(w)
  /\ KeepsLease(w)
  /\ leases' = IF Team THEN [leases EXCEPT ![job[w].bot].by = Held] ELSE leases
  /\ runs' = [runs EXCEPT ![job[w].bot] = HandedRun(w)]
  /\ Put(w, Idle) /\ UNCHANGED Others

-----------------------------------------------------------------------------
(* acquireComputerExecutionLease                                           *)

LiveSuspending == computer.state = "suspending" /\ ~computer.old
Reserved(w) == computer.maintenance \notin {NoUpdate, job[w].upd}

\* A row that has expired, or that the same run holds since its pause, is
\* taken over with the next fence.
Takeable(w, lease) ==
  \/ ~lease.live
  \/ lease.by = Held /\ job[w].op = "turn" /\ runs[job[w].bot].held

AfterLease(w) == Goto(w, IF job[w].op = "reset" THEN "look" ELSE "enter")

\* A dedicated computer has no leases.  The first look at the row is merged with
\* the write of the lease, because Validate looks again.
Take(w) ==
  LET b == job[w].bot
      refused == Reserved(w) \/ (Team /\ (LiveSuspending \/ ~Takeable(w, leases[b])))
  IN  /\ At(w, "take")
      /\ \/ refused /\ Leave(w, FALSE, Busy)
         \/ ~refused /\ ~Team /\ Proceed(w, AfterLease(w))
         \/ /\ ~refused /\ Team /\ leases[b].fence < MaxFence
            /\ leases' = [leases EXCEPT ![b] = [by |-> w, fence |-> @.fence + 1, live |-> TRUE]]
            /\ Put(w, [Goto(w, "validate") EXCEPT !.fence = leases[b].fence + 1])
            /\ UNCHANGED runs /\ UNCHANGED Others

Validated(w) == ~LiveSuspending /\ ~Reserved(w)

Validate(w) ==
  /\ At(w, "validate")
  /\ \/ ~Validated(w) /\ Leave(w, FALSE, Busy)
     \/ Validated(w) /\ Proceed(w, AfterLease(w))

-----------------------------------------------------------------------------
(* provisionComputer.  A busy computer inside a replacement leaves it for  *)
(* the replacement's own error handling.                                   *)

GiveUp(w) ==
  IF Replaces(w)
  THEN Proceed(w, [Goto(w, "broken") EXCEPT
                     !.mine = @ /\ (At(w, "enter") \/ job[w].seen \notin Claimed)])
  ELSE Leave(w, FALSE, Busy)

\* What a caller remembers of the row it read.
Seen(w, step) ==
  [job[w] EXCEPT !.step = step, !.seen = computer.state, !.ref = computer.ref,
                 !.maint = computer.maintenance]

Observe(w) ==
  LET refused == \/ Reserved(w)
                 \/ computer.state = "booting" /\ (~computer.old \/ LiveRunElsewhere(w))
  IN  /\ At(w, "enter") /\ computer.control # "lapsed"
      /\ \/ refused /\ GiveUp(w)
         \/ ~refused /\ computer.state \in Settled /\ Proceed(w, Seen(w, "claim"))
         \/ /\ ~refused /\ computer.state \in Claimed
            /\ Proceed(w, [Seen(w, "await") EXCEPT !.mine = TRUE, !.flag = computer.old])

\* The wait ends when the computer has settled, or after ten seconds.  A claim
\* is taken over only if it was abandoned when it was first seen.
Await(w) ==
  LET first == job[w].seen
      mayTake == CASE computer.state = "suspending" ->
                        first = "suspending" /\ job[w].flag /\ ~LiveRunElsewhere(w)
                   [] computer.state = "booting" -> first = "booting" /\ ~LiveRunElsewhere(w)
                   [] computer.state = "running" -> first # "booting"
                   [] OTHER -> TRUE
  IN  /\ At(w, "await")
      /\ \/ ~mayTake /\ GiveUp(w)
         \/ mayTake /\ Proceed(w, Seen(w, "claim"))

\* Mutant: an abandoned claim is taken without comparing its stamp.
ClaimableUnstamped(w) ==
  /\ computer.state = job[w].seen /\ computer.maintenance = job[w].maint
  /\ job[w].seen # "booting" => computer.ref = job[w].ref
  /\ job[w].seen \in Claimed => HeldByNobodyElse(w)

Claimable(w) ==
  /\ computer.state = job[w].seen /\ computer.maintenance = job[w].maint
  /\ job[w].seen # "booting" => computer.ref = job[w].ref
  /\ job[w].seen \in Claimed => job[w].mine /\ HeldByNobodyElse(w)

Claim(w) ==
  /\ At(w, "claim")
  /\ \/ ~Claimable(w) /\ GiveUp(w)
     \/ Claimable(w) /\ Advance(w, [computer EXCEPT !.state = "booting"],
                                [Holding(w, "boot") EXCEPT !.flag = FALSE])

Reconnecting(w) == job[w].ref # NoBox /\ job[w].seen \in {"running", "suspending"}

\* Mutant: what the provider made in place of a lost sandbox is not noticed.
NeverFresh(w) == FALSE

Fresh(w) == job[w].box # job[w].ref

\* The provider wakes the sandbox it is given, or makes another when it is gone.
Unused == {b \in Boxes : boxes[b] = "none"}

Provide(w) ==
  /\ At(w, "boot")
  /\ \E b \in IF job[w].ref # NoBox /\ boxes[job[w].ref] # "gone" THEN {job[w].ref} ELSE Unused :
       Provider(w, [boxes EXCEPT ![b] = "running"], [Goto(w, "boxed") EXCEPT !.box = b])

\* The row is still the one this boot claimed.
StillClaimed(w) ==
  /\ computer.state = "booting" /\ job[w].mine
  /\ computer.ref = job[w].ref /\ computer.maintenance = job[w].maint

Activate(w) ==
  LET row == [computer EXCEPT !.state = "running", !.ref = job[w].box]
  IN  /\ At(w, "boxed")
      /\ \/ ~StillClaimed(w) /\ Proceed(w, Goto(w, "undo"))
         \/ StillClaimed(w) /\ job[w].op = "turn" /\ Advance(w, row, [Operation("turn", job[w].bot, "using")
                                                              EXCEPT !.box = job[w].box,
                                                                     !.fence = job[w].fence])
         \/ /\ StillClaimed(w) /\ job[w].op # "turn"
            /\ Write(w, row, Ended(w, TRUE)) /\ leases' = Released(w)
            /\ UNCHANGED <<boxes, runs, updates, adrift, begun, events>>

\* The provider fails, or the operation is aborted.
Fail(w) == job[w].step \in {"boot", "boxed"} /\ Proceed(w, Goto(w, "undo"))

\* A sandbox that is gone stays gone, whoever still means to stop it.
RolledBack(w) == IF Fresh(w) \/ boxes[job[w].box] = "gone" THEN "gone" ELSE "stopped"

\* A failed reconnect leaves the sandbox it was given alone.
Undo(w) ==
  /\ At(w, "undo")
  /\ IF job[w].box # NoBox /\ (~Reconnecting(w) \/ Fresh(w))
     THEN Provider(w, [boxes EXCEPT ![job[w].box] = RolledBack(w)], Goto(w, "record"))
     ELSE Proceed(w, Goto(w, "record"))

Record(w) ==
  /\ At(w, "record")
  /\ IF StillClaimed(w)
     THEN WriteAndLeave(w, [computer EXCEPT !.state = IF Reconnecting(w) THEN "running"
                                                                        ELSE "error"], Failed)
     ELSE Leave(w, FALSE, Failed)

-----------------------------------------------------------------------------
(* replaceComputer                                                         *)

Look(w) ==
  LET refused ==
        \/ Reserved(w) \/ computer.control = "held"
        \/ computer.state = "suspending" /\ job[w].op # "reset"
        \/ /\ computer.state \in Claimed
           /\ (OtherLease(job[w].bot) \/ ~computer.old \/ ActiveRuns # {})
  IN  /\ At(w, "look") /\ computer.control # "lapsed"
      /\ \/ refused /\ Leave(w, FALSE, Busy)
         \/ ~refused /\ Proceed(w, [Seen(w, "seize") EXCEPT !.mine = TRUE])

Seizable(w) ==
  /\ computer.state = job[w].seen /\ computer.maintenance = job[w].maint
  /\ job[w].seen \in Claimed => job[w].mine
  /\ ~OtherLease(job[w].bot) /\ computer.control # "held"

Seize(w) ==
  /\ At(w, "seize")
  /\ \/ ~Seizable(w) /\ Leave(w, FALSE, Busy)
     \/ Seizable(w) /\ Advance(w, [computer EXCEPT !.state = "suspending"], Holding(w, "seized"))

\* Mutant: a run that started after the first look is not noticed.
NoRunActive == TRUE

NobodyRuns == ActiveRuns = {}

\* A run that started in the meantime keeps its computer.
Recheck(w) ==
  /\ At(w, "seized")
  /\ \/ NobodyRuns /\ Proceed(w, Goto(w, "clear"))
     \/ /\ ~NobodyRuns /\ computer.state = "suspending" /\ job[w].mine
        /\ WriteAndLeave(w, [computer EXCEPT !.state = job[w].seen], Busy)
     \/ ~NobodyRuns /\ ~(computer.state = "suspending" /\ job[w].mine) /\ Leave(w, FALSE, Busy)

Clear(w) ==
  /\ At(w, "clear")
  /\ \/ /\ job[w].ref # NoBox
        /\ Provider(w, [boxes EXCEPT ![job[w].ref] = "gone"], Goto(w, "vacate"))
     \/ job[w].ref = NoBox /\ Proceed(w, Goto(w, "vacate"))
     \/ Proceed(w, Goto(w, "broken"))  \* the checkpoint or the provider fails

Vacate(w) ==
  /\ At(w, "vacate")
  /\ IF computer.state = "suspending" /\ job[w].mine /\ computer.maintenance = job[w].maint
     THEN /\ Write(w, [computer EXCEPT !.state = "stopped", !.ref = NoBox, !.control = "none"],
                   [Holding(w, "enter") EXCEPT !.seen = "stopped", !.ref = NoBox])
          /\ adrift' = adrift \cup ({computer.ref} \ {job[w].ref, NoBox})
          /\ UNCHANGED <<boxes, leases, runs, updates, begun, events>>
     ELSE Proceed(w, Goto(w, "broken"))

Broken(w) ==
  /\ At(w, "broken")
  /\ IF job[w].mine /\ computer.maintenance = job[w].maint
     THEN WriteAndLeave(w, [computer EXCEPT !.state = "error"], Busy)
     ELSE Leave(w, FALSE, Busy)

-----------------------------------------------------------------------------
(* Updates: replaceComputer under a reservation of the row.                *)

Reservable ==
  /\ computer.maintenance = NoUpdate /\ computer.state \in Settled
  /\ computer.control = "none" /\ ActiveRuns = {} /\ \A b \in Bots : ~leases[b].live

QueueUpdate ==
  /\ Reservable /\ Len(updates) < MaxUpdates
  /\ updates' = Append(updates, "queued")
  /\ Write(Nobody, [computer EXCEPT !.maintenance = Len(updates) + 1], Idle)
  /\ UNCHANGED <<boxes, leases, runs, adrift, begun, events>>

Performable == {"queued"}

SetUpdate(u, status) == updates' = [updates EXCEPT ![u] = status]

PerformUpdate(w, u) ==
  /\ updates[u] \in Performable
  /\ SetUpdate(u, "running")
  /\ \E b \in computer.bots : Begin(w, [Operation("update", b, "look") EXCEPT !.upd = u])
  /\ UNCHANGED <<runs, leases>> /\ UNCHANGED Unmoved

\* Mutant: the reservation outlives the update.
StillReserved(u) == computer

Unreserved(u) == [computer EXCEPT !.maintenance = IF @ = u THEN NoUpdate ELSE @]

FinishUpdate(w) ==
  LET u == job[w].upd
  IN  /\ job[w].step \in {"completed", "failed"}
      /\ IF updates[u] \in {"running", "interrupted"}
         THEN SetUpdate(u, job[w].step) /\ Write(w, Unreserved(u), Idle)
         ELSE UNCHANGED <<updates, computer>> /\ Put(w, Idle)
      /\ UNCHANGED <<boxes, leases, runs, adrift, begun, events>>

Performing(u) == \E w \in Workers : job[w].upd = u

\* The reconciler: the heartbeat of the update is stale.
Interrupt(u) ==
  /\ updates[u] = "running" /\ (~Performing(u) \/ Slow)
  /\ SetUpdate(u, "interrupted")
  /\ UNCHANGED <<computer, boxes, leases, runs, job, adrift, begun, events>>

\* The deployment's owner, who has seen to it that no worker is left.
ReleaseInterrupted(u) ==
  /\ updates[u] = "interrupted" /\ ~Performing(u) /\ computer.maintenance = u
  /\ SetUpdate(u, "failed")
  /\ Write(Nobody, [computer EXCEPT !.maintenance = NoUpdate, !.state = "error"], Idle)
  /\ UNCHANGED <<boxes, leases, runs, adrift, begun, events>>

-----------------------------------------------------------------------------
(* sleepComputerIfIdle                                                     *)

\* Runs that keep the computer awake: one that waits for the user's hands
\* does so only while the user has the screen.
Awake(held) == {b \in ActiveRuns : runs[b].status = "handed" => held}

StartSleep(w) ==
  /\ computer.state = "running" /\ computer.ref # NoBox
  /\ computer.control # "lapsed" /\ Awake(computer.control = "held") = {}
  /\ Begin(w, [Operation("sleep", Nobody, "doze") EXCEPT
                 !.ref = computer.ref, !.mine = TRUE, !.flag = computer.control = "held"])
  /\ UNCHANGED <<runs, leases, updates>> /\ UNCHANGED Unmoved

Dozable(w) ==
  /\ computer.state = "running" /\ computer.maintenance = NoUpdate
  /\ computer.ref = job[w].ref /\ job[w].mine /\ \A b \in Bots : ~leases[b].live

Doze(w) ==
  /\ At(w, "doze")
  /\ \/ ~Dozable(w) /\ Leave(w, FALSE, {})
     \/ Dozable(w) /\ Advance(w, [computer EXCEPT !.state = "suspending"], Holding(w, "saving"))

SuspensionClaim(w) ==
  computer.state = "suspending" /\ job[w].mine /\ computer.ref = job[w].ref

WakeAgain(w) ==
  IF SuspensionClaim(w) THEN WriteAndLeave(w, [computer EXCEPT !.state = "running"], {})
                        ELSE Leave(w, FALSE, {})

Saving(w) ==
  /\ At(w, "saving")
  /\ \/ Awake(job[w].flag) = {} /\ SuspensionClaim(w) /\ Proceed(w, Goto(w, "halt"))
     \/ WakeAgain(w)  \* a run, the claim is lost, or the checkpoint fails

Halt(w) ==
  /\ At(w, "halt")
  /\ \/ Provider(w, [boxes EXCEPT ![job[w].ref] = IF @ = "running" THEN "stopped" ELSE @],
                 Goto(w, "rest"))
     \/ WakeAgain(w)  \* the provider fails

Rest(w) ==
  /\ At(w, "rest")
  /\ IF SuspensionClaim(w)
     THEN WriteAndLeave(w, [computer EXCEPT !.state = "suspended", !.control = "none"], {})
     ELSE Leave(w, FALSE, {})

-----------------------------------------------------------------------------
(* The user stops the computer from the page of one of its bots.           *)

StartStop(w, b) ==
  /\ Begin(w, [Operation("stop", b, "shut") EXCEPT !.seen = computer.state, !.ref = computer.ref])
  /\ UNCHANGED <<runs, leases, updates>> /\ UNCHANGED Unmoved

Shuttable(w) ==
  computer.state # "suspending" /\ computer.maintenance = NoUpdate /\ ~OtherLease(job[w].bot)

Shut(w) ==
  /\ At(w, "shut")
  /\ \/ ~Shuttable(w) /\ Leave(w, FALSE, {})
     \/ Shuttable(w) /\ Advance(w, [computer EXCEPT !.state = "suspending"],
                                [Holding(w, "shutting") EXCEPT !.flag = job[w].seen # computer.state])

InSuspending(w, state) ==
  IF computer.state = "suspending" THEN WriteAndLeave(w, [computer EXCEPT !.state = state], {})
                                   ELSE Leave(w, FALSE, {})

\* A stop that is refused puts back the state it read before its claim.
PutBack(w) ==
  IF computer.state = "suspending"
  THEN /\ Write(w, [computer EXCEPT !.state = job[w].seen], Idle)
       /\ adrift' = IF job[w].flag THEN adrift \cup ({computer.ref} \ {NoBox}) ELSE adrift
       /\ UNCHANGED <<boxes, leases, runs, updates, begun, events>>
  ELSE Leave(w, FALSE, {})

Shutting(w) ==
  /\ At(w, "shutting")
  /\ \/ OthersRun(job[w].bot) /\ PutBack(w)
     \/ /\ ~OthersRun(job[w].bot)
        /\ leases' = [leases EXCEPT ![job[w].bot] = Absent]
        /\ adrift' = IF ~Team /\ InUse(computer.ref) # {} THEN adrift \cup {computer.ref} ELSE adrift
        /\ Put(w, Goto(w, "halting"))
        /\ UNCHANGED <<computer, boxes, runs, updates, begun, events>>

Halting(w) ==
  /\ At(w, "halting")
  /\ \/ /\ job[w].ref # NoBox
        /\ Provider(w, [boxes EXCEPT ![job[w].ref] = IF @ = "running" THEN "stopped" ELSE @],
                    Goto(w, "halted"))
     \/ job[w].ref = NoBox /\ Proceed(w, Goto(w, "halted"))
     \/ InSuspending(w, "error")  \* the checkpoint or the provider fails

Halted(w) ==
  At(w, "halted") /\ WriteAndLeave(w, [computer EXCEPT !.state = "stopped", !.control = "none"], {})

-----------------------------------------------------------------------------
(* Control of the screen, crashes and time.                                *)

SetControl(control) ==
  /\ Write(Nobody, [computer EXCEPT !.control = control], Idle)
  /\ UNCHANGED <<boxes, leases, runs, updates, adrift, begun>>

\* A lease keeps the user out, unless its run waits for him.
Grant(b) ==
  /\ events < MaxEvents /\ events' = events + 1
  /\ computer.state = "running" /\ computer.maintenance = NoUpdate /\ computer.control = "none"
  /\ ~(leases[b].live /\ runs[b].status \in {"queued", "leased"})
  /\ SetControl("held")

Lapse ==
  /\ computer.control = "held" /\ computer' = [computer EXCEPT !.control = "lapsed"]
  /\ UNCHANGED <<boxes, leases, runs, updates, job, adrift, begun, events>>

\* The user gives the screen back, or the lapsed control is expired; neither
\* looks at the state of the computer.
EndControl == computer.control # "none" /\ SetControl("none") /\ UNCHANGED events

Crash(w) ==
  /\ ~At(w, "idle") /\ events < MaxEvents /\ events' = events + 1
  /\ Put(w, Idle)
  /\ adrift' = adrift \cup ({job[w].box} \ {NoBox})
  /\ leases' = [b \in Bots |-> IF leases[b].by = w THEN [leases[b] EXCEPT !.by = Nobody]
                                                   ELSE leases[b]]
  /\ runs' = [b \in Bots |-> IF runs[b].by = w THEN [runs[b] EXCEPT !.by = Nobody] ELSE runs[b]]
  /\ UNCHANGED <<computer, boxes, updates, begun>>

ClaimSteps == {"boot", "boxed", "undo", "record", "seized", "clear", "vacate", "broken",
               "saving", "halt", "rest", "shutting", "halting", "halted"}

\* BOOT_CLAIM_STALE_MS pass without a write to the row.
GrowOld ==
  /\ computer.state \in Claimed /\ ~computer.old
  /\ Slow \/ \A w \in Workers : job[w].step \notin ClaimSteps
  /\ computer' = [computer EXCEPT !.old = TRUE]
  /\ UNCHANGED <<boxes, leases, runs, updates, job, adrift, begun, events>>

-----------------------------------------------------------------------------
Init ==
  /\ \E team \in BOOLEAN, bot \in Bots :
       computer = [state |-> "running", ref |-> 1, maintenance |-> NoUpdate, control |-> "none",
                   old |-> FALSE, team |-> team, bots |-> IF team THEN Bots ELSE {bot}]
  /\ boxes = [b \in Boxes |-> IF b = 1 THEN "running" ELSE "none"]
  /\ leases = [b \in Bots |-> Absent]
  /\ runs = [b \in Bots |-> NoRun]
  /\ updates = <<>>
  /\ job = [w \in Workers |-> Idle]
  /\ adrift = {} /\ begun = 0 /\ events = 0

\* A worker goes on with what it has begun.
Continue(w) ==
  \/ Take(w) \/ Validate(w) \/ FinishTurn(w)
  \/ Observe(w) \/ Await(w) \/ Claim(w) \/ Provide(w) \/ Activate(w) \/ Undo(w) \/ Record(w)
  \/ Look(w) \/ Seize(w) \/ Recheck(w) \/ Clear(w) \/ Vacate(w) \/ Broken(w) \/ FinishUpdate(w)
  \/ Doze(w) \/ Saving(w) \/ Halt(w) \/ Rest(w)
  \/ Shut(w) \/ Shutting(w) \/ Halting(w) \/ Halted(w)

Next ==
  \/ \E w \in Workers : Continue(w) \/ HandOver(w) \/ Fail(w) \/ Crash(w) \/ StartSleep(w)
  \/ \E w \in Workers, b \in computer.bots : StartTurn(w, b) \/ StartManual(w, b) \/ StartStop(w, b)
  \/ \E b \in computer.bots : NewRun(b) \/ Return(b) \/ Cancel(b) \/ ExpireRun(b) \/ ExpireLease(b)
                       \/ Grant(b)
  \/ QueueUpdate \/ Lapse \/ EndControl \/ GrowOld
  \/ \E u \in DOMAIN updates : Interrupt(u) \/ ReleaseInterrupted(u)
                                 \/ \E w \in Workers : PerformUpdate(w, u)

Spec == Init /\ [][Next]_vars

-----------------------------------------------------------------------------
(* Properties.                                                             *)

\* The shape of every variable; only a leased run belongs to a worker.
TypeOK ==
  /\ computer \in Row
  /\ boxes \in [Boxes -> {"none", "running", "stopped", "gone"}]
  /\ leases \in [Bots -> Lease] /\ runs \in [Bots -> Run]
  /\ \A b \in Bots : runs[b].by # Nobody => runs[b].status = "leased"
  /\ updates \in Seq({"queued", "running", "interrupted", "completed", "failed"})
  /\ job \in [Workers -> Job]
  /\ adrift \subseteq Boxes /\ begun \in Nat /\ events \in Nat

\* A reservation belongs to exactly the update that is not over, so that the
\* computer neither stays reserved for nothing nor is updated unreserved.
ReservationShape ==
  \A u \in DOMAIN updates :
    computer.maintenance = u <=> updates[u] \in {"queued", "running", "interrupted"}

\* A reserved computer is moved by its update alone.
ReservationRespected ==
  [][computer.maintenance # NoUpdate /\ computer'.maintenance = computer.maintenance
       => \/ computer'.state = computer.state /\ computer'.ref = computer.ref
          \/ \E w \in Workers : job[w].upd = computer.maintenance /\ job'[w] # job[w]]_vars

\* A boot that was provisioning a computer that slept, and lost its claim to a stop
\* meanwhile, stops the sandbox that it woke, whoever works in it by now.
RollsBackLate(w) == At(w, "undo") /\ ~StillClaimed(w) /\ ~Fresh(w)

\* A turn keeps its sandbox: whatever puts a computer to sleep, stops or replaces it or
\* takes over an abandoned claim does not stop or destroy the sandbox of a turn that
\* owns its run and its lease; only a late rollback does.  The user's stop takes the
\* lease of the bot whose computer it stops, or the dedicated sandbox, first.
SandboxKept ==
  [][\A b \in Boxes \ adrift :
       InUse(b) # {} /\ boxes[b] = "running" /\ boxes'[b] # "running"
         => \E w \in Workers : RollsBackLate(w) /\ job'[w] # job[w]]_vars

\* So a turn does not always keep it: four operations of two workers suffice.
SandboxUndisturbed ==
  [][\A b \in Boxes \ adrift : InUse(b) # {} /\ boxes[b] = "running" => boxes'[b] = "running"]_vars

\* Nobody provisions beside another: while a worker that holds the booting claim
\* is with the provider, no other worker's claim succeeds.
SoleProvisioner ==
  [][\A x, w \in Workers :
       x # w /\ job[x].step \in {"boot", "boxed"} /\ StillClaimed(x) /\ At(w, "claim")
         => job'[w].step # "boot"]_vars

\* No sandbox is left running that the row does not name, unless a worker still
\* has it in hand, crashed with it, or replaced the computer too late.
InHand == {job[w].box : w \in {x \in Workers : job[x].step \in {"boxed", "undo"}}}

NoneAdrift ==
  \A b \in Boxes : boxes[b] = "running" => b \in {computer.ref} \cup InHand \cup adrift

\* A replacement replaces what it was asked to: the row gives up a sandbox only
\* after that sandbox is gone, not the one of a winner it never looked at.
WinnerKept ==
  [][computer.ref # NoBox /\ computer'.ref = NoBox => boxes[computer.ref] = "gone"]_vars

=============================================================================
