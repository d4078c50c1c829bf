----------------------------- MODULE BotOutcomes -----------------------------
(***************************************************************************)
(* Bots that give each other work.  A run may message another bot, which   *)
(* makes a run of that bot; or, in a group chat, hand its stage over to    *)
(* another member.  A run that was asked for something owes the asker its  *)
(* outcome: the worker that ends the run returns it, and the reconciler    *)
(* returns what a worker left behind, one batch at a time.                 *)
(*                                                                         *)
(* A turn may be carried out twice, by a worker that has lost the run's    *)
(* lease and by the one that claimed it after.  Every delivery therefore   *)
(* has a key, and an answer to a chain of messages may not wake bots for   *)
(* ever.  Bots are archived meanwhile, which cancels the runs that were    *)
(* listed before.                                                          *)
(*                                                                         *)
(* Left out: what messages say (a run makes one call per addressee and     *)
(* intent), realtime notices, the queue (a queued run is found by the      *)
(* reconciler, see RunLease), spawned bots, deleting and restoring bots,   *)
(* and pauses of a run, which are part of its being active.  A failed run  *)
(* differs from a completed one in what its outcome says.                  *)
(***************************************************************************)
EXTENDS Naturals, Sequences, SequencesExt, FiniteSets

CONSTANTS
  Bots, First,  \* First is the bot the user writes to
  Group,        \* the user writes in a group chat of all the bots
  Archivable,   \* the bots that may be archived
  MaxHops,      \* BOT_MESSAGE_MAX_HOPS
  MaxBegun,     \* bound on the runs, the returned outcomes aside
  MaxEvents,    \* bound on stops, archivings, repeated turns and reconcilers that die
  None

ASSUME BotsAssumption == First \in Bots /\ Archivable \subseteq Bots /\ None \notin Bots
ASSUME BoundsAssumption == MaxHops \in Nat \ {0} /\ {MaxBegun, MaxEvents} \subseteq Nat
ASSUME GroupAssumption == Group \in BOOLEAN

VARIABLES
  runs,      \* the runs and the messages that made them, in their order
  lineup,    \* ended runs whose outcome is not returned, by their last update
  turns,     \* the executions in progress
  outs,      \* outcomes that the workers that ended the runs are returning
  rec,       \* what the reconciler does
  archived,
  archiving, \* a bot that is being archived, with the runs listed as active
  events

vars == <<runs, lineup, turns, outs, rec, archived, archiving, events>>

\* "request" is a request or a question, "status" a status or a notice.  What is
\* returned for a run is a result or a status, and counts as neither of them.
Intents == {"request", "result", "status"}
Kinds == {"user", "message", "outcome", "handoff"}
Active == {"queued", "running"}
Ids == 1..2 * MaxBegun

\* by: the run that sent it, 0 for the user.
Sources == [kind : Kinds, by : 0..2 * MaxBegun, from : Bots \cup {None},
            intent : Intents, hop : 0..MaxHops + 1]
Runs == [bot : Bots, status : Active \cup {"ended", "cancelled"},
         source : Sources, returned : BOOLEAN]
Turns == [run : Ids, n : 1..MaxEvents + 1, handed : BOOLEAN]
Steps == {"none", "send", "mark", "bump"}

Known == DOMAIN runs
Owes(r) == runs[r].source.kind \in {"message", "outcome"}
Asker(r) == runs[r].source.from
SentBy(r, kind) == {i \in Known : runs[i].source.by = r /\ runs[i].source.kind = kind}

\* What a run explicitly reported to the bot that asked.
Reports(r) == {i \in SentBy(r, "message") : /\ runs[i].bot = Asker(r)
                                            /\ runs[i].source.intent = "result"}
Outcomes(r) == SentBy(r, "outcome")
Told(r) == Reports(r) \cup Outcomes(r)

-----------------------------------------------------------------------------
(* Turns.                                                                  *)

Begun == Cardinality({r \in Known : runs[r].source.kind # "outcome"})

\* The latest execution of a run, which holds its lease.
Holder(t) == \A u \in turns : u.run = t.run => u.n <= t.n

Queued(bot, source) == [bot |-> bot, status |-> "queued", source |-> source,
                        returned |-> FALSE]

StartTurn(r) ==
  /\ runs[r].status = "queued"
  /\ runs' = [runs EXCEPT ![r].status = "running"]
  /\ turns' = turns \cup {[run |-> r, n |-> 1, handed |-> FALSE]}
  /\ UNCHANGED <<lineup, outs, rec, archived, archiving, events>>

\* The lease runs out and the run is claimed again; its last execution may be
\* dead, or only slow.
ClaimAgain(r) ==
  /\ runs[r].status = "running" /\ events < MaxEvents
  /\ events' = events + 1
  /\ turns' = turns \cup {[run |-> r, n |-> events + 2, handed |-> FALSE]}
  /\ UNCHANGED <<runs, lineup, outs, rec, archived, archiving>>

Leave(t) ==
  /\ ~Holder(t) \/ runs[t.run].status # "running"
  /\ turns' = turns \ {t}
  /\ UNCHANGED <<runs, lineup, outs, rec, archived, archiving, events>>

MaySend(r) == runs[r].status = "running"

\* Mutant: a message of a bot does not lengthen the chain.
SameHop(r) == IF Owes(r) /\ runs[r].source.kind = "message" THEN runs[r].source.hop ELSE 1

\* The hop of what a run sends: one more than that of the message behind it.
Hop(r) == IF Owes(r) THEN runs[r].source.hop + 1 ELSE 1

\* A call that was carried out before is not sent again.
Replayed(r, b, intent) ==
  \E i \in SentBy(r, "message") : runs[i].bot = b /\ runs[i].source.intent = intent

MessageBot(t, b, intent) ==
  LET r == t.run
      source == [kind |-> "message", by |-> r, from |-> runs[r].bot,
                 intent |-> intent, hop |-> Hop(r)]
  IN  /\ ~t.handed /\ MaySend(r) /\ Begun < MaxBegun
      /\ b # runs[r].bot /\ b \notin archived
      /\ Hop(r) <= MaxHops /\ ~Replayed(r, b, intent)
      /\ runs' = Append(runs, Queued(b, source))
      /\ UNCHANGED <<lineup, turns, outs, rec, archived, archiving, events>>

HandedTo(r) == SentBy(r, "handoff")

\* Mutant: an earlier hand-over of the run is not looked for.
TakenAsUnhanded(r) == TRUE

Unhanded(r) == HandedTo(r) = {}

StageHop(r) == IF runs[r].source.kind = "handoff" THEN runs[r].source.hop + 1 ELSE 1

\* A stage is handed over once; a turn that is repeated finds who has it.
HandOff(t, b) ==
  LET r == t.run
      source == [kind |-> "handoff", by |-> r, from |-> runs[r].bot,
                 intent |-> "request", hop |-> StageHop(r)]
  IN  /\ Group /\ ~Owes(r) /\ ~t.handed /\ MaySend(r) /\ runs[r].bot \notin archived
      /\ IF ~Unhanded(r) THEN UNCHANGED runs
         ELSE /\ Begun < MaxBegun /\ StageHop(r) <= MaxHops
              /\ b # runs[r].bot /\ b \notin archived
              /\ runs[r].source.kind = "handoff" => Asker(r) # b
              /\ runs' = Append(runs, Queued(b, source))
      /\ turns' = (turns \ {t}) \cup {[t EXCEPT !.handed = TRUE]}
      /\ UNCHANGED <<lineup, outs, rec, archived, archiving, events>>

Returning(r, step) == [run |-> r, step |-> step]

\* The worker that ends a turn goes on to return its outcome.
EndTurn(t) ==
  /\ Holder(t) /\ runs[t.run].status = "running"
  /\ runs' = [runs EXCEPT ![t.run].status = "ended"]
  /\ turns' = turns \ {t}
  /\ IF Owes(t.run)
     THEN /\ outs' = outs \cup {Returning(t.run, "send")}
          /\ lineup' = Append(lineup, t.run)
     ELSE UNCHANGED <<outs, lineup>>
  /\ UNCHANGED <<rec, archived, archiving, events>>

\* What the executions of cancelled runs do has no effect any more.
Abort(cancelled) == turns' = {t \in turns : t.run \notin cancelled}

\* The user stops a run.
Stop(r) ==
  /\ runs[r].status \in Active /\ events < MaxEvents
  /\ events' = events + 1
  /\ runs' = [runs EXCEPT ![r].status = "cancelled"]
  /\ Abort({r})
  /\ UNCHANGED <<lineup, outs, rec, archived, archiving>>

-----------------------------------------------------------------------------
(* Archiving a bot.                                                        *)

StartArchive(b) ==
  /\ archiving = None /\ b \in Archivable \ archived /\ events < MaxEvents
  /\ events' = events + 1
  /\ archiving' = [bot |-> b,
                   listed |-> {r \in Known : runs[r].bot = b /\ runs[r].status \in Active}]
  /\ UNCHANGED <<runs, lineup, turns, outs, rec, archived>>

\* The runs are cancelled as listed, whatever has become of them.
Archive ==
  /\ archiving # None /\ archiving' = None
  /\ archived' = archived \cup {archiving.bot}
  /\ runs' = [r \in Known |-> IF r \in archiving.listed
                              THEN [runs[r] EXCEPT !.status = "cancelled"] ELSE runs[r]]
  /\ lineup' = SelectSeq(lineup, LAMBDA r : r \notin archiving.listed)
  /\ Abort(archiving.listed)
  /\ UNCHANGED <<outs, rec, events>>

-----------------------------------------------------------------------------
(* Returning outcomes.  A worker does so for the run it ended (outs), the  *)
(* reconciler for the first in line (rec).                                 *)

\* Mutant: only what was returned automatically counts.
NothingReported(r) == runs[r].source.intent # "request"

\* Nothing is owed for what was not a request, or was already reported.
NothingOwed(r) == runs[r].source.intent # "request" \/ Reports(r) # {}

Delivered(r) == Outcomes(r) # {}

\* An archived bot is not found.
Addressable(r) == Asker(r) \notin archived

\* The outcome goes to the asker whatever its hop; not if the run has been
\* cancelled since.
Deliverable(r) == runs[r].status = "ended" /\ Addressable(r)

Outcome(r) ==
  Queued(Asker(r), [kind |-> "outcome", by |-> r, from |-> runs[r].bot,
                    intent |-> "status", hop |-> Hop(r)])

\* No report can be added to what was read: the run has ended.
Deliver(r) ==
  runs' = IF NothingOwed(r) \/ Delivered(r) \/ ~Deliverable(r) THEN runs
          ELSE Append(runs, Outcome(r))

\* Mutant: an outcome that could not be delivered counts as returned.
SentOrTried(r) == "mark"

\* How a return goes on after the delivery.  The asker is looked for before an earlier
\* delivery is: one that was archived since leaves its outcome unmarked.
Sent(r) ==
  IF NothingOwed(r) \/ (Delivered(r) /\ Addressable(r)) \/ Deliverable(r)
  THEN "mark" ELSE "bump"

Mark(r) ==
  IF runs[r].status = "ended" /\ ~runs[r].returned
  THEN /\ runs' = [runs EXCEPT ![r].returned = TRUE]
       /\ lineup' = Remove(lineup, r)
  ELSE UNCHANGED <<runs, lineup>>

\* A worker whose delivery fails leaves it to the reconciler.
WorkerSends(r) ==
  /\ Returning(r, "send") \in outs /\ Deliver(r)
  /\ outs' = (outs \ {Returning(r, "send")})
                \cup {Returning(r, step) : step \in {Sent(r)} \cap {"mark"}}
  /\ UNCHANGED <<lineup, turns, rec, archived, archiving, events>>

WorkerMarks(r) ==
  /\ Returning(r, "mark") \in outs /\ Mark(r)
  /\ outs' = outs \ {Returning(r, "mark")}
  /\ UNCHANGED <<turns, rec, archived, archiving, events>>

WorkerDies(r) ==
  /\ \E out \in outs : out.run = r /\ outs' = outs \ {out}
  /\ UNCHANGED <<runs, lineup, turns, rec, archived, archiving, events>>

\* What the reconciler's query selects.
Outstanding == {r \in Known : Owes(r) /\ runs[r].status = "ended" /\ ~runs[r].returned}

\* The reconciler takes the next batch, here of one run.
Scan ==
  /\ rec.step = "none" /\ lineup # <<>> /\ Head(lineup) \in Outstanding
  /\ rec' = [run |-> Head(lineup), step |-> "send"]
  /\ UNCHANGED <<runs, lineup, turns, outs, archived, archiving, events>>

RecSends ==
  /\ rec.step = "send" /\ Deliver(rec.run)
  /\ rec' = [rec EXCEPT !.step = Sent(rec.run)]
  /\ UNCHANGED <<lineup, turns, outs, archived, archiving, events>>

RecMarks ==
  /\ rec.step = "mark" /\ Mark(rec.run)
  /\ rec' = [rec EXCEPT !.step = "none"]
  /\ UNCHANGED <<turns, outs, archived, archiving, events>>

\* Mutant: what could not be returned keeps its place.
KeptInLine(r) == lineup

\* What could not be returned goes to the end of the line.
BackInLine(r) == IF Contains(lineup, r) THEN Append(Remove(lineup, r), r) ELSE lineup

RecBumps ==
  /\ rec.step = "bump"
  /\ lineup' = BackInLine(rec.run)
  /\ rec' = [rec EXCEPT !.step = "none"]
  /\ UNCHANGED <<runs, turns, outs, archived, archiving, events>>

\* The reconciler stops, and another becomes leader.
RecDies ==
  /\ rec.step # "none" /\ events < MaxEvents
  /\ events' = events + 1
  /\ rec' = [rec EXCEPT !.step = "none"]
  /\ UNCHANGED <<runs, lineup, turns, outs, archived, archiving>>

-----------------------------------------------------------------------------
Init ==
  /\ runs = <<Queued(First, [kind |-> "user", by |-> 0, from |-> None,
                             intent |-> "request", hop |-> 0])>>
  /\ lineup = <<>> /\ turns = {} /\ outs = {}
  /\ rec = [run |-> 1, step |-> "none"]
  /\ archived = {} /\ archiving = None /\ events = 0

Turn(t) ==
  \/ Leave(t) \/ EndTurn(t)
  \/ \E b \in Bots : HandOff(t, b) \/ \E intent \in Intents : MessageBot(t, b, intent)

OfRun(r) ==
  \/ StartTurn(r) \/ ClaimAgain(r) \/ Stop(r)
  \/ WorkerSends(r) \/ WorkerMarks(r) \/ WorkerDies(r)

Return == Scan \/ RecSends \/ RecMarks \/ RecBumps

Next ==
  \/ \E r \in Known : OfRun(r)
  \/ \E t \in turns : Turn(t)
  \/ \E b \in Bots : StartArchive(b)
  \/ Archive \/ Return \/ RecDies

Spec == Init /\ [][Next]_vars

\* The reconciler runs every thirty seconds in whichever process leads, and goes
\* through with what it began unless that process ends.
FairSpec == Spec /\ WF_vars(Return)

-----------------------------------------------------------------------------
(* Properties.                                                             *)

\* The shape of every variable; the line holds exactly the ended runs that owe an
\* outcome and are not marked.
TypeOK ==
  /\ runs \in Seq(Runs) /\ Known \subseteq Ids
  /\ lineup \in Seq(Ids)
  /\ ToSet(lineup) = Outstanding
  /\ turns \subseteq Turns
  /\ outs \subseteq [run : Ids, step : {"send", "mark"}]
  /\ rec \in [run : Ids, step : Steps]
  /\ archived \subseteq Archivable
  /\ archiving # None => archiving.bot \in Archivable /\ archiving.listed \subseteq Known
  /\ events \in 0..MaxEvents

\* An outcome is returned once, by the worker or the reconciler, and never on top of
\* the result the run itself reported, however late a replaced execution sends it.
ToldOnce ==
  \A r \in Known :
    Owes(r) => Cardinality(Outcomes(r)) <= 1 /\ (Outcomes(r) = {} \/ Reports(r) = {})

\* A run is marked as returned only when the asker was told, or nothing was owed.
MarkedWhenTold ==
  \A r \in Known : Owes(r) /\ runs[r].returned /\ runs[r].source.intent = "request"
    => Told(r) # {}

\* How many messages and outcomes led to a run.
Depth[r \in Nat] == IF r \notin Known \/ ~Owes(r) THEN 0 ELSE Depth[runs[r].source.by] + 1

\* No chain of messages goes on for ever: counted along the runs that sent them, and
\* not by the hops they carry, only a returned outcome exceeds the limit, by one,
\* and nothing is returned for an outcome.
ChainsEnd ==
  \A r \in Known :
    /\ Depth[r] <= MaxHops \/ (runs[r].source.kind = "outcome" /\ Depth[r] = MaxHops + 1)
    /\ runs[r].source.kind = "outcome" => Outcomes(r) = {}

\* A stage in a group has one next owner, though the turn that handed it over is
\* repeated, and it does not go straight back to the bot it came from.
OneOwner ==
  \A r \in Known :
    /\ Cardinality(HandedTo(r)) <= 1
    /\ runs[r].source.kind = "handoff" => \A i \in HandedTo(r) : runs[i].bot # Asker(r)

Waiting(r) ==
  /\ Owes(r) /\ runs[r].source.intent = "request" /\ runs[r].status = "ended"
  /\ Told(r) = {} /\ Addressable(r)

\* Whoever asked for something hears how it ended: there always comes a moment when
\* no asker that is not archived waits for the outcome of a run that has ended,
\* however many outcomes ahead of it cannot be delivered.
Answered == []<>(\A r \in Known : ~Waiting(r))
=============================================================================
