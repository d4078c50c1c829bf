-------------------------- MODULE BotOutcomesProofs --------------------------
(***************************************************************************)
(* The asker is told once, a mark tells the truth, a stage has one next    *)
(* owner, and chains of messages end: proved of BotOutcomes for any number *)
(* of bots, runs, hops, repeated turns and reconcilers that die.           *)
(*                                                                         *)
(* The argument of ToldOnce: an outcome is delivered only for a run that   *)
(* has ended, and a run that has ended never runs again, so no report is   *)
(* added after the outcome; and whoever delivers sees, in the step that    *)
(* does it, every report and outcome there is.                             *)
(***************************************************************************)
EXTENDS BotOutcomes, FiniteSetTheorems, WellFoundedInduction, TLAPS

-----------------------------------------------------------------------------
(* The inductive invariant.                                                *)

\* The parts of a run, without the bounds of the instance.
Records == [bot : Bots \cup {None}, status : Active \cup {"ended", "cancelled"},
            source : [kind : Kinds, by : Nat, from : Bots \cup {None},
                      intent : Intents, hop : Nat],
            returned : BOOLEAN]

Executions == [run : Known, n : Nat, handed : BOOLEAN]
Deliveries == [run : Known, step : {"send", "mark"}]

\* Every run was begun by the user or by an earlier run.
Shape ==
  /\ runs \in Seq(Records)
  /\ \A i \in Known : runs[i].source.by < i
  /\ turns \subseteq Executions /\ events \in Nat
  /\ outs \subseteq Deliveries
  /\ rec \in [run : Known, step : Steps]

OneOf(kind) ==
  \A i, j \in Known :
    /\ runs[i].source.kind = kind /\ runs[j].source.kind = kind
    /\ runs[i].source.by = runs[j].source.by
    => i = j

\* Outcomes answer requests that have ended, and exclude a report.
OutcomesEnd ==
  \A r, i \in Known :
    runs[i].source.kind = "outcome" /\ runs[i].source.by = r
      => /\ runs[r].status \notin Active /\ runs[r].source.intent = "request"
         /\ runs[i].source.intent = "status" /\ Reports(r) = {}

\* A stage does not go straight back.
NotBack ==
  \A r, i \in Known :
    /\ runs[i].source.kind = "handoff" /\ runs[i].source.by = r
    /\ runs[r].source.kind = "handoff"
    => runs[i].bot # Asker(r)

\* Nothing is owed any more.
Quit(r) == runs[r].source.intent = "request" => Told(r) # {}

\* What is marked, or about to be, has been told.
MarksTrue ==
  /\ \A r \in Known : runs[r].returned => Quit(r)
  /\ rec.step = "mark" => Quit(rec.run)
  /\ \A out \in outs : out.step = "mark" => Quit(out.run)

IInv ==
  Shape /\ OneOf("outcome") /\ OneOf("handoff") /\ OutcomesEnd /\ NotBack /\ MarksTrue

-----------------------------------------------------------------------------
(* The ways a step changes the runs.                                       *)

LEMMA ShapeFacts ==
  ASSUME Shape
  PROVE  /\ Len(runs) \in Nat /\ Known = 1..Len(runs)
         /\ \A r \in Known : runs[r] \in Records /\ runs[r].source.by \in Nat
                               /\ runs[r].source.hop \in Nat /\ runs[r].bot \in Bots \cup {None}
<1>1. Len(runs) \in Nat /\ Known = 1..Len(runs) /\ \A r \in Known : runs[r] \in Records
  BY DEF Shape, Known
<1>2. \A run \in Records : run.source.by \in Nat /\ run.source.hop \in Nat
                             /\ run.bot \in Bots \cup {None}
  BY DEF Records
<1> QED
  BY <1>1, <1>2

\* A run that is moved or marked stays the same run.
LEMMA Rewritten ==
  ASSUME NEW run \in Records, NEW status \in Active \cup {"ended", "cancelled"}
  PROVE  /\ [run EXCEPT !.status = status] \in Records
         /\ [run EXCEPT !.status = status].status = status
         /\ [run EXCEPT !.status = status].bot = run.bot
         /\ [run EXCEPT !.status = status].source = run.source
         /\ [run EXCEPT !.status = status].returned = run.returned
         /\ [run EXCEPT !.returned = TRUE] \in Records
         /\ [run EXCEPT !.returned = TRUE].status = run.status
         /\ [run EXCEPT !.returned = TRUE].bot = run.bot
         /\ [run EXCEPT !.returned = TRUE].source = run.source
BY DEF Records

\* What another run adds to what was sent.
LEMMA Appended ==
  ASSUME Shape, NEW run \in Records, run.source.by \in 0..Len(runs),
         runs' = Append(runs, run)
  PROVE  /\ runs' \in Seq(Records)
         /\ Known' = Known \cup {Len(runs) + 1} /\ Len(runs) + 1 \notin Known
         /\ \A r \in Known : runs'[r] = runs[r]
         /\ runs'[Len(runs) + 1] = run
         /\ \A i \in Known' : runs'[i].source.by < i
         /\ \A r \in Known : Told(r) \subseteq Told(r)'
<1>1. /\ runs' \in Seq(Records) /\ Known' = Known \cup {Len(runs) + 1}
      /\ Len(runs) + 1 \notin Known /\ \A r \in Known : runs'[r] = runs[r]
      /\ runs'[Len(runs) + 1] = run
  BY DEF Shape, Known
<1>2. \A i \in Known' : runs'[i].source.by < i
  BY <1>1, ShapeFacts DEF Shape
<1>3. ASSUME NEW r \in Known PROVE Told(r) \subseteq Told(r)'
  BY <1>1 DEF Told, Reports, Outcomes, SentBy, Asker
<1> QED
  BY <1>1, <1>2, <1>3

\* A step that only moves the status of runs, never back to active, and marks
\* runs that have quit.
LEMMA Moved ==
  ASSUME IInv, DOMAIN runs' = Known, runs' = [r \in Known |-> runs'[r]],
         \A r \in Known :
           /\ runs'[r] \in Records
           /\ runs'[r].bot = runs[r].bot /\ runs'[r].source = runs[r].source
           /\ runs[r].status \notin Active => runs'[r].status \notin Active
           /\ runs'[r].returned => runs[r].returned \/ Quit(r),
         turns' \subseteq Executions, events' \in Nat, outs' \subseteq Deliveries,
         rec' \in [run : Known, step : Steps],
         rec'.step = "mark" => Quit(rec'.run),
         \A out \in outs' : out.step = "mark" => Quit(out.run)
  PROVE  IInv'
<1>0. Shape
  BY DEF IInv
<1>1. Known' = Known
  BY DEF Known
<1>2. Shape'
  <2>1. Len(runs) \in Nat /\ Known = 1..Len(runs)
    BY <1>0, ShapeFacts
  <2>2. runs' \in [1..Len(runs) -> Records]
    BY <2>1
  <2>3. runs' \in Seq(Records)
    BY <2>1, <2>2
  <2>4. \A i \in Known' : runs'[i].source.by < i
    BY <1>0, <1>1 DEF Shape
  <2>5. turns' \subseteq Executions' /\ rec' \in [run : Known', step : Steps]
        /\ outs' \subseteq Deliveries'
    BY <1>1 DEF Executions, Deliveries
  <2> QED
    BY <2>3, <2>4, <2>5 DEF Shape
<1>3. ASSUME NEW r \in Known
      PROVE  Reports(r)' = Reports(r) /\ Outcomes(r)' = Outcomes(r) /\ Asker(r)' = Asker(r)
  BY <1>1 DEF Reports, Outcomes, SentBy, Asker
<1>4. \A r \in Known : Quit(r)' <=> Quit(r)
  BY <1>3 DEF Quit, Told
<1>5. OneOf("outcome")' /\ OneOf("handoff")'
  BY <1>1 DEF IInv, OneOf
<1>6. OutcomesEnd'
  <2> SUFFICES ASSUME NEW r \in Known, NEW i \in Known, runs'[i].source.kind = "outcome",
                      runs'[i].source.by = r
               PROVE  /\ runs'[r].status \notin Active /\ runs'[r].source.intent = "request"
                      /\ runs'[i].source.intent = "status" /\ Reports(r)' = {}
    BY <1>1 DEF OutcomesEnd
  <2>1. runs[i].source.kind = "outcome" /\ runs[i].source.by = r
    OBVIOUS
  <2>2. /\ runs[r].status \notin Active /\ runs[r].source.intent = "request"
        /\ runs[i].source.intent = "status" /\ Reports(r) = {}
    BY <2>1 DEF IInv, OutcomesEnd
  <2> QED
    BY <1>3, <2>2
<1>7. NotBack'
  BY <1>1, <1>3 DEF IInv, NotBack
<1>8. MarksTrue'
  <2>1. rec'.step = "mark" => Quit(rec.run)'
    BY <1>4
  <2>2. \A out \in outs' : out.run \in Known
    BY DEF Deliveries
  <2>3. \A out \in outs' : out.step = "mark" => Quit(out.run)'
    BY <1>4, <2>2
  <2> QED
    BY <1>1, <1>4, <2>1, <2>3 DEF IInv, MarksTrue
<1> QED
  BY <1>2, <1>5, <1>6, <1>7, <1>8 DEF IInv

\* A step that leaves the runs alone.
LEMMA Untouched ==
  ASSUME IInv, runs' = runs, turns' \subseteq Executions, events' \in Nat,
         outs' \subseteq Deliveries, rec' \in [run : Known, step : Steps],
         rec'.step = "mark" => Quit(rec'.run),
         \A out \in outs' : out.step = "mark" => Quit(out.run)
  PROVE  IInv'
<1>1. Shape
  BY DEF IInv
<1>2. DOMAIN runs' = Known /\ runs' = [r \in Known |-> runs'[r]]
  BY <1>1 DEF Shape, Known
<1>3. \A r \in Known : runs'[r] \in Records
  BY <1>1, ShapeFacts
<1> QED
  BY <1>2, <1>3, Moved

\* A run is begun by another: by a message of an active run, by the one hand-over of
\* a stage, or by the one outcome of an ended run that reported nothing.
LEMMA Added ==
  ASSUME IInv, NEW run \in Records, run.source.by \in Known, ~run.returned,
         runs' = Append(runs, run),
         turns' \subseteq Executions, events' \in Nat, outs' \subseteq Deliveries,
         rec' \in [run : Known, step : Steps],
         run.source.kind = "message" => runs[run.source.by].status \in Active,
         run.source.kind = "handoff" =>
           /\ HandedTo(run.source.by) = {}
           /\ runs[run.source.by].source.kind = "handoff" => run.bot # Asker(run.source.by),
         run.source.kind = "outcome" =>
           /\ runs[run.source.by].status \notin Active /\ run.source.intent = "status"
           /\ runs[run.source.by].source.intent = "request"
           /\ Reports(run.source.by) = {} /\ Outcomes(run.source.by) = {},
         rec'.step = "mark" => Quit(rec.run)',
         \A out \in outs' : out.step = "mark" => Quit(out.run)'
  PROVE  IInv'
<1> DEFINE n == Len(runs) + 1
           by == run.source.by
<1>0. Shape /\ by \in 0..Len(runs)
  BY ShapeFacts DEF IInv
<1>1. /\ Known' = Known \cup {n} /\ n \notin Known /\ runs'[n] = run
      /\ \A r \in Known : runs'[r] = runs[r]
      /\ runs' \in Seq(Records) /\ \A i \in Known' : runs'[i].source.by < i
      /\ \A r \in Known : Told(r) \subseteq Told(r)'
  BY <1>0, Appended
<1>2. Shape'
  <2>1. rec' \in [run : Known', step : Steps]
    BY <1>1
  <2>2. turns' \subseteq Executions' /\ outs' \subseteq Deliveries'
    BY <1>1 DEF Executions, Deliveries
  <2> QED
    BY <1>1, <2>1, <2>2 DEF Shape
<1>3. \A kind \in {"outcome", "handoff"} : run.source.kind = kind => SentBy(by, kind) = {}
  BY DEF Outcomes, HandedTo
<1>4. OneOf("outcome")' /\ OneOf("handoff")'
  <2>1. ASSUME NEW kind \in {"outcome", "handoff"}, OneOf(kind) PROVE OneOf(kind)'
    <3> SUFFICES ASSUME NEW i \in Known', NEW j \in Known',
                        runs'[i].source.kind = kind, runs'[j].source.kind = kind,
                        runs'[i].source.by = runs'[j].source.by
                 PROVE  i = j
      BY DEF OneOf
    <3>1. ASSUME NEW x \in Known, runs'[x].source.kind = kind, runs'[x].source.by = by,
                 run.source.kind = kind
          PROVE  FALSE
      <4>1. x \in SentBy(by, kind)
        BY <1>1, <3>1 DEF SentBy
      <4> QED
        BY <1>3, <3>1, <4>1
    <3>2. CASE i \in Known /\ j \in Known
      <4>1. runs'[i] = runs[i] /\ runs'[j] = runs[j]
        BY <1>1, <3>2
      <4> QED
        BY <2>1, <3>2, <4>1 DEF OneOf
    <3>3. CASE i = n \/ j = n
      BY <1>1, <3>1, <3>3
    <3> QED
      BY <1>1, <3>2, <3>3
  <2> QED
    BY <2>1 DEF IInv
<1>5. OutcomesEnd'
  <2> SUFFICES ASSUME NEW r \in Known', NEW i \in Known', runs'[i].source.kind = "outcome",
                      runs'[i].source.by = r
               PROVE  /\ runs'[r].status \notin Active /\ runs'[r].source.intent = "request"
                      /\ runs'[i].source.intent = "status" /\ Reports(r)' = {}
    BY DEF OutcomesEnd
  <2>1. r \in Known /\ runs'[r] = runs[r]
    BY <1>0, <1>1, ShapeFacts DEF Shape
  <2>2. runs[r].status \notin Active /\ Reports(r) = {} /\ runs[r].source.intent = "request"
        /\ runs'[i].source.intent = "status"
    <3>1. CASE i \in Known
      <4>1. runs'[i] = runs[i] /\ runs[i].source.kind = "outcome" /\ runs[i].source.by = r
        BY <1>1, <3>1
      <4>2. OutcomesEnd
        BY DEF IInv
      <4>3. /\ runs[r].status \notin Active /\ Reports(r) = {}
            /\ runs[r].source.intent = "request" /\ runs[i].source.intent = "status"
        BY ONLY <2>1, <3>1, <4>1, <4>2 DEF OutcomesEnd
      <4> QED
        BY ONLY <4>1, <4>3
    <3>2. CASE i = n
      <4>1. runs'[i] = run /\ by = r
        BY <1>1, <3>2
      <4> QED
        BY <4>1
    <3> QED
      BY <1>1, <3>1, <3>2
  <2>3. ASSUME NEW x \in Reports(r)' PROVE x \in Reports(r)
    <3>1. x \in Known' /\ runs'[x].source.by = r /\ runs'[x].source.kind = "message"
      BY DEF Reports, SentBy
    <3>2. x \in Known /\ runs'[x] = runs[x]
      BY <1>1, <2>2, <3>1
    <3> QED
      BY <2>1, <3>2 DEF Reports, SentBy, Asker
  <2> QED
    BY <2>1, <2>2, <2>3
<1>6. NotBack'
  <2> SUFFICES ASSUME NEW r \in Known', NEW i \in Known', runs'[i].source.kind = "handoff",
                      runs'[i].source.by = r, runs'[r].source.kind = "handoff"
               PROVE  runs'[i].bot # runs'[r].source.from
    BY DEF NotBack, Asker
  <2>1. r \in Known /\ runs'[r] = runs[r]
    BY <1>0, <1>1, ShapeFacts DEF Shape
  <2>2. CASE i \in Known
    <3>1. runs'[i] = runs[i]
      BY <1>1, <2>2
    <3>2. runs[i].bot # Asker(r)
      BY <2>1, <2>2, <3>1 DEF IInv, NotBack
    <3> QED
      BY <2>1, <3>1, <3>2 DEF Asker
  <2>3. CASE i = n
    BY <1>1, <2>1, <2>3 DEF Asker
  <2> QED
    BY <1>1, <2>2, <2>3
<1>7. MarksTrue'
  <2>1. ASSUME NEW r \in Known', runs'[r].returned PROVE Quit(r)'
    <3>1. r \in Known /\ runs'[r] = runs[r] /\ Told(r) \subseteq Told(r)'
      BY <1>1, <2>1
    <3>2. Quit(r)
      BY <2>1, <3>1 DEF IInv, MarksTrue
    <3> QED
      BY <3>1, <3>2 DEF Quit
  <2> QED
    BY <1>1, <2>1 DEF MarksTrue
<1> QED
  BY <1>2, <1>4, <1>5, <1>6, <1>7 DEF IInv

-----------------------------------------------------------------------------
(* Outcomes: what is delivered, and how it is marked.                      *)

LEMMA Delivery ==
  ASSUME IInv, NEW r \in Known, Deliver(r), turns' = turns, events' = events,
         outs' \subseteq Deliveries,
         rec' \in [run : Known, step : Steps], rec'.run = rec.run,
         rec'.step = "mark" => Quit(rec.run) \/ (rec.run = r /\ Sent(r) = "mark"),
         \A out \in outs' : out.step = "mark"
           => Quit(out.run) \/ (out.run = r /\ Sent(r) = "mark")
  PROVE  IInv'
<1>0. Shape /\ turns' \subseteq Executions /\ events' \in Nat
  BY DEF IInv, Shape
<1>1. CASE NothingOwed(r) \/ Delivered(r) \/ ~Deliverable(r)
  <2>1. runs' = runs
    BY <1>1 DEF Deliver
  <2>2. Sent(r) = "mark" => Quit(r)
    <3>1. Sent(r) = "mark" => NothingOwed(r) \/ Delivered(r)
      BY <1>1 DEF Sent
    <3> QED
      BY <3>1 DEF NothingOwed, Delivered, Quit, Told
  <2> QED
    BY <1>0, <2>1, <2>2, Untouched
<1>2. CASE ~NothingOwed(r) /\ ~Delivered(r) /\ Deliverable(r)
  <2> DEFINE run == Outcome(r)
             n == Len(runs) + 1
  <2>1. runs' = Append(runs, run)
    BY <1>2 DEF Deliver
  <2>2. Hop(r) \in Nat
    BY <1>0, ShapeFacts DEF Hop
  <2>3. run \in Records
    <3>1. Asker(r) \in Bots \cup {None}
      BY <1>0, ShapeFacts DEF Asker, Records
    <3> QED
      BY <1>0, <2>2, <3>1, ShapeFacts DEF Outcome, Queued, Records, Kinds, Intents, Active
  <2>4. /\ run.source.by = r /\ run.source.kind = "outcome" /\ run.source.intent = "status"
        /\ ~run.returned
    BY DEF Outcome, Queued
  <2>5. /\ runs[r].status \notin Active /\ runs[r].source.intent = "request"
        /\ Reports(r) = {} /\ Outcomes(r) = {}
    BY <1>2 DEF NothingOwed, Delivered, Deliverable, Active
  <2>6. /\ Known' = Known \cup {n} /\ runs'[n] = run
        /\ \A x \in Known : runs'[x] = runs[x] /\ Told(x) \subseteq Told(x)'
    BY <1>0, <2>1, <2>3, <2>4, ShapeFacts, Appended
  <2>7. Quit(r)'
    <3>1. n \in Outcomes(r)'
      BY <2>4, <2>6 DEF Outcomes, SentBy
    <3> QED
      BY <3>1 DEF Quit, Told
  <2>8. \A x \in Known : Quit(x) => Quit(x)'
    BY <2>6 DEF Quit
  <2>9. rec'.step = "mark" => Quit(rec.run)'
    BY <2>7, <2>8
  <2>10. \A out \in outs' : out.run \in Known
    BY DEF Deliveries
  <2>11. \A out \in outs' : out.step = "mark" => Quit(out.run)'
    BY <2>7, <2>8, <2>10
  <2> HIDE DEF run
  <2> QED
    BY <1>0, <2>1, <2>3, <2>4, <2>5, <2>9, <2>11, Added
<1> QED
  BY <1>1, <1>2

LEMMA Marking ==
  ASSUME IInv, NEW r \in Known, Quit(r), Mark(r), turns' = turns, events' = events,
         outs' \subseteq Deliveries, rec' \in [run : Known, step : Steps],
         rec'.step # "mark" \/ rec' = rec,
         outs' \subseteq outs
  PROVE  IInv'
<1>0. Shape /\ turns' \subseteq Executions /\ events' \in Nat
  BY DEF IInv, Shape
<1>1. /\ rec'.step = "mark" => Quit(rec'.run)
      /\ \A out \in outs' : out.step = "mark" => Quit(out.run)
  BY DEF IInv, MarksTrue
<1>2. CASE runs' = runs
  BY <1>0, <1>1, <1>2, Untouched
<1>3. CASE runs' = [runs EXCEPT ![r].returned = TRUE]
  <2>1. DOMAIN runs' = Known /\ runs' = [x \in Known |-> runs'[x]]
    BY <1>0, <1>3 DEF Shape, Known
  <2>2. ASSUME NEW x \in Known
        PROVE  /\ runs'[x] \in Records /\ runs'[x].bot = runs[x].bot
               /\ runs'[x].source = runs[x].source /\ runs'[x].status = runs[x].status
               /\ runs'[x].returned => runs[x].returned \/ Quit(x)
    <3>1. runs[x] \in Records
      BY <1>0, ShapeFacts
    <3>2. runs'[x] = IF x = r THEN [runs[x] EXCEPT !.returned = TRUE] ELSE runs[x]
      BY <1>0, <1>3 DEF Shape, Known
    <3>3. CASE x = r
      <4>1. /\ runs'[x] \in Records /\ runs'[x].bot = runs[x].bot
            /\ runs'[x].source = runs[x].source /\ runs'[x].status = runs[x].status
        BY <3>1, <3>2, <3>3, Rewritten DEF Active
      <4> QED
        BY <3>3, <4>1
    <3> QED
      BY <3>1, <3>2, <3>3
  <2> QED
    BY <1>0, <1>1, <2>1, <2>2, Moved
<1> QED
  BY <1>2, <1>3 DEF Mark

-----------------------------------------------------------------------------
(* The steps.                                                              *)

\* What the steps that leave the returning of outcomes alone keep.
LEMMA ReturnsKept ==
  ASSUME IInv, UNCHANGED <<outs, rec>>
  PROVE  /\ outs' \subseteq Deliveries /\ rec' \in [run : Known, step : Steps]
         /\ rec'.step = "mark" => Quit(rec'.run)
         /\ \A out \in outs' : out.step = "mark" => Quit(out.run)
BY DEF IInv, Shape, MarksTrue

Becomes(r, status) == runs' = [runs EXCEPT ![r].status = status]

\* The status of one run moves, and not back to active.
LEMMA OneMoves ==
  ASSUME IInv, NEW r \in Known, NEW s \in Active \cup {"ended", "cancelled"},
         runs[r].status \in Active,
         Becomes(r, s),
         turns' \subseteq Executions, events' \in Nat, outs' \subseteq Deliveries,
         rec' \in [run : Known, step : Steps],
         rec'.step = "mark" => Quit(rec'.run),
         \A out \in outs' : out.step = "mark" => Quit(out.run)
  PROVE  IInv'
<1>0. Shape
  BY DEF IInv
<1>1. DOMAIN runs' = Known /\ runs' = [x \in Known |-> runs'[x]]
  BY <1>0 DEF Shape, Known, Becomes
<1>2. ASSUME NEW x \in Known
      PROVE  /\ runs'[x] \in Records /\ runs'[x].bot = runs[x].bot
             /\ runs'[x].source = runs[x].source /\ runs'[x].returned = runs[x].returned
             /\ runs[x].status \notin Active => runs'[x].status \notin Active
  <2>1. runs[x] \in Records
    BY <1>0, ShapeFacts
  <2>2. runs'[x] = IF x = r THEN [runs[x] EXCEPT !.status = s] ELSE runs[x]
    BY <1>0 DEF Shape, Known, Becomes
  <2>3. CASE x = r
    <3>0. runs'[x] = [runs[x] EXCEPT !.status = s]
      BY <2>2, <2>3
    <3>1. /\ runs'[x] \in Records /\ runs'[x].bot = runs[x].bot
          /\ runs'[x].source = runs[x].source /\ runs'[x].returned = runs[x].returned
      <4> DEFINE new == [runs[x] EXCEPT !.status = s]
      <4>1. /\ new \in Records /\ new.bot = runs[x].bot
            /\ new.source = runs[x].source /\ new.returned = runs[x].returned
        BY <2>1, Rewritten
      <4> HIDE DEF new
      <4> QED
        BY <3>0, <4>1 DEF new
    <3> QED
      BY <2>3, <3>1
  <2> QED
    BY <2>1, <2>2, <2>3
<1>3. \A x \in Known :
        /\ runs'[x] \in Records /\ runs'[x].bot = runs[x].bot
        /\ runs'[x].source = runs[x].source
        /\ runs[x].status \notin Active => runs'[x].status \notin Active
        /\ runs'[x].returned => runs[x].returned \/ Quit(x)
  BY <1>2
<1> QED
  BY <1>1, <1>3, Moved

\* What has been told stays told when another run is begun.
Quitting ==
  /\ rec'.step = "mark" => Quit(rec.run)'
  /\ \A out \in outs' : out.step = "mark" => Quit(out.run)'

LEMMA QuitLasts ==
  ASSUME IInv, NEW run \in Records, run.source.by \in Known, runs' = Append(runs, run),
         UNCHANGED <<outs, rec>>
  PROVE  Quitting
<1>1. Shape /\ run.source.by \in 0..Len(runs)
  BY ShapeFacts DEF IInv
<1>2. \A x \in Known : runs'[x] = runs[x] /\ Told(x) \subseteq Told(x)'
  BY <1>1, Appended
<1>3. \A x \in Known : Quit(x) => Quit(x)'
  BY <1>2 DEF Quit
<1>4. rec.run \in Known /\ \A out \in outs : out.run \in Known
  BY <1>1 DEF Shape, Deliveries
<1> QED
  BY <1>3, <1>4 DEF IInv, MarksTrue, Quitting

LEMMA Executed ==
  ASSUME NEW r \in Known, NEW n \in Nat, NEW handed \in BOOLEAN,
         turns \subseteq Executions, turns' = turns \cup {[run |-> r, n |-> n, handed |-> handed]}
  PROVE  turns' \subseteq Executions
<1>1. [run |-> r, n |-> n, handed |-> handed] \in Executions
  BY DEF Executions
<1> QED
  BY <1>1

LEMMA OfRunStep ==
  ASSUME IInv, NEW r \in Known, OfRun(r)
  PROVE  IInv'
<1>0. Shape /\ turns \subseteq Executions /\ events \in Nat
      /\ outs \subseteq Deliveries /\ rec \in [run : Known, step : Steps]
  BY DEF IInv, Shape
<1>a. /\ rec.step = "mark" => Quit(rec.run)
      /\ \A out \in outs : out.step = "mark" => Quit(out.run)
  BY DEF IInv, MarksTrue
<1>1. CASE StartTurn(r)
  <2>1. turns' \subseteq Executions
    BY <1>0, <1>1, Executed DEF StartTurn
  <2>2. /\ runs[r].status \in Active /\ Becomes(r, "running")
        /\ UNCHANGED <<outs, rec, events>> /\ "running" \in Active
    BY <1>1 DEF StartTurn, Active, Becomes
  <2> QED
    BY <1>0, <1>a, <2>1, <2>2, OneMoves
<1>2. CASE ClaimAgain(r)
  <2>1. turns' \subseteq Executions
    <3>1. events + 2 \in Nat
      BY <1>0
    <3> QED
      BY <1>0, <1>2, <3>1, Executed DEF ClaimAgain
  <2>2. runs' = runs /\ UNCHANGED <<outs, rec>> /\ events' \in Nat
    BY <1>0, <1>2 DEF ClaimAgain
  <2> QED
    BY <2>1, <2>2, ReturnsKept, Untouched
<1>3. CASE Stop(r)
  <2>1. turns' \subseteq Executions /\ events' \in Nat
    BY <1>0, <1>3 DEF Stop, Abort
  <2>2. /\ runs[r].status \in Active /\ Becomes(r, "cancelled")
        /\ UNCHANGED <<outs, rec>>
    BY <1>3 DEF Stop, Becomes
  <2> QED
    BY <1>0, <1>a, <2>1, <2>2, OneMoves
<1>4. CASE WorkerSends(r)
  <2>1. ASSUME NEW out \in outs'
        PROVE  /\ out \in Deliveries
               /\ out.step = "mark" => Quit(out.run) \/ (out.run = r /\ Sent(r) = "mark")
    <3>1. CASE out \in outs
      BY <1>0, <1>a, <3>1
    <3>2. CASE Sent(r) = "mark" /\ out = Returning(r, "mark")
      BY <3>2 DEF Returning, Deliveries
    <3> QED
      BY <1>4, <3>1, <3>2 DEF WorkerSends
  <2>2. rec' = rec /\ Deliver(r) /\ turns' = turns /\ events' = events
    BY <1>4 DEF WorkerSends
  <2> QED
    BY <1>0, <1>a, <2>1, <2>2, Delivery
<1>5. CASE WorkerMarks(r)
  <2>1. Quit(r)
    <3>1. Returning(r, "mark") \in outs
      BY <1>5 DEF WorkerMarks
    <3> QED
      BY <1>a, <3>1 DEF Returning
  <2>2. /\ Mark(r) /\ outs' \subseteq outs
        /\ turns' = turns /\ events' = events /\ rec' = rec
    BY <1>5 DEF WorkerMarks
  <2> QED
    BY <1>0, <2>1, <2>2, Marking
<1>6. CASE WorkerDies(r)
  <2>1. /\ outs' \subseteq outs
        /\ runs' = runs /\ turns' = turns /\ events' = events /\ rec' = rec
    BY <1>6 DEF WorkerDies
  <2> QED
    BY <1>0, <1>a, <2>1, Untouched
<1> QED
  BY <1>1, <1>2, <1>3, <1>4, <1>5, <1>6 DEF OfRun

LEMMA TurnStep ==
  ASSUME IInv, NEW t \in turns, Turn(t)
  PROVE  IInv'
<1> DEFINE r == t.run
<1>0. Shape /\ turns \subseteq Executions /\ events \in Nat
      /\ outs \subseteq Deliveries /\ rec \in [run : Known, step : Steps]
  BY DEF IInv, Shape
<1>a. /\ rec.step = "mark" => Quit(rec.run)
      /\ \A out \in outs : out.step = "mark" => Quit(out.run)
  BY DEF IInv, MarksTrue
<1>b. /\ r \in Known /\ runs[r] \in Records /\ runs[r].bot \in Bots \cup {None} /\ r \in Nat
      /\ runs[r].source.hop \in Nat /\ [t EXCEPT !.handed = TRUE] \in Executions
  <2>1. t \in Executions
    BY <1>0
  <2>2. r \in Known /\ [t EXCEPT !.handed = TRUE] \in Executions
    BY <2>1 DEF Executions
  <2> QED
    BY <1>0, <2>2, ShapeFacts
<1>1. CASE Leave(t)
  <2>1. turns' \subseteq Executions /\ runs' = runs /\ UNCHANGED <<outs, rec, events>>
    BY <1>0, <1>1 DEF Leave
  <2> QED
    BY <1>0, <1>a, <2>1, Untouched
<1>2. CASE EndTurn(t)
  <2>1. turns' \subseteq Executions /\ UNCHANGED <<rec, events>>
    BY <1>0, <1>2 DEF EndTurn
  <2>2. runs[r].status \in Active /\ Becomes(r, "ended")
    BY <1>2 DEF EndTurn, Active, Becomes
  <2>3. Returning(r, "send") \in Deliveries /\ Returning(r, "send").step # "mark"
    BY <1>b DEF Returning, Deliveries
  <2>4. outs' = outs \/ outs' = outs \cup {Returning(r, "send")}
    BY <1>2 DEF EndTurn
  <2>5. outs' \subseteq Deliveries /\ \A out \in outs' : out.step = "mark" => Quit(out.run)
    BY <1>0, <1>a, <2>3, <2>4
  <2> HIDE DEF r
  <2> QED
    BY <1>0, <1>a, <1>b, <2>1, <2>2, <2>5, OneMoves
<1>3. ASSUME NEW b \in Bots, HandOff(t, b) PROVE IInv'
  <2>1. turns' \subseteq Executions
    BY <1>0, <1>b, <1>3 DEF HandOff
  <2>2. UNCHANGED <<outs, rec, events>>
    BY <1>3 DEF HandOff
  <2>3. CASE ~Unhanded(r)
    <3>1. runs' = runs
      BY <1>3, <2>3 DEF HandOff
    <3> QED
      BY <1>0, <1>a, <2>1, <2>2, <3>1, Untouched
  <2>4. CASE Unhanded(r)
    <3> DEFINE source == [kind |-> "handoff", by |-> r, from |-> runs[r].bot,
                          intent |-> "request", hop |-> StageHop(r)]
               run == Queued(b, source)
    <3>1. runs' = Append(runs, run) /\ (runs[r].source.kind = "handoff" => Asker(r) # b)
      BY <1>3, <2>4 DEF HandOff
    <3>2. StageHop(r) \in Nat
      BY <1>b DEF StageHop
    <3>3. run \in Records
      BY <1>b, <3>2 DEF Queued, Records, Kinds, Intents, Active
    <3>4. /\ run.source.by = r /\ run.source.kind = "handoff" /\ run.bot = b /\ ~run.returned
      BY DEF Queued
    <3>5. HandedTo(r) = {}
      BY <2>4 DEF Unhanded
    <3>6. Quitting
      BY <1>0, <1>a, <1>b, <2>2, <3>1, <3>3, <3>4, QuitLasts DEF Quitting
    <3> HIDE DEF run, r
    <3> QED
      BY <1>0, <1>b, <2>1, <2>2, <3>1, <3>3, <3>4, <3>5, <3>6, Added DEF Quitting
  <2> QED
    BY <2>3, <2>4
<1>4. ASSUME NEW b \in Bots, NEW intent \in Intents, MessageBot(t, b, intent) PROVE IInv'
  <2> DEFINE source == [kind |-> "message", by |-> r, from |-> runs[r].bot,
                        intent |-> intent, hop |-> Hop(r)]
             run == Queued(b, source)
  <2>1. runs' = Append(runs, run) /\ UNCHANGED <<turns, outs, rec, events>>
        /\ runs[r].status \in Active
    BY <1>4 DEF MessageBot, MaySend, Active
  <2>2. Hop(r) \in Nat
    BY <1>b DEF Hop
  <2>3. run \in Records
    BY <1>b, <2>2 DEF Queued, Records, Kinds, Active
  <2>4. run.source.by = r /\ run.source.kind = "message" /\ ~run.returned
    BY DEF Queued
  <2>5. Quitting
    BY <1>0, <1>a, <1>b, <2>1, <2>3, <2>4, QuitLasts DEF Quitting
  <2> HIDE DEF run, r
  <2> QED
    BY <1>0, <1>b, <2>1, <2>3, <2>4, <2>5, Added DEF Quitting
<1> QED
  BY <1>1, <1>2, <1>3, <1>4 DEF Turn

LEMMA ArchiveStep ==
  ASSUME IInv, Archive
  PROVE  IInv'
<1>0. Shape /\ UNCHANGED <<outs, rec, events>> /\ events \in Nat /\ turns' \subseteq Executions
  BY DEF IInv, Shape, Archive, Abort
<1>1. DOMAIN runs' = Known /\ runs' = [x \in Known |-> runs'[x]]
  BY DEF Archive
<1>2. ASSUME NEW x \in Known
      PROVE  /\ runs'[x] \in Records /\ runs'[x].bot = runs[x].bot
             /\ runs'[x].source = runs[x].source /\ runs'[x].returned = runs[x].returned
             /\ runs[x].status \notin Active => runs'[x].status \notin Active
  <2>1. runs[x] \in Records
    BY <1>0, ShapeFacts
  <2>2. runs'[x] = runs[x] \/ runs'[x] = [runs[x] EXCEPT !.status = "cancelled"]
    BY DEF Archive
  <2> DEFINE new == [runs[x] EXCEPT !.status = "cancelled"]
  <2>3. /\ new \in Records /\ new.status = "cancelled" /\ new.bot = runs[x].bot
        /\ new.source = runs[x].source /\ new.returned = runs[x].returned
    BY <2>1, Rewritten
  <2> HIDE DEF new
  <2>4. runs'[x] = runs[x] \/ runs'[x] = new
    BY <2>2 DEF new
  <2> QED
    BY <2>1, <2>3, <2>4 DEF Active
<1>3. \A x \in Known :
        /\ runs'[x] \in Records /\ runs'[x].bot = runs[x].bot
        /\ runs'[x].source = runs[x].source
        /\ runs[x].status \notin Active => runs'[x].status \notin Active
        /\ runs'[x].returned => runs[x].returned \/ Quit(x)
  BY <1>2
<1> QED
  BY <1>0, <1>1, <1>3, ReturnsKept, Moved

LEMMA ReturnStep ==
  ASSUME IInv, Return \/ RecDies
  PROVE  IInv'
<1>0. /\ Shape /\ turns \subseteq Executions /\ events \in Nat
      /\ outs \subseteq Deliveries /\ rec \in [run : Known, step : Steps]
  BY DEF IInv, Shape
<1>a. /\ rec.step = "mark" => Quit(rec.run)
      /\ \A out \in outs : out.step = "mark" => Quit(out.run)
  BY DEF IInv, MarksTrue
<1>1. CASE Scan
  <2>1. /\ rec' \in [run : Known, step : Steps] /\ rec'.step = "send"
    BY <1>1 DEF Scan, Outstanding, Steps
  <2> QED
    BY <1>0, <1>1, <1>a, <2>1, Untouched DEF Scan
<1>2. CASE RecSends
  <2>1. Sent(rec.run) \in Steps
    BY DEF Sent, Steps
  <2>2. rec' \in [run : Known, step : Steps] /\ rec'.run = rec.run /\ rec'.step = Sent(rec.run)
    BY <1>0, <1>2, <2>1 DEF RecSends
  <2>3. /\ rec.run \in Known /\ Deliver(rec.run) /\ UNCHANGED <<turns, outs, events>>
    BY <1>0, <1>2 DEF RecSends
  <2> QED
    BY <1>0, <1>a, <2>2, <2>3, Delivery
<1>3. CASE RecMarks
  <2>1. rec' \in [run : Known, step : Steps] /\ rec'.step = "none"
    BY <1>0, <1>3 DEF RecMarks, Steps
  <2>2. /\ rec.run \in Known /\ Quit(rec.run) /\ Mark(rec.run)
        /\ UNCHANGED <<turns, outs, events>>
    BY <1>0, <1>a, <1>3 DEF RecMarks
  <2> QED
    BY <1>0, <1>a, <2>1, <2>2, Marking
<1>4. CASE RecBumps
  <2>1. rec' \in [run : Known, step : Steps] /\ rec'.step = "none"
    BY <1>0, <1>4 DEF RecBumps, Steps
  <2> QED
    BY <1>0, <1>4, <1>a, <2>1, Untouched DEF RecBumps
<1>5. CASE RecDies
  <2>1. rec' \in [run : Known, step : Steps] /\ rec'.step = "none" /\ events' \in Nat
    BY <1>0, <1>5 DEF RecDies, Steps
  <2> QED
    BY <1>0, <1>5, <1>a, <2>1, Untouched DEF RecDies
<1> QED
  BY <1>1, <1>2, <1>3, <1>4, <1>5 DEF Return

-----------------------------------------------------------------------------
(* The theorems.                                                           *)

LEMMA InitIInv == Init => IInv
<1> SUFFICES ASSUME Init PROVE IInv
  OBVIOUS
<1> DEFINE run == runs[1]
<1>1. /\ Known = {1} /\ run.source.by = 0 /\ run.source.kind = "user" /\ ~run.returned
      /\ runs \in Seq(Records)
  BY BotsAssumption DEF Init, Known, Queued, Records, Kinds, Intents, Active
<1>2. Shape
  BY <1>1 DEF Init, Shape, Steps
<1>3. OneOf("outcome") /\ OneOf("handoff")
  BY <1>1 DEF OneOf
<1>4. OutcomesEnd /\ NotBack
  BY <1>1 DEF OutcomesEnd, NotBack
<1>5. MarksTrue
  BY <1>1 DEF Init, MarksTrue
<1> QED
  BY <1>2, <1>3, <1>4, <1>5 DEF IInv

LEMMA NextIInv == IInv /\ [Next]_vars => IInv'
<1> SUFFICES ASSUME IInv, [Next]_vars PROVE IInv'
  OBVIOUS
<1>0. Shape /\ turns \subseteq Executions /\ events \in Nat
  BY DEF IInv, Shape
<1>1. CASE UNCHANGED vars
  <2>1. runs' = runs /\ UNCHANGED <<turns, outs, rec, events>>
    BY <1>1 DEF vars
  <2> QED
    BY <1>0, <2>1, ReturnsKept, Untouched
<1>2. ASSUME NEW r \in Known, OfRun(r) PROVE IInv'
  BY <1>2, OfRunStep
<1>3. ASSUME NEW t \in turns, Turn(t) PROVE IInv'
  BY <1>3, TurnStep
<1>4. ASSUME NEW b \in Bots, StartArchive(b) PROVE IInv'
  <2>1. runs' = runs /\ UNCHANGED <<turns, outs, rec>> /\ events' \in Nat
    BY <1>0, <1>4 DEF StartArchive
  <2> QED
    BY <1>0, <2>1, ReturnsKept, Untouched
<1>5. CASE Archive
  BY <1>5, ArchiveStep
<1>6. CASE Return \/ RecDies
  BY <1>6, ReturnStep
<1> QED
  BY <1>1, <1>2, <1>3, <1>4, <1>5, <1>6 DEF Next

\* The invariant that the other theorems rest on.
THEOREM Invariance == Spec => []IInv
BY InitIInv, NextIInv, PTL DEF Spec

\* What is found at most once has at most one member.
LEMMA AtMostOne ==
  ASSUME NEW S, \A x, y \in S : x = y
  PROVE  Cardinality(S) <= 1
<1>1. CASE S = {}
  BY <1>1, FS_EmptySet
<1>2. CASE S # {}
  <2>1. PICK x : x \in S
    BY <1>2
  <2>2. S = {x}
    BY <2>1
  <2> QED
    BY <2>2, FS_Singleton
<1> QED
  BY <1>1, <1>2

\* An outcome is returned once, whoever returns it, and not on top of a result that
\* the run itself reported: returnBotMessageOutcome, by worker and reconciler.
THEOREM ToldOnceHolds == Spec => []ToldOnce
<1>1. IInv => ToldOnce
  <2> SUFFICES ASSUME IInv, NEW r \in Known
               PROVE  Cardinality(Outcomes(r)) <= 1 /\ (Outcomes(r) = {} \/ Reports(r) = {})
    BY DEF ToldOnce
  <2>1. \A x, y \in Outcomes(r) : x = y
    BY DEF IInv, OneOf, Outcomes, SentBy
  <2>2. Cardinality(Outcomes(r)) <= 1
    BY <2>1, AtMostOne
  <2>3. ASSUME NEW i \in Outcomes(r) PROVE Reports(r) = {}
    BY DEF IInv, OutcomesEnd, Outcomes, SentBy
  <2> QED
    BY <2>2, <2>3
<1> QED
  BY <1>1, Invariance, PTL

\* What counts as returned has been told, or nothing was owed: markBotOutcomeReturned.
THEOREM MarkedWhenToldHolds == Spec => []MarkedWhenTold
<1>1. IInv => MarkedWhenTold
  BY DEF IInv, MarksTrue, MarkedWhenTold, Quit
<1> QED
  BY <1>1, Invariance, PTL

\* A stage in a group has one next owner, which is not the one it came from:
\* handoffToGroupBot in a turn that may be repeated.
THEOREM OneOwnerHolds == Spec => []OneOwner
<1>1. IInv => OneOwner
  <2> SUFFICES ASSUME IInv, NEW r \in Known
               PROVE  /\ Cardinality(HandedTo(r)) <= 1
                      /\ runs[r].source.kind = "handoff"
                           => \A i \in HandedTo(r) : runs[i].bot # Asker(r)
    BY DEF OneOwner
  <2>1. \A x, y \in HandedTo(r) : x = y
    BY DEF IInv, OneOf, HandedTo, SentBy
  <2>2. Cardinality(HandedTo(r)) <= 1
    BY <2>1, AtMostOne
  <2>3. runs[r].source.kind = "handoff" => \A i \in HandedTo(r) : runs[i].bot # Asker(r)
    BY DEF IInv, NotBack, HandedTo, SentBy
  <2> QED
    BY <2>2, <2>3
<1> QED
  BY <1>1, Invariance, PTL
-----------------------------------------------------------------------------
(* Chains of messages.                                                     *)
(*                                                                         *)
(* The hop that a message or an outcome carries is its depth: the number   *)
(* of messages and outcomes that led to it.  A message is sent within the  *)
(* limit; an outcome answers a request, which no outcome is, so that it    *)
(* exceeds the limit by one at most and is answered by nothing.            *)

\* A message or an outcome has one hop more than the run that sent it, and a
\* message keeps to the limit.
Hopped(source) ==
  source.kind \in {"message", "outcome"} =>
    /\ source.by \in Known /\ source.hop = Hop(source.by)
    /\ source.kind = "message" => source.hop <= MaxHops

HopsTrue == \A r \in Known : Hopped(runs[r].source)

\* No step changes where a run came from, and a new run is a longer chain.
Lengthens ==
  /\ Known \subseteq Known'
  /\ \A r \in Known : runs'[r].source = runs[r].source
  /\ \A r \in Known' \ Known : Hopped(runs'[r].source)

LEMMA LengthensKeeps ==
  ASSUME HopsTrue, Lengthens
  PROVE  HopsTrue'
<1>1. \A r \in Known : Hop(r)' = Hop(r)
  BY DEF Lengthens, Hop, Owes
<1>2. \A r \in Known' : Hopped(runs'[r].source)
  BY DEF Lengthens, HopsTrue
<1>3. ASSUME NEW r \in Known' PROVE Hopped(runs[r].source)'
  BY <1>1, <1>2 DEF Lengthens, Hopped
<1> QED
  BY <1>3 DEF HopsTrue

LEMMA RewritingLengthens ==
  ASSUME Shape,
         \/ runs' = runs
         \/ \E r \in Known : runs' = [runs EXCEPT ![r].returned = TRUE]
         \/ \E r \in Known, s \in {"running", "ended", "cancelled"} : Becomes(r, s)
  PROVE  Lengthens
<1>1. \A r \in Known : runs[r] \in Records
  BY ShapeFacts
<1>2. Known' = Known
  BY DEF Known, Becomes
<1>3. ASSUME NEW x \in Known PROVE runs'[x].source = runs[x].source
  <2>0. runs[x] \in Records
    BY <1>1
  <2>1. \/ runs'[x] = runs[x]
        \/ runs'[x] = [runs[x] EXCEPT !.returned = TRUE]
        \/ \E s \in {"running", "ended", "cancelled"} : runs'[x] = [runs[x] EXCEPT !.status = s]
    BY DEF Shape, Known, Becomes
  <2>2. CASE runs'[x] = [runs[x] EXCEPT !.returned = TRUE]
    <3>1. [runs[x] EXCEPT !.returned = TRUE].source = runs[x].source
      BY <2>0 DEF Records
    <3> QED
      BY <2>2, <3>1, Zenon
  <2>3. ASSUME NEW s \in {"running", "ended", "cancelled"},
               runs'[x] = [runs[x] EXCEPT !.status = s]
        PROVE  runs'[x].source = runs[x].source
    <3>1. [runs[x] EXCEPT !.status = s].source = runs[x].source
      BY <2>0 DEF Records
    <3> QED
      BY <2>3, <3>1, Zenon
  <2> QED
    BY <2>1, <2>2, <2>3
<1> QED
  BY <1>2, <1>3 DEF Lengthens

LEMMA AppendingLengthens ==
  ASSUME Shape, NEW run \in Records, runs' = Append(runs, run), Hopped(run.source),
         run.source.by \in Known
  PROVE  Lengthens
<1>1. run.source.by \in 0..Len(runs)
  BY ShapeFacts
<1>2. /\ Known' = Known \cup {Len(runs) + 1} /\ runs'[Len(runs) + 1] = run
      /\ \A r \in Known : runs'[r] = runs[r]
  BY <1>1, Appended
<1> QED
  BY <1>2 DEF Lengthens

LEMMA DeliveryLengthens ==
  ASSUME IInv, NEW r \in Known, Deliver(r)
  PROVE  Lengthens
<1>0. Shape
  BY DEF IInv
<1>1. CASE runs' = runs
  BY <1>0, <1>1, RewritingLengthens
<1>2. CASE runs' = Append(runs, Outcome(r))
  <2> DEFINE run == Outcome(r)
  <2>1. Hop(r) \in Nat /\ Asker(r) \in Bots \cup {None} /\ runs[r].bot \in Bots \cup {None}
        /\ r \in Nat
    BY <1>0, ShapeFacts DEF Hop, Asker, Records
  <2>2. run \in Records
    BY <2>1 DEF Outcome, Queued, Records, Kinds, Intents, Active
  <2>3. run.source.by = r /\ run.source.kind = "outcome" /\ run.source.hop = Hop(r)
    BY DEF Outcome, Queued
  <2>4. Hopped(run.source)
    BY <2>3 DEF Hopped
  <2> HIDE DEF run
  <2> QED
    BY <1>0, <1>2, <2>2, <2>3, <2>4, AppendingLengthens DEF run
<1> QED
  BY <1>1, <1>2 DEF Deliver

LEMMA MarkLengthens ==
  ASSUME IInv, NEW r \in Known, Mark(r)
  PROVE  Lengthens
<1>1. Shape
  BY DEF IInv
<1>2. runs' = runs \/ runs' = [runs EXCEPT ![r].returned = TRUE]
  BY DEF Mark
<1> QED
  BY <1>1, <1>2, RewritingLengthens

LEMMA TurnLengthens ==
  ASSUME IInv, NEW t \in turns, Turn(t)
  PROVE  Lengthens
<1> DEFINE r == t.run
<1>0. Shape /\ r \in Known
  BY DEF IInv, Shape, Executions
<1>b. /\ runs[r].bot \in Bots \cup {None} /\ r \in Nat /\ runs[r].source.hop \in Nat
      /\ MaxHops \in Nat
  BY <1>0, ShapeFacts, BoundsAssumption
<1>1. CASE Leave(t)
  BY <1>0, <1>1, RewritingLengthens DEF Leave
<1>2. CASE EndTurn(t)
  <2>1. Becomes(r, "ended")
    BY <1>2 DEF EndTurn, Becomes
  <2> HIDE DEF r
  <2> QED
    BY <1>0, <2>1, RewritingLengthens
<1>3. ASSUME NEW b \in Bots, HandOff(t, b) PROVE Lengthens
  <2>1. CASE runs' = runs
    BY <1>0, <2>1, RewritingLengthens
  <2>2. CASE runs' # runs
    <3> DEFINE source == [kind |-> "handoff", by |-> r, from |-> runs[r].bot,
                          intent |-> "request", hop |-> StageHop(r)]
               run == Queued(b, source)
    <3>1. runs' = Append(runs, run)
      BY <1>3, <2>2 DEF HandOff
    <3>2. StageHop(r) \in Nat
      BY <1>b DEF StageHop
    <3>3. run \in Records
      BY <1>b, <3>2 DEF Queued, Records, Kinds, Intents, Active
    <3>4. run.source.by = r /\ run.source.kind = "handoff"
      BY DEF Queued
    <3>5. Hopped(run.source)
      BY <3>4 DEF Hopped
    <3> HIDE DEF run, r
    <3> QED
      BY <1>0, <3>1, <3>3, <3>4, <3>5, AppendingLengthens
  <2> QED
    BY <2>1, <2>2
<1>4. ASSUME NEW b \in Bots, NEW intent \in Intents, MessageBot(t, b, intent) PROVE Lengthens
  <2> DEFINE source == [kind |-> "message", by |-> r, from |-> runs[r].bot,
                        intent |-> intent, hop |-> Hop(r)]
             run == Queued(b, source)
  <2>1. runs' = Append(runs, run) /\ Hop(r) <= MaxHops
    BY <1>4 DEF MessageBot
  <2>2. Hop(r) \in Nat
    BY <1>b DEF Hop
  <2>3. run \in Records
    BY <1>b, <2>2 DEF Queued, Records, Kinds, Active
  <2>4. run.source.by = r /\ run.source.kind = "message" /\ run.source.hop = Hop(r)
    BY DEF Queued
  <2> HIDE DEF run, r
  <2>5. Hopped(run.source)
    BY <1>0, <2>1, <2>4 DEF Hopped
  <2> QED
    BY <1>0, <2>1, <2>3, <2>4, <2>5, AppendingLengthens
<1> QED
  BY <1>1, <1>2, <1>3, <1>4 DEF Turn

LEMMA NextLengthens ==
  ASSUME IInv, [Next]_vars
  PROVE  Lengthens
<1>0. Shape /\ rec.run \in Known
  BY DEF IInv, Shape
<1>1. ASSUME NEW r \in Known, OfRun(r) PROVE Lengthens
  <2>1. CASE StartTurn(r)
    <3>1. Becomes(r, "running")
      BY <2>1 DEF StartTurn, Becomes
    <3> QED
      BY <1>0, <3>1, RewritingLengthens
  <2>2. CASE Stop(r)
    <3>1. Becomes(r, "cancelled")
      BY <2>2 DEF Stop, Becomes
    <3> QED
      BY <1>0, <3>1, RewritingLengthens
  <2>3. CASE ClaimAgain(r) \/ WorkerDies(r)
    BY <1>0, <2>3, RewritingLengthens DEF ClaimAgain, WorkerDies
  <2>4. CASE WorkerSends(r)
    BY <2>4, DeliveryLengthens DEF WorkerSends
  <2>5. CASE WorkerMarks(r)
    BY <2>5, MarkLengthens DEF WorkerMarks
  <2> QED
    BY <1>1, <2>1, <2>2, <2>3, <2>4, <2>5 DEF OfRun
<1>2. ASSUME NEW t \in turns, Turn(t) PROVE Lengthens
  BY <1>2, TurnLengthens
<1>3. CASE Archive
  <2>1. Known' = Known
    BY <1>3 DEF Archive, Known
  <2>2. ASSUME NEW x \in Known PROVE runs'[x].source = runs[x].source
    <3>1. runs[x] \in Records
      BY <1>0, ShapeFacts
    <3>2. runs'[x] = runs[x] \/ runs'[x] = [runs[x] EXCEPT !.status = "cancelled"]
      BY <1>3 DEF Archive
    <3>3. [runs[x] EXCEPT !.status = "cancelled"].source = runs[x].source
      BY <3>1 DEF Records
    <3> QED
      BY <3>2, <3>3, Zenon
  <2> QED
    BY <2>1, <2>2 DEF Lengthens
<1>4. CASE RecSends
  BY <1>0, <1>4, DeliveryLengthens DEF RecSends
<1>5. CASE RecMarks
  BY <1>0, <1>5, MarkLengthens DEF RecMarks
<1>6. ASSUME Scan \/ RecBumps \/ RecDies \/ (\E b \in Bots : StartArchive(b)) \/ UNCHANGED vars
      PROVE  Lengthens
  <2>1. runs' = runs
    BY <1>6 DEF Scan, RecBumps, RecDies, StartArchive, vars
  <2> QED
    BY <1>0, <2>1, RewritingLengthens
<1> QED
  BY <1>1, <1>2, <1>3, <1>4, <1>5, <1>6 DEF Next, Return

LEMMA InitHopsTrue == Init => HopsTrue
<1> SUFFICES ASSUME Init PROVE HopsTrue
  OBVIOUS
<1>1. Known = {1} /\ runs[1].source.kind = "user"
  BY DEF Init, Known, Queued
<1> QED
  BY <1>1 DEF HopsTrue, Hopped

\* A set of numbers has a least one.
LEMMA LeastNumber ==
  ASSUME NEW T, T \subseteq Nat, T # {}
  PROVE  \E x \in T : \A y \in T : ~ (y < x)
<1> DEFINE Less == OpToRel(<, Nat)
<1>1. IsWellFoundedOn(Less, Nat)
  BY NatLessThanWellFounded
<1>2. \A x, y \in Nat : y < x => <<y, x>> \in Less
  BY DEF OpToRel
<1> HIDE DEF Less
<1>3. PICK x \in T : \A y \in T : ~ (<<y, x>> \in Less)
  BY <1>1, WFMin
<1> QED
  BY <1>2, <1>3

\* Depth is the function that its definition describes: there is one, the hops.
LEMMA DepthIs ==
  ASSUME Shape, HopsTrue
  PROVE  Depth = [r \in Nat |-> IF r \notin Known \/ ~Owes(r) THEN 0
                                ELSE Depth[runs[r].source.by] + 1]
<1> DEFINE hops == [r \in Nat |-> IF r \in Known /\ Owes(r) THEN runs[r].source.hop ELSE 0]
<1>1. ASSUME NEW r \in Nat
      PROVE  hops[r] = IF r \notin Known \/ ~Owes(r) THEN 0 ELSE hops[runs[r].source.by] + 1
  <2>1. CASE r \notin Known \/ ~Owes(r)
    BY <2>1
  <2>2. CASE r \in Known /\ Owes(r)
    <3> DEFINE by == runs[r].source.by
    <3>1. by \in Known /\ runs[r].source.hop = Hop(by)
      BY <2>2 DEF HopsTrue, Hopped, Owes
    <3>2. by \in Nat /\ runs[by].source.hop \in Nat
      BY <3>1, ShapeFacts
    <3>3. hops[by] = IF Owes(by) THEN runs[by].source.hop ELSE 0
      BY <3>1, <3>2
    <3>4. Hop(by) = hops[by] + 1
      BY <3>2, <3>3 DEF Hop
    <3> QED
      BY <2>2, <3>1, <3>4
  <2> QED
    BY <2>1, <2>2
<1>2. hops = [r \in Nat |-> IF r \notin Known \/ ~Owes(r) THEN 0
                            ELSE hops[runs[r].source.by] + 1]
  BY <1>1
<1> HIDE DEF hops
<1> QED
  BY <1>2, Zenon DEF Depth

\* No run's depth differs from its hop: the first that did would have been sent by
\* an earlier one.
LEMMA DepthIsHop ==
  ASSUME Shape, HopsTrue, NEW r \in Known
  PROVE  Depth[r] = IF Owes(r) THEN runs[r].source.hop ELSE 0
<1> DEFINE Agrees(x) == Depth[x] = IF Owes(x) THEN runs[x].source.hop ELSE 0
           Wrong == {x \in Known : ~Agrees(x)}
<1>0. Known \subseteq Nat
  BY ShapeFacts
<1>1. \A x \in Known : Depth[x] = IF ~Owes(x) THEN 0 ELSE Depth[runs[x].source.by] + 1
  BY <1>0, DepthIs
<1>2. ASSUME NEW x \in Known, \A y \in Known : y < x => Agrees(y) PROVE Agrees(x)
  <2>1. CASE ~Owes(x)
    BY <1>1, <2>1
  <2>2. CASE Owes(x)
    <3> DEFINE by == runs[x].source.by
    <3>1. by \in Known /\ runs[x].source.hop = Hop(by)
      BY <2>2 DEF HopsTrue, Hopped, Owes
    <3>2. by < x /\ by \in Nat /\ x \in Nat /\ runs[by].source.hop \in Nat
      BY <3>1, ShapeFacts DEF Shape
    <3>3. Depth[by] = IF Owes(by) THEN runs[by].source.hop ELSE 0
      BY <1>2, <3>1, <3>2
    <3>4. Hop(by) = Depth[by] + 1
      BY <3>2, <3>3 DEF Hop
    <3> QED
      BY <1>1, <2>2, <3>1, <3>4
  <2> QED
    BY <2>1, <2>2
<1>3. Wrong = {}
  <2> SUFFICES ASSUME Wrong # {} PROVE FALSE
    OBVIOUS
  <2>1. PICK x \in Wrong : \A y \in Wrong : ~ (y < x)
    BY <1>0, LeastNumber
  <2>2. \A y \in Known : y < x => Agrees(y)
    BY <2>1
  <2> HIDE DEF Agrees
  <2> QED
    BY <1>2, <2>1, <2>2
<1> QED
  BY <1>3

\* However often bots message each other, a chain of messages ends at the limit, an
\* outcome exceeds it by one, and is not answered: botMessageHop, MessageBot and
\* returnBotMessageOutcome.
THEOREM ChainsEndHolds == Spec => []ChainsEnd
<1>1. IInv /\ HopsTrue /\ [Next]_vars => HopsTrue'
  BY NextLengthens, LengthensKeeps
<1>2. IInv /\ HopsTrue => ChainsEnd
  <2> SUFFICES ASSUME IInv, HopsTrue, NEW r \in Known
               PROVE  /\ \/ Depth[r] <= MaxHops
                         \/ runs[r].source.kind = "outcome" /\ Depth[r] = MaxHops + 1
                      /\ runs[r].source.kind = "outcome" => Outcomes(r) = {}
    BY DEF ChainsEnd
  <2> DEFINE by == runs[r].source.by
  <2>0. Shape /\ OutcomesEnd /\ MaxHops \in Nat \ {0}
    BY BoundsAssumption DEF IInv
  <2>1. Depth[r] = IF Owes(r) THEN runs[r].source.hop ELSE 0
    BY <2>0, DepthIsHop
  <2>2. Hopped(runs[r].source)
    BY DEF HopsTrue
  <2>3. CASE ~Owes(r)
    BY <2>0, <2>1, <2>3 DEF Owes
  <2>4. CASE runs[r].source.kind = "message"
    BY <2>1, <2>2, <2>4 DEF Owes, Hopped
  <2>5. CASE runs[r].source.kind = "outcome"
    <3>1. by \in Known /\ runs[r].source.hop = Hop(by)
      BY <2>2, <2>5 DEF Hopped
    <3>2. runs[by].source.intent = "request" /\ runs[r].source.intent = "status"
      BY <2>0, <2>5, <3>1 DEF OutcomesEnd
    <3>3. runs[by].source.kind # "outcome"
      <4> SUFFICES ASSUME runs[by].source.kind = "outcome" PROVE FALSE
        OBVIOUS
      <4>1. runs[by].source.by \in Known
        BY <3>1 DEF HopsTrue, Hopped
      <4>2. runs[by].source.intent = "status"
        BY <2>0, <3>1, <4>1 DEF OutcomesEnd
      <4> QED
        BY <3>2, <4>2
    <3>4. Hopped(runs[by].source) /\ runs[by].source.hop \in Nat
      BY <2>0, <3>1, ShapeFacts DEF HopsTrue
    <3>5. Hop(by) <= MaxHops + 1 /\ Hop(by) \in Nat
      <4>1. CASE ~Owes(by)
        BY <2>0, <4>1 DEF Hop
      <4>2. CASE Owes(by)
        <5>1. runs[by].source.kind = "message"
          BY <3>3, <4>2 DEF Owes
        <5>2. runs[by].source.hop <= MaxHops /\ Hop(by) = runs[by].source.hop + 1
          BY <3>4, <4>2, <5>1 DEF Hop, Hopped
        <5> HIDE DEF by
        <5> QED
          BY <2>0, <3>4, <5>2
      <4> QED
        BY <4>1, <4>2
    <3>6. Depth[r] <= MaxHops \/ Depth[r] = MaxHops + 1
      <4>1. Depth[r] = Hop(by)
        BY <2>1, <2>5, <3>1 DEF Owes
      <4> HIDE DEF by
      <4> QED
        BY <2>0, <3>5, <4>1
    <3>7. Outcomes(r) = {}
      <4> SUFFICES ASSUME NEW i \in Outcomes(r) PROVE FALSE
        OBVIOUS
      <4>1. i \in Known /\ runs[i].source.kind = "outcome" /\ runs[i].source.by = r
        BY DEF Outcomes, SentBy
      <4>2. runs[r].source.intent = "request"
        BY <2>0, <4>1 DEF OutcomesEnd
      <4> QED
        BY <3>2, <4>2
    <3> QED
      BY <2>5, <3>6, <3>7
  <2> QED
    BY <2>3, <2>4, <2>5 DEF Owes
<1> QED
  BY <1>1, <1>2, InitHopsTrue, Invariance, PTL DEF Spec


=============================================================================
