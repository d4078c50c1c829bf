-------------------------- MODULE ThreadTurnsProofs --------------------------
(***************************************************************************)
(* One turn at a time, one run for a message, no stranded message and no   *)
(* revival of what was stopped, proved of ThreadTurns for any number of    *)
(* messages, restarts and routines, and with or without runs beside.       *)
(*                                                                         *)
(* The argument of SourceOnce: a message that a run was made for while it  *)
(* was a steering row is attached to that run, which claims it when its    *)
(* turn begins; a completed turn settles it and a failed one keeps it, so  *)
(* it is never again among the rows that a continuation is made for.       *)
(***************************************************************************)
EXTENDS ThreadTurns, SequenceTheorems, WellFoundedInduction, TLAPS

-----------------------------------------------------------------------------
(* Sequences of runs.                                                      *)

LEMMA AppendRuns ==
  ASSUME NEW rs \in Seq(Runs), NEW run \in Runs
  PROVE  /\ Append(rs, run) \in Seq(Runs)
         /\ DOMAIN Append(rs, run) = DOMAIN rs \cup {Len(rs) + 1}
         /\ Len(Append(rs, run)) = Len(rs) + 1 /\ Len(rs) \in Nat
         /\ \A r \in DOMAIN rs : Append(rs, run)[r] = rs[r]
         /\ Append(rs, run)[Len(rs) + 1] = run
         /\ Len(rs) + 1 \notin DOMAIN rs /\ DOMAIN rs = 1..Len(rs)
OBVIOUS

LEMMA EachRun ==
  ASSUME NEW rs \in Seq(Runs), NEW new, DOMAIN new = DOMAIN rs,
         new = [r \in DOMAIN rs |-> new[r]], \A r \in DOMAIN rs : new[r] \in Runs
  PROVE  new \in Seq(Runs) /\ Len(new) = Len(rs)
<1>1. Len(rs) \in Nat /\ DOMAIN rs = 1..Len(rs)
  OBVIOUS
<1>2. new \in [1..Len(rs) -> Runs]
  BY <1>1
<1> QED
  BY <1>1, <1>2

\* Of the messages up to one of them, some set of them has a newest.
LEMMA NewestExists ==
  ASSUME NEW n \in Nat, NEW T, T \subseteq 1..n, T # {}
  PROVE  \E m \in T : \A x \in T : x <= m
<1> DEFINE Gap == {n - x : x \in T}
<1>1. Gap \subseteq Nat /\ Gap # {}
  <2>1. \A x \in T : n - x \in Nat
    OBVIOUS
  <2>2. PICK x \in T : TRUE
    OBVIOUS
  <2>3. n - x \in Gap
    OBVIOUS
  <2> QED
    BY <2>1, <2>3
<1>2. PICK g \in Gap : \A h \in Gap : ~(<<h, g>> \in OpToRel(<, Nat))
  BY <1>1, NatLessThanWellFounded, WFMin
<1>3. \A h \in Gap : ~(h < g)
  BY <1>1, <1>2 DEF OpToRel
<1>4. PICK m \in T : g = n - m
  OBVIOUS
<1>5. ASSUME NEW x \in T PROVE x <= m
  <2>1. ~(n - x < n - m)
    BY <1>3, <1>4
  <2> QED
    BY <2>1
<1> QED
  BY <1>5

-----------------------------------------------------------------------------
(* The inductive invariant.                                                *)

Shape ==
  /\ runs \in Seq(Runs)
  /\ sent \in 0..MaxMessages /\ stopped \in 0..sent
  /\ DOMAIN steering \subseteq 1..sent
  /\ steering \in [DOMAIN steering -> Row]
  /\ \A m \in DOMAIN steering : steering[m].run \in DOMAIN runs \cup {NoRun}

\* A row that a run was made for is that run's, and claimed while its turn goes on.
SourceRows ==
  \A r \in DOMAIN runs : runs[r].source \in DOMAIN steering =>
    /\ steering[runs[r].source].run = r /\ runs[r].trigger = "follow_up"
    /\ runs[r].status = "running" => steering[runs[r].source].claimed

Sources ==
  /\ \A r \in DOMAIN runs : runs[r].source <= sent
  /\ \A r \in DOMAIN runs : runs[r].status = "starting" => runs[r].seen = {}
  /\ SourceOnce /\ SourceRows

\* Nothing that is still to be told, or that a run is for, is older than the stop.
Stopped == StopDiscards /\ \A m \in DOMAIN steering : m > stopped

IInv == Shape /\ Sources /\ OneActive /\ RowsOwned /\ Stopped

LEMMA ShapeFacts ==
  ASSUME Shape
  PROVE  /\ Len(runs) \in Nat /\ DOMAIN runs = 1..Len(runs) /\ NoRun \notin DOMAIN runs
         /\ \A r \in DOMAIN runs : runs[r] \in Runs
         /\ sent \in Nat /\ stopped \in Nat /\ stopped <= sent /\ NoMessage \notin DOMAIN steering
         /\ MaxMessages \in Nat /\ \A m \in DOMAIN steering : steering[m] \in Row
BY BoundsAssumption DEF Shape, NoRun, NoMessage

-----------------------------------------------------------------------------
(* The ways a step changes the runs and the rows.                          *)

\* A run is added, for the new message or for none; while another one is active
\* only beside it.
LEMMA Added ==
  ASSUME IInv, NEW run \in Runs, runs' = Append(runs, run), UNCHANGED <<steering, stopped>>,
         run.status = "queued", run.seen = {},
         (run.source = NoMessage /\ sent' = sent) \/ (run.source = sent' /\ Arrive),
         run.trigger \in {"bridge", "routine"} \/ Busy = {}
  PROVE  IInv'
<1>1. /\ runs' \in Seq(Runs) /\ DOMAIN runs' = DOMAIN runs \cup {Len(runs) + 1}
      /\ \A r \in DOMAIN runs : runs'[r] = runs[r]
      /\ runs'[Len(runs) + 1] = run /\ Len(runs) + 1 \notin DOMAIN runs
  BY AppendRuns DEF IInv, Shape
<1>2. /\ sent \in Nat /\ stopped \in Nat /\ stopped <= sent /\ sent <= sent' /\ sent' \in 0..MaxMessages
      /\ \A r \in DOMAIN runs : runs[r] \in Runs
      /\ MaxMessages \in Nat /\ stopped' = stopped /\ steering' = steering
      /\ DOMAIN steering \subseteq 1..sent /\ run.source \notin DOMAIN steering
      /\ run.source = NoMessage \/ run.source > sent
  BY ShapeFacts DEF IInv, Shape, NoMessage, Arrive
<1>3. Shape'
  <2>1. DOMAIN steering' \subseteq 1..sent' /\ stopped' \in 0..sent'
    BY <1>2
  <2> QED
    BY <1>1, <1>2, <2>1 DEF IInv, Shape
<1>4. Sources'
  <2>1. \A r \in DOMAIN runs' : runs'[r].source <= sent'
    BY <1>1, <1>2 DEF IInv, Sources, Runs, Messages, NoMessage
  <2>2. \A r \in DOMAIN runs' : runs'[r].status = "starting" => runs'[r].seen = {}
    BY <1>1 DEF IInv, Sources
  <2>3. SourceOnce'
    BY <1>1, <1>2 DEF IInv, Sources, SourceOnce, Runs, Messages, NoMessage
  <2>4. SourceRows'
    BY <1>1, <1>2 DEF IInv, Sources, SourceRows
  <2> QED
    BY <2>1, <2>2, <2>3, <2>4 DEF Sources
<1>5. OneActive'
  BY <1>1 DEF IInv, OneActive, InStatus, Beside, Busy
<1>6. RowsOwned'
  BY <1>1, <1>2 DEF IInv, Shape, RowsOwned, InStatus, TakenBack, Active, NoRun
<1>7. Stopped'
  BY <1>1, <1>2 DEF IInv, Stopped, StopDiscards, InStatus, NoMessage
<1> QED
  BY <1>3, <1>4, <1>5, <1>6, <1>7 DEF IInv

\* Active runs change their status, to another active one or because what
\* started them took them back; the messages go on or not.
LEMMA Moved ==
  ASSUME IInv, UNCHANGED <<steering, stopped>>, sent' \in {sent, sent + 1}, sent' \in 0..MaxMessages,
         runs' = [r \in DOMAIN runs |-> runs'[r]], DOMAIN runs' = DOMAIN runs,
         \A r \in DOMAIN runs :
           \/ runs'[r] = runs[r]
           \/ /\ runs'[r] \in Runs /\ runs'[r].source = runs[r].source
              /\ runs'[r].trigger = runs[r].trigger /\ runs'[r].seen \subseteq runs[r].seen
              /\ runs[r].status \in Active /\ runs'[r].status \in Active \cup {"withdrawn"}
              /\ runs'[r].status # "running"
              /\ runs'[r].status = "starting" => runs'[r].seen = {}
  PROVE  IInv'
<1>1. /\ sent \in Nat /\ stopped \in Nat /\ stopped <= sent /\ sent <= sent' /\ MaxMessages \in Nat
      /\ \A r \in DOMAIN runs : runs[r] \in Runs /\ runs'[r] \in Runs
      /\ DOMAIN steering \subseteq 1..sent
  BY ShapeFacts DEF IInv, Shape
<1>2. Shape'
  <2>1. runs' \in Seq(Runs)
    BY <1>1, EachRun DEF IInv, Shape
  <2>2. DOMAIN steering' \subseteq 1..sent' /\ stopped' \in 0..sent'
    BY <1>1
  <2> QED
    BY <2>1, <2>2 DEF IInv, Shape
<1>3. \A r \in DOMAIN runs : runs'[r].source = runs[r].source /\ runs'[r].trigger = runs[r].trigger
  OBVIOUS
<1>4. Sources'
  <2>1. \A r \in DOMAIN runs' : runs'[r].source <= sent'
    BY <1>1, <1>3 DEF IInv, Sources, Runs, Messages, NoMessage
  <2>2. \A r \in DOMAIN runs' : runs'[r].status = "starting" => runs'[r].seen = {}
    BY DEF IInv, Sources
  <2>3. SourceOnce'
    BY <1>3 DEF IInv, Sources, SourceOnce
  <2>4. SourceRows'
    BY <1>3 DEF IInv, Sources, SourceRows
  <2> QED
    BY <2>1, <2>2, <2>3, <2>4 DEF Sources
<1>5. OneActive'
  BY <1>3 DEF IInv, OneActive, InStatus, Beside
<1>6. RowsOwned'
  <2>1. \A r \in TakenBack : r \in TakenBack'
    BY DEF TakenBack, InStatus, Active, Working, Waiting
  <2>2. InStatus(runs, Active) # {} => InStatus(runs, Active)' # {} \/ TakenBack' # {}
    BY DEF TakenBack, InStatus
  <2>3. ASSUME NEW r \in DOMAIN runs, runs[r].status \in Active
        PROVE  runs'[r].status \in Active \/ r \in TakenBack'
    BY <2>3 DEF TakenBack, InStatus
  <2>4. ASSUME NEW r \in DOMAIN runs, runs[r].status = "failed" PROVE runs'[r] = runs[r]
    BY <2>4 DEF Active, Working, Waiting
  <2> QED
    BY <2>1, <2>2, <2>3, <2>4 DEF IInv, Shape, RowsOwned
<1>7. Stopped'
  BY <1>3 DEF IInv, Stopped, StopDiscards, InStatus
<1> QED
  BY <1>2, <1>4, <1>5, <1>6, <1>7 DEF IInv

\* The new message becomes a row of an active run.
LEMMA Steered ==
  ASSUME IInv, Arrive, NEW r \in Busy, Steer(sent', r), UNCHANGED stopped
  PROVE  IInv'
<1>1. /\ sent \in Nat /\ sent' = sent + 1 /\ stopped \in 0..sent /\ sent < MaxMessages /\ MaxMessages \in Nat
      /\ DOMAIN steering \subseteq 1..sent /\ r \in DOMAIN runs /\ runs[r].status \in Active
      /\ stopped' = stopped
  BY ShapeFacts DEF IInv, Shape, Arrive, Busy, InStatus
<1>2. /\ runs' = runs /\ DOMAIN steering' = DOMAIN steering \cup {sent'}
      /\ steering'[sent'] = [run |-> r, claimed |-> FALSE]
      /\ \A m \in DOMAIN steering : steering'[m] = steering[m]
      /\ steering' = [m \in DOMAIN steering \cup {sent'} |-> steering'[m]]
  BY <1>1 DEF Steer
<1>3. Shape'
  <2>1. runs' \in Seq(Runs) /\ sent' \in 0..MaxMessages /\ stopped' \in 0..sent'
    BY <1>1, <1>2 DEF IInv, Shape
  <2>2. r \in Nat
    BY <1>1, ShapeFacts DEF IInv
  <2>3. \A m \in DOMAIN steering' : steering'[m] \in Row
    <3>1. steering'[sent'] \in Row
      BY <1>2, <2>2 DEF Row
    <3> QED
      BY <1>2, <3>1, ShapeFacts DEF IInv
  <2>4. DOMAIN steering' \subseteq 1..sent'
    BY <1>1, <1>2
  <2>5. \A m \in DOMAIN steering' : steering'[m].run \in DOMAIN runs' \cup {NoRun}
    BY <1>1, <1>2 DEF IInv, Shape
  <2> QED
    BY <1>2, <2>1, <2>3, <2>4, <2>5 DEF Shape
<1>4. Sources'
  <2>1. \A q \in DOMAIN runs : runs[q].source # sent' /\ runs[q].source <= sent'
    BY <1>1, ShapeFacts DEF IInv, Sources, Runs, Messages, NoMessage
  <2> QED
    BY <1>1, <1>2, <2>1 DEF IInv, Sources, SourceOnce, SourceRows
<1>5. OneActive' /\ Stopped'
  BY <1>1, <1>2 DEF IInv, OneActive, InStatus, Beside, Stopped, StopDiscards
<1>6. RowsOwned'
  BY <1>1, <1>2 DEF IInv, RowsOwned, InStatus, TakenBack
<1> QED
  BY <1>3, <1>4, <1>5, <1>6 DEF IInv

\* A turn is told the rows it can claim.
LEMMA Told ==
  ASSUME IInv, NEW r \in DOMAIN runs, runs[r].status \in Working, ClaimSteering(r)
  PROVE  IInv'
<1> DEFINE told == [runs[r] EXCEPT !.status = "running", !.seen = @ \cup Claimable(r)]
<1>1. /\ sent' = sent /\ stopped' = stopped /\ runs' = [runs EXCEPT ![r] = told]
      /\ DOMAIN steering' = DOMAIN steering /\ DOMAIN runs' = DOMAIN runs
      /\ steering' = [m \in DOMAIN steering |-> steering'[m]]
      /\ \A m \in DOMAIN steering :
           \/ steering'[m] = steering[m] /\ (m \in Claimable(r) => steering[m].claimed)
           \/ /\ steering'[m] = [run |-> r, claimed |-> TRUE] /\ m \in Claimable(r)
              /\ steering[m].run \in {NoRun, r}
  BY DEF ClaimSteering, Claimable
<1>2. /\ sent \in 0..MaxMessages /\ MaxMessages \in Nat /\ stopped \in 0..sent /\ runs[r] \in Runs
      /\ DOMAIN steering \subseteq 1..sent /\ Claimable(r) \subseteq DOMAIN steering /\ r \in Nat
      /\ \A q \in DOMAIN runs : runs[q] \in Runs
      /\ \A m \in DOMAIN steering : steering[m] \in Row
  BY ShapeFacts DEF IInv, Shape, Claimable
<1>3. /\ told \in Runs /\ told.status = "running" /\ told.seen = runs[r].seen \cup Claimable(r)
      /\ told.source = runs[r].source /\ told.trigger = runs[r].trigger
  <2>1. Claimable(r) \subseteq Messages
    BY <1>2 DEF Messages
  <2>2. "running" \in Active
    BY DEF Active, Working
  <2> QED
    BY <1>2, <2>1, <2>2 DEF Runs
<1> HIDE DEF told
<1>4. /\ runs'[r] = told /\ \A q \in DOMAIN runs \ {r} : runs'[q] = runs[q]
  BY <1>1
<1>5. Shape'
  <2>1. runs' \in Seq(Runs)
    BY <1>1, <1>3 DEF IInv, Shape
  <2>2. \A m \in DOMAIN steering : steering'[m] \in Row /\ steering'[m].run \in DOMAIN runs \cup {NoRun}
    <3> SUFFICES ASSUME NEW m \in DOMAIN steering
                 PROVE  steering'[m] \in Row /\ steering'[m].run \in DOMAIN runs \cup {NoRun}
      OBVIOUS
    <3>1. CASE steering'[m] = steering[m]
      BY <1>2, <3>1 DEF IInv, Shape
    <3>2. CASE steering'[m] = [run |-> r, claimed |-> TRUE]
      BY <1>2, <3>2 DEF Row
    <3> QED
      BY <1>1, <3>1, <3>2
  <2> QED
    BY <1>1, <1>2, <2>1, <2>2 DEF Shape
<1>6. Sources'
  <2>1. /\ \A q \in DOMAIN runs' : runs'[q].source <= sent'
        /\ \A q \in DOMAIN runs' : runs'[q].status = "starting" => runs'[q].seen = {}
        /\ SourceOnce'
    BY <1>1, <1>3, <1>4 DEF IInv, Sources, SourceOnce
  <2>2. ASSUME NEW q \in DOMAIN runs, runs[q].source \in DOMAIN steering
        PROVE  LET m == runs[q].source
               IN  /\ steering'[m].run = q /\ runs[q].trigger = "follow_up"
                   /\ runs'[q].status = "running" => steering'[m].claimed
    <3> DEFINE m == runs[q].source
    <3>1. /\ steering[m].run = q /\ runs[q].trigger = "follow_up"
          /\ runs[q].status = "running" => steering[m].claimed
      BY <2>2 DEF IInv, Sources, SourceRows
    <3>2. q # NoRun
      BY ShapeFacts DEF IInv
    <3>3. CASE q # r
      BY <1>1, <1>4, <2>2, <3>1, <3>2, <3>3
    <3>4. CASE q = r
      <4>1. runs[r].status = "starting" => m \in Claimable(r)
        BY <2>2, <3>1, <3>4 DEF Claimable, IInv, Sources
      <4>2. runs[r].status \in {"starting", "running"}
        BY DEF Working
      <4> QED
        BY <1>1, <2>2, <3>1, <3>2, <3>4, <4>1, <4>2
    <3> QED
      BY <3>3, <3>4
  <2>3. SourceRows'
    BY <1>1, <1>3, <1>4, <2>2 DEF SourceRows
  <2> QED
    BY <2>1, <2>3 DEF Sources
<1>7. OneActive'
  BY <1>1, <1>3, <1>4 DEF IInv, OneActive, InStatus, Beside, Active
<1>8. RowsOwned'
  <2>1. r \in InStatus(runs, Active)' /\ runs'[r].status \in Active
    BY <1>1, <1>3, <1>4 DEF InStatus, Active, Working
  <2>2. \A q \in TakenBack : q \in TakenBack' /\ q # r
    BY <1>1, <1>4 DEF TakenBack, InStatus, Working
  <2>3. \A q \in DOMAIN runs : runs[q].status = "failed" => q # r
    BY DEF Working
  <2>4. r # NoRun
    BY ShapeFacts DEF IInv
  <2> QED
    BY <1>1, <1>4, <2>1, <2>2, <2>3, <2>4 DEF IInv, RowsOwned, Shape
<1>9. Stopped'
  <2>1. \A m \in Claimable(r) : m > stopped
    BY <1>2 DEF IInv, Stopped
  <2>2. r \in InStatus(runs, Active)
    BY DEF InStatus, Active
  <2>3. \A m \in told.seen : m > stopped
    BY <1>3, <2>1, <2>2 DEF IInv, Stopped, StopDiscards
  <2> QED
    BY <1>1, <1>3, <1>4, <2>2, <2>3 DEF IInv, Stopped, StopDiscards, InStatus
<1> QED
  BY <1>5, <1>6, <1>7, <1>8, <1>9 DEF IInv

-----------------------------------------------------------------------------
(* The end of a run.                                                       *)

\* The rows that are left when r has ended in this way: unchanged, unless they
\* were its own and are freed.
Left(r, over, rows) ==
  /\ rows \in [DOMAIN rows -> Row] /\ DOMAIN rows \subseteq DOMAIN steering
  /\ \A m \in DOMAIN rows :
       \/ /\ rows[m] = steering[m]
          /\ steering[m].run = r => over = "failed" /\ m <= runs[r].source
       \/ steering[m].run = r /\ rows[m].run = NoRun /\ m # runs[r].source

LEMMA Ended ==
  ASSUME IInv, NEW r \in DOMAIN runs, runs[r].status \in Working,
         NEW over \in {"completed", "failed"}, NEW rows, Left(r, over, rows),
         Continued([runs EXCEPT ![r].status = over], rows), UNCHANGED <<sent, stopped>>
  PROVE  IInv'
<1> DEFINE rs == [runs EXCEPT ![r].status = over]
           pending == {m \in DOMAIN rows : rows[m].run = NoRun}
<1>1. /\ sent \in 0..MaxMessages /\ MaxMessages \in Nat /\ stopped \in 0..sent /\ sent \in Nat
      /\ DOMAIN steering \subseteq 1..sent /\ r # NoRun /\ NoRun \notin DOMAIN runs
      /\ \A q \in DOMAIN runs : runs[q] \in Runs
      /\ sent' = sent /\ stopped' = stopped
  BY ShapeFacts DEF IInv, Shape
<1>2. /\ DOMAIN rs = DOMAIN runs /\ rs \in Seq(Runs) /\ Len(rs) = Len(runs)
      /\ \A q \in DOMAIN runs \ {r} : rs[q] = runs[q]
      /\ rs[r].status = over /\ rs[r].source = runs[r].source /\ rs[r].seen = runs[r].seen
      /\ rs[r].trigger = runs[r].trigger
  <2> DEFINE run == [runs[r] EXCEPT !.status = over]
  <2>1. run \in Runs /\ run.status = over /\ run.source = runs[r].source /\ run.seen = runs[r].seen
        /\ run.trigger = runs[r].trigger
    BY <1>1 DEF Runs, Over
  <2>2. rs = [runs EXCEPT ![r] = run]
    OBVIOUS
  <2> HIDE DEF run, rs
  <2> QED
    BY <2>1, <2>2 DEF IInv, Shape
<1> HIDE DEF rs
<1>3. over \notin Active /\ over \notin {"withdrawn", "deleted", "starting", "running"}
  BY DEF Active, Working, Waiting
<1>4. \A q \in DOMAIN rs : rs[q].source = runs[q].source /\ rs[q].trigger = runs[q].trigger
  BY <1>2
<1>5. \A q \in InStatus(rs, Active) : q # r /\ q \in InStatus(runs, Active) /\ rs[q] = runs[q]
  BY <1>2, <1>3 DEF InStatus
<1>6. InStatus(rs, {"withdrawn", "deleted"}) = TakenBack
  BY <1>2, <1>3 DEF InStatus, TakenBack, Working
\* A row that a run was made for is not freed.
<1>7. ASSUME NEW q \in DOMAIN rs, rs[q].source \in DOMAIN rows
      PROVE  /\ rows[rs[q].source].run = q /\ rs[q].trigger = "follow_up"
             /\ rs[q].status = "running" => rows[rs[q].source].claimed
  <2> DEFINE m == runs[q].source
  <2>1. m \in DOMAIN rows /\ m \in DOMAIN steering /\ m = rs[q].source
    BY <1>4, <1>7, <1>2 DEF Left
  <2>2. steering[m].run = q /\ runs[q].trigger = "follow_up"
        /\ (runs[q].status = "running" => steering[m].claimed)
    BY <1>2, <2>1 DEF IInv, Sources, SourceRows
  <2>3. rows[m] = steering[m]
    BY <2>1, <2>2 DEF Left
  <2> QED
    BY <1>2, <1>3, <1>4, <2>1, <2>2, <2>3
<1>8. /\ \A q \in DOMAIN rs : rs[q].source <= sent
      /\ \A q \in DOMAIN rs : rs[q].status = "starting" => rs[q].seen = {}
      /\ \A q, p \in DOMAIN rs : rs[q].source = rs[p].source /\ rs[q].source # NoMessage => q = p
  BY <1>2, <1>3 DEF IInv, Sources, SourceOnce
<1>9. \A m \in DOMAIN rows : rows[m].run # NoRun =>
        LET q == rows[m].run
        IN  /\ q \in DOMAIN rs
            /\ \/ rs[q].status \in Active
               \/ rs[q].status = "failed" /\ m <= rs[q].source
               \/ q \in TakenBack
  <2> SUFFICES ASSUME NEW m \in DOMAIN rows, rows[m].run # NoRun
               PROVE  LET q == rows[m].run
                      IN  /\ q \in DOMAIN rs
                          /\ \/ rs[q].status \in Active
                             \/ rs[q].status = "failed" /\ m <= rs[q].source
                             \/ q \in TakenBack
    OBVIOUS
  <2>1. m \in DOMAIN steering /\ rows[m] = steering[m]
        /\ (steering[m].run = r => over = "failed" /\ m <= runs[r].source)
    BY DEF Left
  <2> QED
    BY <1>2, <2>1 DEF IInv, Shape, RowsOwned
<1>10. \A m \in DOMAIN rows : m > stopped /\ m \in 1..sent /\ rows[m] \in Row
  BY <1>1 DEF IInv, Stopped, Left
<1>11. \A q \in InStatus(rs, Active) :
         /\ rs[q].source # NoMessage => rs[q].source > stopped
         /\ \A m \in rs[q].seen : m > stopped
  BY <1>5 DEF IInv, Stopped, StopDiscards
<1>12. \A p, q \in {q \in InStatus(rs, Active) : rs[q].trigger \notin {"bridge", "routine"}} : p = q
  <2>1. \A q \in InStatus(rs, Active) :
          rs[q].trigger \notin {"bridge", "routine"} => q \in InStatus(runs, Active) \ Beside
    BY <1>5 DEF Beside
  <2> QED
    BY <2>1 DEF IInv, OneActive
<1>13. CASE runs' = rs /\ steering' = rows /\ (InStatus(rs, Active) # {} \/ pending = {})
  <2>1. Shape'
    BY <1>1, <1>2, <1>9, <1>10, <1>13 DEF Shape, Left
  <2>2. Sources'
    BY <1>1, <1>7, <1>8, <1>13 DEF Sources, SourceOnce, SourceRows
  <2>3. OneActive'
    BY <1>12, <1>13 DEF OneActive, InStatus, Beside
  <2>4. RowsOwned'
    <3>1. TakenBack' = TakenBack
      BY <1>6, <1>13 DEF TakenBack
    <3> QED
      BY <1>9, <1>13, <3>1 DEF RowsOwned, InStatus
  <2>5. Stopped'
    BY <1>1, <1>10, <1>11, <1>13 DEF Stopped, StopDiscards, InStatus
  <2> QED
    BY <2>1, <2>2, <2>3, <2>4, <2>5 DEF IInv
<1>14. CASE InStatus(rs, Active) = {} /\ pending # {}
  <2> DEFINE newest == CHOOSE m \in pending : \A x \in pending : x <= m
             run == NewRun(newest, "follow_up")
             mine == [run |-> Len(rs) + 1, claimed |-> FALSE]
  <2>1. newest \in pending /\ newest \in 1..sent
    <3>1. pending \subseteq 1..sent
      BY <1>10
    <3>2. \E m \in pending : \A x \in pending : x <= m
      BY <1>1, <1>14, <3>1, NewestExists
    <3> QED
      BY <3>1, <3>2
  <2>2. /\ runs' = Append(rs, run)
        /\ steering' = [m \in DOMAIN rows |-> IF m \in pending THEN mine ELSE rows[m]]
    BY <1>14 DEF Continued, rs
  <2> HIDE DEF newest
  <2>3. /\ run \in Runs /\ run.status = "queued" /\ run.source = newest /\ run.seen = {}
        /\ run.trigger = "follow_up"
    BY <1>1, <2>1 DEF NewRun, Runs, Messages, Active
  <2> HIDE DEF run
  <2>4. /\ runs' \in Seq(Runs) /\ DOMAIN runs' = DOMAIN rs \cup {Len(rs) + 1}
        /\ \A q \in DOMAIN rs : runs'[q] = rs[q]
        /\ runs'[Len(rs) + 1] = run /\ Len(rs) + 1 \notin DOMAIN rs /\ Len(rs) \in Nat
    <3>1. rs \in Seq(Runs) /\ runs' = Append(rs, run) /\ run \in Runs
      BY <1>2, <2>2, <2>3
    <3> HIDE DEF rs
    <3> QED
      BY ONLY <3>1, AppendRuns
  <2>5. /\ DOMAIN steering' = DOMAIN rows /\ mine \in Row /\ mine.run = Len(rs) + 1
        /\ \A m \in DOMAIN rows : steering'[m] = IF m \in pending THEN mine ELSE rows[m]
        /\ steering' \in [DOMAIN rows -> Row]
    BY <1>10, <2>2, <2>4 DEF Row
  <2> HIDE DEF mine
  <2>6. Shape'
    BY <1>1, <1>9, <1>10, <2>4, <2>5 DEF Shape
  <2>7. Sources'
    <3>1. \A q \in DOMAIN rs : rs[q].source # newest
      BY <1>7, <1>1, <1>2, <2>1
    <3>2. /\ \A q \in DOMAIN runs' : runs'[q].source <= sent'
          /\ \A q \in DOMAIN runs' : runs'[q].status = "starting" => runs'[q].seen = {}
      BY <1>1, <1>8, <2>1, <2>3, <2>4
    <3>3. SourceOnce'
      BY <1>8, <2>3, <2>4, <3>1 DEF SourceOnce
    <3>4. SourceRows'
      <4>1. ASSUME NEW q \in DOMAIN rs, rs[q].source \in DOMAIN rows
            PROVE  steering'[rs[q].source] = rows[rs[q].source]
        BY <1>1, <1>2, <1>7, <2>5, <4>1
      <4> QED
        BY <1>7, <2>1, <2>3, <2>4, <2>5, <4>1 DEF SourceRows
    <3> QED
      BY <3>2, <3>3, <3>4 DEF Sources
  <2>8. OneActive'
    BY <1>14, <2>4 DEF OneActive, InStatus
  <2>9. RowsOwned'
    <3>1. \A q \in TakenBack : q \in TakenBack'
      BY <1>6, <2>4 DEF TakenBack, InStatus
    <3>2. run.status \in Active /\ Len(rs) + 1 # NoRun
      BY <2>3, <2>4 DEF Active, NoRun
    <3> QED
      BY <1>9, <2>4, <2>5, <3>1, <3>2 DEF RowsOwned
  <2>10. Stopped'
    BY <1>1, <1>10, <1>11, <2>1, <2>3, <2>4, <2>5 DEF Stopped, StopDiscards, InStatus
  <2> QED
    BY <2>6, <2>7, <2>8, <2>9, <2>10 DEF IInv
<1> QED
  BY <1>13, <1>14 DEF Continued, rs

LEMMA AllStopped ==
  ASSUME IInv, Stop PROVE IInv'
<1>1. /\ sent' = sent /\ stopped' = sent /\ DOMAIN steering' = {} /\ steering' \in [{} -> Row]
      /\ runs' = [r \in DOMAIN runs |-> runs'[r]] /\ DOMAIN runs' = DOMAIN runs
      /\ \A r \in DOMAIN runs :
           runs'[r] = IF r \in Busy THEN [runs[r] EXCEPT !.status = "cancelled"] ELSE runs[r]
  BY DEF Stop, RowsDiscarded, NoRows
<1>2. \A r \in DOMAIN runs : runs[r] \in Runs
  BY ShapeFacts DEF IInv
<1>3. \A r \in DOMAIN runs :
        /\ runs'[r] \in Runs /\ runs'[r].source = runs[r].source
        /\ runs'[r].trigger = runs[r].trigger /\ runs'[r].seen = runs[r].seen
        /\ runs'[r].status \notin Active
  BY <1>1, <1>2 DEF Runs, Over, Busy, InStatus, Active, Working, Waiting
<1>4. Shape'
  <2>1. runs' \in Seq(Runs)
    BY <1>1, <1>3, EachRun DEF IInv, Shape
  <2>2. sent' \in 0..MaxMessages /\ stopped' \in 0..sent'
    BY <1>1, ShapeFacts DEF IInv, Shape
  <2> QED
    BY <1>1, <2>1, <2>2 DEF Shape
<1>5. Sources'
  BY <1>1, <1>3 DEF IInv, Sources, SourceOnce, SourceRows, Active, Working
<1>6. OneActive' /\ RowsOwned' /\ Stopped'
  BY <1>1, <1>3 DEF OneActive, RowsOwned, Stopped, StopDiscards, InStatus
<1> QED
  BY <1>4, <1>5, <1>6 DEF IInv

LEMMA Undone ==
  ASSUME IInv, NEW r \in DOMAIN runs, UndoRoutine(r) PROVE IInv'
<1>1. /\ sent' = sent /\ stopped' = stopped /\ runs[r].trigger = "routine" /\ runs[r].status = "queued"
      /\ runs' = [runs EXCEPT ![r].status = "deleted"]
      /\ DOMAIN steering' = DOMAIN steering /\ steering' = [m \in DOMAIN steering |-> steering'[m]]
      /\ \A m \in DOMAIN steering : steering[m].run # r => steering'[m] = steering[m]
      /\ \A m \in DOMAIN steering : steering[m].run = r => steering'[m] = Freed(steering[m])
  BY DEF UndoRoutine
<1>2. /\ \A q \in DOMAIN runs : runs[q] \in Runs
      /\ \A m \in DOMAIN steering : steering[m] \in Row
      /\ DOMAIN steering \subseteq 1..sent /\ r # NoRun
  BY ShapeFacts DEF IInv, Shape
<1>3. /\ \A q \in DOMAIN runs \ {r} : runs'[q] = runs[q]
      /\ runs'[r] \in Runs /\ runs'[r].source = runs[r].source /\ runs'[r].trigger = runs[r].trigger
      /\ runs'[r].seen = runs[r].seen /\ runs'[r].status = "deleted" /\ DOMAIN runs' = DOMAIN runs
  <2>1. runs'[r] = [runs[r] EXCEPT !.status = "deleted"] /\ runs[r] \in Runs
    BY <1>1, <1>2
  <2> QED
    BY <1>1, <2>1 DEF Runs, Over
<1>4. \A m \in DOMAIN steering :
        steering[m].run = r => steering'[m] \in Row /\ steering'[m].run = NoRun
  BY <1>1, <1>2 DEF Freed, Row, NoRun
<1>5. Shape'
  <2>1. runs' \in Seq(Runs)
    BY <1>1, <1>3 DEF IInv, Shape
  <2>2. \A m \in DOMAIN steering : steering'[m] \in Row /\ steering'[m].run \in DOMAIN runs \cup {NoRun}
    BY <1>1, <1>2, <1>4 DEF IInv, Shape
  <2> QED
    BY <1>1, <1>3, <2>1, <2>2 DEF IInv, Shape
<1>6. Sources'
  <2>1. ASSUME NEW q \in DOMAIN runs, runs[q].source \in DOMAIN steering
        PROVE  q # r /\ steering'[runs[q].source] = steering[runs[q].source]
    BY <1>1, <2>1 DEF IInv, Sources, SourceRows
  <2> QED
    BY <1>1, <1>3, <2>1 DEF IInv, Sources, SourceOnce, SourceRows
<1>7. OneActive' /\ Stopped'
  BY <1>1, <1>3 DEF IInv, OneActive, Stopped, StopDiscards, InStatus, Beside, Active, Working, Waiting
<1>8. RowsOwned'
  <2>1. r \in TakenBack' /\ \A q \in TakenBack : q \in TakenBack'
    BY <1>1, <1>3 DEF TakenBack, InStatus
  <2> QED
    BY <1>1, <1>3, <1>4, <2>1 DEF IInv, RowsOwned, Shape
<1> QED
  BY <1>5, <1>6, <1>7, <1>8 DEF IInv

-----------------------------------------------------------------------------
(* The actions.                                                            *)

LEMMA Starts ==
  ASSUME IInv, NEW source, NEW trigger \in {"user", "messaging", "bridge", "routine"},
         Start(source, trigger), UNCHANGED stopped,
         (source = NoMessage /\ sent' = sent) \/ (source = sent' /\ Arrive),
         trigger \in {"bridge", "routine"} \/ Busy = {}
  PROVE  IInv'
<1> DEFINE run == NewRun(source, trigger)
<1>1. source \in Messages \cup {NoMessage}
  BY ShapeFacts DEF IInv, Arrive, Messages
<1>2. run \in Runs /\ run.status = "queued" /\ run.source = source /\ run.seen = {} /\ run.trigger = trigger
  BY <1>1 DEF NewRun, Runs, Active
<1> HIDE DEF run
<1>3. runs' = Append(runs, run) /\ steering' = steering
  BY DEF Start, run
<1> QED
  BY <1>2, <1>3, Added

LEMMA Sends ==
  ASSUME IInv, SendMessage \/ FollowUp \/ StartBeside \/ FireRoutine PROVE IInv'
<1>1. Arrive => NextSeq = sent' /\ NextSeq = sent + 1
  BY DEF Arrive, NextSeq
<1>2. ASSUME NEW trigger \in {"user", "messaging"}, Arrive, SteerOrStart(NextSeq, trigger), stopped' = stopped
      PROVE  IInv'
  <2>1. CASE \E r \in Busy : Steer(NextSeq, r)
    BY <1>1, <1>2, <2>1, Steered
  <2>2. CASE Busy = {} /\ Start(NextSeq, trigger)
    BY <1>1, <1>2, <2>2, Starts
  <2> QED
    BY <1>2, <2>1, <2>2 DEF SteerOrStart
<1>3. CASE SendMessage
  <2> DEFINE asking == InStatus(runs, {"waiting_input"})
  <2>1. CASE asking = {}
    BY <1>2, <1>3, <2>1 DEF SendMessage
  <2>2. CASE asking # {}
    <3>1. /\ UNCHANGED <<steering, stopped>> /\ sent' = sent + 1 /\ sent' \in 0..MaxMessages
          /\ runs' = [r \in DOMAIN runs |->
                        IF r \in asking THEN [runs[r] EXCEPT !.status = "queued"] ELSE runs[r]]
      BY <1>3, <2>2, ShapeFacts DEF SendMessage, Arrive, IInv
    <3>2. ASSUME NEW r \in asking
          PROVE  /\ runs'[r] \in Runs /\ runs'[r].source = runs[r].source
                 /\ runs'[r].trigger = runs[r].trigger /\ runs'[r].seen = runs[r].seen
                 /\ runs[r].status \in Active /\ runs'[r].status = "queued"
      <4>1. runs'[r] = [runs[r] EXCEPT !.status = "queued"] /\ runs[r] \in Runs
            /\ runs[r].status = "waiting_input"
        BY <3>1, ShapeFacts DEF InStatus, IInv
      <4> QED
        BY <4>1 DEF Runs, Active, Waiting
    <3>3. \A r \in DOMAIN runs : r \in asking \/ runs'[r] = runs[r]
      BY <3>1
    <3>4. "queued" \in Active
      BY DEF Active
    <3> HIDE DEF asking
    <3> QED
      BY <3>1, <3>2, <3>3, <3>4, Moved
  <2> QED
    BY <2>1, <2>2
<1>4. CASE FollowUp
  BY <1>2, <1>4 DEF FollowUp
<1>5. CASE StartBeside
  BY <1>1, <1>5, Starts DEF StartBeside
<1>6. CASE FireRoutine
  <2>1. Start(NoMessage, "routine") /\ sent' = sent /\ stopped' = stopped
    BY <1>6 DEF FireRoutine
  <2> DEFINE trigger == "routine"
  <2>2. /\ trigger \in {"user", "messaging", "bridge", "routine"}
        /\ trigger \in {"bridge", "routine"} /\ Start(NoMessage, trigger)
    BY <2>1
  <2> HIDE DEF trigger
  <2> QED
    BY <2>1, <2>2, Starts
<1> QED
  BY <1>3, <1>4, <1>5, <1>6

LEMMA Moves ==
  ASSUME IInv, NEW r \in DOMAIN runs, NEW from \in SUBSET Active,
         NEW to \in (Active \ {"running"}) \cup {"withdrawn"}, Move(r, from, to)
  PROVE  IInv'
<1> DEFINE run == [runs[r] EXCEPT !.status = to, !.seen = IF to = "starting" THEN {} ELSE @]
<1>1. runs[r] \in Runs /\ runs[r].status \in Active
  BY ShapeFacts DEF IInv, Move
<1>2. /\ run \in Runs /\ run.source = runs[r].source /\ run.trigger = runs[r].trigger
      /\ run.seen \subseteq runs[r].seen /\ run.status = to /\ (to = "starting" => run.seen = {})
  BY <1>1 DEF Runs, Over
<1>3. /\ runs' = [runs EXCEPT ![r] = run] /\ UNCHANGED <<steering, stopped>> /\ sent' = sent
  BY DEF Move
<1> HIDE DEF run
<1>4. runs' = [q \in DOMAIN runs |-> runs'[q]] /\ DOMAIN runs' = DOMAIN runs /\ sent \in 0..MaxMessages
  BY <1>3 DEF IInv, Shape
<1>5. \A q \in DOMAIN runs : q # r => runs'[q] = runs[q]
  BY <1>3
<1>6. runs'[r] = run
  BY <1>3
<1> QED
  BY <1>1, <1>2, <1>3, <1>4, <1>5, <1>6, Moved

LEMMA Ends ==
  ASSUME IInv, NEW r \in DOMAIN runs, Complete(r) \/ Fail(r) PROVE IInv'
<1>1. /\ \A m \in DOMAIN steering : steering[m] \in Row /\ m \in Nat
      /\ runs[r] \in Runs /\ NoRun \in Nat /\ runs[r].source \in Nat
  BY ShapeFacts DEF IInv, Shape, NoRun, Runs, Messages, NoMessage
<1>2. \A m \in DOMAIN steering : Freed(steering[m]) \in Row /\ Freed(steering[m]).run = NoRun
  BY <1>1 DEF Freed, Row
<1>3. CASE Complete(r)
  <2> DEFINE rows == [m \in DOMAIN steering \ Settling(r) |->
                        IF steering[m].run = r THEN Freed(steering[m]) ELSE steering[m]]
  <2>1. runs[r].source \in DOMAIN steering => runs[r].source \in Settling(r)
    BY <1>3 DEF Complete, Settling, IInv, Sources, SourceRows
  <2>2. Left(r, "completed", rows)
    BY <1>1, <1>2, <2>1 DEF Left
  <2>3. Continued([runs EXCEPT ![r].status = "completed"], rows)
    BY <1>3 DEF Complete
  <2> QED
    BY <1>3, <2>2, <2>3, Ended DEF Complete, Working
<1>4. CASE Fail(r)
  <2> DEFINE rows == [m \in DOMAIN steering |->
                        IF steering[m].run = r /\ Fresh(r, m) THEN Freed(steering[m]) ELSE steering[m]]
  <2>1. Left(r, "failed", rows)
    BY <1>1, <1>2 DEF Left, Fresh
  <2>2. Continued([runs EXCEPT ![r].status = "failed"], rows)
    BY <1>4 DEF Fail
  <2> QED
    BY <1>4, <2>1, <2>2, Ended DEF Fail
<1> QED
  BY <1>3, <1>4

LEMMA NextKeeps == IInv /\ [Next]_vars => IInv'
<1> SUFFICES ASSUME IInv, [Next]_vars PROVE IInv'
  OBVIOUS
<1>1. CASE UNCHANGED vars
  BY <1>1 DEF vars, IInv, Shape, Sources, SourceOnce, SourceRows, OneActive, RowsOwned, Stopped,
              StopDiscards, InStatus, Beside, TakenBack
<1>2. CASE SendMessage \/ FollowUp \/ StartBeside \/ FireRoutine
  BY <1>2, Sends
<1>3. CASE Stop
  BY <1>3, AllStopped
<1>4. ASSUME NEW r \in DOMAIN runs, EnterTurn(r) \/ NextBoundary(r) PROVE IInv'
  BY <1>4, Told DEF EnterTurn, NextBoundary, Working
<1>5. ASSUME NEW r \in DOMAIN runs, Complete(r) \/ Fail(r) PROVE IInv'
  BY <1>5, Ends
<1>6. ASSUME NEW r \in DOMAIN runs,
             Begin(r) \/ Wake(r) \/ Restart(r) \/ Pause(r) \/ Resume(r) \/ Withdraw(r)
      PROVE  IInv'
  <2>1. PICK from \in SUBSET Active, to \in (Active \ {"running"}) \cup {"withdrawn"} : Move(r, from, to)
    BY <1>6 DEF Begin, Wake, Restart, Pause, Resume, Withdraw, Active, Working, Waiting
  <2> QED
    BY <2>1, Moves
<1>7. ASSUME NEW r \in DOMAIN runs, UndoRoutine(r) PROVE IInv'
  BY <1>7, Undone
<1> QED
  BY <1>1, <1>2, <1>3, <1>4, <1>5, <1>6, <1>7 DEF Next, Advance

LEMMA InitHolds == Init => IInv
<1> SUFFICES ASSUME Init PROVE IInv
  OBVIOUS
<1>1. runs = <<>> /\ sent = 0 /\ stopped = 0 /\ DOMAIN steering = {} /\ steering \in [{} -> Row]
  BY DEF Init, NoRows
<1>2. Shape
  BY <1>1, BoundsAssumption DEF Shape
<1> QED
  BY <1>1, <1>2 DEF IInv, Sources, SourceOnce, SourceRows, OneActive, RowsOwned, Stopped, StopDiscards, InStatus

\* The bot takes one turn at a time.
THEOREM OneTurnAtATime == Spec => []OneActive
BY InitHolds, NextKeeps, PTL DEF Spec, IInv

\* No message is stranded: every row is an active run's, or can still be taken.
THEOREM NothingStranded == Spec => []RowsOwned
BY InitHolds, NextKeeps, PTL DEF Spec, IInv

\* No message is the source of two runs.
THEOREM OneRunForAMessage == Spec => []SourceOnce
<1>1. IInv => SourceOnce
  BY DEF IInv, Sources
<1> QED
  BY <1>1, InitHolds, NextKeeps, PTL DEF Spec

\* What was sent before a stop is never told to a turn that goes on after it.
THEOREM StoppedForGood == Spec => []StopDiscards
<1>1. IInv => StopDiscards
  BY DEF IInv, Stopped
<1> QED
  BY <1>1, InitHolds, NextKeeps, PTL DEF Spec

=============================================================================
