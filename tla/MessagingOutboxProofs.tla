------------------------ MODULE MessagingOutboxProofs ------------------------
(***************************************************************************)
(* What MessagingOutbox promises of messages, of the cap and of invites,   *)
(* proved for any messages, drains, cap and attempts.                      *)
(*                                                                         *)
(* A message has at most one holder: the drain that claimed its row and is *)
(* not done with it.  The cap is kept up to the drains that passed it at   *)
(* the same time because the counter and the drains past the cap together  *)
(* never exceed what they can be when the last of them passes.             *)
(*                                                                         *)
(* A message is sent a bounded number of times although drains write back  *)
(* the attempts that they had listed: how the drains are spread over those *)
(* numbers only moves on, and a send finds a spread that none found before.*)
(***************************************************************************)
EXTENDS MessagingOutbox, FiniteSetTheorems, WellFoundedInduction, TLAPS

-----------------------------------------------------------------------------
(* Shapes.                                                                 *)

\* What is listed has attempts left.
Open == {e \in Entries : e.attempts < MaxAttempts}
DrainStates == [list : SUBSET Open, at : DrainSteps, row : Open \cup {NoEntry}]

\* Where a drain may be with which row.
Placed(d) ==
  /\ drains[d].at = "next" <=> drains[d].row = NoEntry
  /\ drains[d].at = "sending" => IsInvite(d)
  /\ (IsInvite(d) /\ drains[d].at \in {"sending", "accepted"}) <=> lock = d

Shape ==
  /\ rows \in [Ids -> Rows]
  /\ \A i \in Ids : rows[i].status = "pending" => rows[i].attempts < MaxAttempts
  /\ \A i \in Invites : Exists(i) => i = cycle
  /\ connection \in Connections /\ cycle \in 0..MaxCycles
  /\ drains \in [Drains -> DrainStates] /\ \A d \in Drains : Placed(d)
  /\ lock \in Drains \cup {None}
  /\ counter \in Nat /\ crashes \in 0..MaxCrashes
  /\ log \in [sends : [Messages -> Nat], known : [Messages -> Int]]

\* The connection that a drain has locked waits for the answer to its invite.
Asking == \A d \in Drains : lock = d => connection = "pending" /\ Id(d) = cycle

\* A row that a drain is at is not pending, and no other drain is at it.
Holding(d) ==
  drains[d].at # "next" =>
    /\ rows[Id(d)].status # "pending"
    /\ drains[d].at = "claimed" => rows[Id(d)].attempts < MaxAttempts
    /\ \A e \in Drains : Id(e) = Id(d) => e = d
    /\ IF IsInvite(d) THEN Id(d) <= cycle ELSE Exists(Id(d))
Holdings == \A d \in Drains : Holding(d)

LEMMA Names ==
  /\ NoEntry.id = None /\ None \notin Ids /\ None \notin Drains
  /\ MaxAttempts \in Nat /\ MaxAttempts > 0 /\ Cap \in Nat /\ Cap > 0 /\ MaxCycles \in Nat
  /\ MaxCrashes \in Nat
  /\ Messages \cap Invites = {} /\ NoEntry \notin Open
  /\ \A e \in Open : e.id \in Ids /\ e.attempts \in Nat /\ e.attempts + 1 \in 0..MaxAttempts
BY NamesAssumption, BoundsAssumption DEF NoEntry, Ids, Invites, Open, Entries

LEMMA DrainExcept ==
  ASSUME NEW x \in DrainStates
  PROVE  /\ \A at \in DrainSteps : [x EXCEPT !.at = at] \in DrainStates
         /\ [x EXCEPT !.at = "next", !.row = NoEntry] \in DrainStates
         /\ \A list \in SUBSET Open : [x EXCEPT !.list = list] \in DrainStates
BY DEF DrainStates, DrainSteps

LEMMA RowExcept ==
  ASSUME NEW x \in Rows
  PROVE  /\ \A status \in Statuses : /\ [x EXCEPT !.status = status] \in Rows
                                     /\ [x EXCEPT !.status = status, !.due = TRUE] \in Rows
         /\ [x EXCEPT !.due = TRUE] \in Rows /\ [x EXCEPT !.handle = TRUE] \in Rows
         /\ \A attempts \in 0..MaxAttempts, due \in BOOLEAN, status \in Statuses :
              [x EXCEPT !.attempts = attempts, !.due = due, !.status = status] \in Rows
BY DEF Rows

LEMMA FreshRows ==
  /\ Absent \in Rows /\ Fresh \in Rows /\ Absent.status = "absent" /\ Fresh.status = "pending"
  /\ Fresh.attempts = 0 /\ Absent.handle = FALSE /\ Fresh.handle = FALSE
<1>1. Absent \in Rows /\ Absent.status = "absent" /\ Absent.attempts = 0 /\ Absent.handle = FALSE
  BY Names DEF Absent, Rows, Statuses
<1>2. Fresh \in Rows
  BY <1>1, RowExcept DEF Fresh, Statuses
<1>3. Fresh.status = "pending" /\ Fresh.attempts = 0 /\ Fresh.handle = FALSE
  BY <1>1 DEF Fresh, Rows
<1> QED
  BY <1>1, <1>2, <1>3

-----------------------------------------------------------------------------
(* Steps outside the drains.                                               *)

Outside ==
  \/ \E m \in Messages : Mirror(m)
  \/ Connect \/ Revoke \/ Inbound
  \/ \E status \in {"approved", "declined"} : Answer(status)
  \/ \E i \in Ids, status \in {"sent", "failed"} : Webhook(i, status)
  \/ SomeDue

Same == UNCHANGED <<drains, lock, crashes, log>>

\* What such a step does to a row.
LEMMA OutsideRows ==
  ASSUME Shape, Outside
  PROVE  /\ Same /\ rows' = [i \in Ids |-> rows'[i]] /\ counter' \in Nat /\ counter' <= counter
         /\ \A i \in Ids :
              \/ rows'[i] = rows[i]
              \/ rows[i].status = "absent" /\ i \in Messages /\ rows'[i] = Fresh
              \/ /\ i \in Invites /\ rows'[i] = Fresh /\ i = cycle' /\ cycle' = cycle + 1
                 /\ connection' = "pending"
              \/ i \in Invites /\ rows'[i] = Absent
              \/ /\ rows[i].handle /\ Exists(i)
                 /\ \E status \in {"sent", "failed"} : rows'[i] = [rows[i] EXCEPT !.status = status]
              \/ rows[i].status = "pending" /\ rows'[i] = [rows[i] EXCEPT !.due = TRUE]
         /\ \A d \in Drains : lock = d => connection' = connection /\ cycle' = cycle
         /\ connection' \in Connections /\ cycle' \in 0..MaxCycles /\ cycle <= cycle'
         /\ cycle' # cycle => \A i \in Invites : i # cycle' => rows'[i] = Absent
         /\ \A i \in Invites : Exists(i)' => Exists(i) \/ i = cycle'
<1>1. /\ rows = [i \in Ids |-> rows[i]] /\ counter \in Nat /\ 0 \in Nat /\ cycle \in 0..MaxCycles
      /\ connection \in Connections /\ cycle \in Nat
  BY DEF Shape
<1>2. CASE \E m \in Messages : Mirror(m)
  <2> PICK m \in Messages : Mirror(m)
    BY <1>2
  <2>1. /\ m \in Ids /\ m \notin Invites /\ rows[m].status = "absent"
        /\ rows' = [rows EXCEPT ![m] = Fresh] /\ UNCHANGED <<connection, cycle, counter>> /\ Same
    BY Names DEF Mirror, Exists, Ids, Same
  <2>2. \A i \in Ids : rows'[i] = IF i = m THEN Fresh ELSE rows[i]
    BY <1>1, <2>1
  <2>3. \A i \in Invites : Exists(i)' => Exists(i)
    BY <2>1, <2>2 DEF Exists, Ids
  <2>4. rows' = [i \in Ids |-> rows'[i]]
    BY <1>1, <2>1
  <2> QED
    BY <1>1, <2>1, <2>2, <2>3, <2>4
<1>3. CASE Connect
  <2>1. \A i \in Ids : rows'[i] = IF i = cycle + 1 THEN Fresh ELSE IF i \in Invites THEN Absent ELSE rows[i]
    BY <1>3 DEF Connect
  <2>2. cycle' = cycle + 1 /\ cycle' \in Invites /\ cycle' \in 0..MaxCycles /\ lock = None
    BY <1>1, <1>3, Names DEF Connect, Invites
  <2>3. Absent.status = "absent" /\ rows' = [i \in Ids |-> rows'[i]]
    BY <1>3, FreshRows DEF Connect
  <2> QED
    BY <1>1, <1>3, <2>1, <2>2, <2>3, Names DEF Connect, Same, Exists, Connections, Ids
<1>4. CASE Revoke
  <2>1. /\ connection' = "revoked" /\ UNCHANGED <<cycle, counter>> /\ Same /\ lock = None
        /\ rows' = [i \in Ids |-> rows'[i]]
    BY <1>4 DEF Revoke, Unlocked, Same
  <2>2. \A i \in Ids : rows'[i] = rows[i] \/ (rows'[i] = Absent /\ i = cycle /\ rows[i].status # "absent")
    BY <1>4 DEF Revoke
  <2>3. cycle \in Ids => cycle \in Invites
    BY <1>1, Names, NamesAssumption DEF Ids
  <2>4. \A i \in Invites : Exists(i)' => Exists(i)
    BY <2>2, FreshRows DEF Exists, Ids
  <2> QED
    BY <1>1, <2>1, <2>2, <2>3, <2>4, Names DEF Connections
<1>5. CASE Inbound
  BY <1>1, <1>5 DEF Inbound, Same, Exists
<1>6. ASSUME NEW status \in {"approved", "declined"}, Answer(status)
      PROVE  Same /\ UNCHANGED <<rows, cycle, counter>> /\ lock = None /\ connection' \in Connections
  BY <1>6 DEF Answer, Same, Connections
<1>7. CASE \E i \in Ids, status \in {"sent", "failed"} : Webhook(i, status)
  BY <1>1, <1>7 DEF Webhook, Same, Exists
<1>8. CASE SomeDue
  <2> PICK i \in Ids : Due(i)
    BY <1>8 DEF SomeDue
  <2>1. /\ rows[i].status = "pending" /\ rows' = [rows EXCEPT ![i].due = TRUE]
        /\ UNCHANGED <<connection, cycle, counter>> /\ Same
    BY DEF Due, Same
  <2>2. \A j \in Ids : rows'[j] = IF j = i THEN [rows[i] EXCEPT !.due = TRUE] ELSE rows[j]
    BY <1>1, <2>1
  <2>3. rows[i] \in Rows /\ rows'[i].status = rows[i].status
    BY <2>2 DEF Shape, Rows
  <2>4. \A j \in Invites : Exists(j)' => Exists(j)
    BY <2>2, <2>3 DEF Exists, Ids
  <2>5. rows' = [j \in Ids |-> rows'[j]]
    BY <1>1, <2>1
  <2>6. \A j \in Ids :
          \/ rows'[j] = rows[j]
          \/ rows[j].status = "pending" /\ rows'[j] = [rows[j] EXCEPT !.due = TRUE]
    BY <2>1, <2>2
  <2>7. counter' \in Nat /\ counter' <= counter /\ connection' \in Connections /\ cycle' \in 0..MaxCycles
       /\ cycle <= cycle'
    BY <1>1, <2>1
  <2> QED
    BY <2>1, <2>4, <2>5, <2>6, <2>7
<1>9. CASE \E status \in {"approved", "declined"} : Answer(status)
  BY <1>1, <1>6, <1>9, Names DEF Exists, Same
<1> QED
  BY <1>2, <1>3, <1>4, <1>5, <1>7, <1>8, <1>9 DEF Outside

LEMMA OutsideShape ==
  ASSUME Shape, Asking, Outside PROVE Shape' /\ Asking'
<1>1. \A i \in Ids : rows'[i] \in Rows /\ (rows'[i].status = "pending" => rows'[i].attempts < MaxAttempts)
  <2> SUFFICES ASSUME NEW i \in Ids
               PROVE  rows'[i] \in Rows /\ (rows'[i].status = "pending" => rows'[i].attempts < MaxAttempts)
    OBVIOUS
  <2>1. rows[i] \in Rows /\ (rows[i].status = "pending" => rows[i].attempts < MaxAttempts)
    BY DEF Shape
  <2>2. CASE rows'[i] \in {rows[i], Fresh, Absent}
    BY <2>1, <2>2, FreshRows, Names
  <2>3. CASE \E status \in {"sent", "failed"} : rows'[i] = [rows[i] EXCEPT !.status = status]
    BY <2>1, <2>3 DEF Rows, Statuses
  <2>4. CASE rows[i].status = "pending" /\ rows'[i] = [rows[i] EXCEPT !.due = TRUE]
    BY <2>1, <2>4 DEF Rows
  <2> QED
    BY <2>2, <2>3, <2>4, OutsideRows
<1>2. rows' \in [Ids -> Rows]
  BY <1>1, OutsideRows
<1>3. \A i \in Invites : Exists(i)' => i = cycle'
  BY OutsideRows, FreshRows DEF Shape, Exists
<1>4. \A d \in Drains : Placed(d)'
  BY OutsideRows DEF Shape, Placed, Same, IsInvite, Id
<1>5. Asking'
  BY OutsideRows DEF Asking, Same, Id
<1> QED
  BY <1>1, <1>2, <1>3, <1>4, <1>5, OutsideRows DEF Shape, Same


-----------------------------------------------------------------------------
(* Steps of a drain.                                                       *)

\* Where a drain goes, as a record.
LEMMA Moves ==
  ASSUME Shape, NEW d \in Drains
  PROVE  /\ drains[d] \in DrainStates /\ drains = [e \in Drains |-> drains[e]]
         /\ Resume(d) => drains' = [drains EXCEPT
              ![d] = [list |-> drains[d].list, at |-> "next", row |-> NoEntry]]
         /\ \A at : Goto(d, at) => drains' = [drains EXCEPT
              ![d] = [list |-> drains[d].list, at |-> at, row |-> drains[d].row]]
BY DEF Shape, DrainStates, Resume, Goto

\* A write of one row.
LEMMA UpdatedRows ==
  ASSUME Shape, NEW i \in Ids, NEW r \in Rows, r.status # "absent",
         r.status = "pending" => r.attempts < MaxAttempts, rows' = Updated(i, r)
  PROVE  /\ rows' \in [Ids -> Rows]
         /\ \A j \in Ids : rows'[j].status = "pending" => rows'[j].attempts < MaxAttempts
         /\ \A j \in Ids : j # i => rows'[j] = rows[j]
         /\ \A j \in Ids : Exists(j)' <=> Exists(j)
         /\ Exists(i) => rows'[i] = r
         /\ ~Exists(i) => rows' = rows
BY DEF Shape, Updated, Exists

\* What holds after a step of a drain that leaves the others alone.
LEMMA Moved ==
  ASSUME Shape, Asking, NEW d \in Drains, NEW x \in DrainStates,
         drains' = [drains EXCEPT ![d] = x], UNCHANGED <<connection, cycle>>,
         rows' \in [Ids -> Rows],
         \A j \in Ids : rows'[j].status = "pending" => rows'[j].attempts < MaxAttempts,
         \A j \in Ids : Exists(j)' <=> Exists(j),
         lock' \in {lock, None, d}, lock # d => lock' # None \/ lock = None,
         lock' = d => lock \in {d, None},
         x.at = "next" <=> x.row = NoEntry, x.at = "sending" => x.row.id \in Invites,
         (x.row.id \in Invites /\ x.at \in {"sending", "accepted"}) <=> lock' = d,
         lock' = d => connection = "pending" /\ x.row.id = cycle,
         counter' \in Nat, crashes' \in 0..MaxCrashes,
         log' \in [sends : [Messages -> Nat], known : [Messages -> Int]]
  PROVE  Shape' /\ Asking'
<1>1. drains' \in [Drains -> DrainStates] /\ drains'[d] = x
  BY DEF Shape
<1>2. \A e \in Drains : e # d => drains'[e] = drains[e]
  BY DEF Shape
<1>3. \A e \in Drains : e # d => (lock' = e <=> lock = e)
  BY Names DEF Shape
<1>4. \A e \in Drains : Placed(e)'
  <2> SUFFICES ASSUME NEW e \in Drains PROVE Placed(e)'
    OBVIOUS
  <2>1. CASE e = d
    BY <1>1, <2>1 DEF Placed, IsInvite, Id
  <2>2. CASE e # d
    BY <1>2, <1>3, <2>2 DEF Placed, IsInvite, Id, Shape
  <2> QED
    BY <2>1, <2>2
<1>5. Asking'
  BY <1>1, <1>2, <1>3 DEF Asking, Id
<1>6. lock' \in Drains \cup {None}
  BY DEF Shape
<1>7. \A i \in Invites : Exists(i)' => i = cycle'
  BY DEF Shape, Ids
<1> QED
  BY <1>1, <1>4, <1>5, <1>6, <1>7 DEF Shape

\* A drain that is at a row.
LEMMA AtRow ==
  ASSUME Shape, NEW d \in Drains, drains[d].at # "next"
  PROVE  /\ drains[d].row \in Open /\ Id(d) \in Ids /\ rows[Id(d)] \in Rows
         /\ drains[d].row # NoEntry /\ drains[d].list \in SUBSET Open
BY Names, Moves DEF Shape, Placed, Id, DrainStates

LEMMA ClaimShape ==
  ASSUME Shape, Asking, NEW d \in Drains, NEW e \in drains[d].list, Claim(d, e)
  PROVE  Shape' /\ Asking'
<1>1. /\ drains[d] \in DrainStates /\ e \in Open /\ e.id \in Ids /\ e # NoEntry /\ drains[d].list \in SUBSET Open
      /\ rows[e.id] \in Rows /\ drains[d].at = "next" /\ drains[d].row = NoEntry /\ Placed(d)
      /\ ~IsInvite(d) /\ lock # d
  BY Moves, Names DEF Claim, Shape, DrainStates, Placed, IsInvite, Id, Ids
<1>2. /\ UNCHANGED <<connection, cycle, lock, counter, crashes, log>> /\ counter \in Nat /\ crashes \in 0..MaxCrashes
      /\ log \in [sends : [Messages -> Nat], known : [Messages -> Int]] /\ lock \in Drains \cup {None}
  BY DEF Claim, Shape
<1>3. CASE Claimable(e.id)
  <2> DEFINE x == [list |-> drains[d].list \ {e}, at |-> "claimed", row |-> e]
  <2>1. /\ x \in DrainStates /\ x.at = "claimed" /\ x.row = e
    BY <1>1 DEF DrainStates, DrainSteps
  <2>2. drains' = [drains EXCEPT ![d] = x]
    BY <1>3 DEF Claim
  <2> DEFINE r == [rows[e.id] EXCEPT !.status = "sent", !.due = TRUE]
  <2>3. r \in Rows /\ r.status = "sent"
    BY <1>1 DEF Statuses, Rows
  <2>4. rows' = [rows EXCEPT ![e.id].status = "sent", ![e.id].due = TRUE] /\ Exists(e.id)
    BY <1>3 DEF Claim, Claimable, Exists
  <2>5. rows' = Updated(e.id, r)
    BY <1>1, <2>4 DEF Updated, Shape
  <2> HIDE DEF x, r
  <2> QED
    BY <1>1, <1>2, <2>1, <2>2, <2>3, <2>5, Moved, UpdatedRows
<1>4. CASE ~Claimable(e.id)
  <2> DEFINE x == [drains[d] EXCEPT !.list = @ \ {e}]
  <2>1. x \in DrainStates /\ x.at = "next" /\ x.row = NoEntry
    BY <1>1, DrainExcept DEF DrainStates
  <2>2. drains' = [drains EXCEPT ![d] = x] /\ rows' = rows
    BY <1>4 DEF Claim
  <2> HIDE DEF x
  <2> QED
    BY <1>1, <1>2, <2>1, <2>2, Moved, Names DEF Shape, Exists, IsInvite, Id
<1> QED
  BY <1>3, <1>4

\* The other steps: a drain gives its row up, or goes on with it.
LEMMA ResumeShape ==
  ASSUME Shape, Asking, NEW d \in Drains, drains[d].at # "next", Resume(d),
         UNCHANGED <<connection, cycle, crashes, log>>, lock' = IF lock = d THEN None ELSE lock,
         rows' \in [Ids -> Rows],
         \A j \in Ids : rows'[j].status = "pending" => rows'[j].attempts < MaxAttempts,
         \A j \in Ids : Exists(j)' <=> Exists(j), counter' \in Nat
  PROVE  Shape' /\ Asking'
<1> DEFINE x == [list |-> drains[d].list, at |-> "next", row |-> NoEntry]
<1>1. x \in DrainStates /\ x.at = "next" /\ x.row = NoEntry
  BY AtRow DEF DrainStates, DrainSteps
<1>2. drains' = [drains EXCEPT ![d] = x]
  BY Moves
<1>3. x.row.id \notin Invites
  BY <1>1, Names DEF Ids
<1>4. /\ lock' \in {lock, None, d} /\ lock' # d /\ (lock # d => lock' # None \/ lock = None)
      /\ crashes' \in 0..MaxCrashes /\ log' \in [sends : [Messages -> Nat], known : [Messages -> Int]]
  BY Names DEF Shape
<1> HIDE DEF x
<1> QED
  BY <1>1, <1>2, <1>3, <1>4, Moved

LEMMA GotoShape ==
  ASSUME Shape, Asking, NEW d \in Drains, drains[d].at # "next", NEW at \in DrainSteps, Goto(d, at),
         at # "next", at = "sending" => IsInvite(d),
         UNCHANGED <<connection, cycle, counter, crashes>>,
         lock' = IF IsInvite(d) /\ at \in {"sending", "accepted"} THEN d
                 ELSE IF lock = d THEN None ELSE lock,
         lock' = d => lock \in {d, None} /\ connection = "pending" /\ Id(d) = cycle,
         rows' \in [Ids -> Rows],
         \A j \in Ids : rows'[j].status = "pending" => rows'[j].attempts < MaxAttempts,
         \A j \in Ids : Exists(j)' <=> Exists(j),
         log' \in [sends : [Messages -> Nat], known : [Messages -> Int]]
  PROVE  Shape' /\ Asking'
<1> DEFINE x == [list |-> drains[d].list, at |-> at, row |-> drains[d].row]
<1>1. x \in DrainStates /\ x.at = at /\ x.row # NoEntry /\ x.row.id = Id(d)
  BY AtRow DEF DrainStates, Id
<1>2. drains' = [drains EXCEPT ![d] = x]
  BY Moves
<1>3. /\ lock' \in {lock, None, d} /\ (lock # d => lock' # None \/ lock = None)
      /\ (x.row.id \in Invites /\ x.at \in {"sending", "accepted"}) <=> lock' = d
  BY <1>1, Names DEF Shape, IsInvite
<1>4. crashes' \in 0..MaxCrashes /\ counter' \in Nat
  BY DEF Shape
<1> HIDE DEF x
<1> QED
  BY <1>1, <1>2, <1>3, <1>4, Moved DEF IsInvite

LEMMA SameRows ==
  ASSUME Shape, UNCHANGED rows
  PROVE  /\ rows' \in [Ids -> Rows]
         /\ \A j \in Ids : rows'[j].status = "pending" => rows'[j].attempts < MaxAttempts
         /\ \A j \in Ids : Exists(j)' <=> Exists(j)
BY DEF Shape, Exists

\* What the writes of a drain make of a row.
Opened(i) == [rows[i] EXCEPT !.status = "failed"]
Returned(i) == [rows[i] EXCEPT !.status = "pending"]
Noted(i) == [rows[i] EXCEPT !.handle = TRUE]
Retried(i, attempts) ==
  [rows[i] EXCEPT !.attempts = attempts, !.due = attempts >= MaxAttempts,
                  !.status = IF attempts >= MaxAttempts THEN "failed" ELSE "pending"]

LEMMA Writes ==
  ASSUME Shape, NEW i \in Ids
  PROVE  /\ Opened(i) \in Rows /\ Opened(i).status = "failed" /\ Opened(i).handle = rows[i].handle
         /\ rows[i].attempts < MaxAttempts =>
              Returned(i) \in Rows /\ Returned(i).status = "pending" /\ Returned(i).attempts < MaxAttempts
         /\ Noted(i) \in Rows /\ Noted(i).status = rows[i].status /\ Noted(i).handle = TRUE
         /\ Noted(i).attempts = rows[i].attempts
         /\ \A a \in 0..MaxAttempts :
              /\ Retried(i, a) \in Rows /\ Retried(i, a).handle = rows[i].handle
              /\ Retried(i, a).status \in {"failed", "pending"}
              /\ Retried(i, a).status = "pending" => Retried(i, a).attempts < MaxAttempts
<1>1. rows[i] \in Rows /\ rows[i].status \in Statuses
  BY DEF Shape, Rows
<1>2. Opened(i) \in Rows /\ Opened(i).status = "failed" /\ Opened(i).handle = rows[i].handle
  BY <1>1 DEF Opened, Rows, Statuses
<1>3. /\ Returned(i) \in Rows /\ Returned(i).status = "pending"
      /\ Returned(i).attempts = rows[i].attempts
  BY <1>1 DEF Returned, Rows, Statuses
<1>4. /\ Noted(i) \in Rows /\ Noted(i).status = rows[i].status /\ Noted(i).handle = TRUE
      /\ Noted(i).attempts = rows[i].attempts
  BY <1>1 DEF Noted, Rows, Statuses
<1>5. ASSUME NEW a \in 0..MaxAttempts
      PROVE  /\ Retried(i, a) \in Rows /\ Retried(i, a).handle = rows[i].handle
             /\ Retried(i, a).status \in {"failed", "pending"}
             /\ Retried(i, a).status = "pending" => Retried(i, a).attempts < MaxAttempts
  <2> DEFINE s == IF a >= MaxAttempts THEN "failed" ELSE "pending"
             u == a >= MaxAttempts
  <2>1. s \in Statuses /\ s \in {"failed", "pending"} /\ (s = "pending" => a < MaxAttempts) /\ u \in BOOLEAN
    BY Names DEF Statuses
  <2>2. Retried(i, a) = [rows[i] EXCEPT !.attempts = a, !.due = u, !.status = s]
    BY DEF Retried
  <2> HIDE DEF s, u
  <2>3. Retried(i, a) \in Rows
    BY <1>1, <2>1, <2>2 DEF Rows
  <2>4. Retried(i, a).handle = rows[i].handle /\ Retried(i, a).status = s /\ Retried(i, a).attempts = a
    BY <1>1, <2>2 DEF Rows
  <2> QED
    BY <2>1, <2>3, <2>4
<1> QED
  BY <1>2, <1>3, <1>4, <1>5

-----------------------------------------------------------------------------
(* One holder of a row.                                                    *)

LEMMA OutsideHoldings ==
  ASSUME Shape, Holdings, Outside PROVE Holdings'
<1> SUFFICES ASSUME NEW d \in Drains, drains[d].at # "next" PROVE Holding(d)'
  BY OutsideRows DEF Holdings, Holding, Same
<1> PICK i : i = Id(d)
  OBVIOUS
<1>1. /\ i \in Ids /\ rows[i].status # "pending" /\ (drains[d].at = "claimed" => rows[i].attempts < MaxAttempts)
      /\ \A e \in Drains : Id(e) = i => e = d
      /\ IF IsInvite(d) THEN i <= cycle ELSE Exists(i)
  BY AtRow DEF Holdings, Holding
<1>2. Same /\ cycle <= cycle' /\ cycle \in Nat /\ cycle' \in Nat /\ rows[i] \in Rows /\ MaxAttempts > 0
  BY <1>1, OutsideRows, Names DEF Shape
<1>3. /\ rows'[i].status # "pending" /\ (drains[d].at = "claimed" => rows'[i].attempts < MaxAttempts)
      /\ ~IsInvite(d) => Exists(i)'
  <2>1. CASE rows'[i] = rows[i]
    BY <1>1, <2>1, <1>2 DEF Exists
  <2>2. CASE i \in Invites /\ rows'[i] = Absent
    BY <1>1, <2>2, <1>2, FreshRows, Names DEF IsInvite, Absent
  <2>3. CASE \E status \in {"sent", "failed"} : rows'[i] = [rows[i] EXCEPT !.status = status]
    BY <1>1, <1>2, <2>3 DEF Exists, Rows
  <2>4. CASE i \in Invites /\ i = cycle' /\ cycle' = cycle + 1
    BY <1>1, <1>2, <2>4 DEF IsInvite
  <2>5. ~(rows[i].status = "absent" /\ i \in Messages)
    BY <1>1, Names DEF IsInvite, Exists
  <2> QED
    BY <1>1, <2>1, <2>2, <2>3, <2>4, <2>5, OutsideRows
<1>4. drains' = drains /\ (i \in Invites => i <= cycle')
  BY <1>1, <1>2 DEF Same, Invites, IsInvite
<1> QED
  BY <1>1, <1>3, <1>4 DEF Holding, Exists, Id, IsInvite

\* A step that leaves the rows of the others alone.
LEMMA MovedHoldings ==
  ASSUME Shape, Holdings, NEW d \in Drains, NEW x \in DrainStates,
         drains' = [drains EXCEPT ![d] = x], UNCHANGED cycle, NEW i \in Ids,
         \A j \in Ids : j # i => rows'[j] = rows[j],
         \A e \in Drains : e # d => Id(e) # i,
         x.at = "next" => x.row = NoEntry,
         x.at # "next" =>
           /\ x.row.id = i /\ rows'[i].status # "pending"
           /\ x.at = "claimed" => rows'[i].attempts < MaxAttempts
           /\ i \in Invites => i <= cycle
           /\ i \notin Invites => rows'[i].status # "absent"
  PROVE  Holdings'
<1>1. drains'[d] = x /\ \A e \in Drains : e # d => drains'[e] = drains[e]
  BY DEF Shape
<1>2. ASSUME NEW e \in Drains, drains'[e].at # "next" PROVE Holding(e)'
  <2>1. CASE e = d
    BY <1>1, <1>2, <2>1 DEF Holding, Id, IsInvite, Exists
  <2>2. CASE e # d
    <3>1. drains[e].at # "next" /\ Id(e) \in Ids /\ Id(e) # i /\ rows'[Id(e)] = rows[Id(e)] /\ drains'[e] = drains[e]
      BY <1>1, <1>2, <2>2, AtRow
    <3>2. Holding(e)
      BY DEF Holdings
    <3>3. x.row.id # Id(e)
      BY <3>1, Names
    <3>4. \A f \in Drains : drains'[f].row.id = Id(e) => f = e
      BY <1>1, <3>1, <3>2, <3>3 DEF Holding, Id
    <3> QED
      BY <3>1, <3>2, <3>4 DEF Holding, Id, IsInvite, Exists
  <2> QED
    BY <2>1, <2>2
<1> QED
  BY <1>2 DEF Holdings, Holding

LEMMA ResumeHoldings ==
  ASSUME Shape, Holdings, NEW d \in Drains, drains[d].at # "next", Resume(d), UNCHANGED cycle,
         \A j \in Ids : j # Id(d) => rows'[j] = rows[j]
  PROVE  Holdings'
<1> DEFINE x == [list |-> drains[d].list, at |-> "next", row |-> NoEntry]
<1>1. x \in DrainStates /\ x.at = "next" /\ x.row = NoEntry
  BY AtRow DEF DrainStates, DrainSteps
<1>2. drains' = [drains EXCEPT ![d] = x]
  BY Moves
<1>3. \A e \in Drains : e # d => Id(e) # Id(d)
  BY DEF Holdings, Holding
<1>4. Id(d) \in Ids
  BY AtRow
<1> HIDE DEF x
<1> QED
  BY <1>1, <1>2, <1>3, <1>4, MovedHoldings

LEMMA GotoHoldings ==
  ASSUME Shape, Holdings, NEW d \in Drains, drains[d].at # "next", NEW at \in DrainSteps, Goto(d, at),
         at \notin {"next", "claimed"}, UNCHANGED cycle, NEW i, i = Id(d),
         \A j \in Ids : j # i => rows'[j] = rows[j], \A j \in Ids : Exists(j)' <=> Exists(j),
         rows'[i].status # "pending"
  PROVE  Holdings'
<1>1. drains[d].row.id = i /\ i \in Ids
  BY AtRow DEF Id
<1>2. /\ drains'[d] = [list |-> drains[d].list, at |-> at, row |-> drains[d].row]
      /\ \A e \in Drains : e # d => drains'[e] = drains[e]
  BY Moves
<1>3. \A e \in Drains : drains'[e].row.id = drains[e].row.id
  BY <1>2
<1>4. Holding(d) /\ \A e \in Drains : Holding(e)
  BY DEF Holdings
<1>5. Holding(d)'
  <2>1. /\ drains'[d].at = at /\ Id(d)' = Id(d) /\ (IsInvite(d)' <=> IsInvite(d))
        /\ \A e \in Drains : Id(e)' = Id(e)
    BY <1>2, <1>3 DEF Id, IsInvite
  <2>2. /\ \A e \in Drains : Id(e) = Id(d) => e = d
        /\ IF IsInvite(d) THEN Id(d) <= cycle ELSE Exists(Id(d))
    BY <1>4 DEF Holding
  <2>3. Exists(Id(d))' <=> Exists(Id(d))
    BY <1>1, <2>1 DEF Id, Exists
  <2> QED
    BY <2>1, <2>2, <2>3 DEF Holding
<1>6. ASSUME NEW e \in Drains, e # d, drains[e].at # "next" PROVE Holding(e)'
  <2>1. Id(e) \in Ids /\ Id(e) # i /\ rows'[Id(e)] = rows[Id(e)]
    BY <1>1, <1>4, <1>6, AtRow DEF Holding, Id
  <2>2. /\ drains'[e] = drains[e] /\ \A f \in Drains : Id(f)' = Id(f)
        /\ Id(e)' = Id(e) /\ (IsInvite(e)' <=> IsInvite(e))
    BY <1>2, <1>3, <1>6 DEF Id, IsInvite
  <2>3. /\ rows[Id(e)].status # "pending"
        /\ drains[e].at = "claimed" => rows[Id(e)].attempts < MaxAttempts
        /\ \A f \in Drains : Id(f) = Id(e) => f = e
        /\ IF IsInvite(e) THEN Id(e) <= cycle ELSE Exists(Id(e))
    BY <1>4, <1>6 DEF Holding
  <2>4. Exists(Id(e))' <=> Exists(Id(e))
    BY <2>1, <2>2 DEF Exists
  <2> QED
    BY ONLY <2>1, <2>2, <2>3, <2>4, UNCHANGED cycle DEF Holding
<1> QED
  BY <1>2, <1>5, <1>6 DEF Holdings, Holding

Kept == Shape /\ Asking /\ Holdings

\* A drain is done with its row, having written it or not.
LEMMA Leaves ==
  ASSUME Kept, NEW d \in Drains, drains[d].at # "next", Resume(d),
         UNCHANGED <<connection, cycle, crashes, log>>, lock' = IF lock = d THEN None ELSE lock,
         counter' \in Nat,
         \/ UNCHANGED rows
         \/ \E r \in Rows : /\ r.status # "absent" /\ (r.status = "pending" => r.attempts < MaxAttempts)
                            /\ rows' = Updated(Id(d), r)
  PROVE  Kept'
<1>1. /\ rows' \in [Ids -> Rows]
      /\ \A j \in Ids : rows'[j].status = "pending" => rows'[j].attempts < MaxAttempts
      /\ \A j \in Ids : j # Id(d) => rows'[j] = rows[j]
      /\ \A j \in Ids : Exists(j)' <=> Exists(j)
  <2>1. CASE UNCHANGED rows
    BY <2>1, SameRows DEF Kept
  <2>2. CASE \E r \in Rows : /\ r.status # "absent" /\ (r.status = "pending" => r.attempts < MaxAttempts)
                             /\ rows' = Updated(Id(d), r)
    BY <2>2, UpdatedRows, AtRow DEF Kept
  <2> QED
    BY <2>1, <2>2
<1> QED
  BY <1>1, ResumeShape, ResumeHoldings DEF Kept

LEMMA GoesOn ==
  ASSUME Kept, NEW d \in Drains, drains[d].at # "next", NEW at \in DrainSteps, Goto(d, at),
         at \notin {"next", "claimed"}, at = "sending" => IsInvite(d),
         UNCHANGED <<connection, cycle, counter, crashes>>,
         lock' = IF IsInvite(d) /\ at \in {"sending", "accepted"} THEN d
                 ELSE IF lock = d THEN None ELSE lock,
         lock' = d => lock \in {d, None} /\ connection = "pending" /\ Id(d) = cycle,
         log' \in [sends : [Messages -> Nat], known : [Messages -> Int]],
         UNCHANGED rows \/ rows' = Updated(Id(d), Noted(Id(d)))
  PROVE  Kept'
<1> PICK i : i = Id(d)
  OBVIOUS
<1>1. rows[i].status # "pending" /\ i \in Ids
  BY AtRow DEF Kept, Holdings, Holding
<1>2. /\ Noted(i) \in Rows /\ Noted(i).status = rows[i].status /\ Noted(i).attempts = rows[i].attempts
  BY <1>1, Writes DEF Kept
<1>3. UNCHANGED rows \/ (Exists(i) /\ rows' = Updated(i, Noted(i)))
  BY DEF Updated
<1>4. /\ rows' \in [Ids -> Rows]
      /\ \A j \in Ids : rows'[j].status = "pending" => rows'[j].attempts < MaxAttempts
      /\ \A j \in Ids : j # i => rows'[j] = rows[j]
      /\ \A j \in Ids : Exists(j)' <=> Exists(j)
      /\ rows'[i].status # "pending"
  <2>1. CASE UNCHANGED rows
    BY <1>1, <2>1, SameRows DEF Kept
  <2>2. CASE Exists(i) /\ rows' = Updated(i, Noted(i))
    BY <1>1, <1>2, <2>2, UpdatedRows DEF Kept, Exists
  <2> QED
    BY <1>3, <2>1, <2>2
<1> QED
  BY <1>4, GotoShape, GotoHoldings DEF Kept

LEMMA ClaimHoldings ==
  ASSUME Shape, Holdings, NEW d \in Drains, NEW e \in drains[d].list, Claim(d, e)
  PROVE  Holdings'
<1>1. /\ drains[d] \in DrainStates /\ e.id \in Ids /\ drains[d].at = "next" /\ UNCHANGED cycle
      /\ \A c \in Drains : c # d => drains'[c] = drains[c]
      /\ \A c \in Drains : Holding(c)
      /\ drains[d].row.id = None /\ None \notin Ids
  BY Moves, Names DEF Claim, Shape, DrainStates, Placed, Holdings, Open, Entries
<1>2. CASE Claimable(e.id)
  <2>1. rows[e.id].status = "pending" /\ rows[e.id] \in Rows /\ rows[e.id].attempts < MaxAttempts
    BY <1>1, <1>2 DEF Claimable, Shape
  <2>2. /\ rows'[e.id].status = "sent" /\ rows'[e.id].attempts = rows[e.id].attempts
        /\ \A j \in Ids : j # e.id => rows'[j] = rows[j]
    BY <1>1, <1>2, <2>1 DEF Claim, Shape, Rows
  <2>3. drains'[d] = [list |-> drains[d].list \ {e}, at |-> "claimed", row |-> e]
    BY <1>2 DEF Claim, Shape
  <2>4. \A c \in Drains : c # d => drains[c].row.id # e.id
    <3> SUFFICES ASSUME NEW c \in Drains, drains[c].row.id = e.id PROVE FALSE
      OBVIOUS
    <3>1. CASE drains[c].at = "next"
      BY <1>1, <3>1, Names DEF Shape, Placed
    <3>2. CASE drains[c].at # "next"
      BY <1>1, <2>1, <3>2 DEF Holding, Id
    <3> QED
      BY <3>1, <3>2
  <2>5. e.id \in Invites => e.id <= cycle
    BY <2>1 DEF Shape, Exists, Invites
  <2>6. Holding(d)'
    BY <1>1, <2>1, <2>2, <2>3, <2>4, <2>5 DEF Holding, Id, IsInvite, Exists
  <2>7. ASSUME NEW c \in Drains, c # d, drains[c].at # "next" PROVE Holding(c)'
    <3>1. Id(c) \in Ids /\ Id(c) # e.id /\ rows'[Id(c)] = rows[Id(c)]
      BY <2>2, <2>4, <2>7, AtRow DEF Id
    <3>2. \A f \in Drains : drains'[f].row.id = Id(c) => f = c
      BY <1>1, <2>3, <2>7, <3>1 DEF Holding, Id
    <3>3. /\ drains'[c] = drains[c] /\ Id(c)' = Id(c) /\ (IsInvite(c)' <=> IsInvite(c))
          /\ cycle' = cycle /\ \A f \in Drains : Id(f)' = Id(c) => f = c
      BY <1>1, <2>7, <3>2 DEF Id, IsInvite
    <3>4. /\ rows[Id(c)].status # "pending"
          /\ drains[c].at = "claimed" => rows[Id(c)].attempts < MaxAttempts
          /\ IF IsInvite(c) THEN Id(c) <= cycle ELSE Exists(Id(c))
      BY <1>1, <2>7 DEF Holding
    <3>5. Exists(Id(c))' <=> Exists(Id(c))
      BY <3>1, <3>3 DEF Exists
    <3> QED
      BY ONLY <3>1, <3>3, <3>4, <3>5 DEF Holding
  <2> QED
    BY <1>1, <2>6, <2>7 DEF Holdings, Holding
<1>3. CASE ~Claimable(e.id)
  <2>1. /\ rows' = rows /\ drains'[d].at = drains[d].at
        /\ \A c \in Drains : drains'[c].at = drains[c].at /\ drains'[c].row = drains[c].row
    BY <1>1, <1>3 DEF Claim, Shape, DrainStates
  <2> QED
    BY <1>1, <2>1 DEF Holdings, Holding, Id, IsInvite, Exists
<1> QED
  BY <1>2, <1>3

LEMMA ListKept ==
  ASSUME Kept, NEW d \in Drains, List(d) PROVE Kept'
<1> DEFINE x == [drains[d] EXCEPT !.list = {[id |-> i, attempts |-> rows[i].attempts] : i \in DueRows}]
<1>1. x \in DrainStates /\ x.at = "next" /\ x.row = NoEntry
  <2>1. \A i \in DueRows : i \in Ids /\ rows[i] \in Rows /\ rows[i].attempts < MaxAttempts
    BY DEF DueRows, Kept, Shape
  <2>2. \A i \in DueRows : [id |-> i, attempts |-> rows[i].attempts] \in Open
    BY <2>1 DEF Open, Entries, Rows
  <2>3. {[id |-> i, attempts |-> rows[i].attempts] : i \in DueRows} \in SUBSET Open
    BY <2>2
  <2>4. drains[d] \in DrainStates /\ drains[d].at = "next" /\ drains[d].row = NoEntry
    <3>1. drains[d] = Resting
      BY DEF List
    <3>2. drains[d] \in DrainStates
      BY Moves DEF Kept
    <3> QED
      BY <3>1, <3>2 DEF Resting
  <2> HIDE DEF DueRows
  <2>5. x \in DrainStates
    BY <2>3, <2>4, DrainExcept
  <2> QED
    BY <2>4, <2>5 DEF DrainStates
<1>2. /\ drains' = [drains EXCEPT ![d] = x] /\ drains[d].at = "next" /\ drains[d].row = NoEntry
      /\ UNCHANGED <<rows, connection, cycle, lock, counter, crashes, log>>
  BY DEF List, Resting
<1> HIDE DEF x
<1>3. lock # d /\ NoEntry.id \notin Invites
  BY <1>2, Names DEF Kept, Shape, Placed, IsInvite, Id, Ids
<1>4. Shape' /\ Asking'
  BY <1>1, <1>2, <1>3, Moved, SameRows DEF Kept, Shape
<1>5. \A c \in Drains : drains'[c].at = drains[c].at /\ drains'[c].row = drains[c].row
  BY <1>1, <1>2 DEF Kept, Shape
<1>6. Holdings'
  BY <1>2, <1>5 DEF Kept, Holdings, Holding, Id, IsInvite, Exists
<1> QED
  BY <1>4, <1>6 DEF Kept

\* What a drain that is not at an invite, or has not locked it, knows of the lock.
LEMMA LockHeld ==
  ASSUME Kept, NEW d \in Drains
  PROVE  /\ lock = d <=> IsInvite(d) /\ drains[d].at \in {"sending", "accepted"}
         /\ drains[d].at = "sending" => IsInvite(d)
         /\ lock = d => connection = "pending" /\ Id(d) = cycle /\ d # None
         /\ lock # None => lock \in Drains
         /\ drains[d].at # "next" => Id(d) \in Ids /\ Holding(d)
         /\ log \in [sends : [Messages -> Nat], known : [Messages -> Int]] /\ counter \in Nat
         /\ None \notin Drains
BY AtRow, Names DEF Kept, Shape, Placed, Asking, Holdings

LEMMA HoldKept ==
  ASSUME Kept, NEW d \in Drains, Hold(d) PROVE Kept'
<1>1. /\ drains[d].at = "claimed" /\ Resume(d) /\ rows' = Updated(Id(d), Returned(Id(d)))
      /\ UNCHANGED <<connection, cycle, lock, counter, crashes, log>>
  BY DEF Hold, GivenBack, Returned
<1>2. Id(d) \in Ids /\ rows[Id(d)].attempts < MaxAttempts
  BY <1>1, LockHeld DEF Holding
<1>3. Returned(Id(d)) \in Rows /\ Returned(Id(d)).status = "pending" /\ Returned(Id(d)).attempts < MaxAttempts
  BY <1>2, Writes DEF Kept
<1>4. lock # d /\ counter' \in Nat
  BY <1>1, LockHeld
<1> QED
  BY <1>1, <1>3, <1>4, Leaves

LEMMA OpenInviteKept ==
  ASSUME Kept, NEW d \in Drains, OpenInvite(d) PROVE Kept'
<1>1. /\ drains[d].at = "claimed" /\ IsInvite(d) /\ lock = None /\ lock # d
      /\ UNCHANGED <<connection, cycle, counter, crashes, log>>
  BY LockHeld DEF OpenInvite
<1>2. CASE connection = "pending" /\ Exists(Id(d))
  <2>1. Id(d) = cycle
    BY <1>1, <1>2 DEF Kept, Shape, IsInvite
  <2> QED
    BY <1>1, <1>2, <2>1, GoesOn, LockHeld DEF OpenInvite, DrainSteps
<1>3. CASE ~(connection = "pending" /\ Exists(Id(d)))
  <2>1. Resume(d) /\ lock' = lock /\ (UNCHANGED rows \/ rows' = Updated(Id(d), Opened(Id(d))))
    BY <1>3 DEF OpenInvite, Opened
  <2>2. Id(d) \in Ids /\ counter' \in Nat
    BY <1>1, LockHeld
  <2>3. Opened(Id(d)) \in Rows /\ Opened(Id(d)).status = "failed"
    BY <2>2, Writes DEF Kept
  <2> QED
    BY <1>1, <2>1, <2>2, <2>3, Leaves
<1> QED
  BY <1>2, <1>3

\* The history keeps its type.
LEMMA Logged ==
  ASSUME Kept, NEW i
  PROVE  /\ Known(i) \in [sends : [Messages -> Nat], known : [Messages -> Int]]
         /\ Forgotten(i) \in [sends : [Messages -> Nat], known : [Messages -> Int]]
         /\ Unknown(i) \in [sends : [Messages -> Nat], known : [Messages -> Int]]
<1> DEFINE S == log.sends  K == log.known
<1>1. log = [sends |-> S, known |-> K] /\ S \in [Messages -> Nat] /\ K \in [Messages -> Int]
  BY DEF Kept, Shape
<1> HIDE DEF S, K
<1>2. /\ [S EXCEPT ![i] = @ + 1] \in [Messages -> Nat] /\ [K EXCEPT ![i] = @ + 1] \in [Messages -> Int]
      /\ [K EXCEPT ![i] = @ - 1] \in [Messages -> Int]
  <2>1. CASE i \in Messages
    <3>1. S[i] + 1 \in Nat /\ K[i] + 1 \in Int /\ K[i] - 1 \in Int
      BY <1>1, <2>1
    <3> QED
      BY <1>1, <3>1
  <2>2. CASE i \notin Messages
    <3>1. [S EXCEPT ![i] = @ + 1] = S /\ [K EXCEPT ![i] = @ + 1] = K /\ [K EXCEPT ![i] = @ - 1] = K
      BY <1>1, <2>2
    <3> QED
      BY <1>1, <3>1
  <2> QED
    BY <2>1, <2>2
<1>3. Unknown(i) = [sends |-> [S EXCEPT ![i] = @ + 1], known |-> K]
  BY <1>1 DEF Unknown
<1>4. i \in Messages => /\ Known(i) = [sends |-> [S EXCEPT ![i] = @ + 1], known |-> [K EXCEPT ![i] = @ + 1]]
                        /\ Forgotten(i) = [sends |-> S, known |-> [K EXCEPT ![i] = @ - 1]]
  BY <1>1 DEF Known, Forgotten
<1>5. i \notin Messages => Known(i) = log /\ Forgotten(i) = log
  BY DEF Known, Forgotten
<1> QED
  BY <1>1, <1>2, <1>3, <1>4, <1>5

LEMMA SendKept ==
  ASSUME Kept, NEW d \in Drains, Send(d) PROVE Kept'
<1>1. /\ drains[d].at = "claimed" /\ ~IsInvite(d) /\ lock # d
      /\ UNCHANGED <<rows, connection, cycle, lock, counter, crashes>>
      /\ Goto(d, "accepted") \/ Goto(d, "failed")
      /\ log' = Known(Id(d)) \/ log' = Unknown(Id(d))
  BY LockHeld DEF Send
<1> QED
  BY <1>1, GoesOn, Logged DEF DrainSteps

LEMMA SendInviteKept ==
  ASSUME Kept, NEW d \in Drains, SendInvite(d) PROVE Kept'
<1>1. /\ drains[d].at = "sending" /\ IsInvite(d) /\ lock = d
      /\ connection = "pending" /\ Id(d) = cycle /\ counter \in Nat
      /\ UNCHANGED <<rows, connection, cycle, counter, crashes>>
  BY LockHeld DEF SendInvite
<1>2. CASE log' = Known(Id(d)) /\ Goto(d, "accepted") /\ UNCHANGED lock
  BY <1>1, <1>2, GoesOn, Logged DEF DrainSteps
<1>3. CASE Resume(d) /\ lock' = None /\ UNCHANGED log
  BY <1>1, <1>3, Leaves
<1> QED
  BY <1>2, <1>3 DEF SendInvite

LEMMA RecordKept ==
  ASSUME Kept, NEW d \in Drains, Record(d) PROVE Kept'
<1>1. /\ drains[d].at = "accepted" /\ Goto(d, "recorded") /\ rows' = Updated(Id(d), Noted(Id(d)))
      /\ UNCHANGED <<connection, cycle, counter, crashes, log>>
      /\ lock' = IF IsInvite(d) THEN None ELSE lock
  BY DEF Record, Noted
<1>2. (lock = d <=> IsInvite(d)) /\ lock' # d
  BY <1>1, LockHeld
<1>3. log' \in [sends : [Messages -> Nat], known : [Messages -> Int]]
  BY <1>1, LockHeld
<1> QED
  BY <1>1, <1>2, <1>3, GoesOn DEF DrainSteps

LEMMA RecordInviteFailsKept ==
  ASSUME Kept, NEW d \in Drains, RecordInviteFails(d) PROVE Kept'
<1>1. /\ drains[d].at = "accepted" /\ Resume(d) /\ lock' = None /\ lock = d
      /\ UNCHANGED <<rows, connection, cycle, counter, crashes, log>> /\ counter' \in Nat
  BY LockHeld DEF RecordInviteFails
<1> QED
  BY <1>1, Leaves

LEMMA CountKept ==
  ASSUME Kept, NEW d \in Drains, Count(d) PROVE Kept'
<1>1. /\ drains[d].at = "recorded" /\ Resume(d) /\ lock' = lock /\ lock # d
      /\ UNCHANGED <<rows, connection, cycle, crashes, log>> /\ counter' \in Nat
  BY LockHeld DEF Count
<1> QED
  BY <1>1, Leaves

LEMMA WriteFailsKept ==
  ASSUME Kept, NEW d \in Drains, WriteFails(d) PROVE Kept'
<1>1. /\ drains[d].at # "next" /\ Goto(d, "failed") /\ log' = Forgotten(Id(d)) /\ lock' = lock /\ lock # d
      /\ UNCHANGED <<rows, connection, cycle, counter, crashes>>
  BY LockHeld DEF WriteFails
<1> QED
  BY <1>1, Logged, GoesOn DEF DrainSteps

LEMMA RetryKept ==
  ASSUME Kept, NEW d \in Drains, Retry(d) PROVE Kept'
<1> DEFINE a == Attempts(drains[d].row)
<1>1. /\ drains[d].at = "failed" /\ Resume(d) /\ rows' = Updated(Id(d), Retried(Id(d), a))
      /\ UNCHANGED <<connection, cycle, lock, counter, crashes, log>>
  BY DEF Retry, Retried
<1>2. Id(d) \in Ids /\ a \in 0..MaxAttempts
  BY <1>1, AtRow, Names DEF Attempts, Kept
<1>3. lock' = lock /\ lock # d /\ counter' \in Nat
  BY <1>1, LockHeld
<1> HIDE DEF a
<1>4. /\ Retried(Id(d), a) \in Rows /\ Retried(Id(d), a).status # "absent"
      /\ Retried(Id(d), a).status = "pending" => Retried(Id(d), a).attempts < MaxAttempts
  BY <1>2, Writes DEF Kept
<1> QED
  BY <1>1, <1>3, <1>4, Leaves

LEMMA CrashKept ==
  ASSUME Kept, NEW d \in Drains, Crash(d) PROVE Kept'
<1>1. /\ drains' = [drains EXCEPT ![d] = Resting] /\ UNCHANGED <<rows, connection, cycle, counter, log>>
      /\ lock' = IF lock = d THEN None ELSE lock
      /\ crashes' \in 0..MaxCrashes
  BY Names DEF Crash, Kept, Shape
<1>2. /\ Resting \in DrainStates /\ Resting.at = "next" /\ Resting.row = NoEntry
      /\ Resting.row.id \notin Invites /\ Resting.row.id = None
  BY Names DEF Resting, DrainStates, DrainSteps, Ids
<1>3. /\ lock' \in {lock, None, d} /\ lock' # d /\ (lock # d => lock' # None \/ lock = None)
      /\ log' \in [sends : [Messages -> Nat], known : [Messages -> Int]] /\ counter' \in Nat
  BY <1>1, LockHeld
<1>4. Shape' /\ Asking'
  BY <1>1, <1>2, <1>3, SameRows, Moved DEF Kept
<1>5. drains'[d] = Resting /\ \A e \in Drains : e # d => drains'[e] = drains[e]
  BY <1>1 DEF Kept, Shape
<1>6. ASSUME NEW e \in Drains, e # d, drains[e].at # "next" PROVE Holding(e)'
  <2>1. Id(e) # None /\ Holding(e)
    BY <1>6, AtRow, Names DEF Kept, Holdings
  <2>2. \A f \in Drains : drains'[f].row.id = Id(e) => f = e
    BY <1>2, <1>5, <1>6, <2>1 DEF Holding, Id
  <2> QED
    BY <1>1, <1>5, <1>6, <2>1, <2>2 DEF Holding, Id, IsInvite, Exists
<1>7. Holdings'
  BY <1>2, <1>5, <1>6 DEF Holdings, Holding
<1> QED
  BY <1>4, <1>7 DEF Kept

LEMMA StepKept ==
  ASSUME Kept, [Next]_vars PROVE Kept'
<1>1. CASE Outside
  BY <1>1, OutsideShape, OutsideHoldings DEF Kept
<1>2. ASSUME NEW d \in Drains, NEW e \in drains[d].list, Claim(d, e) PROVE Kept'
  BY <1>2, ClaimShape, ClaimHoldings DEF Kept
<1>3. ASSUME NEW d \in Drains, Drain(d) PROVE Kept'
  BY <1>2, <1>3, ListKept, HoldKept, OpenInviteKept, SendKept, SendInviteKept, RecordKept,
     RecordInviteFailsKept, CountKept, WriteFailsKept, RetryKept DEF Drain
<1>4. CASE UNCHANGED vars
  BY <1>4 DEF vars, Kept, Shape, Asking, Holdings, Holding, Placed, IsInvite, Id, Exists
<1> QED
  BY <1>1, <1>3, <1>4, CrashKept DEF Next, Outside, SomeDrain

LEMMA InitKept ==
  ASSUME Init PROVE Kept
<1>1. /\ \A i \in Ids : rows[i] = Absent
      /\ \A d \in Drains : drains[d] = Resting /\ drains[d].at = "next" /\ drains[d].row = NoEntry
  BY DEF Init, Resting
<1>2. Resting \in DrainStates
  BY DEF Resting, DrainStates, DrainSteps
<1>3. Shape
  <2>1. \A d \in Drains : Placed(d)
    BY <1>1, Names DEF Init, Placed, IsInvite, Id, Ids
  <2>2. /\ rows \in [Ids -> Rows] /\ \A i \in Ids : rows[i].status = "absent"
        /\ Invites \subseteq Ids
    BY <1>1, FreshRows DEF Init, Ids
  <2>3. drains \in [Drains -> DrainStates]
    BY <1>2 DEF Init
  <2>4. log \in [sends : [Messages -> Nat], known : [Messages -> Int]]
    BY DEF Init, Zero
  <2>5. /\ connection \in Connections /\ cycle \in 0..MaxCycles /\ lock \in Drains \cup {None}
        /\ counter \in Nat /\ crashes \in 0..MaxCrashes
    BY Names DEF Init, Connections
  <2> QED
    BY <2>1, <2>2, <2>3, <2>4, <2>5 DEF Shape, Exists
<1>4. Asking /\ Holdings
  BY <1>1, Names DEF Init, Asking, Holdings, Holding
<1> QED
  BY <1>3, <1>4 DEF Kept

-----------------------------------------------------------------------------
(* Invites.                                                                *)

\* Always: the variables have their types, only the last invite has a row, and the lock
\* is the drain's that sends an invite (connectInternalAgents, sendAgentInviteRow).
THEOREM TypeCorrect == Spec => []TypeOK
<1>1. Kept => TypeOK
  <2> SUFFICES ASSUME Kept PROVE TypeOK
    OBVIOUS
  <2>1. /\ rows \in [Ids -> Rows] /\ (\A i \in Invites : Exists(i) => i = cycle)
        /\ connection \in Connections /\ cycle \in 0..MaxCycles
        /\ lock \in Drains \cup {None} /\ counter \in Nat /\ crashes \in 0..MaxCrashes
    BY DEF Kept, Shape
  <2>2. ASSUME NEW d \in Drains
        PROVE  /\ drains[d].list \subseteq Entries /\ drains[d].at \in DrainSteps
               /\ drains[d].row \in Entries \cup {NoEntry}
               /\ drains[d].at = "next" <=> drains[d].row = NoEntry
               /\ (IsInvite(d) /\ drains[d].at \in {"sending", "accepted"}) <=> lock = d
    BY DEF Kept, Shape, Placed, DrainStates, Open
  <2> QED
    BY <2>1, <2>2 DEF TypeOK
<1> QED
  BY <1>1, InitKept, StepKept, PTL DEF Spec

\* Always: while an invite is being sent, until the provider's answer is written down,
\* the connection waits for the answer to this invite (sendAgentInviteRow's row lock).
THEOREM InvitesWhilePending == Spec => []InviteWhilePending
<1>1. Kept => InviteWhilePending
  BY LockHeld DEF InviteWhilePending
<1> QED
  BY <1>1, InitKept, StepKept, PTL DEF Spec

-----------------------------------------------------------------------------
(* Messages.                                                               *)

\* A message that waits was not accepted as far as anyone knows; one that a drain is at
\* was accepted if the drain is past that; one that counts as sent was, or will be.
Told(m) ==
  /\ log.known[m] \in {0, 1}
  /\ rows[m].status \in {"absent", "pending"} => log.known[m] = 0
  /\ \A d \in Drains : Id(d) = m =>
       /\ drains[d].at \in {"claimed", "failed"} => log.known[m] = 0
       /\ drains[d].at \in {"accepted", "recorded"} => log.known[m] = 1
       /\ drains[d].at = "recorded" => rows[m].handle
  /\ rows[m].status = "sent" => rows[m].handle \/ crashes > 0 \/ \E d \in Drains : Id(d) = m
AllTold == \A m \in Messages : Told(m)

LEMMA OutsideTold ==
  ASSUME Kept, AllTold, Outside PROVE AllTold'
<1> SUFFICES ASSUME NEW m \in Messages PROVE Told(m)'
  BY DEF AllTold
<1>1. m \in Ids /\ m \notin Invites /\ Told(m) /\ rows[m] \in Rows
  BY Names DEF Ids, AllTold, Kept, Shape
<1>2. drains' = drains /\ log' = log /\ crashes' = crashes
  BY OutsideRows DEF Kept, Same
<1>3. \/ rows'[m] = rows[m]
      \/ rows[m].status = "absent" /\ rows'[m] = Fresh
      \/ rows[m].handle /\ Exists(m) /\ \E status \in {"sent", "failed"} : rows'[m] = [rows[m] EXCEPT !.status = status]
      \/ rows[m].status = "pending" /\ rows'[m] = [rows[m] EXCEPT !.due = TRUE]
  BY <1>1, OutsideRows DEF Kept
<1>4. CASE rows'[m] = rows[m]
  BY <1>1, <1>2, <1>4 DEF Told, Id
<1>5. CASE rows[m].status = "absent" /\ rows'[m] = Fresh
  <2>1. \A d \in Drains : Id(d) # m
    <3> SUFFICES ASSUME NEW d \in Drains, Id(d) = m PROVE FALSE
      OBVIOUS
    <3>1. drains[d].at # "next"
      BY <1>1, Names DEF Kept, Shape, Placed, Id
    <3> QED
      BY <1>1, <1>5, <3>1, LockHeld DEF Holding, IsInvite, Exists
  <2> QED
    BY <1>1, <1>2, <1>5, <2>1, FreshRows DEF Told, Id
<1>6. CASE /\ rows[m].handle
           /\ \E status \in {"sent", "failed"} : rows'[m] = [rows[m] EXCEPT !.status = status]
  <2>1. rows'[m].handle /\ rows'[m].status \in {"sent", "failed"}
    BY <1>1, <1>6 DEF Rows
  <2> QED
    BY <1>1, <1>2, <2>1 DEF Told, Id
<1>7. CASE rows[m].status = "pending" /\ rows'[m] = [rows[m] EXCEPT !.due = TRUE]
  <2>1. rows'[m].handle = rows[m].handle /\ rows'[m].status = rows[m].status
    BY <1>1, <1>7 DEF Rows
  <2> QED
    BY <1>1, <1>2, <2>1 DEF Told, Id
<1> QED
  BY <1>3, <1>4, <1>5, <1>6, <1>7

\* A step that does not concern the message.
LEMMA SameTold ==
  ASSUME NEW m \in Messages, Told(m), rows'[m] = rows[m], log'.known[m] = log.known[m], crashes' = crashes,
         \A f \in Drains : Id(f) = m \/ drains'[f].row.id = m =>
                             drains'[f].at = drains[f].at /\ drains'[f].row = drains[f].row
  PROVE  Told(m)'
BY DEF Told, Id

\* A drain that is at a message, and is done with it.
LEMMA LeavesTold ==
  ASSUME Kept, AllTold, NEW d \in Drains, drains[d].at # "next", Resume(d), UNCHANGED <<crashes, log>>,
         \A j \in Ids : j # Id(d) => rows'[j] = rows[j],
         NEW i, i = Id(d),
         i \in Messages =>
           /\ rows'[i].status \in {"absent", "pending"} => log.known[i] = 0
           /\ rows'[i].status = "sent" => rows'[i].handle
  PROVE  AllTold'
<1> SUFFICES ASSUME NEW m \in Messages PROVE Told(m)'
  BY DEF AllTold
<1>1. m \in Ids /\ Told(m) /\ m # None
  BY Names DEF Ids, AllTold
<1>2. /\ drains'[d].row = NoEntry /\ NoEntry.id = None
      /\ \A e \in Drains : e # d => drains'[e] = drains[e] /\ Id(e) # i
  BY Moves, LockHeld, Names DEF Kept, Holding
<1>3. CASE m # i
  BY <1>1, <1>2, <1>3, SameTold DEF Id
<1>4. CASE m = i
  <2>1. \A e \in Drains : drains'[e].row.id # m
    BY <1>1, <1>2, <1>4 DEF Id
  <2> QED
    BY <1>1, <1>4, <2>1 DEF Told, Id
<1> QED
  BY <1>3, <1>4

\* A drain that is at a message, and goes on.
LEMMA GoesOnTold ==
  ASSUME Kept, AllTold, NEW d \in Drains, drains[d].at # "next", NEW at \in DrainSteps, Goto(d, at),
         at # "next", UNCHANGED crashes, NEW i, i = Id(d),
         \A j \in Ids : j # i => rows'[j] = rows[j],
         \A m \in Messages : m # i => log'.known[m] = log.known[m],
         i \in Messages =>
           /\ rows'[i].status \notin {"absent", "pending"}
           /\ IF at \in {"accepted", "recorded"} THEN log'.known[i] = 1 ELSE log'.known[i] = 0
           /\ at = "recorded" => rows'[i].handle
  PROVE  AllTold'
<1> SUFFICES ASSUME NEW m \in Messages PROVE Told(m)'
  BY DEF AllTold
<1>1. m \in Ids /\ Told(m)
  BY DEF Ids, AllTold
<1>2. /\ drains'[d].row = drains[d].row /\ drains'[d].at = at
      /\ \A e \in Drains : e # d => drains'[e] = drains[e] /\ Id(e) # i
  BY Moves, LockHeld DEF Kept, Holding
<1>3. CASE m # i
  <2>1. \A f \in Drains : Id(f) = m \/ drains'[f].row.id = m =>
                            drains'[f].at = drains[f].at /\ drains'[f].row = drains[f].row
    BY <1>2, <1>3 DEF Id
  <2> QED
    BY <1>1, <1>3, <2>1, SameTold
<1>4. CASE m = i
  <2>1. \A e \in Drains : drains'[e].row.id = m <=> e = d
    BY <1>2, <1>4 DEF Id
  <2>2. rows'[m].status \notin {"absent", "pending"} /\ log'.known[m] \in {0, 1}
    BY <1>4
  <2> QED
    BY <1>2, <1>4, <2>1, <2>2 DEF Told, Id
<1> QED
  BY <1>3, <1>4

LEMMA ClaimTold ==
  ASSUME Kept, AllTold, NEW d \in Drains, NEW e \in drains[d].list, Claim(d, e) PROVE AllTold'
<1> SUFFICES ASSUME NEW m \in Messages PROVE Told(m)'
  BY DEF AllTold
<1>1. m \in Ids /\ m \in Messages /\ Told(m) /\ m # None /\ rows \in [Ids -> Rows]
  BY Names DEF Ids, AllTold, Kept, Shape
<1>2. /\ drains[d] \in DrainStates /\ e.id \in Ids /\ drains[d].at = "next" /\ UNCHANGED <<crashes, log>>
      /\ \A c \in Drains : c # d => drains'[c] = drains[c]
      /\ drains[d].row.id = None
  BY Moves, Names DEF Kept, Claim, Shape, DrainStates, Placed, Open, Entries
<1>3. CASE Claimable(e.id)
  <2>1. drains'[d].row = e /\ drains'[d].at = "claimed" /\ rows[e.id].status = "pending"
    BY <1>3 DEF Claim, Claimable, Kept, Shape
  <2>2. rows'[e.id].status = "sent" /\ \A j \in Ids : j # e.id => rows'[j] = rows[j]
    BY <1>1, <1>2, <1>3 DEF Claim, Rows
  <2>3. CASE m = e.id
    <3>1. \A c \in Drains : c # d => Id(c) # m
      <4> SUFFICES ASSUME NEW c \in Drains, c # d, Id(c) = m PROVE FALSE
        OBVIOUS
      <4>1. drains[c].at # "next"
        BY <1>1, Names DEF Kept, Shape, Placed, Id
      <4> QED
        BY <2>1, <2>3, <4>1, LockHeld DEF Holding
    <3>2. \A c \in Drains : drains'[c].row.id = m <=> c = d
      BY <1>2, <2>1, <2>3, <3>1 DEF Id
    <3>3. log'.known[m] = 0
      BY <1>1, <1>2, <2>1, <2>3 DEF Told
    <3> QED
      BY <2>1, <2>2, <2>3, <3>2, <3>3 DEF Told, Id
  <2>4. CASE m # e.id
    <3>1. \A f \in Drains : Id(f) = m \/ drains'[f].row.id = m =>
                              drains'[f].at = drains[f].at /\ drains'[f].row = drains[f].row
      BY <1>1, <1>2, <2>1, <2>4 DEF Id
    <3> QED
      BY <1>1, <1>2, <2>2, <2>4, <3>1, SameTold
  <2> QED
    BY <2>3, <2>4
<1>4. CASE ~Claimable(e.id)
  <2>1. rows' = rows /\ drains'[d].at = drains[d].at /\ drains'[d].row = drains[d].row
    BY <1>4 DEF Claim, Kept, Shape, DrainStates
  <2> QED
    BY <1>1, <1>2, <2>1, SameTold
<1> QED
  BY <1>3, <1>4

\* What a drain knows of the message it is at.
LEMMA ToldAt ==
  ASSUME Kept, AllTold, NEW d \in Drains, drains[d].at # "next", Id(d) \in Messages
  PROVE  /\ Told(Id(d)) /\ ~IsInvite(d) /\ rows[Id(d)].status \notin {"absent", "pending"} /\ Exists(Id(d))
         /\ drains[d].at \in {"claimed", "failed"} => log.known[Id(d)] = 0
         /\ drains[d].at \in {"accepted", "recorded"} => log.known[Id(d)] = 1
         /\ drains[d].at = "recorded" => rows[Id(d)].handle
<1>1. Id(d) \in Ids /\ Holding(d) /\ Told(Id(d)) /\ ~IsInvite(d)
  BY LockHeld, Names DEF AllTold, IsInvite
<1> QED
  BY <1>1 DEF Told, Holding, Exists

\* The history of other messages.
LEMMA LoggedFor ==
  ASSUME Kept, NEW i
  PROVE  /\ \A m \in Messages : m # i => /\ Known(i).known[m] = log.known[m]
                                         /\ Unknown(i).known[m] = log.known[m]
                                         /\ Forgotten(i).known[m] = log.known[m]
         /\ i \in Messages => /\ Known(i).known[i] = log.known[i] + 1
                              /\ Unknown(i).known[i] = log.known[i]
                              /\ Forgotten(i).known[i] = log.known[i] - 1
<1> DEFINE S == log.sends  K == log.known
<1>1. log = [sends |-> S, known |-> K] /\ K \in [Messages -> Int]
  BY DEF Kept, Shape
<1> HIDE DEF S, K
<1>2. Unknown(i).known = K /\ log.known = K
  BY <1>1 DEF Unknown
<1>3. i \in Messages => Known(i).known = [K EXCEPT ![i] = @ + 1] /\ Forgotten(i).known = [K EXCEPT ![i] = @ - 1]
  BY <1>1 DEF Known, Forgotten
<1>4. i \notin Messages => Known(i) = log /\ Forgotten(i) = log
  BY DEF Known, Forgotten
<1> QED
  BY <1>1, <1>2, <1>3, <1>4

LEMMA HoldTold ==
  ASSUME Kept, AllTold, NEW d \in Drains, Hold(d) PROVE AllTold'
<1> PICK i : i = Id(d)
  OBVIOUS
<1>1. /\ drains[d].at = "claimed" /\ Resume(d) /\ rows' = Updated(i, Returned(i))
      /\ UNCHANGED <<connection, cycle, lock, counter, crashes, log>>
  BY DEF Hold, GivenBack, Returned
<1>2. i \in Ids /\ rows \in [Ids -> Rows] /\ rows[i].attempts < MaxAttempts
  BY <1>1, LockHeld DEF Kept, Shape, Holding
<1>3. \A j \in Ids : j # i => rows'[j] = rows[j]
  BY <1>1, <1>2 DEF Updated
<1>4. i \in Messages => log.known[i] = 0 /\ rows'[i].status = "pending"
  BY <1>1, <1>2, ToldAt, Writes DEF Updated, Kept
<1> QED
  BY <1>1, <1>3, <1>4, LeavesTold

LEMMA RetryTold ==
  ASSUME Kept, AllTold, NEW d \in Drains, Retry(d) PROVE AllTold'
<1> PICK i, a : i = Id(d) /\ a = Attempts(drains[d].row)
  OBVIOUS
<1>1. /\ drains[d].at = "failed" /\ Resume(d) /\ rows' = Updated(i, Retried(i, a))
      /\ UNCHANGED <<connection, cycle, lock, counter, crashes, log>>
  BY DEF Retry, Retried
<1>2. i \in Ids /\ rows \in [Ids -> Rows] /\ a \in 0..MaxAttempts
  BY <1>1, AtRow, Names DEF Attempts, Kept, Shape
<1>3. \A j \in Ids : j # i => rows'[j] = rows[j]
  BY <1>1, <1>2 DEF Updated
<1>4. i \in Messages => log.known[i] = 0 /\ rows'[i].status \in {"failed", "pending"}
  BY <1>1, <1>2, ToldAt, Writes DEF Updated, Kept
<1> QED
  BY <1>1, <1>3, <1>4, LeavesTold

LEMMA CountTold ==
  ASSUME Kept, AllTold, NEW d \in Drains, Count(d) PROVE AllTold'
<1>1. drains[d].at = "recorded" /\ Resume(d) /\ UNCHANGED <<rows, crashes, log>>
  BY DEF Count
<1>2. Id(d) \in Messages => rows[Id(d)].handle /\ rows[Id(d)].status \notin {"absent", "pending"}
  BY <1>1, ToldAt
<1> PICK i : i = Id(d)
  OBVIOUS
<1> QED
  BY <1>1, <1>2, LeavesTold

\* The steps that are about an invite.
LEMMA InvitesTold ==
  ASSUME Kept, AllTold, NEW d \in Drains,
         OpenInvite(d) \/ SendInvite(d) \/ RecordInviteFails(d)
  PROVE  AllTold'
<1> PICK i : i = Id(d)
  OBVIOUS
<1>1. drains[d].at # "next" /\ i \in Ids /\ i \notin Messages /\ UNCHANGED crashes
  BY LockHeld, Names DEF OpenInvite, SendInvite, RecordInviteFails, IsInvite
<1>2. \A j \in Ids : j # i => rows'[j] = rows[j]
  <2>1. UNCHANGED rows \/ rows' = Updated(i, Opened(i))
    BY DEF OpenInvite, SendInvite, RecordInviteFails, Opened
  <2> QED
    BY <1>1, <2>1 DEF Updated, Kept, Shape
<1>3. log' = log
  BY <1>1 DEF OpenInvite, SendInvite, RecordInviteFails, Known
<1>4. Resume(d) \/ \E at \in {"sending", "accepted"} : Goto(d, at)
  BY DEF OpenInvite, SendInvite, RecordInviteFails
<1>5. CASE Resume(d)
  BY <1>1, <1>2, <1>3, <1>5, LeavesTold
<1>6. ASSUME NEW at \in {"sending", "accepted"}, Goto(d, at) PROVE AllTold'
  <2>1. at \in DrainSteps /\ at # "next"
    BY DEF DrainSteps
  <2> QED
    BY <1>1, <1>2, <1>3, <1>6, <2>1, GoesOnTold
<1> QED
  BY <1>4, <1>5, <1>6

LEMMA SendTold ==
  ASSUME Kept, AllTold, NEW d \in Drains, Send(d) PROVE AllTold'
<1> PICK i : i = Id(d)
  OBVIOUS
<1>1. drains[d].at = "claimed" /\ UNCHANGED <<rows, crashes>> /\ i \in Ids
  BY LockHeld DEF Send
<1>2. i \in Messages => rows[i].status \notin {"absent", "pending"} /\ log.known[i] = 0
  BY <1>1, ToldAt
<1>3. CASE log' = Known(i) /\ Goto(d, "accepted")
  <2>1. (\A m \in Messages : m # i => log'.known[m] = log.known[m]) /\ (i \in Messages => log'.known[i] = 1)
    BY <1>2, <1>3, LoggedFor
  <2> QED
    BY <1>1, <1>2, <1>3, <2>1, GoesOnTold DEF DrainSteps
<1>4. CASE log' = Unknown(i) /\ Goto(d, "failed")
  <2>1. (\A m \in Messages : m # i => log'.known[m] = log.known[m]) /\ (i \in Messages => log'.known[i] = 0)
    BY <1>2, <1>4, LoggedFor
  <2> QED
    BY <1>1, <1>2, <1>4, <2>1, GoesOnTold DEF DrainSteps
<1> QED
  BY <1>3, <1>4 DEF Send

LEMMA RecordTold ==
  ASSUME Kept, AllTold, NEW d \in Drains, Record(d) PROVE AllTold'
<1> PICK i : i = Id(d)
  OBVIOUS
<1>1. /\ drains[d].at = "accepted" /\ Goto(d, "recorded") /\ rows' = Updated(i, Noted(i))
      /\ UNCHANGED <<crashes, log>> /\ i \in Ids /\ rows \in [Ids -> Rows]
  BY LockHeld DEF Record, Noted, Kept, Shape
<1>2. i \in Messages => rows[i].status \notin {"absent", "pending"} /\ log.known[i] = 1 /\ Exists(i)
  BY <1>1, ToldAt
<1>3. \A j \in Ids : j # i => rows'[j] = rows[j]
  BY <1>1 DEF Updated
<1>4. i \in Messages => rows'[i] = Noted(i) /\ Noted(i).status = rows[i].status /\ Noted(i).handle
  BY <1>1, <1>2, Writes DEF Updated, Kept
<1> QED
  BY <1>1, <1>2, <1>3, <1>4, GoesOnTold DEF DrainSteps

LEMMA WriteFailsTold ==
  ASSUME Kept, AllTold, NEW d \in Drains, WriteFails(d) PROVE AllTold'
<1> PICK i : i = Id(d)
  OBVIOUS
<1>1. /\ drains[d].at \in {"accepted", "recorded"} /\ Goto(d, "failed") /\ log' = Forgotten(i)
      /\ UNCHANGED <<rows, crashes>> /\ i \in Ids
  BY LockHeld DEF WriteFails
<1>2. i \in Messages => rows[i].status \notin {"absent", "pending"} /\ log.known[i] = 1
  BY <1>1, ToldAt
<1>3. (\A m \in Messages : m # i => log'.known[m] = log.known[m]) /\ (i \in Messages => log'.known[i] = 0)
  BY <1>1, <1>2, LoggedFor
<1> QED
  BY <1>1, <1>2, <1>3, GoesOnTold DEF DrainSteps

LEMMA CrashTold ==
  ASSUME Kept, AllTold, NEW d \in Drains, Crash(d) PROVE AllTold'
<1> SUFFICES ASSUME NEW m \in Messages PROVE Told(m)'
  BY DEF AllTold
<1>1. Told(m) /\ UNCHANGED <<rows, log>> /\ crashes' > 0 /\ m # None
  BY Names DEF Crash, AllTold, Kept, Shape, Ids
<1>2. /\ drains'[d].row.id = None /\ \A e \in Drains : e # d => drains'[e] = drains[e]
  BY Names DEF Crash, Kept, Shape, Resting
<1> QED
  BY <1>1, <1>2 DEF Told, Id

LEMMA ListTold ==
  ASSUME Kept, AllTold, NEW d \in Drains, List(d) PROVE AllTold'
<1>1. /\ UNCHANGED <<rows, log, crashes>>
      /\ \A e \in Drains : drains'[e].at = drains[e].at /\ drains'[e].row = drains[e].row
  BY DEF List, Kept, Shape, Resting, DrainStates
<1> QED
  BY <1>1, SameTold DEF AllTold

LEMMA StepTold ==
  ASSUME Kept, AllTold, [Next]_vars PROVE AllTold'
<1>1. ASSUME NEW d \in Drains, Drain(d) PROVE AllTold'
  BY <1>1, ClaimTold, ListTold, HoldTold, InvitesTold, SendTold, RecordTold, CountTold,
     WriteFailsTold, RetryTold DEF Drain
<1>2. CASE UNCHANGED vars
  BY <1>2 DEF vars, AllTold, Told, Id
<1> QED
  BY <1>1, <1>2, OutsideTold, CrashTold DEF Next, Outside, SomeDrain

\* Always: a message is accepted again only after a send that is not known to have
\* succeeded, and one that counts as sent was accepted, or a drain is at it, unless a
\* drain died (drainPendingMessagingOutbound's claim, send and retry).
THEOREM DeliversOnce == Spec => []DeliveredOnce
<1>1. Init => Kept /\ AllTold
  <2> SUFFICES ASSUME Init PROVE Kept /\ AllTold
    OBVIOUS
  <2>1. \A m \in Messages : log.known[m] = 0 /\ rows[m].status = "absent"
    BY FreshRows DEF Init, Zero, Ids
  <2>2. \A d \in Drains : drains[d].at = "next"
    BY DEF Init, Resting
  <2> QED
    BY <2>1, <2>2, InitKept DEF AllTold, Told
<1>2. Kept /\ AllTold /\ [Next]_vars => (Kept /\ AllTold)'
  BY StepKept, StepTold
<1>3. AllTold => DeliveredOnce
  BY DEF AllTold, Told, DeliveredOnce
<1> QED
  BY <1>1, <1>2, <1>3, PTL DEF Spec

-----------------------------------------------------------------------------
(* The cap.                                                                *)

\* The drains that passed the cap and have not counted yet.
Past == {d \in Drains : drains[d].at \in {"sending", "accepted", "recorded"}}
Margin == counter + Cardinality(Past) <= Cap + Cardinality(Drains) - 1

LEMMA Sizes ==
  ASSUME NEW S \in SUBSET Drains
  PROVE  /\ IsFiniteSet(S) /\ Cardinality(S) \in Nat /\ Cardinality(Drains) \in Nat
         /\ Cardinality(S) <= Cardinality(Drains)
         /\ \A T \in SUBSET S : Cardinality(T) \in Nat /\ Cardinality(T) <= Cardinality(S)
         /\ \A d \in S : Cardinality(S \ {d}) = Cardinality(S) - 1
BY DrainsAssumption, FS_Subset, FS_CardinalityType, FS_RemoveElement

\* No more drains past the cap and no higher count; or one more under the cap; or one
\* that counted.
LEMMA Counting ==
  ASSUME Kept, Margin, counter' \in Nat,
         \/ Past' \subseteq Past /\ counter' <= counter
         \/ counter' = counter /\ counter < Cap
         \/ \E d \in Past : Past' = Past \ {d} /\ counter' = counter + 1
  PROVE  Margin'
<1> DEFINE P == Past  Q == Past'
<1>1. P \in SUBSET Drains /\ Q \in SUBSET Drains /\ counter \in Nat /\ Cap \in Nat
  BY Names DEF Past, Kept, Shape
<1>2. counter + Cardinality(P) <= Cap + Cardinality(Drains) - 1
  BY DEF Margin
<1>3. /\ Cardinality(P) \in Nat /\ Cardinality(Q) \in Nat /\ Cardinality(Drains) \in Nat
      /\ Cardinality(Q) <= Cardinality(Drains)
  BY <1>1, Sizes
<1>4. CASE Past' \subseteq Past /\ counter' <= counter
  <2>1. Cardinality(Q) <= Cardinality(P)
    BY <1>1, <1>4, Sizes
  <2> QED
    BY <1>1, <1>2, <1>3, <1>4, <2>1 DEF Margin
<1>5. CASE counter' = counter /\ counter < Cap
  BY <1>1, <1>3, <1>5 DEF Margin
<1>6. CASE \E d \in Past : Past' = Past \ {d} /\ counter' = counter + 1
  <2>1. Cardinality(Q) = Cardinality(P) - 1
    BY <1>1, <1>6, Sizes
  <2> QED
    BY <1>1, <1>2, <1>3, <1>6, <2>1 DEF Margin
<1> QED
  BY <1>4, <1>5, <1>6

LEMMA StepMargin ==
  ASSUME Kept, Margin, [Next]_vars PROVE Margin'
<1>1. counter' \in Nat /\ counter \in Nat /\ Cap \in Nat /\ drains \in [Drains -> DrainStates]
  BY StepKept, Names DEF Kept, Shape
<1>2. CASE Outside
  BY <1>2, <1>1, OutsideRows, Counting DEF Kept, Past, Same
<1>3. CASE UNCHANGED vars
  BY <1>1, <1>3, Counting DEF vars, Past
<1>4. ASSUME NEW d \in Drains, Drain(d) \/ Crash(d) PROVE Margin'
  <2>1. CASE Count(d)
    <3>1. counter' = counter + 1 /\ d \in Past /\ Past' = Past \ {d}
      BY <1>1, <2>1 DEF Count, Resume, Past, DrainStates
    <3> QED
      BY <1>1, <3>1, Counting
  <2>2. CASE OpenInvite(d) \/ Send(d)
    BY <1>1, <2>2, Counting DEF OpenInvite, Send, Held
  <2>3. CASE \/ List(d) \/ Hold(d) \/ Retry(d) \/ RecordInviteFails(d) \/ WriteFails(d)
             \/ Crash(d) \/ \E e \in drains[d].list : Claim(d, e)
    <3>1. counter' = counter /\ \A e \in Drains : e # d => drains'[e] = drains[e]
      BY <1>1, <2>3 DEF List, Hold, Retry, RecordInviteFails, WriteFails, Crash, Claim, Resume, Goto
    <3>2. drains'[d].at \in {"next", "claimed", "failed"}
      <4>1. drains[d] \in DrainStates
        BY <1>1
      <4>2. CASE List(d)
        BY <1>1, <4>1, <4>2 DEF List, Resting, DrainStates
      <4>3. CASE Hold(d) \/ Retry(d) \/ RecordInviteFails(d)
        BY <1>1, <4>1, <4>3 DEF Hold, Retry, RecordInviteFails, Resume, DrainStates
      <4>4. CASE WriteFails(d) \/ Crash(d)
        BY <1>1, <4>1, <4>4 DEF WriteFails, Crash, Goto, Resting, DrainStates
      <4>5. ASSUME NEW e \in drains[d].list, Claim(d, e)
            PROVE  drains'[d].at \in {"next", "claimed", "failed"}
        BY <1>1, <4>1, <4>5 DEF Claim, DrainStates
      <4> QED
        BY <2>3, <4>2, <4>3, <4>4, <4>5
    <3>3. Past' \subseteq Past
      BY <3>1, <3>2 DEF Past
    <3> QED
      BY <1>1, <3>1, <3>3, Counting
  <2>4. CASE SendInvite(d) \/ Record(d)
    <3>1. /\ counter' = counter /\ d \in Past
          /\ \A e \in Drains : e # d => drains'[e] = drains[e]
      BY <1>1, <2>4 DEF SendInvite, Record, Resume, Goto, Past
    <3>2. Past' \subseteq Past
      BY <3>1 DEF Past
    <3> QED
      BY <1>1, <3>1, <3>2, Counting
  <2> QED
    BY <1>4, <2>1, <2>2, <2>3, <2>4 DEF Drain
<1> QED
  BY <1>2, <1>3, <1>4 DEF Next, Outside, SomeDrain

\* Always: the cap is exceeded by no more than the other drains that passed it at the
\* same time (the cap is read before the send and the count written after it).
THEOREM CapKept == Spec => []CapMargin
<1>1. Init => Kept /\ Margin
  <2> SUFFICES ASSUME Init PROVE Margin
    BY InitKept
  <2>1. Past = {} /\ counter = 0
    BY DEF Init, Past, Resting
  <2>2. Cardinality({}) = 0 /\ Cardinality(Drains) \in Nat
    BY Sizes, FS_EmptySet
  <2> QED
    BY <2>1, <2>2, Names DEF Margin
<1>2. Kept /\ Margin /\ [Next]_vars => (Kept /\ Margin)'
  BY StepKept, StepMargin
<1>3. Kept /\ Margin => CapMargin
  <2> SUFFICES ASSUME Kept, Margin PROVE CapMargin
    OBVIOUS
  <2>1. Cardinality(Past) \in Nat /\ Cardinality(Drains) \in Nat /\ counter \in Nat /\ Cap \in Nat
    BY Sizes, Names DEF Past, Kept, Shape
  <2> QED
    BY <2>1 DEF Margin, CapMargin
<1> QED
  BY <1>1, <1>2, <1>3, PTL DEF Spec
-----------------------------------------------------------------------------
(* Attempts.                                                               *)
(*                                                                         *)
(* Every send of a message moves the spread of the drains over its         *)
(* attempts forward, in the order of where two spreads first differ: the   *)
(* drain that sent goes on from one attempt more, with every drain that    *)
(* knows of more, and no drain that knows of less is moved.  An entry that *)
(* counts more attempts than the row is as good as the row, to which its   *)
(* drain comes back when it finds the row taken.                           *)

Top == 0..MaxAttempts - 1

\* The drains that would try a message after no more than k attempts: those of its row,
\* or of what they have listed.
Behind(attempts, has, k) == {d \in Drains : attempts <= k \/ \E e \in has[d] : e.attempts <= k}
SpreadOf(attempts, has) == [k \in Top |-> Cardinality(Behind(attempts, has, k))]

\* Where two spreads first differ, fewer drains are behind in the later one.
Before(c, s) == \E k \in Top : s[k] < c[k] /\ \A j \in Top : j < k => s[j] = c[j]
Earlier(c) == {s \in Spreads : Before(s, c)}

\* What the drains have listed of a message, or are at.
Listed(m) == [d \in Drains |-> {e \in drains[d].list \cup {drains[d].row} : e.id = m}]
Passed(m) == Cardinality(Earlier(SpreadOf(rows[m].attempts, Listed(m))))

\* The message may be sent; or it was, and is not back in the outbox.
Sendable(m) ==
  rows[m].status \in {"absent", "pending"} \/ \E d \in Drains : Id(d) = m /\ drains[d].at = "claimed"
Tried(m) == \E d \in Drains : Id(d) = m /\ drains[d].at \in {"accepted", "recorded", "failed"}

\* A message was sent once with every earlier spread at most, and, while it is tried, with
\* this one.
Bounded(m) ==
  /\ rows[m].status = "absent" => rows[m].attempts = 0
  /\ log.sends[m] <= Cardinality(Spreads)
  /\ Sendable(m) \/ Tried(m) => rows[m].attempts < MaxAttempts
  /\ Sendable(m) => log.sends[m] <= Passed(m)
  /\ Tried(m) => log.sends[m] <= Passed(m) + 1
AllBounded == \A m \in Messages : Bounded(m)

\* A drain knows of a row once.
Single(d) ==
  /\ drains[d].row \notin drains[d].list
  /\ \A e, f \in drains[d].list \cup {drains[d].row} : e.id = f.id => e = f
Singles == \A d \in Drains : Single(d)

LEMMA TopFacts ==
  /\ Top \subseteq Nat /\ MaxAttempts - 1 \in Top /\ Cardinality(Drains) \in Nat
  /\ MaxAttempts \in Nat /\ \A k \in Top : k <= MaxAttempts - 1
BY Names, DrainsAssumption, FS_CardinalityType DEF Top

LEMMA LeastNumber ==
  ASSUME NEW T, T \subseteq Nat, T # {}
  PROVE  \E x \in T : \A y \in T : ~ (y < x)
<1> DEFINE Less == OpToRel(<, Nat)
<1>1. IsWellFoundedOn(Less, Nat)
  BY NatLessThanWellFounded
<1>2. \A x, y \in Nat : y < x => <<y, x>> \in Less
  BY DEF OpToRel
<1> HIDE DEF Less
<1>3. PICK x \in T : \A y \in T : ~ (<<y, x>> \in Less)
  BY <1>1, WFMin
<1> QED
  BY <1>2, <1>3

\* The spreads are finitely many: each is a set of pairs of small numbers.
LEMMA SpreadsFinite == IsFiniteSet(Spreads)
<1> DEFINE n == Cardinality(Drains)
           Pairs == Top \X (0..n)
           graph == [c \in Spreads |-> {<<k, c[k]>> : k \in Top}]
<1>1. IsFiniteSet(Top) /\ IsFiniteSet(0..n)
  BY TopFacts, FS_Interval DEF Top
<1>2. IsFiniteSet(SUBSET Pairs)
  BY <1>1, FS_Product, FS_SUBSET
<1>3. \A c \in Spreads : c \in [Top -> 0..n]
  BY DEF Spreads, Top
<1>4. graph \in [Spreads -> SUBSET Pairs]
  <2>1. ASSUME NEW c \in Spreads PROVE {<<k, c[k]>> : k \in Top} \in SUBSET Pairs
    BY <1>3
  <2> QED
    BY <2>1
<1>5. ASSUME NEW c \in Spreads, NEW s \in Spreads, graph[c] = graph[s] PROVE c = s
  <2>1. ASSUME NEW k \in Top PROVE c[k] = s[k]
    <3>1. <<k, c[k]>> \in {<<j, s[j]>> : j \in Top}
      BY <1>5
    <3> QED
      BY <3>1
  <2> QED
    BY <1>3, <2>1
<1>6. graph \in Injection(Spreads, SUBSET Pairs)
  BY <1>4, <1>5 DEF Injection, IsInjective
<1> QED
  BY <1>2, <1>6, FS_Injection

\* Later spreads have more before them.
LEMMA Counted ==
  ASSUME NEW c \in Spreads
  PROVE  /\ Cardinality(Earlier(c)) \in Nat /\ Cardinality(Spreads) \in Nat
         /\ Cardinality(Earlier(c)) + 1 <= Cardinality(Spreads)
         /\ \A s \in Spreads : /\ Before(c, s) => Cardinality(Earlier(c)) + 1 <= Cardinality(Earlier(s))
                               /\ Cardinality(Earlier(s)) \in Nat
<1>0. \A s \in Spreads : \A k \in Top : s[k] \in Nat
  BY TopFacts DEF Spreads, Top
<1>1. ~Before(c, c)
  BY <1>0 DEF Before
<1>2. c \notin Earlier(c) /\ \A s \in Spreads : Earlier(s) \in SUBSET Spreads
  BY <1>1 DEF Earlier
<1>3. \A s \in Spreads : IsFiniteSet(Earlier(s)) /\ Cardinality(Earlier(s)) \in Nat
  BY <1>2, SpreadsFinite, FS_Subset, FS_CardinalityType
<1>4. Cardinality(Earlier(c) \cup {c}) = Cardinality(Earlier(c)) + 1
  BY <1>2, <1>3, FS_AddElement
<1>5. Cardinality(Earlier(c)) + 1 <= Cardinality(Spreads) /\ Cardinality(Spreads) \in Nat
  <2>1. Earlier(c) \cup {c} \in SUBSET Spreads
    BY <1>2
  <2>2. Cardinality(Earlier(c) \cup {c}) <= Cardinality(Spreads)
    BY <2>1, SpreadsFinite, FS_Subset
  <2> QED
    BY <1>4, <2>2, SpreadsFinite, FS_CardinalityType
<1>6. ASSUME NEW s \in Spreads, Before(c, s)
      PROVE  Cardinality(Earlier(c)) + 1 <= Cardinality(Earlier(s))
  <2>1. ASSUME NEW r \in Spreads, Before(r, c) PROVE Before(r, s)
    <3>1. PICK k \in Top : c[k] < r[k] /\ \A j \in Top : j < k => c[j] = r[j]
      BY <2>1 DEF Before
    <3>2. PICK l \in Top : s[l] < c[l] /\ \A j \in Top : j < l => s[j] = c[j]
      BY <1>6 DEF Before
    <3>3. k \in Nat /\ l \in Nat
      BY TopFacts
    <3>4. CASE k <= l
      <4>1. s[k] < r[k]
        BY <1>0, <3>1, <3>2, <3>3, <3>4
      <4>2. \A j \in Top : j < k => s[j] = r[j]
        BY <3>1, <3>2, <3>3, <3>4, TopFacts
      <4> QED
        BY <4>1, <4>2 DEF Before
    <3>5. CASE l < k
      <4>1. s[l] < r[l]
        BY <1>0, <3>1, <3>2, <3>3, <3>5
      <4>2. \A j \in Top : j < l => s[j] = r[j]
        BY <3>1, <3>2, <3>3, <3>5, TopFacts
      <4> QED
        BY <4>1, <4>2 DEF Before
    <3> QED
      BY <3>3, <3>4, <3>5
  <2>2. Earlier(c) \cup {c} \in SUBSET Earlier(s)
    BY <1>6, <2>1 DEF Earlier
  <2>3. Cardinality(Earlier(c) \cup {c}) <= Cardinality(Earlier(s))
    BY <1>3, <2>2, FS_Subset
  <2> QED
    BY <1>4, <2>3
<1> QED
  BY <1>3, <1>5, <1>6

\* Spreads are what they are said to be.
LEMMA IsSpread ==
  ASSUME NEW a \in Top, NEW has \in [Drains -> SUBSET Open]
  PROVE  /\ SpreadOf(a, has) \in Spreads
         /\ \A k \in Top : /\ SpreadOf(a, has)[k] = Cardinality(Behind(a, has, k))
                           /\ Behind(a, has, k) \in SUBSET Drains
<1> DEFINE n == Cardinality(Drains)
           B(k) == Behind(a, has, k)
           c == SpreadOf(a, has)
<1>1. \A k \in Top : B(k) \in SUBSET Drains /\ c[k] = Cardinality(B(k))
  BY DEF Behind, SpreadOf
<1>2. \A k \in Top : Cardinality(B(k)) \in 0..n
  BY <1>1, Sizes
<1>3. c \in [Top -> 0..n]
  BY <1>2 DEF SpreadOf
<1>4. c[MaxAttempts - 1] = n
  <2>1. B(MaxAttempts - 1) = Drains
    BY TopFacts DEF Behind
  <2> QED
    BY <1>1, <2>1, TopFacts
<1>5. ASSUME NEW j \in Top, NEW k \in Top, j <= k PROVE c[j] <= c[k]
  <2>1. j \in Nat /\ k \in Nat /\ a \in Nat /\ \A d \in Drains : \A e \in has[d] : e.attempts \in Nat
    BY TopFacts, Names
  <2>2. B(j) \subseteq B(k)
    BY <1>5, <2>1 DEF Behind
  <2> QED
    BY <1>1, <2>2, Sizes
<1> HIDE DEF c
<1> QED
  BY <1>1, <1>3, <1>4, <1>5 DEF Spreads, Top, c

\* What a drain forgets or lists anew does not move the spread back.
LEMMA Onward ==
  ASSUME NEW a \in Top, NEW has \in [Drains -> SUBSET Open], NEW now \in [Drains -> SUBSET Open],
         \A d \in Drains : \A e \in now[d] : e \in has[d] \/ a <= e.attempts
  PROVE  Cardinality(Earlier(SpreadOf(a, has))) <= Cardinality(Earlier(SpreadOf(a, now)))
<1> DEFINE c == SpreadOf(a, has)
           s == SpreadOf(a, now)
           Less == {k \in Top : s[k] < c[k]}
<1>1. c \in Spreads /\ s \in Spreads
  BY IsSpread
<1>2. \A k \in Top : s[k] \in Nat /\ c[k] \in Nat /\ s[k] <= c[k]
  <2> SUFFICES ASSUME NEW k \in Top PROVE s[k] \in Nat /\ c[k] \in Nat /\ s[k] <= c[k]
    OBVIOUS
  <2>1. Behind(a, now, k) \subseteq Behind(a, has, k)
    <3>1. a \in Nat /\ k \in Nat /\ \A d \in Drains : \A e \in now[d] : e.attempts \in Nat
      BY TopFacts, Names
    <3> QED
      BY <3>1 DEF Behind
  <2>2. Behind(a, has, k) \in SUBSET Drains /\ s[k] = Cardinality(Behind(a, now, k))
        /\ c[k] = Cardinality(Behind(a, has, k))
    BY IsSpread
  <2> QED
    BY <2>1, <2>2, Sizes
<1>3. s \in [Top -> 0..Cardinality(Drains)] /\ c \in [Top -> 0..Cardinality(Drains)]
  BY <1>1 DEF Spreads, Top
<1> HIDE DEF c, s
<1>4. CASE Less = {}
  <2>1. \A k \in Top : s[k] = c[k]
    BY <1>2, <1>4
  <2>2. s = c
    BY <1>3, <2>1
  <2> QED
    BY <1>1, <2>2, Counted DEF c, s
<1>5. CASE Less # {}
  <2>1. PICK k \in Less : \A j \in Less : ~ (j < k)
    BY <1>5, LeastNumber, TopFacts
  <2>2. \A j \in Top : j < k => s[j] = c[j]
    BY <1>2, <2>1
  <2>3. Before(c, s)
    BY <2>1, <2>2 DEF Before
  <2> QED
    BY <1>1, <2>3, Counted DEF c, s
<1> QED
  BY <1>4, <1>5

\* A drain that tried goes on from one attempt more than it knew of.
LEMMA Forward ==
  ASSUME NEW a \in Top, NEW has \in [Drains -> SUBSET Open], NEW now \in [Drains -> SUBSET Open],
         NEW d \in Drains, NEW e \in has[d], now[d] = {}, e.attempts + 1 \in Top,
         \A f \in Drains : f # d => now[f] = has[f], has[d] = {e}
  PROVE  Cardinality(Earlier(SpreadOf(a, has))) + 1
           <= Cardinality(Earlier(SpreadOf(e.attempts + 1, now)))
<1> DEFINE b == e.attempts + 1
           k == IF e.attempts <= a THEN e.attempts ELSE a
           c == SpreadOf(a, has)
           s == SpreadOf(b, now)
<1>1. a \in Nat /\ e.attempts \in Nat /\ b \in Top /\ k \in Top /\ e \in Open
      /\ Top \subseteq Nat /\ \A f \in Drains : \A x \in has[f] : x.attempts \in Nat
  BY TopFacts, Names DEF Top
<1>2. k <= a /\ k <= e.attempts /\ k < b /\ (a <= k \/ e.attempts <= k) /\ k \in Nat
  BY <1>1
<1> HIDE DEF k
<1>3. ASSUME NEW j \in Top, j < k PROVE Behind(b, now, j) = Behind(a, has, j)
  <2>1. j \in Nat /\ ~(a <= j) /\ ~(b <= j) /\ ~(e.attempts <= j)
    BY <1>1, <1>2, <1>3
  <2>2. ASSUME NEW f \in Drains
        PROVE  (\E x \in now[f] : x.attempts <= j) <=> (\E x \in has[f] : x.attempts <= j)
    BY <2>1
  <2> QED
    BY <2>1, <2>2 DEF Behind
<1>4. Behind(b, now, k) \subseteq Behind(a, has, k) \ {d} /\ d \in Behind(a, has, k)
  <2>1. ~(b <= k)
    BY <1>1, <1>2
  <2> QED
    BY <1>2, <2>1 DEF Behind
<1>5. c \in Spreads /\ s \in Spreads
  BY <1>1, IsSpread
<1>6. /\ \A j \in Top : c[j] = Cardinality(Behind(a, has, j)) /\ Behind(a, has, j) \in SUBSET Drains
      /\ \A j \in Top : s[j] = Cardinality(Behind(b, now, j)) /\ Behind(b, now, j) \in SUBSET Drains
  BY <1>1, IsSpread
<1> HIDE DEF c, s, b
<1>7. s[k] < c[k]
  <2> DEFINE P == Behind(a, has, k)  Q == Behind(b, now, k)
  <2>1. P \in SUBSET Drains /\ Q \in SUBSET (P \ {d}) /\ d \in P /\ P \ {d} \in SUBSET Drains
    BY <1>1, <1>4, <1>6
  <2> HIDE DEF P, Q
  <2>2. /\ Cardinality(P \ {d}) = Cardinality(P) - 1 /\ Cardinality(P) \in Nat
        /\ Cardinality(Q) \in Nat /\ Cardinality(Q) <= Cardinality(P \ {d})
    BY <2>1, Sizes
  <2> QED
    BY <1>1, <1>6, <2>2 DEF P, Q
<1>8. \A j \in Top : j < k => s[j] = c[j]
  BY <1>3, <1>6
<1>9. Before(c, s)
  BY <1>1, <1>7, <1>8 DEF Before
<1> QED
  BY <1>5, <1>9, Counted DEF c, s, b

\* What is listed of a message has attempts left.
LEMMA ListedOpen ==
  ASSUME Shape, NEW m \in Messages
  PROVE  /\ m \in Ids /\ m # None /\ m \notin Invites /\ rows[m] \in Rows /\ rows[m].attempts \in 0..MaxAttempts
         /\ Listed(m) \in [Drains -> SUBSET Open]
         /\ log.sends[m] \in Nat
<1>1. m \in Ids /\ m # None /\ m \notin Invites /\ NoEntry.id # m
  BY Names DEF Ids
<1>2. ASSUME NEW d \in Drains PROVE {e \in drains[d].list \cup {drains[d].row} : e.id = m} \in SUBSET Open
  BY <1>1, Moves DEF DrainStates
<1>3. rows[m] \in Rows /\ rows[m].attempts \in 0..MaxAttempts
  BY <1>1 DEF Shape, Rows
<1>4. log.sends[m] \in Nat
  BY DEF Shape
<1> QED
  BY <1>1, <1>2, <1>3, <1>4 DEF Listed

\* The same in the next state, whose shape is kept.
LEMMA ListedOpenNext ==
  ASSUME Shape, Shape', NEW m \in Messages
  PROVE  Listed(m)' \in [Drains -> SUBSET Open]
<1>1. NoEntry.id # m
  BY Names DEF Ids
<1>2. ASSUME NEW d \in Drains PROVE {e \in drains'[d].list \cup {drains'[d].row} : e.id = m} \in SUBSET Open
  <2>1. drains'[d] \in DrainStates
    BY DEF Shape
  <2> QED
    BY <1>1, <2>1 DEF DrainStates
<1> QED
  BY <1>2 DEF Listed

\* A step that does not try a message, and in which a drain lists of it only what its row
\* says.
LEMMA NotTried ==
  ASSUME Kept, Kept', NEW m \in Messages, Bounded(m), log'.sends[m] = log.sends[m],
         rows'[m].attempts = rows[m].attempts,
         rows'[m].status = "absent" => rows[m].status = "absent",
         \A d \in Drains : \A e \in Listed(m)'[d] : e \in Listed(m)[d] \/ e.attempts = rows[m].attempts,
         Sendable(m)' => Sendable(m), Tried(m)' => Tried(m)
  PROVE  Bounded(m)'
<1>1. rows[m].attempts \in 0..MaxAttempts /\ Listed(m) \in [Drains -> SUBSET Open] /\ log.sends[m] \in Nat
  BY ListedOpen DEF Kept
<1>2. Listed(m)' \in [Drains -> SUBSET Open]
  BY ListedOpenNext DEF Kept
<1>3. ASSUME rows[m].attempts < MaxAttempts
      PROVE  Passed(m) <= Passed(m)' /\ Passed(m) \in Nat /\ Passed(m)' \in Nat
  <2> DEFINE a == rows[m].attempts  has == Listed(m)  now == Listed(m)'
  <2>1. a \in Top
    BY <1>1, <1>3, Names DEF Top
  <2>2. \A d \in Drains : \A e \in now[d] : e \in has[d] \/ a <= e.attempts
    BY <1>1
  <2> HIDE DEF a, has, now
  <2>3. has \in [Drains -> SUBSET Open] /\ now \in [Drains -> SUBSET Open]
    BY <1>1, <1>2 DEF has, now
  <2>4. Cardinality(Earlier(SpreadOf(a, has))) <= Cardinality(Earlier(SpreadOf(a, now)))
    BY <2>1, <2>2, <2>3, Onward
  <2>5. Cardinality(Earlier(SpreadOf(a, has))) \in Nat /\ Cardinality(Earlier(SpreadOf(a, now))) \in Nat
    BY <2>1, <2>3, IsSpread, Counted
  <2>6. Passed(m) = Cardinality(Earlier(SpreadOf(a, has)))
    BY DEF Passed, a, has
  <2>7. Passed(m)' = Cardinality(Earlier(SpreadOf(a, now)))
    BY DEF Passed, a, now
  <2> QED
    BY <2>4, <2>5, <2>6, <2>7
<1> DEFINE P == Passed(m)  Q == Passed(m)'  S == log.sends[m]
<1>4. /\ log'.sends[m] = S /\ S \in Nat
      /\ Sendable(m)' => rows'[m].attempts < MaxAttempts /\ S <= P
      /\ Tried(m)' => rows'[m].attempts < MaxAttempts /\ S <= P + 1
  BY <1>1 DEF Bounded
<1>5. Sendable(m)' \/ Tried(m)' => P <= Q /\ P \in Nat /\ Q \in Nat
  BY <1>3, <1>4
<1>6. /\ Sendable(m)' => S <= Q
      /\ Tried(m)' => S <= Q + 1
  <2> HIDE DEF P, Q, S
  <2> QED
    BY <1>4, <1>5
<1>7. /\ rows'[m].status = "absent" => rows'[m].attempts = 0
      /\ S <= Cardinality(Spreads)
  BY DEF Bounded
<1> QED
  BY <1>4, <1>6, <1>7 DEF Bounded

\* A step of whoever stands outside a message leaves its bound.
LEMMA OutsideBounded ==
  ASSUME Kept, Kept', AllBounded, Outside PROVE AllBounded'
<1> SUFFICES ASSUME NEW m \in Messages PROVE Bounded(m)'
  BY DEF AllBounded
<1>1. m \in Ids /\ m \notin Invites /\ Bounded(m) /\ rows[m] \in Rows
  BY ListedOpen DEF AllBounded, Kept
<1>2. drains' = drains /\ log' = log
  BY OutsideRows DEF Kept, Same
<1>3. \/ rows'[m] = rows[m]
      \/ rows[m].status = "absent" /\ rows'[m] = Fresh
      \/ Exists(m) /\ \E status \in {"sent", "failed"} : rows'[m] = [rows[m] EXCEPT !.status = status]
      \/ rows[m].status = "pending" /\ rows'[m] = [rows[m] EXCEPT !.due = TRUE]
  BY <1>1, OutsideRows DEF Kept
<1>4. /\ rows'[m].attempts = rows[m].attempts
      /\ rows'[m].status = "absent" => rows[m].status = "absent"
      /\ rows'[m].status = "pending" => rows[m].status \in {"absent", "pending"}
  <2>1. CASE rows'[m] = rows[m]
    BY <2>1
  <2>2. CASE rows[m].status = "absent" /\ rows'[m] = Fresh
    BY <1>1, <2>2, FreshRows DEF Bounded
  <2>3. CASE \E status \in {"sent", "failed"} : rows'[m] = [rows[m] EXCEPT !.status = status]
    BY <1>1, <2>3 DEF Rows
  <2>4. CASE rows[m].status = "pending" /\ rows'[m] = [rows[m] EXCEPT !.due = TRUE]
    BY <1>1, <2>4 DEF Rows
  <2> QED
    BY <1>3, <2>1, <2>2, <2>3, <2>4
<1>5. Listed(m)' = Listed(m) /\ (Tried(m)' <=> Tried(m)) /\ (Sendable(m)' => Sendable(m))
  BY <1>2, <1>4 DEF Listed, Tried, Sendable, Id
<1> QED
  BY <1>1, <1>2, <1>4, <1>5, NotTried

\* A step of a drain that is not at the message leaves it as it was.
LEMMA ElsewhereBounded ==
  ASSUME Kept, Kept', NEW m \in Messages, Bounded(m), NEW d \in Drains, Id(d) # m, drains'[d].row.id # m,
         \A f \in Drains : f # d => drains'[f] = drains[f],
         rows'[m] = rows[m], log'.sends[m] = log.sends[m],
         \A e \in drains'[d].list : e.id = m => e \in drains[d].list \/ e.attempts = rows[m].attempts
  PROVE  Bounded(m)'
<1>1. \A f \in Drains : \A e \in Listed(m)'[f] : e \in Listed(m)[f] \/ e.attempts = rows[m].attempts
  <2> SUFFICES ASSUME NEW f \in Drains, NEW e \in drains'[f].list \cup {drains'[f].row}, e.id = m
               PROVE  e \in drains[f].list \cup {drains[f].row} \/ e.attempts = rows[m].attempts
    BY DEF Listed
  <2>1. CASE f = d
    BY <2>1
  <2>2. CASE f # d
    BY <2>2
  <2> QED
    BY <2>1, <2>2
<1>2. \A f \in Drains : drains'[f].row.id = m => Id(f) = m /\ drains'[f].at = drains[f].at
  BY DEF Id
<1>3. (Sendable(m)' => Sendable(m)) /\ (Tried(m)' => Tried(m))
  BY <1>2 DEF Sendable, Tried, Id
<1> QED
  BY <1>1, <1>3, NotTried

\* A drain is done with its row, which it did not try again.
LEMMA LeavesBounded ==
  ASSUME Kept, Kept', AllBounded, NEW d \in Drains, drains[d].at # "next", Resume(d), UNCHANGED log,
         NEW i, i = Id(d),
         \A j \in Ids : j # i => rows'[j] = rows[j],
         i \in Messages =>
           /\ rows'[i].attempts = rows[i].attempts
           /\ rows'[i].status = "absent" => rows[i].status = "absent"
           /\ rows'[i].status = "pending" => drains[d].at = "claimed"
  PROVE  AllBounded'
<1> SUFFICES ASSUME NEW m \in Messages PROVE Bounded(m)'
  BY DEF AllBounded
<1>1. m \in Ids /\ m # None /\ Bounded(m)
  BY ListedOpen DEF AllBounded, Kept
<1>2. /\ drains'[d].row = NoEntry /\ NoEntry.id = None /\ drains'[d].list = drains[d].list
      /\ drains'[d].at = "next"
      /\ \A e \in Drains : e # d => drains'[e] = drains[e] /\ Id(e) # i
  BY Moves, LockHeld, Names DEF Kept, Holding
<1>3. CASE m # i
  BY <1>1, <1>2, <1>3, ElsewhereBounded
<1>4. CASE m = i
  <2>1. \A f \in Drains : drains'[f].row.id # m
    BY <1>1, <1>2, <1>4 DEF Id
  <2>2. ~Tried(m)'
    BY <2>1 DEF Tried, Id
  <2>3. Sendable(m)' => Sendable(m)
    BY <1>4, <2>1 DEF Sendable, Id
  <2>4. \A f \in Drains : Listed(m)'[f] \subseteq Listed(m)[f]
    BY <1>1, <1>2 DEF Listed
  <2> QED
    BY <1>1, <1>4, <2>2, <2>3, <2>4, NotTried
<1> QED
  BY <1>3, <1>4

\* A drain goes on with its row, and sends it if it claimed it.
LEMMA GoesOnBounded ==
  ASSUME Kept, Kept', AllBounded, NEW d \in Drains, drains[d].at # "next", NEW at \in DrainSteps, Goto(d, at),
         at \notin {"next", "claimed"}, NEW i, i = Id(d),
         \A j \in Ids : j # i => rows'[j] = rows[j],
         \A m \in Messages : m # i => log'.sends[m] = log.sends[m],
         i \in Messages =>
           /\ rows'[i].status \notin {"absent", "pending"} /\ rows'[i].attempts = rows[i].attempts
           /\ log'.sends[i] = IF drains[d].at = "claimed" THEN log.sends[i] + 1 ELSE log.sends[i]
  PROVE  AllBounded'
<1> SUFFICES ASSUME NEW m \in Messages PROVE Bounded(m)'
  BY DEF AllBounded
<1>1. m \in Ids /\ m # None /\ Bounded(m) /\ m \notin Invites /\ log.sends[m] \in Nat
      /\ rows[m].attempts \in 0..MaxAttempts /\ Listed(m) \in [Drains -> SUBSET Open]
  BY ListedOpen DEF AllBounded, Kept
<1>2. /\ drains'[d].row = drains[d].row /\ drains'[d].list = drains[d].list /\ drains'[d].at = at
      /\ \A e \in Drains : e # d => drains'[e] = drains[e] /\ Id(e) # i
  BY Moves, LockHeld DEF Kept, Holding
<1>3. CASE m # i
  BY <1>1, <1>2, <1>3, ElsewhereBounded DEF Id
<1>4. ASSUME m = i
      PROVE  /\ ~Sendable(m)' /\ Listed(m)' = Listed(m) /\ rows'[m].attempts = rows[m].attempts
             /\ drains[d].at \in {"claimed", "accepted", "recorded", "failed"}
  <2>1. \A f \in Drains : drains'[f].row.id = m => f = d
    BY <1>2, <1>4 DEF Id
  <2>2. ~Sendable(m)'
    BY <1>2, <1>4, <2>1 DEF Sendable, Id
  <2>3. Listed(m)' = Listed(m)
    BY <1>2 DEF Listed
  <2>4. drains[d].at # "sending"
    BY <1>1, <1>4, LockHeld DEF IsInvite
  <2>5. drains[d].at \in DrainSteps
    BY Moves DEF Kept, DrainStates
  <2> QED
    BY <1>4, <2>2, <2>3, <2>4, <2>5 DEF DrainSteps
<1>5. CASE m = i /\ drains[d].at # "claimed"
  <2>1. Tried(m)
    BY <1>4, <1>5 DEF Tried
  <2> QED
    BY <1>1, <1>4, <1>5, <2>1, NotTried
<1>6. CASE m = i /\ drains[d].at = "claimed"
  <2>1. Sendable(m)
    BY <1>6 DEF Sendable
  <2>2. log.sends[m] <= Passed(m) /\ rows[m].attempts < MaxAttempts
    BY <1>1, <2>1 DEF Bounded
  <2>3. rows[m].attempts \in Top
    BY <1>1, <2>2, Names DEF Top
  <2>4. /\ Passed(m) + 1 <= Cardinality(Spreads) /\ Passed(m) \in Nat /\ Cardinality(Spreads) \in Nat
    BY <1>1, <2>3, IsSpread, Counted DEF Passed
  <2>5. Passed(m)' = Passed(m) /\ log'.sends[m] = log.sends[m] + 1
    BY <1>4, <1>6 DEF Passed
  <2>6. log'.sends[m] <= Cardinality(Spreads) /\ log'.sends[m] <= Passed(m)' + 1
    BY <1>1, <2>2, <2>4, <2>5
  <2>7. rows'[m].status # "absent" /\ ~Sendable(m)' /\ rows'[m].attempts < MaxAttempts
    BY <1>4, <1>6, <2>2
  <2> QED
    BY <2>6, <2>7 DEF Bounded
<1> QED
  BY <1>3, <1>5, <1>6

LEMMA ClaimBounded ==
  ASSUME Kept, Kept', AllBounded, NEW d \in Drains, NEW e \in drains[d].list, Claim(d, e)
  PROVE  AllBounded'
<1> SUFFICES ASSUME NEW m \in Messages PROVE Bounded(m)'
  BY DEF AllBounded
<1>1. m \in Ids /\ m # None /\ Bounded(m) /\ rows \in [Ids -> Rows]
  BY ListedOpen DEF AllBounded, Kept, Shape
<1>2. /\ drains[d] \in DrainStates /\ e.id \in Ids /\ drains[d].at = "next" /\ log' = log
      /\ \A c \in Drains : c # d => drains'[c] = drains[c]
      /\ drains[d].row.id = None
  BY Moves, Names DEF Kept, Claim, Shape, DrainStates, Placed, Open, Entries
<1>3. CASE Claimable(e.id)
  <2>1. drains'[d] = [list |-> drains[d].list \ {e}, at |-> "claimed", row |-> e]
        /\ rows[e.id].status = "pending"
    BY <1>3 DEF Claim, Claimable, Kept, Shape
  <2>2. \A j \in Ids : j # e.id => rows'[j] = rows[j]
    BY <1>1, <1>2, <1>3 DEF Claim
  <2>3. rows[e.id] \in Rows /\ rows'[e.id].status = "sent" /\ rows'[e.id].attempts = rows[e.id].attempts
    BY <1>1, <1>2, <1>3 DEF Claim, Rows
  <2>4. CASE m # e.id
    BY <1>1, <1>2, <2>1, <2>2, <2>4, ElsewhereBounded DEF Id
  <2>5. CASE m = e.id
    <3>1. \A f \in Drains : Listed(m)'[f] \subseteq Listed(m)[f]
      <4> SUFFICES ASSUME NEW f \in Drains, NEW x \in drains'[f].list \cup {drains'[f].row}, x.id = m
                   PROVE  x \in drains[f].list \cup {drains[f].row}
        BY DEF Listed
      <4>1. CASE f = d
        BY <2>1, <4>1
      <4>2. CASE f # d
        BY <1>2, <4>2
      <4> QED
        BY <4>1, <4>2
    <3>2. Sendable(m)
      BY <2>1, <2>5 DEF Sendable
    <3>3. Tried(m)' => Tried(m)
      <4> SUFFICES ASSUME NEW f \in Drains, drains'[f].row.id = m,
                          drains'[f].at \in {"accepted", "recorded", "failed"}
                   PROVE  Tried(m)
        BY DEF Tried, Id
      <4>1. f # d
        BY <2>1
      <4> QED
        BY <1>2, <4>1 DEF Tried, Id
    <3> QED
      BY <1>1, <1>2, <2>3, <2>5, <3>1, <3>2, <3>3, NotTried
  <2> QED
    BY <2>4, <2>5
<1>4. CASE ~Claimable(e.id)
  <2>1. rows' = rows /\ drains'[d].row = drains[d].row /\ drains'[d].list = drains[d].list \ {e}
    BY <1>4 DEF Claim, Kept, Shape, DrainStates
  <2> QED
    BY <1>1, <1>2, <2>1, ElsewhereBounded DEF Id
<1> QED
  BY <1>3, <1>4

LEMMA ListBounded ==
  ASSUME Kept, Kept', AllBounded, NEW d \in Drains, List(d) PROVE AllBounded'
<1> SUFFICES ASSUME NEW m \in Messages PROVE Bounded(m)'
  BY DEF AllBounded
<1>1. m \in Ids /\ m # None /\ Bounded(m)
  BY ListedOpen DEF AllBounded, Kept
<1>2. /\ rows' = rows /\ log' = log /\ \A f \in Drains : f # d => drains'[f] = drains[f]
      /\ drains[d].row.id = None /\ drains'[d].row = drains[d].row
      /\ drains'[d].list = {[id |-> i, attempts |-> rows[i].attempts] : i \in DueRows}
  BY Names DEF List, Kept, Shape, Resting, DrainStates
<1>3. \A e \in drains'[d].list : e.id = m => e.attempts = rows[m].attempts
  BY <1>2
<1> QED
  BY <1>1, <1>2, <1>3, ElsewhereBounded DEF Id

LEMMA CrashBounded ==
  ASSUME Kept, Kept', AllBounded, NEW d \in Drains, Crash(d) PROVE AllBounded'
<1> SUFFICES ASSUME NEW m \in Messages PROVE Bounded(m)'
  BY DEF AllBounded
<1>1. m \in Ids /\ m # None /\ Bounded(m)
  BY ListedOpen DEF AllBounded, Kept
<1>2. /\ rows' = rows /\ log' = log /\ \A f \in Drains : f # d => drains'[f] = drains[f]
      /\ drains'[d] = Resting /\ Resting.row.id = None /\ Resting.at = "next" /\ Resting.list = {}
  BY Names DEF Crash, Kept, Shape, Resting
<1>3. \A f \in Drains : drains'[f].row.id = m => f # d /\ Id(f) = m /\ drains'[f].at = drains[f].at
  BY <1>1, <1>2 DEF Id
<1>4. (Sendable(m)' => Sendable(m)) /\ (Tried(m)' => Tried(m))
  BY <1>2, <1>3 DEF Sendable, Tried, Id
<1>5. \A f \in Drains : Listed(m)'[f] \subseteq Listed(m)[f]
  <2> SUFFICES ASSUME NEW f \in Drains, NEW x \in drains'[f].list \cup {drains'[f].row}, x.id = m
               PROVE  x \in drains[f].list \cup {drains[f].row}
    BY DEF Listed
  <2>1. f # d
    BY <1>1, <1>2
  <2> QED
    BY <1>2, <2>1
<1> QED
  BY <1>1, <1>2, <1>4, <1>5, NotTried

\* The sends that the history counts.
LEMMA SendsFor ==
  ASSUME Kept, NEW i
  PROVE  /\ \A m \in Messages : m # i => Known(i).sends[m] = log.sends[m] /\ Unknown(i).sends[m] = log.sends[m]
         /\ i \in Messages => Known(i).sends[i] = log.sends[i] + 1 /\ Unknown(i).sends[i] = log.sends[i] + 1
         /\ Forgotten(i).sends = log.sends
<1> DEFINE S == log.sends  K == log.known
<1>1. log = [sends |-> S, known |-> K] /\ S \in [Messages -> Nat]
  BY DEF Kept, Shape
<1> HIDE DEF S, K
<1>2. Forgotten(i).sends = S /\ log.sends = S
  BY <1>1 DEF Forgotten
<1>3. Unknown(i).sends = [S EXCEPT ![i] = @ + 1]
  BY <1>1 DEF Unknown
<1>4. i \in Messages => Known(i).sends = [S EXCEPT ![i] = @ + 1]
  BY <1>1 DEF Known
<1>5. i \notin Messages => Known(i) = log
  BY DEF Known
<1> QED
  BY <1>1, <1>2, <1>3, <1>4, <1>5

LEMMA HoldBounded ==
  ASSUME Kept, Kept', AllBounded, NEW d \in Drains, Hold(d) PROVE AllBounded'
<1> PICK i : i = Id(d)
  OBVIOUS
<1>1. /\ drains[d].at = "claimed" /\ Resume(d) /\ rows' = Updated(i, Returned(i)) /\ log' = log
  BY DEF Hold, GivenBack, Returned
<1>2. i \in Ids /\ rows \in [Ids -> Rows] /\ rows[i] \in Rows
  BY <1>1, LockHeld DEF Kept, Shape
<1>3. \A j \in Ids : j # i => rows'[j] = rows[j]
  BY <1>1, <1>2 DEF Updated
<1>4. Returned(i).attempts = rows[i].attempts /\ Returned(i).status = "pending"
  BY <1>2 DEF Returned, Rows
<1>5. /\ rows'[i].attempts = rows[i].attempts
      /\ rows'[i].status = "absent" => rows[i].status = "absent"
  BY <1>1, <1>2, <1>4 DEF Updated
<1> QED
  BY <1>1, <1>3, <1>5, LeavesBounded

LEMMA CountBounded ==
  ASSUME Kept, Kept', AllBounded, NEW d \in Drains, Count(d) PROVE AllBounded'
<1>1. drains[d].at = "recorded" /\ Resume(d) /\ UNCHANGED <<rows, log>>
  BY DEF Count
<1>2. rows[Id(d)].status # "pending"
  BY <1>1, LockHeld DEF Holding
<1> PICK i : i = Id(d)
  OBVIOUS
<1> QED
  BY <1>1, <1>2, LeavesBounded

\* The steps that are about an invite.
LEMMA InvitesBounded ==
  ASSUME Kept, Kept', AllBounded, NEW d \in Drains,
         OpenInvite(d) \/ SendInvite(d) \/ RecordInviteFails(d)
  PROVE  AllBounded'
<1> PICK i : i = Id(d)
  OBVIOUS
<1>1. drains[d].at # "next" /\ i \in Ids /\ i \notin Messages
  BY LockHeld, Names DEF OpenInvite, SendInvite, RecordInviteFails, IsInvite
<1>2. \A j \in Ids : j # i => rows'[j] = rows[j]
  <2>1. UNCHANGED rows \/ rows' = Updated(i, Opened(i))
    BY DEF OpenInvite, SendInvite, RecordInviteFails, Opened
  <2> QED
    BY <1>1, <2>1 DEF Updated, Kept, Shape
<1>3. log' = log
  BY <1>1 DEF OpenInvite, SendInvite, RecordInviteFails, Known
<1>4. Resume(d) \/ \E at \in {"sending", "accepted"} : Goto(d, at)
  BY DEF OpenInvite, SendInvite, RecordInviteFails
<1>5. CASE Resume(d)
  BY <1>1, <1>2, <1>3, <1>5, LeavesBounded
<1>6. ASSUME NEW at \in {"sending", "accepted"}, Goto(d, at) PROVE AllBounded'
  <2>1. at \in DrainSteps /\ at \notin {"next", "claimed"}
    BY DEF DrainSteps
  <2> QED
    BY <1>1, <1>2, <1>3, <1>6, <2>1, GoesOnBounded
<1> QED
  BY <1>4, <1>5, <1>6

LEMMA SendBounded ==
  ASSUME Kept, Kept', AllBounded, NEW d \in Drains, Send(d) PROVE AllBounded'
<1> PICK i : i = Id(d)
  OBVIOUS
<1>1. drains[d].at = "claimed" /\ rows' = rows /\ i \in Ids
  BY LockHeld DEF Send
<1>2. i \in Messages => rows'[i].status \notin {"absent", "pending"}
  BY <1>1, LockHeld, Names DEF Holding, IsInvite, Exists
<1>3. PICK at \in {"accepted", "failed"} : Goto(d, at) /\ (log' = Known(i) \/ log' = Unknown(i))
  BY DEF Send
<1>4. /\ \A m \in Messages : m # i => log'.sends[m] = log.sends[m]
      /\ i \in Messages => log'.sends[i] = log.sends[i] + 1
  BY <1>3, SendsFor
<1>5. at \in DrainSteps /\ at \notin {"next", "claimed"}
  BY DEF DrainSteps
<1> QED
  BY <1>1, <1>2, <1>3, <1>4, <1>5, GoesOnBounded

LEMMA WrittenBounded ==
  ASSUME Kept, Kept', AllBounded, NEW d \in Drains, Record(d) \/ WriteFails(d) PROVE AllBounded'
<1> PICK i : i = Id(d)
  OBVIOUS
<1>1. /\ drains[d].at \in {"accepted", "recorded"} /\ i \in Ids /\ rows \in [Ids -> Rows]
      /\ i \in Messages => rows[i].status \notin {"absent", "pending"}
  BY LockHeld, Names DEF Record, WriteFails, Kept, Shape, Holding, IsInvite, Exists
<1>2. rows' = rows \/ rows' = Updated(i, Noted(i))
  BY DEF Record, WriteFails, Noted
<1>3. (\A j \in Ids : j # i => rows'[j] = rows[j]) /\ (rows'[i] = rows[i] \/ rows'[i] = Noted(i))
  BY <1>1, <1>2 DEF Updated
<1>4. rows'[i].status = rows[i].status /\ rows'[i].attempts = rows[i].attempts
  BY <1>1, <1>3, Writes DEF Kept
<1>5. log'.sends = log.sends
  BY SendsFor DEF Record, WriteFails
<1>6. PICK at \in {"recorded", "failed"} : Goto(d, at)
  BY DEF Record, WriteFails
<1>7. at \in DrainSteps /\ at \notin {"next", "claimed"}
  BY DEF DrainSteps
<1> QED
  BY <1>1, <1>3, <1>4, <1>5, <1>6, <1>7, GoesOnBounded

LEMMA RetryBounded ==
  ASSUME Kept, Kept', AllBounded, Singles, NEW d \in Drains, Retry(d) PROVE AllBounded'
<1> SUFFICES ASSUME NEW m \in Messages PROVE Bounded(m)'
  BY DEF AllBounded
<1> DEFINE e == drains[d].row
           b == e.attempts + 1
<1>1. /\ drains[d].at = "failed" /\ Resume(d) /\ log' = log /\ rows' = Updated(Id(d), Retried(Id(d), b))
  BY DEF Retry, Retried, Attempts
<1>2. /\ m \in Ids /\ m # None /\ Bounded(m) /\ rows[m].attempts \in 0..MaxAttempts
      /\ Listed(m) \in [Drains -> SUBSET Open] /\ Listed(m)' \in [Drains -> SUBSET Open]
      /\ log.sends[m] \in Nat /\ rows[m] \in Rows
  BY ListedOpen, ListedOpenNext DEF AllBounded, Kept
<1>3. /\ e \in Open /\ b \in 0..MaxAttempts /\ Id(d) \in Ids /\ rows \in [Ids -> Rows] /\ e.attempts \in Nat
  BY <1>1, AtRow, Names DEF Kept, Shape
<1>4. /\ drains'[d].row = NoEntry /\ NoEntry.id = None /\ drains'[d].list = drains[d].list
      /\ \A f \in Drains : f # d => drains'[f] = drains[f] /\ Id(f) # Id(d)
  BY <1>1, Moves, LockHeld, Names DEF Kept, Holding
<1>5. CASE m # Id(d)
  <2>1. rows'[m] = rows[m]
    BY <1>1, <1>2, <1>3, <1>5 DEF Updated
  <2> QED
    BY <1>1, <1>2, <1>4, <1>5, <2>1, ElsewhereBounded
<1>6. CASE m = Id(d)
  <2> DEFINE a == rows[m].attempts
             has == Listed(m)
             now == Listed(m)'
  <2>1. Tried(m)
    BY <1>1, <1>6 DEF Tried
  <2>2. a \in Top /\ log.sends[m] <= Passed(m) + 1 /\ log.sends[m] <= Cardinality(Spreads)
    BY <1>2, <2>1, Names DEF Bounded, Top
  <2>3. Exists(m)
    BY <1>1, <1>2, <1>6, LockHeld, ListedOpen DEF Holding, IsInvite, Kept
  <2>4. rows'[m] = Retried(m, b)
    BY <1>1, <1>2, <1>3, <1>6, <2>3 DEF Updated
  <2>5. rows'[m].attempts = b /\ rows'[m].status = IF b >= MaxAttempts THEN "failed" ELSE "pending"
    <3> HIDE DEF b
    <3> QED
      BY <1>2, <2>4 DEF Retried, Rows
  <2>6. ~Tried(m)'
    BY <1>2, <1>4, <1>6 DEF Tried, Id
  <2>7. \A f \in Drains : ~(drains'[f].row.id = m)
    BY <1>2, <1>4, <1>6 DEF Id
  <2>8. Sendable(m)' => b < MaxAttempts
    BY <1>3, <2>5, <2>7, Names DEF Sendable, Id
  <2>9. has[d] = {e} /\ now[d] = {} /\ \A f \in Drains : f # d => now[f] = has[f]
    <3>1. e.id = m /\ e \notin drains[d].list /\ \A x \in drains[d].list : x.id # m
      BY <1>6 DEF Singles, Single, Id
    <3> QED
      BY <1>2, <1>4, <3>1 DEF Listed
  <2>10. Passed(m) = Cardinality(Earlier(SpreadOf(a, has)))
         /\ Passed(m)' = Cardinality(Earlier(SpreadOf(b, now)))
    BY <2>5 DEF Passed
  <2>11. Passed(m) \in Nat
    BY <1>2, <2>2, IsSpread, Counted DEF Passed
  <2>12. ASSUME b < MaxAttempts PROVE log.sends[m] <= Passed(m)'
    <3>1. b \in Top
      BY <1>3, <2>12, Names DEF Top
    <3> HIDE DEF has, now, a
    <3>2. has \in [Drains -> SUBSET Open] /\ now \in [Drains -> SUBSET Open] /\ e \in has[d]
      BY <1>2, <2>9 DEF has, now
    <3> HIDE DEF e
    <3>3. Cardinality(Earlier(SpreadOf(a, has))) + 1 <= Cardinality(Earlier(SpreadOf(b, now)))
      BY <2>2, <2>9, <3>1, <3>2, Forward
    <3>4. Passed(m)' \in Nat
      BY <2>10, <3>1, <3>2, IsSpread, Counted
    <3> QED
      BY <1>2, <2>2, <2>10, <2>11, <3>3, <3>4
  <2> QED
    BY <1>1, <2>2, <2>5, <2>6, <2>8, <2>12 DEF Bounded
<1> QED
  BY <1>5, <1>6

\* A drain keeps knowing of a row once.
LEMMA SinglesKept ==
  ASSUME Kept, Singles, [Next]_vars PROVE Singles'
<1>1. drains \in [Drains -> DrainStates] /\ NoEntry \notin Open /\ NoEntry.id \notin Ids
      /\ \A e \in Open : e.id \in Ids
  BY Names DEF Kept, Shape
<1>2. CASE UNCHANGED drains
  BY <1>2 DEF Singles, Single
<1>3. ASSUME NEW d \in Drains, Drain(d) \/ Crash(d) PROVE Singles'
  <2>1. drains[d] \in DrainStates /\ Single(d) /\ drains[d].list \in SUBSET Open
    BY <1>1 DEF Singles, DrainStates
  <2>2. (\A f \in Drains : f # d => drains'[f] = drains[f]) => (Single(d)' => Singles')
    BY DEF Singles, Single
  <2>3. CASE List(d)
    <3>1. /\ drains'[d].list = {[id |-> i, attempts |-> rows[i].attempts] : i \in DueRows}
          /\ drains'[d].row = NoEntry /\ \A f \in Drains : f # d => drains'[f] = drains[f]
      BY <1>1, <2>1, <2>3 DEF List, Resting, DrainStates
    <3>2. \A e \in drains'[d].list : e.id \in Ids
      BY <3>1 DEF DueRows
    <3> QED
      BY <1>1, <2>2, <3>1, <3>2 DEF Single
  <2>4. ASSUME NEW e \in drains[d].list, Claim(d, e) PROVE Singles'
    <3>1. drains'[d].list = drains[d].list \ {e} /\ drains'[d].row \in {e, drains[d].row}
          /\ \A f \in Drains : f # d => drains'[f] = drains[f]
      BY <1>1, <2>1, <2>4 DEF Claim, DrainStates
    <3>2. Single(d)'
      BY <2>1, <3>1 DEF Single
    <3> QED
      BY <2>2, <3>1, <3>2
  <2>5. ASSUME NEW at, Goto(d, at) PROVE Singles'
    <3>1. drains'[d].list = drains[d].list /\ drains'[d].row = drains[d].row
          /\ \A f \in Drains : f # d => drains'[f] = drains[f]
      BY <1>1, <2>1, <2>5 DEF Goto, DrainStates
    <3>2. Single(d)'
      BY <2>1, <3>1 DEF Single
    <3> QED
      BY <2>2, <3>1, <3>2
  <2>6. CASE Resume(d)
    <3>1. drains'[d].list = drains[d].list /\ drains'[d].row = NoEntry
          /\ \A f \in Drains : f # d => drains'[f] = drains[f]
      BY <1>1, <2>1, <2>6 DEF Resume, DrainStates
    <3>2. Single(d)'
      BY <1>1, <2>1, <3>1 DEF Single
    <3> QED
      BY <2>2, <3>1, <3>2
  <2>7. CASE Crash(d)
    <3>1. drains'[d].list = {} /\ \A f \in Drains : f # d => drains'[f] = drains[f]
      BY <1>1, <2>7 DEF Crash, Resting
    <3>2. Single(d)'
      BY <3>1 DEF Single
    <3> QED
      BY <2>2, <3>1, <3>2
  <2>8. \/ Crash(d) \/ List(d) \/ (\E e \in drains[d].list : Claim(d, e)) \/ Resume(d)
        \/ \E at \in DrainSteps : Goto(d, at)
    BY <1>3 DEF Drain, Hold, OpenInvite, Send, SendInvite, Record, RecordInviteFails, Count, WriteFails,
                Retry, DrainSteps
  <2> QED
    BY <2>3, <2>4, <2>5, <2>6, <2>7, <2>8
<1>4. CASE Outside
  BY <1>2, <1>4, OutsideRows DEF Kept, Same
<1>5. CASE UNCHANGED vars
  BY <1>2, <1>5 DEF vars
<1> QED
  BY <1>3, <1>4, <1>5 DEF Next, Outside, SomeDrain

LEMMA StepBounded ==
  ASSUME Kept, AllBounded, Singles, [Next]_vars PROVE AllBounded'
<1>0. Kept'
  BY StepKept
<1>1. ASSUME NEW d \in Drains, Drain(d) PROVE AllBounded'
  BY <1>0, <1>1, ClaimBounded, ListBounded, HoldBounded, InvitesBounded, SendBounded, WrittenBounded,
     CountBounded, RetryBounded DEF Drain
<1>2. CASE UNCHANGED vars
  BY <1>2 DEF vars, AllBounded, Bounded, Passed, Listed, Sendable, Tried, Id
<1> QED
  BY <1>0, <1>1, <1>2, OutsideBounded, CrashBounded DEF Next, Outside, SomeDrain

\* Always: a message is sent a bounded number of times, though drains count the attempts
\* from what they listed, and set each other's count back (retryOrFailMessagingOutbound
\* and listDueMessagingOutbound).
THEOREM SendsAreBounded == Spec => []SendsBounded
<1>1. Init => Kept /\ AllBounded /\ Singles
  <2> SUFFICES ASSUME Init PROVE AllBounded /\ Singles
    BY InitKept
  <2>1. \A d \in Drains : drains[d].at = "next" /\ drains[d].list = {}
    BY DEF Init, Resting
  <2>2. Singles
    BY <2>1 DEF Singles, Single
  <2>3. ASSUME NEW m \in Messages PROVE Bounded(m)
    <3>1. log.sends[m] = 0 /\ rows[m] = Absent /\ m \in Ids /\ Absent.attempts = 0
      BY DEF Init, Zero, Ids, Absent
    <3>2. 0 \in Top /\ 0 < MaxAttempts
      BY Names DEF Top
    <3>3. Listed(m) \in [Drains -> SUBSET Open]
      BY InitKept, ListedOpen DEF Kept
    <3>4. Passed(m) \in Nat /\ Cardinality(Spreads) \in Nat
      BY <3>1, <3>2, <3>3, IsSpread, Counted DEF Passed
    <3>5. ~Tried(m)
      BY <2>1 DEF Tried
    <3> QED
      BY <3>1, <3>2, <3>4, <3>5 DEF Bounded
  <2> QED
    BY <2>2, <2>3 DEF AllBounded
<1>2. Kept /\ AllBounded /\ Singles /\ [Next]_vars => (Kept /\ AllBounded /\ Singles)'
  BY StepKept, StepBounded, SinglesKept
<1>3. AllBounded => SendsBounded
  BY DEF AllBounded, Bounded, SendsBounded
<1> QED
  BY <1>1, <1>2, <1>3, PTL DEF Spec


=============================================================================
