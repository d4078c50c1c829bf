--------------------------- MODULE MessagingOutbox ---------------------------
(***************************************************************************)
(* The outbox of messages to an owner's chat outside the application.      *)
(* What a run said is mirrored into rows; jobs drain the rows, several at  *)
(* once, and send each through the provider, which may refuse, or accept   *)
(* and lose its answer.  One kind of row, the invite to connect two bots,  *)
(* must not be repeated and must not be sent once the connection was       *)
(* revoked: it is sent while the connection's row is locked.               *)
(*                                                                         *)
(* Left out: groups and their peers, the jobs that start a drain (the      *)
(* reconciler starts one while a row is due), what is said, confirmations. *)
(* A drain takes the rows it listed in any order.                          *)
(***************************************************************************)
EXTENDS Naturals, FiniteSets

CONSTANTS
  Messages,     \* what runs said to the owner
  Drains,
  Cap,          \* MESSAGING_DM_OUTBOUND_CAP
  MaxAttempts,  \* MESSAGING_OUTBOUND_MAX_ATTEMPTS
  MaxCycles,    \* bound on the invites
  MaxCrashes,   \* bound on the drains that die
  None

ASSUME NamesAssumption == None \notin Messages \cup Drains \cup Nat /\ Messages \cap Nat = {}
ASSUME DrainsAssumption == IsFiniteSet(Drains)
ASSUME BoundsAssumption ==
  {Cap, MaxAttempts} \subseteq Nat \ {0} /\ {MaxCycles, MaxCrashes} \subseteq Nat

VARIABLES
  rows,
  connection, \* between the two bots
  cycle,      \* the last invite
  drains,
  lock,       \* the drain that has locked the connection
  counter,    \* outboundSinceInbound
  crashes,
  log         \* history, for the properties: the calls of the provider and their outcomes

vars == <<rows, connection, cycle, drains, lock, counter, crashes, log>>

Invites == 1..MaxCycles
Ids == Messages \cup Invites
Statuses == {"absent", "pending", "sent", "failed"}
Rows == [status : Statuses, attempts : 0..MaxAttempts, due : BOOLEAN, handle : BOOLEAN]
Connections == {"none", "pending", "approved", "declined", "revoked"}
Entries == [id : Ids, attempts : 0..MaxAttempts]
DrainSteps == {"next", "claimed", "sending", "accepted", "recorded", "failed"}
NoEntry == [id |-> None, attempts |-> 0]
Resting == [list |-> {}, at |-> "next", row |-> NoEntry]

Absent == [status |-> "absent", attempts |-> 0, due |-> TRUE, handle |-> FALSE]
Fresh == [Absent EXCEPT !.status = "pending"]
Exists(i) == rows[i].status # "absent"

\* Mutant: the row is written although it was deleted.
Restored(i, row) == [rows EXCEPT ![i] = row]

\* An update of a row that has been deleted changes nothing.
Updated(i, row) == IF Exists(i) THEN [rows EXCEPT ![i] = row] ELSE rows

Id(d) == drains[d].row.id
IsInvite(d) == Id(d) \in Invites

\* The drain goes on with the next row of its list.
Resume(d) == drains' = [drains EXCEPT ![d].at = "next", ![d].row = NoEntry]
Goto(d, step) == drains' = [drains EXCEPT ![d].at = step]

-----------------------------------------------------------------------------
(* Rows and the connection.                                                *)

\* What a run said gets one row, however often the run is mirrored.
Mirror(m) ==
  /\ ~Exists(m)
  /\ rows' = [rows EXCEPT ![m] = Fresh]
  /\ UNCHANGED <<connection, cycle, drains, lock, counter, crashes, log>>

\* A new cycle replaces the row of the last invite.
Connect ==
  /\ connection \in {"none", "declined", "revoked"} /\ lock = None /\ cycle < MaxCycles
  /\ connection' = "pending" /\ cycle' = cycle + 1
  /\ rows' = [i \in Ids |-> IF i = cycle + 1 THEN Fresh
                            ELSE IF i \in Invites THEN Absent ELSE rows[i]]
  /\ UNCHANGED <<drains, lock, counter, crashes, log>>

Answer(status) ==
  /\ connection = "pending" /\ lock = None
  /\ connection' = status
  /\ UNCHANGED <<rows, cycle, drains, lock, counter, crashes, log>>

\* Mutant: the connection is revoked although a drain has locked it.
Unguarded == TRUE

Unlocked == lock = None

\* Revoking also deletes the invite, unless it was sent.
Revoke ==
  /\ connection \in {"pending", "approved", "declined"} /\ Unlocked
  /\ connection' = "revoked"
  /\ rows' = [i \in Ids |->
       IF /\ i = cycle
          /\ rows[i].status = "pending" \/ (rows[i].status = "sent" /\ ~rows[i].handle)
       THEN Absent ELSE rows[i]]
  /\ UNCHANGED <<cycle, drains, lock, counter, crashes, log>>

\* The owner writes.
Inbound ==
  /\ counter' = 0
  /\ UNCHANGED <<rows, connection, cycle, drains, lock, crashes, log>>

\* The provider reports what became of a message.
Webhook(i, status) ==
  /\ Exists(i) /\ rows[i].handle
  /\ rows' = [rows EXCEPT ![i].status = status]
  /\ UNCHANGED <<connection, cycle, drains, lock, counter, crashes, log>>

\* The time of the next attempt comes.
Due(i) ==
  /\ rows[i].status = "pending" /\ ~rows[i].due
  /\ rows' = [rows EXCEPT ![i].due = TRUE]
  /\ UNCHANGED <<connection, cycle, drains, lock, counter, crashes, log>>

-----------------------------------------------------------------------------
(* Draining.                                                               *)

\* Mutant: a row is listed for its first attempt only.
FirstTries == {i \in Ids : rows[i].status = "pending" /\ rows[i].attempts = 0}

DueRows == {i \in Ids : rows[i].status = "pending" /\ rows[i].due}

List(d) ==
  /\ drains[d] = Resting /\ DueRows # {}
  /\ drains' = [drains EXCEPT ![d].list = {[id |-> i, attempts |-> rows[i].attempts] : i \in DueRows}]
  /\ UNCHANGED <<rows, connection, cycle, lock, counter, crashes, log>>

\* Mutant: the row is taken as it was listed.
ClaimableAsListed(i) == Exists(i)

Claimable(i) == rows[i].status = "pending"

\* The row counts as sent before it is.
Claim(d, e) ==
  /\ drains[d].at = "next" /\ e \in drains[d].list
  /\ IF Claimable(e.id)
     THEN /\ rows' = [rows EXCEPT ![e.id].status = "sent", ![e.id].due = TRUE]
          /\ drains' = [drains EXCEPT ![d] = [list |-> @.list \ {e}, at |-> "claimed", row |-> e]]
     ELSE /\ drains' = [drains EXCEPT ![d].list = @ \ {e}]
          /\ UNCHANGED rows
  /\ UNCHANGED <<connection, cycle, lock, counter, crashes, log>>

GivenBack(i) == Updated(i, [rows[i] EXCEPT !.status = "pending"])

\* Mutant: the number of messages since the last answer is not looked at.
NeverHeld == FALSE

Held == counter >= Cap

Hold(d) ==
  /\ drains[d].at = "claimed" /\ Held
  /\ rows' = GivenBack(Id(d))
  /\ Resume(d)
  /\ UNCHANGED <<connection, cycle, lock, counter, crashes, log>>

\* An invite is sent under the connection's lock, if the connection still waits for
\* an answer and the row was not replaced.
OpenInvite(d) ==
  /\ drains[d].at = "claimed" /\ ~Held /\ IsInvite(d) /\ lock = None
  /\ IF connection = "pending" /\ Exists(Id(d))
     THEN /\ lock' = d /\ Goto(d, "sending")
          /\ UNCHANGED rows
     ELSE /\ rows' = IF connection = "pending" THEN rows
                     ELSE Updated(Id(d), [rows[Id(d)] EXCEPT !.status = "failed"])
          /\ Resume(d)
          /\ UNCHANGED lock
  /\ UNCHANGED <<connection, cycle, counter, crashes, log>>

\* The history of a message: an accepted send is known until the drain fails to write
\* it down.
Known(i) == IF i \in Messages THEN [log EXCEPT !.sends[i] = @ + 1, !.known[i] = @ + 1] ELSE log
Unknown(i) == [log EXCEPT !.sends[i] = @ + 1]
Forgotten(i) == IF i \in Messages THEN [log EXCEPT !.known[i] = @ - 1] ELSE log

\* The provider accepts; or it refuses, or accepts and its answer is lost.
Send(d) ==
  /\ drains[d].at = "claimed" /\ ~Held /\ ~IsInvite(d)
  /\ \/ log' = Known(Id(d)) /\ Goto(d, "accepted")
     \/ log' = Unknown(Id(d)) /\ Goto(d, "failed")
  /\ UNCHANGED <<rows, connection, cycle, lock, counter, crashes>>

\* An invite that may have been accepted keeps its claim.
SendInvite(d) ==
  /\ drains[d].at = "sending"
  /\ \/ log' = Known(Id(d)) /\ Goto(d, "accepted") /\ UNCHANGED lock
     \/ Resume(d) /\ lock' = None /\ UNCHANGED log
  /\ UNCHANGED <<rows, connection, cycle, counter, crashes>>

Record(d) ==
  /\ drains[d].at = "accepted"
  /\ rows' = Updated(Id(d), [rows[Id(d)] EXCEPT !.handle = TRUE])
  /\ Goto(d, "recorded")
  /\ lock' = IF IsInvite(d) THEN None ELSE lock
  /\ UNCHANGED <<connection, cycle, counter, crashes, log>>

\* The transaction that sent an invite is rolled back.
RecordInviteFails(d) ==
  /\ drains[d].at = "accepted" /\ IsInvite(d)
  /\ Resume(d) /\ lock' = None
  /\ UNCHANGED <<rows, connection, cycle, counter, crashes, log>>

Count(d) ==
  /\ drains[d].at = "recorded"
  /\ counter' = counter + 1
  /\ Resume(d)
  /\ UNCHANGED <<rows, connection, cycle, lock, crashes, log>>

\* A write after the provider accepted fails: the row is treated as if it had not.
WriteFails(d) ==
  /\ drains[d].at = "recorded" \/ (drains[d].at = "accepted" /\ ~IsInvite(d))
  /\ Goto(d, "failed")
  /\ log' = Forgotten(Id(d))
  /\ UNCHANGED <<rows, connection, cycle, lock, counter, crashes>>

\* Mutant: the attempts are not counted.
Uncounted(e) == e.attempts

\* One more than when the row was listed.
Attempts(e) == e.attempts + 1

Retry(d) ==
  LET i == Id(d)
      attempts == Attempts(drains[d].row)
      exhausted == attempts >= MaxAttempts
  IN  /\ drains[d].at = "failed"
      /\ rows' = Updated(i, [rows[i] EXCEPT !.attempts = attempts, !.due = exhausted,
                                            !.status = IF exhausted THEN "failed" ELSE "pending"])
      /\ Resume(d)
      /\ UNCHANGED <<connection, cycle, lock, counter, crashes, log>>

\* The process ends; a transaction it had open is rolled back.
Crash(d) ==
  /\ drains[d] # Resting /\ crashes < MaxCrashes
  /\ crashes' = crashes + 1
  /\ drains' = [drains EXCEPT ![d] = Resting]
  /\ lock' = IF lock = d THEN None ELSE lock
  /\ UNCHANGED <<rows, connection, cycle, counter, log>>

-----------------------------------------------------------------------------
Zero == [m \in Messages |-> 0]

Init ==
  /\ rows = [i \in Ids |-> Absent]
  /\ connection = "none" /\ cycle = 0
  /\ drains = [d \in Drains |-> Resting] /\ lock = None
  /\ counter = 0 /\ crashes = 0
  /\ log = [sends |-> Zero, known |-> Zero]

Drain(d) ==
  \/ List(d) \/ Hold(d) \/ OpenInvite(d) \/ Send(d) \/ SendInvite(d)
  \/ Record(d) \/ RecordInviteFails(d) \/ Count(d) \/ WriteFails(d) \/ Retry(d)
  \/ \E e \in drains[d].list : Claim(d, e)

SomeDrain == \E d \in Drains : Drain(d)
SomeDue == \E i \in Ids : Due(i)

Next ==
  \/ \E m \in Messages : Mirror(m)
  \/ Connect \/ Revoke \/ Inbound
  \/ \E status \in {"approved", "declined"} : Answer(status)
  \/ \E i \in Ids, status \in {"sent", "failed"} : Webhook(i, status)
  \/ \E d \in Drains : Crash(d)
  \/ SomeDrain \/ SomeDue

Spec == Init /\ [][Next]_vars

\* The reconciler starts a drain while a row is due, some drain goes on, and the time
\* of a next attempt comes.
FairSpec == Spec /\ WF_vars(SomeDrain) /\ WF_vars(SomeDue)

-----------------------------------------------------------------------------
(* Properties.                                                             *)

\* The shape of every variable; only the last invite has a row, and the lock is held by
\* the drain that sends an invite.
TypeOK ==
  /\ rows \in [Ids -> Rows]
  /\ \A i \in Invites : Exists(i) => i = cycle
  /\ connection \in Connections /\ cycle \in 0..MaxCycles
  /\ \A d \in Drains : /\ drains[d].list \subseteq Entries /\ drains[d].at \in DrainSteps
                       /\ drains[d].row \in Entries \cup {NoEntry}
                       /\ drains[d].at = "next" <=> drains[d].row = NoEntry
                       /\ (IsInvite(d) /\ drains[d].at \in {"sending", "accepted"}) <=> lock = d
  /\ lock \in Drains \cup {None}
  /\ counter \in Nat /\ crashes \in 0..MaxCrashes

\* Drains that run at once, and those that die, never send a message twice: it is
\* accepted again only after a send whose success the drain was not told of or could
\* not write down.  Nor is one passed over: a row that counts as sent was accepted, or
\* a drain is at it, unless a drain died.
DeliveredOnce ==
  \A m \in Messages :
    /\ log.known[m] <= 1
    /\ rows[m].status = "sent" => rows[m].handle \/ crashes > 0 \/ \E d \in Drains : Id(d) = m

\* How the drains may be spread over the numbers of attempts that they know of: for
\* every number, how many drains know of no more.
Spreads ==
  LET most == MaxAttempts - 1
      n == Cardinality(Drains)
  IN  {c \in [0..most -> 0..n] : c[most] = n /\ \A j, k \in 0..most : j <= k => c[j] <= c[k]}

\* Drains that count attempts from what they listed set each other back, but still try a
\* bounded number of times, once with every spread: n drains send a message no more than
\* choose(MaxAttempts + n - 1, n) times, which is more than MaxAttempts each.
SendsBounded == \A m \in Messages : log.sends[m] <= Cardinality(Spreads)

\* Between two messages of the owner the cap is exceeded only by the drains that passed
\* it at the same time.
CapMargin == counter <= Cap + Cardinality(Drains) - 1

\* The owner is asked only while that connection waits for an answer: until the
\* provider's answer is written down, it is neither revoked nor asked for anew.
InviteWhilePending ==
  \A d \in Drains : IsInvite(d) /\ drains[d].at \in {"sending", "accepted"}
                       => Id(d) = cycle /\ connection = "pending"

\* An invite that was accepted is not sent again, whatever fails after that.
InviteOnce == \A d \in Drains : IsInvite(d) /\ drains[d].at = "sending" => ~rows[Id(d)].handle

\* A row does not stay in the outbox for ever: there always comes a moment when no row
\* is pending, unless the cap holds them.
Settled == []<>(Held \/ \A i \in Ids : rows[i].status # "pending")
=============================================================================
