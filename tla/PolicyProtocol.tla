--------------------------- MODULE PolicyProtocol ---------------------------
(***************************************************************************)
(* The information-flow protocol of packages/core/src/policy: artifacts    *)
(* carry (project, component) labels, every principal keeps a local store  *)
(* of facts, and a delivery is refused when it would let any principal but *)
(* the Board know three distinct components of one project.                *)
(*                                                                         *)
(* A store is the record of one principal's facts, one field per Datalog   *)
(* predicate:                                                              *)
(*   artifacts  the ids the principal can read                             *)
(*   carries    Carries(id, project, component)                            *)
(*   derived    DerivedFrom(id, input)                                     *)
(*   received   Received(principal, id)                                    *)
(*   knows      Knows(principal, project, component)                       *)
(*                                                                         *)
(* Simplifications: the text of an artifact and the model that wrote it    *)
(* are left out, and the event log and message counters, which record what *)
(* happened and never influence a decision, are not kept.                  *)
(***************************************************************************)
EXTENDS Naturals

CONSTANTS
    Principals,     \* everyone who owns a local store
    Board,          \* the one principal exempt from the rules
    Projects,
    Components,
    Sources,        \* ids of source artifacts (budget_*, reason_*, audit_task)
    Outputs,        \* ids of computed artifacts (output_*, reply_*, request_*)
    Notices,        \* ids of control-channel notices (notice_*)
    SourceLabels    \* the labels trusted initialisation gives to each source

ASSUME BoardAssumption == Board \in Principals
ASSUME SourceLabelsAssumption ==
          SourceLabels \in [Sources -> SUBSET (Projects \X Components)]

VARIABLES
    artifacts,      \* state.artifacts: id -> artifact, for the ids stored so far
    local           \* state.local: principal -> store

vars == <<artifacts, local>>

Ids == Sources \cup Outputs \cup Notices

Labels == Projects \X Components

Artifact == [producer : Principals, carries : SUBSET Labels, inputs : SUBSET Ids]

Store == [artifacts : SUBSET Ids,
          carries   : [Ids -> SUBSET Labels],
          derived   : [Ids -> SUBSET Ids],
          received  : SUBSET Ids,
          knows     : SUBSET Labels]

EmptyStore == [artifacts |-> {},
               carries   |-> [i \in Ids |-> {}],
               derived   |-> [i \in Ids |-> {}],
               received  |-> {},
               knows     |-> {}]

-----------------------------------------------------------------------------
(* The rules.                                                              *)

\* R1: Carries(Y, P, C) :- DerivedFrom(Y, X), Carries(X, P, C)
R1(s) == [y \in Ids |-> s.carries[y] \cup UNION {s.carries[x] : x \in s.derived[y]}]

\* R2: Knows(A, P, C) :- Received(A, M), Carries(M, P, C)
R2(s) == s.knows \cup UNION {s.carries[m] : m \in s.received}

\* Stratum 0 applied once, R1 before R2.  StoresClosed below says that the
\* stored facts are a fixpoint, so that the evaluator's loop ends here too.
Close(s) == LET c == [s EXCEPT !.carries = R1(s)]
            IN  [c EXCEPT !.knows = R2(c)]

\* Mutant: the message's inputs are copied where its labels are meant.
AddMessageInputs(s, id, art) == [s EXCEPT !.carries[id] = @ \cup art.inputs]

\* The message's Carries facts joined to a store.
AddMessageFacts(s, id, art) == [s EXCEPT !.carries[id] = @ \cup art.carries]

\* New(A, M, P, C) :- Incoming(A, M), Carries(M, P, C), not Knows(A, P, C)
New(s, id) == s.carries[id] \ s.knows

Distinct(c1, c2, c3) == c1 # c2 /\ c1 # c3 /\ c2 # c3

\* Mutant: rule R3b is missing, two new components never meet a known third.
R3WithoutB(s, id) ==
    \E p \in Projects : \E c1, c2, c3 \in Components :
       /\ Distinct(c1, c2, c3)
       /\ <<p, c1>> \in New(s, id)
       /\ \/ <<p, c2>> \in New(s, id) /\ <<p, c3>> \in New(s, id)
          \/ <<p, c2>> \in s.knows /\ <<p, c3>> \in s.knows

\* R3a, R3b, R3c over the closed store s of the receiver, the incoming facts added.
R3(s, id) ==
    \E p \in Projects : \E c1, c2, c3 \in Components :
       /\ Distinct(c1, c2, c3)
       /\ <<p, c1>> \in New(s, id)
       /\ \/ <<p, c2>> \in New(s, id) /\ <<p, c3>> \in New(s, id)
          \/ <<p, c2>> \in New(s, id) /\ <<p, c3>> \in s.knows
          \/ <<p, c2>> \in s.knows /\ <<p, c3>> \in s.knows

\* The receiver's facts with Incoming and the message's Carries added, evaluated.
Evaluated(receiver, id) == Close(AddMessageFacts(local[receiver], id, artifacts[id]))

Denied(receiver, id) == receiver # Board /\ R3(Evaluated(receiver, id), id)

-----------------------------------------------------------------------------
(* The operations.                                                         *)

Holding(s, id) == [s EXCEPT !.artifacts = @ \cup {id}]

\* DerivedFrom edges from a new id to everything the owner can read.
DerivedFromAll(s, id) == [s EXCEPT !.derived[id] = @ \cup s.artifacts]

StoreArtifact(id, art) ==
    /\ id \notin DOMAIN artifacts
    /\ artifacts' = [i \in DOMAIN artifacts \cup {id} |->
                       IF i = id THEN art ELSE artifacts[i]]

\* Trusted initialisation: the Board annotates a source with its labels.
CreateSource(id) ==
    LET art == [producer |-> Board, carries |-> SourceLabels[id], inputs |-> {}]
    IN  /\ StoreArtifact(id, art)
        /\ local' = [local EXCEPT ![Board] = Holding(AddMessageFacts(@, id, art), id)]

\* Mutant: only what was received counts as an input of a new artifact.
InheritedFromReceived(s, id) == UNION {s.carries[x] : x \in s.received}

\* What the closure derives for a fresh id computed from everything the owner holds.
InheritedLabels(s, id) == R1(DerivedFromAll(s, id))[id]

\* A principal writes an artifact: all it can read is an input, and a dependency.
ComputeArtifact(owner, id) ==
    LET s   == local[owner]
        art == [producer |-> owner, carries |-> InheritedLabels(s, id),
                inputs |-> s.artifacts]
    IN  /\ StoreArtifact(id, art)
        /\ local' = [local EXCEPT ![owner] =
                       Close(Holding(AddMessageFacts(DerivedFromAll(s, id), id, art), id))]

\* Mutant: the accepted message is stored without evaluating the rules on it.
AcceptedUnclosed(s, id) ==
    AddMessageFacts(Holding([s EXCEPT !.received = @ \cup {id}], id), id, artifacts[id])

\* The receiver's store once a delivery is allowed.
Accepted(s, id) ==
    Close(AddMessageFacts(Holding([s EXCEPT !.received = @ \cup {id}], id), id, artifacts[id]))

\* Mutant: the payload of a refused message is kept, only its facts are dropped.
RefusedPayloadKept(s, id) == Holding(s, id)

\* A refused delivery copies neither payload nor facts.
Refused(s, id) == s

\* A delivery: evaluated before anything reaches the receiver, copied only if allowed.
DeliverArtifact(sender, receiver, id) ==
    /\ id \in local[sender].artifacts
    /\ local' = [local EXCEPT ![receiver] = IF Denied(receiver, id) THEN Refused(@, id)
                                                                  ELSE Accepted(@, id)]
    /\ UNCHANGED artifacts

\* A control-channel notice: an artifact of the owner without labels or inputs.
DeliveryNotice(owner, id) ==
    LET art == [producer |-> owner, carries |-> {}, inputs |-> {}]
    IN  /\ StoreArtifact(id, art)
        /\ local' = [local EXCEPT ![owner] = Holding(@, id)]

Init == /\ artifacts = [i \in {} |-> EmptyStore]
        /\ local = [p \in Principals |-> EmptyStore]

Next == \/ \E id \in Sources : CreateSource(id)
        \/ \E p \in Principals : \E id \in Outputs : ComputeArtifact(p, id)
        \/ \E p, q \in Principals : \E id \in Ids : DeliverArtifact(p, q, id)
        \/ \E p \in Principals : \E id \in Notices : DeliveryNotice(p, id)

Spec == Init /\ [][Next]_vars

-----------------------------------------------------------------------------
(* Properties.                                                             *)

\* Every stored artifact and every local store is well formed.
TypeOK == /\ DOMAIN artifacts \subseteq Ids
          /\ \A i \in DOMAIN artifacts : artifacts[i] \in Artifact
          /\ local \in [Principals -> Store]

\* Nobody but the Board ever knows three distinct components of one project:
\* what rules R3a, R3b and R3c are together meant to enforce, however the
\* components arrived (one message, several, or through what others derived).
Separation ==
    \A p \in Principals \ {Board}, j \in Projects, c1, c2, c3 \in Components :
       Distinct(c1, c2, c3) => ~ ({<<j, c1>>, <<j, c2>>, <<j, c3>>} \subseteq local[p].knows)

\* What a principal can read never exceeds what its policy facts say it knows:
\* no artifact, received, written or noticed, holds a label outside Knows.
ReadsWithinKnows ==
    \A p \in Principals \ {Board} : \A i \in local[p].artifacts :
       artifacts[i].carries \subseteq local[p].knows

\* Labels are never laundered: an artifact carries every label of every artifact
\* it was computed from, whoever wrote and forwarded those.
LabelsPropagate ==
    \A i \in DOMAIN artifacts : \A x \in artifacts[i].inputs :
       /\ x \in DOMAIN artifacts
       /\ artifacts[x].carries \subseteq artifacts[i].carries

\* The facts kept between operations are a fixpoint of rules R1 and R2, although
\* sources and notices are stored without running the evaluator.
StoresClosed == \A p \in Principals : Close(local[p]) = local[p]

\* A step changes the store of at most one principal, and only adds to it; an
\* artifact once stored never changes.
StoresGrow ==
    [][/\ \A i \in DOMAIN artifacts : i \in DOMAIN artifacts' /\ artifacts'[i] = artifacts[i]
       /\ \A p, q \in Principals : local'[p] # local[p] /\ local'[q] # local[q] => p = q
       /\ \A p \in Principals : /\ local[p].artifacts \subseteq local'[p].artifacts
                                /\ local[p].knows \subseteq local'[p].knows]_vars
=============================================================================
