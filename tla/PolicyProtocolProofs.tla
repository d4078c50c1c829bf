------------------------ MODULE PolicyProtocolProofs ------------------------
(***************************************************************************)
(* Proofs about PolicyProtocol, for any set of principals, projects,       *)
(* components and artifacts.  The argument: a store holds exactly the      *)
(* labels of the artifacts it can read (CarriesExact), it knows exactly    *)
(* the labels of what it received (KnowsExact), and whatever it wrote      *)
(* itself is made of what it received (ReadsWithinKnows).  The receiver's  *)
(* evaluated facts therefore separate its knowledge into what is New and   *)
(* what it already knew, and three components of a project reached by an   *)
(* allowed delivery would have matched R3a, R3b or R3c.                    *)
(***************************************************************************)
EXTENDS PolicyProtocol, TLAPS

\* A principal can read only artifacts that exist, and received some of them.
HoldsStored ==
    \A p \in Principals : /\ local[p].artifacts \subseteq DOMAIN artifacts
                          /\ local[p].received \subseteq local[p].artifacts

\* The Carries facts are exactly the labels of the artifacts the owner can read.
CarriesExact ==
    \A p \in Principals : \A i \in Ids :
       local[p].carries[i] = IF i \in local[p].artifacts THEN artifacts[i].carries ELSE {}

\* DerivedFrom relates a readable artifact to its inputs, readable as well.
DerivedExact ==
    \A p \in Principals : \A y \in Ids : \A x \in local[p].derived[y] :
       /\ {x, y} \subseteq local[p].artifacts
       /\ x \in artifacts[y].inputs

\* The Knows facts are exactly the labels of the artifacts the owner received.
KnowsExact ==
    \A p \in Principals :
       local[p].knows = UNION {artifacts[m].carries : m \in local[p].received}

\* The inductive invariant.
IInv == /\ TypeOK
        /\ HoldsStored
        /\ CarriesExact
        /\ DerivedExact
        /\ KnowsExact
        /\ LabelsPropagate
        /\ ReadsWithinKnows
        /\ Separation

-----------------------------------------------------------------------------

\* Evaluating rule R1 on a stored set of facts derives nothing new, even with the
\* labels of an incoming message added.
LEMMA R1Fixpoint ==
    ASSUME IInv, NEW p \in Principals, NEW id \in Ids, id \in DOMAIN artifacts,
           NEW s \in Store, s.derived = local[p].derived,
           s.carries = [local[p].carries EXCEPT ![id] = @ \cup artifacts[id].carries]
    PROVE  R1(s) = s.carries
<1>1. local[p] \in Store /\ artifacts[id] \in Artifact
  BY DEF IInv, TypeOK
<1>2. ASSUME NEW y \in Ids, NEW x \in s.derived[y]
      PROVE  s.carries[x] \subseteq s.carries[y]
  <2>1. /\ x \in Ids
        /\ {x, y} \subseteq local[p].artifacts
        /\ x \in artifacts[y].inputs
    BY <1>1, <1>2 DEF IInv, DerivedExact, Store
  <2>2. artifacts[x].carries \subseteq artifacts[y].carries
    BY <2>1 DEF IInv, HoldsStored, LabelsPropagate
  <2>3. local[p].carries[x] = artifacts[x].carries /\ local[p].carries[y] = artifacts[y].carries
    BY <2>1 DEF IInv, CarriesExact
  <2>4. local[p].carries \in [Ids -> SUBSET Labels]
    BY <1>1 DEF Store
  <2>5. ASSUME NEW i \in {x, y}
        PROVE  s.carries[i] = artifacts[i].carries
    <3>1. i \in Ids /\ local[p].carries[i] = artifacts[i].carries
      BY <2>1, <2>3
    <3>2. CASE i = id
      BY <2>4, <3>1, <3>2
    <3>3. CASE i # id
      BY <2>4, <3>1, <3>3
    <3> QED
      BY <3>2, <3>3
  <2> QED
    BY <2>2, <2>5
<1>3. ASSUME NEW y \in Ids
      PROVE  s.carries[y] \cup UNION {s.carries[x] : x \in s.derived[y]} = s.carries[y]
  BY <1>2
<1>4. s.carries \in [Ids -> SUBSET Labels]
  BY DEF Store
<1> QED
  BY <1>3, <1>4 DEF R1

\* Adding the labels of an incoming artifact to a store keeps it a store, and
\* the rules derive nothing from them until the artifact counts as received.
LEMMA EvaluatedFacts ==
    ASSUME IInv, NEW p \in Principals, NEW id \in Ids, id \in DOMAIN artifacts
    PROVE  /\ Evaluated(p, id).knows = local[p].knows
           /\ New(Evaluated(p, id), id) = artifacts[id].carries \ local[p].knows
<1> DEFINE s == AddMessageFacts(local[p], id, artifacts[id])
<1>1. local[p] \in Store /\ artifacts[id] \in Artifact
  BY DEF IInv, TypeOK
<1>2. /\ s \in Store
      /\ s.carries = [local[p].carries EXCEPT ![id] = @ \cup artifacts[id].carries]
      /\ s.derived = local[p].derived
      /\ s.received = local[p].received
      /\ s.knows = local[p].knows
  BY <1>1 DEF AddMessageFacts, Store, Artifact
<1> HIDE DEF s
<1>3. R1(s) = s.carries
  BY <1>2, R1Fixpoint
<1>4. R2(s) = s.knows
  <2>1. ASSUME NEW m \in s.received
        PROVE  s.carries[m] \subseteq local[p].knows
    <3>1. /\ m \in Ids
          /\ m \in local[p].received
          /\ local[p].carries \in [Ids -> SUBSET Labels]
      BY <1>1, <1>2 DEF Store
    <3>2. artifacts[m].carries \subseteq local[p].knows
      BY <3>1 DEF IInv, KnowsExact
    <3>3. local[p].carries[m] = artifacts[m].carries
      BY <3>1 DEF IInv, HoldsStored, CarriesExact
    <3> QED
      BY <1>2, <3>1, <3>2, <3>3
  <2> QED
    BY <1>2, <2>1 DEF R2
<1>5. Close(s) = s
  <2>1. [s EXCEPT !.carries = R1(s)] = s
    BY <1>2, <1>3 DEF Store
  <2>2. [s EXCEPT !.knows = R2(s)] = s
    BY <1>2, <1>4 DEF Store
  <2> QED
    BY <2>1, <2>2 DEF Close
<1>6. Evaluated(p, id) = s
  BY <1>5 DEF Evaluated, s
<1>7. s.carries[id] \ s.knows = artifacts[id].carries \ local[p].knows
  <2>1. local[p].carries \in [Ids -> SUBSET Labels]
    BY <1>1 DEF Store
  <2>2. s.carries[id] = local[p].carries[id] \cup artifacts[id].carries
    BY <1>2, <2>1
  <2>3. local[p].carries[id] \subseteq artifacts[id].carries
    BY DEF IInv, CarriesExact
  <2> QED
    BY <1>2, <2>2, <2>3
<1> QED
  BY <1>2, <1>6, <1>7 DEF New

\* The stored facts are closed: the evaluator has nothing to add between operations.
THEOREM ClosedFromInv ==
    ASSUME IInv PROVE StoresClosed
<1> SUFFICES ASSUME NEW p \in Principals
             PROVE  Close(local[p]) = local[p]
  BY DEF StoresClosed
<1>1. local[p] \in Store
  BY DEF IInv, TypeOK
<1>2. R1(local[p]) = local[p].carries
  <2>1. ASSUME NEW y \in Ids, NEW x \in local[p].derived[y]
        PROVE  local[p].carries[x] \subseteq local[p].carries[y]
    <3>1. /\ x \in Ids
          /\ {x, y} \subseteq local[p].artifacts
          /\ x \in artifacts[y].inputs
      BY <1>1, <2>1 DEF IInv, DerivedExact, Store
    <3>2. artifacts[x].carries \subseteq artifacts[y].carries
      BY <3>1 DEF IInv, HoldsStored, LabelsPropagate
    <3> QED
      BY <3>1, <3>2 DEF IInv, CarriesExact
  <2>2. local[p].carries \in [Ids -> SUBSET Labels]
    BY <1>1 DEF Store
  <2>3. ASSUME NEW y \in Ids
        PROVE  local[p].carries[y] \cup UNION {local[p].carries[x] : x \in local[p].derived[y]}
                 = local[p].carries[y]
    BY <2>1
  <2> QED
    BY <2>2, <2>3 DEF R1
<1>3. R2(local[p]) = local[p].knows
  <2>1. ASSUME NEW m \in local[p].received
        PROVE  local[p].carries[m] \subseteq local[p].knows
    BY <1>1 DEF IInv, HoldsStored, CarriesExact, KnowsExact, Store
  <2> QED
    BY <2>1 DEF R2
<1>4. /\ [local[p] EXCEPT !.carries = R1(local[p])] = local[p]
      /\ [local[p] EXCEPT !.knows = R2(local[p])] = local[p]
  BY <1>1, <1>2, <1>3 DEF Store
<1> QED
  BY <1>4 DEF Close

-----------------------------------------------------------------------------
(* What each operation makes of the store it changes.                      *)

\* A fresh id occurs in no fact of any store.
LEMMA FreshId ==
    ASSUME IInv, NEW p \in Principals, NEW id \in Ids, id \notin DOMAIN artifacts
    PROVE  /\ id \notin local[p].artifacts
           /\ local[p].carries[id] = {}
           /\ local[p].derived[id] = {}
<1>1. id \notin local[p].artifacts
  BY DEF IInv, HoldsStored
<1> QED
  BY <1>1 DEF IInv, CarriesExact, DerivedExact

\* A computed artifact inherits the labels of everything its author can read,
\* and its author's store gains the artifact, these labels and the edges.
LEMMA ComputeResult ==
    ASSUME IInv, NEW p \in Principals, NEW id \in Ids, id \notin DOMAIN artifacts,
           NEW art, art.carries = InheritedLabels(local[p], id)
    PROVE  /\ InheritedLabels(local[p], id) = UNION {artifacts[x].carries : x \in local[p].artifacts}
           /\ InheritedLabels(local[p], id) \subseteq Labels
           /\ Close(Holding(AddMessageFacts(DerivedFromAll(local[p], id), id, art), id))
                = [artifacts |-> local[p].artifacts \cup {id},
                   carries   |-> [local[p].carries EXCEPT ![id] = InheritedLabels(local[p], id)],
                   derived   |-> [local[p].derived EXCEPT ![id] = local[p].artifacts],
                   received  |-> local[p].received,
                   knows     |-> local[p].knows]
<1> DEFINE s == local[p]
           d == DerivedFromAll(s, id)
           L == InheritedLabels(s, id)
           n == Holding(AddMessageFacts(d, id, art), id)
<1>1. s \in Store
  BY DEF IInv, TypeOK
<1>2. s.carries[id] = {} /\ s.derived[id] = {} /\ id \notin s.artifacts
  BY FreshId
<1>3. d = [s EXCEPT !.derived = [s.derived EXCEPT ![id] = s.artifacts]]
  BY <1>1, <1>2 DEF DerivedFromAll, Store
<1>4. d \in Store /\ d.derived[id] = s.artifacts /\ d.carries = s.carries
  BY <1>1, <1>3 DEF Store
<1>5. L = UNION {s.carries[x] : x \in s.artifacts}
  BY <1>2, <1>4 DEF InheritedLabels, R1
<1>6. \A x \in s.artifacts : s.carries[x] = artifacts[x].carries
  BY <1>1 DEF IInv, CarriesExact, Store
<1>7. L = UNION {artifacts[x].carries : x \in s.artifacts}
  BY <1>5, <1>6
<1>8. L \subseteq Labels
  BY <1>1, <1>5 DEF Store
<1>9. /\ n \in Store
      /\ n.artifacts = s.artifacts \cup {id}
      /\ n.carries = [s.carries EXCEPT ![id] = L]
      /\ n.derived = [s.derived EXCEPT ![id] = s.artifacts]
      /\ n.received = s.received
      /\ n.knows = s.knows
  <2> HIDE DEF L
  <2>1. [s.carries EXCEPT ![id] = @ \cup L] = [s.carries EXCEPT ![id] = L]
    BY <1>1, <1>2 DEF Store
  <2>2. n = [d EXCEPT !.carries = [s.carries EXCEPT ![id] = L], !.artifacts = s.artifacts \cup {id}]
    BY <1>1, <1>3, <1>4, <2>1 DEF Holding, AddMessageFacts, Store, L
  <2>3. d = [artifacts |-> s.artifacts, carries |-> s.carries, received |-> s.received,
             knows |-> s.knows, derived |-> [s.derived EXCEPT ![id] = s.artifacts]]
    BY <1>1, <1>3 DEF Store
  <2> HIDE DEF n, d
  <2>4. n = [artifacts |-> s.artifacts \cup {id}, received |-> s.received, knows |-> s.knows,
             carries |-> [s.carries EXCEPT ![id] = L],
             derived |-> [s.derived EXCEPT ![id] = s.artifacts]]
    BY <2>2, <2>3
  <2> QED
    BY <1>1, <1>8, <2>4 DEF Store
<1> HIDE DEF n
<1>10. R1(n) = n.carries
  <2>1. ASSUME NEW y \in Ids
        PROVE  n.carries[y] \cup UNION {n.carries[x] : x \in n.derived[y]} = n.carries[y]
    <3>1. CASE y = id
      <4>1. n.carries[y] = L /\ n.derived[y] = s.artifacts
        BY <1>1, <1>9, <3>1 DEF Store
      <4>2. ASSUME NEW x \in s.artifacts
            PROVE  n.carries[x] = s.carries[x]
        BY <1>1, <1>2, <1>9 DEF Store
      <4> QED
        BY <1>5, <4>1, <4>2
    <3>2. CASE y # id
      <4>1. n.carries[y] = s.carries[y] /\ n.derived[y] = s.derived[y]
        BY <1>1, <1>9, <3>2 DEF Store
      <4>2. ASSUME NEW x \in s.derived[y]
            PROVE  n.carries[x] \subseteq s.carries[y]
        <5>1. {x, y} \subseteq s.artifacts /\ x \in artifacts[y].inputs /\ x \in Ids
          BY <1>1 DEF IInv, DerivedExact, Store
        <5>2. artifacts[x].carries \subseteq artifacts[y].carries
          BY <5>1 DEF IInv, HoldsStored, LabelsPropagate
        <5>3. n.carries[x] = s.carries[x]
          BY <1>1, <1>2, <1>9, <5>1 DEF Store
        <5> QED
          BY <1>6, <5>1, <5>2, <5>3
      <4> QED
        BY <4>1, <4>2
    <3> QED
      BY <3>1, <3>2
  <2> QED
    BY <1>9, <2>1 DEF R1, Store
<1>11. R2(n) = n.knows
  <2>1. ASSUME NEW m \in s.received
        PROVE  n.carries[m] \subseteq s.knows
    <3>1. m \in Ids /\ m \in s.artifacts /\ m # id
      BY <1>1, <1>2 DEF IInv, HoldsStored, Store
    <3>2. n.carries[m] = s.carries[m]
      BY <1>1, <1>9, <3>1 DEF Store
    <3> QED
      BY <1>6, <3>1, <3>2 DEF IInv, KnowsExact
  <2> QED
    BY <1>9, <2>1 DEF R2
<1>12. Close(n) = n
  <2>1. [n EXCEPT !.carries = R1(n)] = n /\ [n EXCEPT !.knows = R2(n)] = n
    BY <1>9, <1>10, <1>11 DEF Store
  <2> QED
    BY <2>1 DEF Close
<1>13. n = [artifacts |-> s.artifacts \cup {id},
            carries   |-> [s.carries EXCEPT ![id] = L],
            derived   |-> [s.derived EXCEPT ![id] = s.artifacts],
            received  |-> s.received,
            knows     |-> s.knows]
  <2> HIDE DEF L
  <2> QED
    BY <1>9 DEF Store
<1> QED
  BY <1>7, <1>8, <1>12, <1>13 DEF n

\* An accepted delivery teaches its receiver exactly the labels of the artifact.
LEMMA AcceptResult ==
    ASSUME IInv, NEW p \in Principals, NEW id \in Ids, id \in DOMAIN artifacts
    PROVE  /\ Accepted(local[p], id) \in Store
           /\ Accepted(local[p], id)
                = [artifacts |-> local[p].artifacts \cup {id},
                   carries   |-> [local[p].carries EXCEPT ![id] = artifacts[id].carries],
                   derived   |-> local[p].derived,
                   received  |-> local[p].received \cup {id},
                   knows     |-> local[p].knows \cup artifacts[id].carries]
<1> DEFINE s == local[p]
           n == AddMessageFacts(Holding([s EXCEPT !.received = @ \cup {id}], id), id, artifacts[id])
<1>1. s \in Store /\ artifacts[id] \in Artifact
  BY DEF IInv, TypeOK
<1>2. s.carries[id] \subseteq artifacts[id].carries
  BY DEF IInv, CarriesExact
<1>3. /\ n \in Store
      /\ n.artifacts = s.artifacts \cup {id}
      /\ n.carries = [s.carries EXCEPT ![id] = @ \cup artifacts[id].carries]
      /\ n.derived = s.derived
      /\ n.received = s.received \cup {id}
      /\ n.knows = s.knows
  BY <1>1 DEF AddMessageFacts, Holding, Store, Artifact
<1> HIDE DEF n
<1>4. R1(n) = n.carries
  BY <1>3, R1Fixpoint
<1>5. n.carries = [s.carries EXCEPT ![id] = artifacts[id].carries]
  <2>1. s.carries[id] \cup artifacts[id].carries = artifacts[id].carries
    BY <1>2
  <2> QED
    BY <1>1, <1>3, <2>1 DEF Store
<1>6. R2(n) = s.knows \cup artifacts[id].carries
  <2>1. ASSUME NEW m \in s.received
        PROVE  n.carries[m] \subseteq s.knows
    <3>1. m \in Ids /\ s.carries[m] = artifacts[m].carries
      BY <1>1 DEF IInv, HoldsStored, CarriesExact, Store
    <3>2. n.carries[m] = artifacts[m].carries
      BY <1>1, <1>5, <3>1 DEF Store
    <3> QED
      BY <3>2 DEF IInv, KnowsExact
  <2>2. n.carries[id] = artifacts[id].carries
    BY <1>1, <1>5 DEF Store
  <2> QED
    BY <1>3, <2>1, <2>2 DEF R2
<1>7. Close(n) = [n EXCEPT !.knows = s.knows \cup artifacts[id].carries]
  <2>1. [n EXCEPT !.carries = R1(n)] = n
    BY <1>3, <1>4 DEF Store
  <2> QED
    BY <1>6, <2>1 DEF Close
<1>8. Accepted(s, id) = Close(n)
  BY DEF Accepted, n
<1>9. Close(n) \in Store
  BY <1>1, <1>3, <1>7 DEF Store, Artifact
<1> QED
  BY <1>3, <1>5, <1>7, <1>8, <1>9 DEF Store

-----------------------------------------------------------------------------
(* The inductive invariant.                                                *)

\* Sources, computed artifacts and notices: a new artifact of owner p, made of
\* artifacts p can read, that carries their labels and no label p does not know.
LEMMA CreationPreserves ==
    ASSUME IInv, NEW p \in Principals, NEW id \in Ids, NEW art \in Artifact,
           StoreArtifact(id, art),
           art.inputs \subseteq local[p].artifacts,
           \A x \in art.inputs : artifacts[x].carries \subseteq art.carries,
           p # Board => art.carries \subseteq local[p].knows,
           local' = [local EXCEPT ![p] =
                       [artifacts |-> local[p].artifacts \cup {id},
                        carries   |-> [local[p].carries EXCEPT ![id] = art.carries],
                        derived   |-> [local[p].derived EXCEPT ![id] = art.inputs],
                        received  |-> local[p].received,
                        knows     |-> local[p].knows]]
    PROVE  IInv'
<1> DEFINE n == [artifacts |-> local[p].artifacts \cup {id},
                 carries   |-> [local[p].carries EXCEPT ![id] = art.carries],
                 derived   |-> [local[p].derived EXCEPT ![id] = art.inputs],
                 received  |-> local[p].received,
                 knows     |-> local[p].knows]
<1>1. /\ DOMAIN artifacts \subseteq Ids
      /\ \A i \in DOMAIN artifacts : artifacts[i] \in Artifact
      /\ local \in [Principals -> Store]
      /\ local[p] \in Store
  BY DEF IInv, TypeOK
<1>2. /\ id \notin DOMAIN artifacts
      /\ DOMAIN artifacts' = DOMAIN artifacts \cup {id}
      /\ artifacts'[id] = art
      /\ \A i \in DOMAIN artifacts : artifacts'[i] = artifacts[i]
  BY DEF StoreArtifact
<1>3. \A q \in Principals : id \notin local[q].artifacts /\ id \notin local[q].received
  BY <1>2 DEF IInv, HoldsStored
<1>4. /\ n \in Store
      /\ \A i \in Ids : n.carries[i] = IF i = id THEN art.carries ELSE local[p].carries[i]
      /\ \A i \in Ids : n.derived[i] = IF i = id THEN art.inputs ELSE local[p].derived[i]
  BY <1>1 DEF Store, Artifact
<1>5. /\ n.artifacts = local[p].artifacts \cup {id}
      /\ n.received = local[p].received
      /\ n.knows = local[p].knows
  OBVIOUS
<1>6. /\ local'[p] = n
      /\ \A q \in Principals \ {p} : local'[q] = local[q]
      /\ local' \in [Principals -> Store]
  BY <1>1, <1>4
<1> HIDE DEF n
<1>7. TypeOK'
  BY <1>1, <1>2, <1>6 DEF TypeOK
<1>8. HoldsStored'
  BY <1>2, <1>5, <1>6 DEF IInv, HoldsStored
<1>9. CarriesExact'
  <2> SUFFICES ASSUME NEW q \in Principals, NEW i \in Ids
               PROVE  local'[q].carries[i]
                        = IF i \in local'[q].artifacts THEN artifacts'[i].carries ELSE {}
    BY DEF CarriesExact
  <2>1. local[q].carries[i] = IF i \in local[q].artifacts THEN artifacts[i].carries ELSE {}
    BY DEF IInv, CarriesExact
  <2>2. i \in local[q].artifacts => i # id /\ artifacts'[i] = artifacts[i]
    BY <1>2, <1>3 DEF IInv, HoldsStored
  <2>3. CASE q = p
    <3>1. local'[q] = n /\ n.artifacts = local[q].artifacts \cup {id}
          /\ n.carries[i] = IF i = id THEN art.carries ELSE local[q].carries[i]
      BY <1>4, <1>5, <1>6, <2>3
    <3>2. CASE i = id
      BY <1>2, <3>1, <3>2
    <3>3. CASE i # id
      BY <2>1, <2>2, <3>1, <3>3
    <3> QED
      BY <3>2, <3>3
  <2>4. CASE q # p
    BY <1>6, <2>1, <2>2, <2>4
  <2> QED
    BY <2>3, <2>4
<1>10. DerivedExact'
  <2> SUFFICES ASSUME NEW q \in Principals, NEW y \in Ids, NEW x \in local'[q].derived[y]
               PROVE  {x, y} \subseteq local'[q].artifacts /\ x \in artifacts'[y].inputs
    BY DEF DerivedExact
  <2>1. CASE q = p /\ y = id
    <3>1. x \in art.inputs
      BY <1>4, <1>6, <2>1
    <3>2. local'[q].artifacts = local[p].artifacts \cup {id}
      BY <1>5, <1>6, <2>1
    <3>3. artifacts'[y].inputs = art.inputs
      BY <1>2, <2>1
    <3> QED
      BY <2>1, <3>1, <3>2, <3>3
  <2>2. CASE ~ (q = p /\ y = id)
    <3>1. x \in local[q].derived[y]
      BY <1>4, <1>6, <2>2
    <3>2. {x, y} \subseteq local[q].artifacts /\ x \in artifacts[y].inputs
      BY <3>1 DEF IInv, DerivedExact
    <3>3. artifacts'[y] = artifacts[y]
      BY <1>2, <3>2 DEF IInv, HoldsStored
    <3> QED
      BY <1>5, <1>6, <3>2, <3>3
  <2> QED
    BY <2>1, <2>2
<1>11. KnowsExact'
  <2> SUFFICES ASSUME NEW q \in Principals
               PROVE  local'[q].knows = UNION {artifacts'[m].carries : m \in local'[q].received}
    BY DEF KnowsExact
  <2>1. local'[q].knows = local[q].knows /\ local'[q].received = local[q].received
    BY <1>5, <1>6
  <2>2. \A m \in local[q].received : artifacts'[m] = artifacts[m]
    BY <1>2 DEF IInv, HoldsStored
  <2> QED
    BY <2>1, <2>2 DEF IInv, KnowsExact
<1>12. LabelsPropagate'
  <2> SUFFICES ASSUME NEW i \in DOMAIN artifacts', NEW x \in artifacts'[i].inputs
               PROVE  x \in DOMAIN artifacts' /\ artifacts'[x].carries \subseteq artifacts'[i].carries
    BY DEF LabelsPropagate
  <2>1. CASE i = id
    BY <1>2, <2>1 DEF IInv, HoldsStored
  <2>2. CASE i # id
    BY <1>2, <2>2 DEF IInv, LabelsPropagate
  <2> QED
    BY <2>1, <2>2
<1>13. ReadsWithinKnows'
  <2> SUFFICES ASSUME NEW q \in Principals \ {Board}, NEW i \in local'[q].artifacts
               PROVE  artifacts'[i].carries \subseteq local'[q].knows
    BY DEF ReadsWithinKnows
  <2>1. local'[q].knows = local[q].knows
    BY <1>5, <1>6
  <2>2. CASE i = id
    <3>1. q = p
      BY <1>3, <1>6, <2>2
    <3> QED
      BY <1>2, <2>1, <2>2, <3>1
  <2>3. CASE i # id
    <3>1. i \in local[q].artifacts
      BY <1>5, <1>6, <2>3
    <3>2. artifacts'[i] = artifacts[i]
      BY <1>2, <3>1 DEF IInv, HoldsStored
    <3> QED
      BY <2>1, <3>1, <3>2 DEF IInv, ReadsWithinKnows
  <2> QED
    BY <2>2, <2>3
<1>14. Separation'
  <2>1. \A q \in Principals : local'[q].knows = local[q].knows
    BY <1>5, <1>6
  <2> QED
    BY <2>1 DEF IInv, Separation
<1> QED
  BY <1>7, <1>8, <1>9, <1>10, <1>11, <1>12, <1>13, <1>14 DEF IInv

\* A delivery the rules do not deny leaves its receiver short of three components.
LEMMA AllowedSeparates ==
    ASSUME IInv, NEW q \in Principals \ {Board}, NEW id \in Ids, id \in DOMAIN artifacts,
           ~ Denied(q, id), NEW j \in Projects,
           NEW c1 \in Components, NEW c2 \in Components, NEW c3 \in Components,
           Distinct(c1, c2, c3),
           {<<j, c1>>, <<j, c2>>, <<j, c3>>} \subseteq local[q].knows \cup artifacts[id].carries
    PROVE  FALSE
<1> DEFINE e == Evaluated(q, id)
           new == New(e, id)
           known == local[q].knows
<1>1. e.knows = known /\ new = artifacts[id].carries \ known
  BY EvaluatedFacts
<1>2. ~ R3(e, id)
  BY DEF Denied
<1>3. ASSUME NEW a \in Components, NEW b \in Components, NEW c \in Components,
             Distinct(a, b, c), <<j, a>> \in new,
             {<<j, b>>, <<j, c>>} \subseteq known \cup new
      PROVE  FALSE
  <2>1. /\ Distinct(a, c, b)
        /\ \/ <<j, b>> \in new /\ <<j, c>> \in new
           \/ <<j, b>> \in new /\ <<j, c>> \in known
           \/ <<j, c>> \in new /\ <<j, b>> \in known
           \/ <<j, b>> \in known /\ <<j, c>> \in known
    BY <1>3 DEF Distinct
  <2> QED
    BY <1>1, <1>2, <1>3, <2>1 DEF R3
<1>4. {<<j, c1>>, <<j, c2>>, <<j, c3>>} \subseteq known \cup new
  BY <1>1
<1>5. ~ ({<<j, c1>>, <<j, c2>>, <<j, c3>>} \subseteq known)
  BY DEF IInv, Separation
<1>6. Distinct(c1, c2, c3) /\ Distinct(c2, c1, c3) /\ Distinct(c3, c1, c2)
  BY DEF Distinct
<1> QED
  BY <1>3, <1>4, <1>5, <1>6

\* A delivery, allowed or refused, keeps the invariant: the gate of the receiver
\* is what keeps Separation.
LEMMA DeliveryPreserves ==
    ASSUME IInv, NEW p \in Principals, NEW q \in Principals, NEW id \in Ids,
           DeliverArtifact(p, q, id)
    PROVE  IInv'
<1>1. /\ local \in [Principals -> Store]
      /\ local[q] \in Store
      /\ id \in DOMAIN artifacts
      /\ artifacts' = artifacts
      /\ artifacts[id] \in Artifact
  BY DEF IInv, TypeOK, HoldsStored, DeliverArtifact
<1>2. CASE Denied(q, id)
  <2>1. local' = local
    BY <1>1, <1>2 DEF DeliverArtifact, Refused
  <2> QED
    BY <1>1, <2>1 DEF IInv, TypeOK, HoldsStored, CarriesExact, DerivedExact, KnowsExact,
                      LabelsPropagate, ReadsWithinKnows, Separation
<1>3. CASE ~ Denied(q, id)
  <2> DEFINE n == Accepted(local[q], id)
  <2>1. /\ n.artifacts = local[q].artifacts \cup {id}
        /\ n.carries = [local[q].carries EXCEPT ![id] = artifacts[id].carries]
        /\ n.derived = local[q].derived
        /\ n.received = local[q].received \cup {id}
        /\ n.knows = local[q].knows \cup artifacts[id].carries
    BY <1>1, AcceptResult
  <2>2. local' = [local EXCEPT ![q] = n]
    BY <1>1, <1>3 DEF DeliverArtifact
  <2>12. n \in Store
    BY <1>1, AcceptResult
  <2> HIDE DEF n
  <2>3. /\ local'[q] = n
        /\ \A r \in Principals \ {q} : local'[r] = local[r]
        /\ local' \in [Principals -> Store]
    BY <1>1, <2>2, <2>12
  <2>4. TypeOK'
    BY <1>1, <2>3 DEF IInv, TypeOK
  <2>5. HoldsStored'
    BY <1>1, <2>1, <2>3 DEF IInv, HoldsStored
  <2>6. CarriesExact'
    <3>1. \A i \in Ids : n.carries[i] = IF i = id THEN artifacts[id].carries ELSE local[q].carries[i]
      BY <1>1, <2>1 DEF Store
    <3> SUFFICES ASSUME NEW r \in Principals, NEW i \in Ids
                 PROVE  local'[r].carries[i]
                          = IF i \in local'[r].artifacts THEN artifacts[i].carries ELSE {}
      BY <1>1 DEF CarriesExact
    <3>2. local[r].carries[i] = IF i \in local[r].artifacts THEN artifacts[i].carries ELSE {}
      BY DEF IInv, CarriesExact
    <3>3. CASE r = q
      BY <2>1, <2>3, <3>1, <3>2, <3>3
    <3>4. CASE r # q
      BY <2>3, <3>2, <3>4
    <3> QED
      BY <3>3, <3>4
  <2>7. DerivedExact'
    BY <1>1, <2>1, <2>3 DEF IInv, DerivedExact
  <2>8. KnowsExact'
    BY <1>1, <2>1, <2>3 DEF IInv, KnowsExact
  <2>9. LabelsPropagate'
    BY <1>1 DEF IInv, LabelsPropagate
  <2>10. ReadsWithinKnows'
    BY <1>1, <2>1, <2>3 DEF IInv, ReadsWithinKnows
  <2>11. Separation'
    <3> SUFFICES ASSUME NEW r \in Principals \ {Board}, NEW j \in Projects,
                        NEW c1 \in Components, NEW c2 \in Components, NEW c3 \in Components,
                        Distinct(c1, c2, c3),
                        {<<j, c1>>, <<j, c2>>, <<j, c3>>} \subseteq local'[r].knows
                 PROVE  FALSE
      BY DEF Separation
    <3>1. CASE r = q
      BY <1>1, <1>3, <2>1, <2>3, <3>1, AllowedSeparates
    <3>2. CASE r # q
      BY <2>3, <3>2 DEF IInv, Separation
    <3> QED
      BY <3>1, <3>2
  <2> QED
    BY <2>4, <2>5, <2>6, <2>7, <2>8, <2>9, <2>10, <2>11 DEF IInv
<1> QED
  BY <1>2, <1>3

\* Every step of the protocol preserves the inductive invariant.
LEMMA NextPreserves ==
    ASSUME IInv, Next
    PROVE  IInv'
<1>1. /\ local \in [Principals -> Store]
      /\ Board \in Principals
  BY BoardAssumption DEF IInv, TypeOK
<1>2. ASSUME NEW id \in Sources, CreateSource(id)
      PROVE  IInv'
  <2> DEFINE art == [producer |-> Board, carries |-> SourceLabels[id], inputs |-> {}]
  <2>1. id \in Ids /\ id \notin DOMAIN artifacts /\ StoreArtifact(id, art)
    BY <1>2 DEF CreateSource, StoreArtifact, Ids
  <2>2. art \in Artifact
    BY <1>1, SourceLabelsAssumption DEF Artifact, Labels
  <2>3. local[Board].carries[id] = {} /\ local[Board].derived[id] = {}
    BY <1>1, <2>1, FreshId
  <2>4. Holding(AddMessageFacts(local[Board], id, art), id)
          = [artifacts |-> local[Board].artifacts \cup {id},
             carries   |-> [local[Board].carries EXCEPT ![id] = art.carries],
             derived   |-> [local[Board].derived EXCEPT ![id] = art.inputs],
             received  |-> local[Board].received,
             knows     |-> local[Board].knows]
    <3>1. local[Board] \in Store
      BY <1>1
    <3>2. /\ [local[Board].carries EXCEPT ![id] = @ \cup art.carries]
                = [local[Board].carries EXCEPT ![id] = art.carries]
          /\ [local[Board].derived EXCEPT ![id] = art.inputs] = local[Board].derived
      BY <2>3, <3>1 DEF Store
    <3> HIDE DEF art
    <3>3. local[Board]
            = [artifacts |-> local[Board].artifacts, carries |-> local[Board].carries,
               derived |-> local[Board].derived, received |-> local[Board].received,
               knows |-> local[Board].knows]
      BY <3>1 DEF Store
    <3>4. Holding(AddMessageFacts(local[Board], id, art), id)
            = [artifacts |-> local[Board].artifacts \cup {id},
               carries   |-> [local[Board].carries EXCEPT ![id] = @ \cup art.carries],
               derived   |-> local[Board].derived,
               received  |-> local[Board].received,
               knows     |-> local[Board].knows]
      <4>1. AddMessageFacts(local[Board], id, art)
              = [local[Board] EXCEPT !.carries = [local[Board].carries EXCEPT ![id] = @ \cup art.carries]]
        BY DEF AddMessageFacts
      <4>2. AddMessageFacts(local[Board], id, art)
              = [artifacts |-> local[Board].artifacts,
                 carries   |-> [local[Board].carries EXCEPT ![id] = @ \cup art.carries],
                 derived   |-> local[Board].derived,
                 received  |-> local[Board].received,
                 knows     |-> local[Board].knows]
        BY <3>3, <4>1
      <4> DEFINE facts == [local[Board].carries EXCEPT ![id] = @ \cup art.carries]
                 added == AddMessageFacts(local[Board], id, art)
      <4>3. added = [artifacts |-> local[Board].artifacts, carries |-> facts,
                     derived |-> local[Board].derived, received |-> local[Board].received,
                     knows |-> local[Board].knows]
        BY <4>2
      <4>4. Holding(added, id)
              = [artifacts |-> local[Board].artifacts \cup {id}, carries |-> facts,
                 derived |-> local[Board].derived, received |-> local[Board].received,
                 knows |-> local[Board].knows]
        <5> HIDE DEF facts, added
        <5> QED
          BY <4>3 DEF Holding
      <4> QED
        BY <4>4
    <3> QED
      BY <3>2, <3>4
  <2>5. local' = [local EXCEPT ![Board] = Holding(AddMessageFacts(local[Board], id, art), id)]
    BY <1>2 DEF CreateSource
  <2>6. art.inputs = {}
    OBVIOUS
  <2> HIDE DEF art
  <2> QED
    BY <1>1, <2>1, <2>2, <2>4, <2>5, <2>6, CreationPreserves
<1>3. ASSUME NEW p \in Principals, NEW id \in Outputs, ComputeArtifact(p, id)
      PROVE  IInv'
  <2> DEFINE L == InheritedLabels(local[p], id)
             art == [producer |-> p, carries |-> L, inputs |-> local[p].artifacts]
  <2>1. id \in Ids /\ id \notin DOMAIN artifacts /\ StoreArtifact(id, art)
    BY <1>3 DEF ComputeArtifact, StoreArtifact, Ids
  <2>2. art.carries = L /\ art.inputs = local[p].artifacts /\ art.producer = p
    OBVIOUS
  <2>3. local' = [local EXCEPT ![p] =
                    Close(Holding(AddMessageFacts(DerivedFromAll(local[p], id), id, art), id))]
    BY <1>3 DEF ComputeArtifact
  <2>4. /\ L = UNION {artifacts[x].carries : x \in local[p].artifacts}
        /\ L \subseteq Labels
        /\ Close(Holding(AddMessageFacts(DerivedFromAll(local[p], id), id, art), id))
             = [artifacts |-> local[p].artifacts \cup {id},
                carries   |-> [local[p].carries EXCEPT ![id] = art.carries],
                derived   |-> [local[p].derived EXCEPT ![id] = art.inputs],
                received  |-> local[p].received,
                knows     |-> local[p].knows]
    BY <2>1, <2>2, ComputeResult
  <2>5. art \in Artifact
    BY <1>1, <2>4 DEF Artifact, Store
  <2>6. p # Board => L \subseteq local[p].knows
    BY <2>4 DEF IInv, ReadsWithinKnows
  <2> HIDE DEF art, L
  <2> QED
    BY <2>1, <2>2, <2>3, <2>4, <2>5, <2>6, CreationPreserves
<1>4. ASSUME NEW p \in Principals, NEW q \in Principals, NEW id \in Ids,
             DeliverArtifact(p, q, id)
      PROVE  IInv'
  BY <1>4, DeliveryPreserves
<1>5. ASSUME NEW p \in Principals, NEW id \in Notices, DeliveryNotice(p, id)
      PROVE  IInv'
  <2> DEFINE art == [producer |-> p, carries |-> {}, inputs |-> {}]
  <2>1. id \in Ids /\ id \notin DOMAIN artifacts /\ StoreArtifact(id, art)
    BY <1>5 DEF DeliveryNotice, StoreArtifact, Ids
  <2>2. art \in Artifact
    BY DEF Artifact
  <2>3. local[p].carries[id] = {} /\ local[p].derived[id] = {}
    BY <2>1, FreshId
  <2>4. art.carries = {} /\ art.inputs = {}
    OBVIOUS
  <2> HIDE DEF art
  <2>5. Holding(local[p], id)
          = [artifacts |-> local[p].artifacts \cup {id},
             carries   |-> [local[p].carries EXCEPT ![id] = art.carries],
             derived   |-> [local[p].derived EXCEPT ![id] = art.inputs],
             received  |-> local[p].received,
             knows     |-> local[p].knows]
    <3>1. local[p] \in Store
      BY <1>1
    <3>2. /\ [local[p].carries EXCEPT ![id] = art.carries] = local[p].carries
          /\ [local[p].derived EXCEPT ![id] = art.inputs] = local[p].derived
      BY <2>3, <2>4, <3>1 DEF Store
    <3>3. local[p] = [artifacts |-> local[p].artifacts, carries |-> local[p].carries,
                      derived |-> local[p].derived, received |-> local[p].received,
                      knows |-> local[p].knows]
      BY <3>1 DEF Store
    <3>4. Holding(local[p], id)
            = [artifacts |-> local[p].artifacts \cup {id}, carries |-> local[p].carries,
               derived |-> local[p].derived, received |-> local[p].received,
               knows |-> local[p].knows]
      BY <3>3 DEF Holding
    <3> QED
      BY <3>2, <3>4
  <2>6. local' = [local EXCEPT ![p] = Holding(local[p], id)]
    BY <1>5 DEF DeliveryNotice
  <2> QED
    BY <2>1, <2>2, <2>4, <2>5, <2>6, CreationPreserves
<1> QED
  BY <1>2, <1>3, <1>4, <1>5 DEF Next

\* The empty stores satisfy the invariant.
LEMMA InitEstablishes ==
    ASSUME Init
    PROVE  IInv
<1>1. EmptyStore \in Store
  BY DEF EmptyStore, Store
<1>2. /\ DOMAIN artifacts = {}
      /\ local = [p \in Principals |-> EmptyStore]
  BY DEF Init
<1>3. TypeOK
  BY <1>1, <1>2 DEF TypeOK
<1>4. \A p \in Principals : local[p] = EmptyStore
  BY <1>2
<1> QED
  BY <1>2, <1>3, <1>4 DEF IInv, EmptyStore, HoldsStored, CarriesExact, DerivedExact, KnowsExact,
                          LabelsPropagate, ReadsWithinKnows, Separation

\* The inductive invariant always holds.
THEOREM Invariance == Spec => []IInv
<1>1. Init => IInv
  BY InitEstablishes
<1>2. IInv /\ [Next]_vars => IInv'
  <2>1. CASE UNCHANGED vars
    BY <2>1 DEF vars, IInv, TypeOK, HoldsStored, CarriesExact, DerivedExact, KnowsExact,
                LabelsPropagate, ReadsWithinKnows, Separation
  <2> QED
    BY <2>1, NextPreserves
<1> QED
  BY <1>1, <1>2, PTL DEF Spec

\* Type correctness of every reachable state.
THEOREM TypeCorrect == Spec => []TypeOK
<1>1. IInv => TypeOK
  BY DEF IInv
<1> QED
  BY <1>1, Invariance, PTL

\* The policy's promise, for any number of principals, projects, components and
\* messages: nobody but the Board ever comes to know three components of a project.
THEOREM SeparationHolds == Spec => []Separation
<1>1. IInv => Separation
  BY DEF IInv
<1> QED
  BY <1>1, Invariance, PTL

\* No principal can read a label its Knows facts do not account for, and no
\* artifact has lost a label of what it was computed from.
THEOREM NoLaundering == Spec => [](ReadsWithinKnows /\ LabelsPropagate)
<1>1. IInv => ReadsWithinKnows /\ LabelsPropagate
  BY DEF IInv
<1> QED
  BY <1>1, Invariance, PTL

\* Between operations the stored facts are a fixpoint of the rules.
THEOREM AlwaysClosed == Spec => []StoresClosed
<1> QED
  BY ClosedFromInv, Invariance, PTL

-----------------------------------------------------------------------------
(* What a step may change.                                                 *)

\* The action StoresGrow asks of every step, in two parts.
ArtifactsKept ==
    \A i \in DOMAIN artifacts : i \in DOMAIN artifacts' /\ artifacts'[i] = artifacts[i]

OneStoreGrows ==
    /\ \A p, q \in Principals : local'[p] # local[p] /\ local'[q] # local[q] => p = q
    /\ \A p \in Principals : /\ local[p].artifacts \subseteq local'[p].artifacts
                             /\ local[p].knows \subseteq local'[p].knows

\* Storing under a new id changes no artifact stored before.
LEMMA StoringKeeps ==
    ASSUME NEW id, NEW art, StoreArtifact(id, art)
    PROVE  ArtifactsKept
BY DEF StoreArtifact, ArtifactsKept

\* Replacing one store by one that holds and knows as much is growth.
LEMMA ReplacingGrows ==
    ASSUME local \in [Principals -> Store], NEW p \in Principals, NEW s,
           local' = [local EXCEPT ![p] = s],
           local[p].artifacts \subseteq s.artifacts, local[p].knows \subseteq s.knows
    PROVE  OneStoreGrows
<1>1. \A q \in Principals : local'[q] = IF q = p THEN s ELSE local[q]
  OBVIOUS
<1> QED
  BY <1>1 DEF OneStoreGrows

\* Every operation adds to one store and rewrites no artifact.
LEMMA NextGrows ==
    ASSUME IInv, Next
    PROVE  ArtifactsKept /\ OneStoreGrows
<1>1. local \in [Principals -> Store] /\ Board \in Principals /\ DOMAIN artifacts \subseteq Ids
  BY BoardAssumption DEF IInv, TypeOK
<1>2. ASSUME NEW id \in Sources, CreateSource(id)
      PROVE  ArtifactsKept /\ OneStoreGrows
  <2> DEFINE art == [producer |-> Board, carries |-> SourceLabels[id], inputs |-> {}]
             s == Holding(AddMessageFacts(local[Board], id, art), id)
  <2>1. StoreArtifact(id, art) /\ local' = [local EXCEPT ![Board] = s] /\ id \in Ids
    BY <1>2 DEF CreateSource, Ids
  <2>2. local[Board].artifacts \subseteq s.artifacts /\ local[Board].knows \subseteq s.knows
    <3> HIDE DEF art
    <3> QED
      BY <1>1 DEF Holding, AddMessageFacts, Store
  <2> HIDE DEF art, s
  <2> QED
    BY <1>1, <2>1, <2>2, StoringKeeps, ReplacingGrows
<1>3. ASSUME NEW p \in Principals, NEW id \in Outputs, ComputeArtifact(p, id)
      PROVE  ArtifactsKept /\ OneStoreGrows
  <2> DEFINE art == [producer |-> p, carries |-> InheritedLabels(local[p], id),
                     inputs |-> local[p].artifacts]
             s == Close(Holding(AddMessageFacts(DerivedFromAll(local[p], id), id, art), id))
  <2>1. StoreArtifact(id, art) /\ local' = [local EXCEPT ![p] = s] /\ id \in Ids
    BY <1>3 DEF ComputeArtifact, Ids
  <2>2. art.carries = InheritedLabels(local[p], id) /\ id \notin DOMAIN artifacts
    BY <2>1 DEF StoreArtifact
  <2>3. s.artifacts = local[p].artifacts \cup {id} /\ s.knows = local[p].knows
    <3> HIDE DEF art
    <3>1. s = [artifacts |-> local[p].artifacts \cup {id},
               carries   |-> [local[p].carries EXCEPT ![id] = InheritedLabels(local[p], id)],
               derived   |-> [local[p].derived EXCEPT ![id] = local[p].artifacts],
               received  |-> local[p].received,
               knows     |-> local[p].knows]
      BY <2>1, <2>2, ComputeResult
    <3> QED
      BY <3>1
  <2> HIDE DEF art, s
  <2> QED
    BY <1>1, <2>1, <2>3, StoringKeeps, ReplacingGrows
<1>4. ASSUME NEW p \in Principals, NEW q \in Principals, NEW id \in Ids,
             DeliverArtifact(p, q, id)
      PROVE  ArtifactsKept /\ OneStoreGrows
  <2> DEFINE s == IF Denied(q, id) THEN Refused(local[q], id) ELSE Accepted(local[q], id)
  <2>1. id \in DOMAIN artifacts
    BY <1>4 DEF DeliverArtifact, IInv, HoldsStored
  <2>2. local' = [local EXCEPT ![q] = s] /\ UNCHANGED artifacts
    BY <1>4 DEF DeliverArtifact
  <2>3. local[q].artifacts \subseteq s.artifacts /\ local[q].knows \subseteq s.knows
    <3>1. Accepted(local[q], id)
            = [artifacts |-> local[q].artifacts \cup {id},
               carries   |-> [local[q].carries EXCEPT ![id] = artifacts[id].carries],
               derived   |-> local[q].derived,
               received  |-> local[q].received \cup {id},
               knows     |-> local[q].knows \cup artifacts[id].carries]
      BY <2>1, AcceptResult
    <3>2. /\ Accepted(local[q], id).artifacts = local[q].artifacts \cup {id}
          /\ Accepted(local[q], id).knows = local[q].knows \cup artifacts[id].carries
      BY <3>1
    <3>3. CASE Denied(q, id)
      BY <3>3 DEF Refused
    <3>4. CASE ~ Denied(q, id)
      BY <3>2, <3>4
    <3> QED
      BY <3>3, <3>4
  <2> HIDE DEF s
  <2>4. OneStoreGrows
    BY <1>1, <2>2, <2>3, ReplacingGrows
  <2> QED
    BY <2>2, <2>4 DEF ArtifactsKept
<1>5. ASSUME NEW p \in Principals, NEW id \in Notices, DeliveryNotice(p, id)
      PROVE  ArtifactsKept /\ OneStoreGrows
  <2> DEFINE art == [producer |-> p, carries |-> {}, inputs |-> {}]
  <2>1. StoreArtifact(id, art) /\ local' = [local EXCEPT ![p] = Holding(local[p], id)]
    BY <1>5 DEF DeliveryNotice
  <2>2. /\ local[p].artifacts \subseteq Holding(local[p], id).artifacts
        /\ local[p].knows \subseteq Holding(local[p], id).knows
    BY <1>1 DEF Holding, Store
  <2> HIDE DEF art
  <2> QED
    BY <1>1, <2>1, <2>2, StoringKeeps, ReplacingGrows
<1> QED
  BY <1>2, <1>3, <1>4, <1>5 DEF Next

\* Stores only grow, one at a time, and an artifact is never rewritten: no
\* operation, not even a refused delivery, takes knowledge back.
THEOREM GrowthHolds == Spec => StoresGrow
<1>1. IInv /\ [Next]_vars => [ArtifactsKept /\ OneStoreGrows]_vars
  BY NextGrows
<1>2. [ArtifactsKept /\ OneStoreGrows]_vars
        => [/\ \A i \in DOMAIN artifacts : i \in DOMAIN artifacts' /\ artifacts'[i] = artifacts[i]
            /\ \A p, q \in Principals : local'[p] # local[p] /\ local'[q] # local[q] => p = q
            /\ \A p \in Principals : /\ local[p].artifacts \subseteq local'[p].artifacts
                                     /\ local[p].knows \subseteq local'[p].knows]_vars
  BY DEF ArtifactsKept, OneStoreGrows
<1> QED
  BY <1>1, <1>2, Invariance, PTL DEF Spec, StoresGrow
=============================================================================
