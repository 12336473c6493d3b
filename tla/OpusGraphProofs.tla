-------------------------- MODULE OpusGraphProofs --------------------------
(***************************************************************************)
(* Theorems about OpusGraph for every set of segments and all lists of     *)
(* dependencies: the counters of _validate_dag and topological_waves end   *)
(* where the graph says.  What they show of the waves is what OpusRun      *)
(* assumes of them.                                                        *)
(***************************************************************************)
EXTENDS OpusGraph, FiniteSetTheorems, SequenceTheorems, TLAPS

(* The part of TypeOK that the definitions over the graph rest on.          *)
GraphOK == Registered \subseteq Ids /\ segments \in [Registered -> Segment]

(* A depends_on is a finite list of ids.                                    *)
LEMMA DepsType ==
    ASSUME GraphOK, NEW s \in Registered
    PROVE  /\ segments[s].deps \in Seq(Ids) /\ Len(segments[s].deps) \in Nat
           /\ DOMAIN segments[s].deps = 1..Len(segments[s].deps)
           /\ DependsOn(s) \subseteq Ids
<1>1. segments[s].deps \in Seq(Ids)
  BY GraphAssumption DEF GraphOK, Segment
<1> QED BY <1>1 DEF DependsOn

(* The entries that name a member of a set can be counted.                  *)
LEMMA EntriesType ==
    ASSUME GraphOK, NEW s \in Registered, NEW D
    PROVE  /\ IsFiniteSet({i \in DOMAIN segments[s].deps : segments[s].deps[i] \in D})
           /\ Entries(s, D) \in Nat
<1>1. IsFiniteSet(DOMAIN segments[s].deps)
  BY DepsType, FS_Interval
<1>2. IsFiniteSet({i \in DOMAIN segments[s].deps : segments[s].deps[i] \in D})
  BY <1>1, FS_Subset
<1> QED BY <1>2, FS_CardinalityType DEF Entries

(* No entry counts exactly when no dependency is in the set.                *)
LEMMA EntriesZero ==
    ASSUME GraphOK, NEW s \in Registered, NEW D
    PROVE  Entries(s, D) = 0 <=> DependsOn(s) \cap D = {}
<1> DEFINE I == {i \in DOMAIN segments[s].deps : segments[s].deps[i] \in D}
<1>1. Cardinality(I) = 0 <=> I = {}
  BY EntriesType, FS_EmptySet
<1>2. I = {} <=> DependsOn(s) \cap D = {}
  BY DEF DependsOn
<1> QED BY <1>1, <1>2 DEF Entries

(* Entries are counted one by one, repeated names included: the counts of   *)
(* disjoint sets add up.                                                    *)
LEMMA EntriesSplit ==
    ASSUME GraphOK, NEW s \in Registered, NEW D, NEW E, D \cap E = {}
    PROVE  Entries(s, D \cup E) = Entries(s, D) + Entries(s, E)
<1> DEFINE A == {i \in DOMAIN segments[s].deps : segments[s].deps[i] \in D}
           B == {i \in DOMAIN segments[s].deps : segments[s].deps[i] \in E}
<1>1. {i \in DOMAIN segments[s].deps : segments[s].deps[i] \in D \cup E} = A \cup B
  OBVIOUS
<1>2. IsFiniteSet(A) /\ IsFiniteSet(B)
  BY EntriesType
<1>3. A \cap B = {}
  OBVIOUS
<1>4. Cardinality(A) \in Nat /\ Cardinality(B) \in Nat
  BY EntriesType DEF Entries
<1> HIDE DEF A, B
<1>5. Cardinality(A \cup B) = Cardinality(A) + Cardinality(B) - Cardinality(A \cap B)
  BY <1>2, FS_Union
<1>6. Cardinality(A \cup B) = Cardinality(A) + Cardinality(B)
  <2>1. Cardinality(A \cap B) = 0
    BY <1>3, FS_EmptySet, Zenon
  <2> QED BY <1>4, <1>5, <2>1
<1> QED BY <1>1, <1>6 DEF Entries, A, B

(* What is taken out of the set is taken off the count.                     *)
LEMMA EntriesDrop ==
    ASSUME GraphOK, NEW s \in Registered, NEW D, NEW E \in SUBSET D
    PROVE  Entries(s, D) - Entries(s, E) = Entries(s, D \ E)
<1>1. (D \ E) \cap E = {} /\ (D \ E) \cup E = D
  OBVIOUS
<1>2. Entries(s, D) = Entries(s, D \ E) + Entries(s, E)
  BY <1>1, EntriesSplit
<1>3. Entries(s, D \ E) \in Nat /\ Entries(s, E) \in Nat
  BY EntriesType
<1> QED BY <1>2, <1>3

(* With all dependencies in the set, every entry counts.                    *)
LEMMA EntriesAll ==
    ASSUME GraphOK, NEW s \in Registered, NEW D, DependsOn(s) \subseteq D
    PROVE  Entries(s, D) = Len(segments[s].deps)
<1>1. {i \in DOMAIN segments[s].deps : segments[s].deps[i] \in D} = 1..Len(segments[s].deps)
  BY DepsType DEF DependsOn
<1>2. Len(segments[s].deps) \in Nat
  BY DepsType
<1>3. Cardinality(1..Len(segments[s].deps)) = Len(segments[s].deps)
  BY <1>2, FS_Interval
<1> QED BY <1>1, <1>3 DEF Entries

-----------------------------------------------------------------------------
(* The inductive invariant.                                                 *)

Seen == {visited[i] : i \in DOMAIN visited}
Laid == UNION {waves[i] : i \in DOMAIN waves}

(* _validate_dag counts, for every segment, the entries of its depends_on   *)
(* that name a segment not yet taken from the queue, ...                    *)
KahnCounts ==
    pc = "kahn" =>
        /\ DOMAIN inDegree = Registered
        /\ \A s \in Registered : inDegree[s] = Entries(s, Registered \ Seen)
        /\ ready = {s \in Registered \ Seen : inDegree[s] = 0}

(* ... and what has been taken depends only on what was taken before it.    *)
KahnOrder ==
    pc = "kahn" =>
        /\ AllKnown
        /\ Cardinality(Seen) = Len(visited)
        /\ \A s \in Seen : DependsOn(s) \subseteq Seen
        /\ \A S \in SUBSET Seen : S # {} => \E s \in S : DependsOn(s) \cap S = {}

(* The verdict stays exact while the waves are laid out.                    *)
VerdictStands ==
    pc \in {"idle", "layout", "planned"} =>
        /\ verdict = "accepted" => AllKnown /\ Acyclic
        /\ verdict = "cycle" => ~Acyclic
        /\ verdict = "unknown" => ~AllKnown

(* topological_waves counts the entries that name a waiting segment not yet *)
(* laid out.                                                                *)
LayoutCounts ==
    pc = "layout" =>
        /\ DOMAIN inDegree = Waiting
        /\ \A s \in Waiting : inDegree[s] = Entries(s, Waiting \ Laid)
        /\ ready = {s \in Waiting \ Laid : inDegree[s] = 0}

(* The position of the first wave of waiting segments.                      *)
First == IF Immediate = {} THEN 1 ELSE 2

(* The waves are disjoint, and a dependency lies in an earlier one.         *)
LayoutOrder ==
    pc \in {"layout", "planned"} =>
        /\ Immediate # {} => 1 \in DOMAIN waves /\ waves[1] = Immediate
        /\ \A j \in DOMAIN waves : j >= First => waves[j] \subseteq Waiting
        /\ \A i, j \in DOMAIN waves : i # j => waves[i] \cap waves[j] = {}
        /\ \A j \in DOMAIN waves : \A s \in waves[j] \cap Waiting :
              \A d \in DependsOn(s) \cap Waiting : \E i \in DOMAIN waves : i < j /\ d \in waves[i]

(* Every wave but the first of them hangs on the wave before it, and so do  *)
(* the segments that are ready.                                             *)
LayoutEarliest ==
    pc \in {"layout", "planned"} =>
        /\ \A j \in DOMAIN waves : j > First =>
              \A s \in waves[j] : DependsOn(s) \cap waves[j - 1] # {}
        /\ pc = "layout" /\ Len(waves) >= First =>
              \A s \in ready : DependsOn(s) \cap waves[Len(waves)] # {}

(* Of an acyclic graph no segment is left over.                             *)
LayoutComplete ==
    pc = "planned" /\ verdict = "accepted" => Registered \subseteq Laid

IInv == /\ TypeOK /\ KahnCounts /\ KahnOrder /\ VerdictStands
        /\ LayoutCounts /\ LayoutOrder /\ LayoutEarliest /\ LayoutComplete

(* The type invariant says what the lemmas above ask for.                   *)
LEMMA TypeGraph == TypeOK => GraphOK
  BY DEF TypeOK, GraphOK

(* The actions that leave the graph alone: all but Register.                *)
LEMMA GraphStays ==
    ASSUME UNCHANGED segments
    PROVE  /\ Registered' = Registered /\ Immediate' = Immediate /\ Waiting' = Waiting
           /\ First' = First
           /\ AllKnown' = AllKnown /\ Acyclic' = Acyclic
           /\ \A s : DependsOn(s)' = DependsOn(s)
           /\ \A s, D : Entries(s, D)' = Entries(s, D)
  BY DEF Registered, Immediate, Waiting, First, AllKnown, Acyclic, DependsOn, Entries

(* What was taken from the queue is registered.                             *)
LEMMA SeenType == TypeOK => Seen \subseteq Registered /\ Len(visited) \in Nat
  BY DEF TypeOK, Seen

(* The waves hold registered segments.                                      *)
LEMMA LaidType ==
    TypeOK => /\ Laid \subseteq Registered /\ Len(waves) \in Nat
              /\ DOMAIN waves = 1..Len(waves)
              /\ \A j \in DOMAIN waves : waves[j] \subseteq Registered
  BY DEF TypeOK, Laid

(* Taking a segment from the queue.                                         *)
LEMMA SeenGrows ==
    ASSUME TypeOK, NEW s \in Registered, visited' = Append(visited, s)
    PROVE  Seen' = Seen \cup {s} /\ Len(visited') = Len(visited) + 1
<1>1. visited \in Seq(Registered)
  BY DEF TypeOK
<1>2. /\ Len(visited) \in Nat /\ DOMAIN visited = 1..Len(visited)
      /\ DOMAIN visited' = 1..(Len(visited) + 1) /\ Len(visited') = Len(visited) + 1
      /\ visited'[Len(visited) + 1] = s
      /\ \A i \in 1..Len(visited) : visited'[i] = visited[i]
  BY <1>1
<1> QED BY <1>2 DEF Seen

(* Appending a wave.                                                        *)
LEMMA LaidGrows ==
    ASSUME TypeOK, NEW W \in SUBSET Registered, waves' = Append(waves, W)
    PROVE  /\ Laid' = Laid \cup W
           /\ Len(waves') = Len(waves) + 1 /\ DOMAIN waves' = 1..(Len(waves) + 1)
           /\ waves'[Len(waves) + 1] = W
           /\ \A i \in DOMAIN waves : waves'[i] = waves[i]
<1>1. waves \in Seq(SUBSET Registered)
  BY DEF TypeOK
<1>2. /\ Len(waves) \in Nat /\ DOMAIN waves = 1..Len(waves)
      /\ DOMAIN waves' = 1..(Len(waves) + 1) /\ Len(waves') = Len(waves) + 1
      /\ waves'[Len(waves) + 1] = W
      /\ \A i \in 1..Len(waves) : waves'[i] = waves[i]
  BY <1>1
<1>3. Laid' = Laid \cup W
  <2>1. \A i \in DOMAIN waves' : i \in DOMAIN waves \/ i = Len(waves) + 1
    BY <1>2
  <2>2. DOMAIN waves \subseteq DOMAIN waves' /\ Len(waves) + 1 \in DOMAIN waves'
    BY <1>2
  <2> QED BY <1>2, <2>1, <2>2 DEF Laid
<1> QED BY <1>2, <1>3
-----------------------------------------------------------------------------
(* One lemma per action: each preserves the invariant.                      *)

(* Registering a segment starts a call anew: nothing is claimed before the  *)
(* validation.                                                              *)
LEMMA RegisterStep ==
    ASSUME IInv, NEW id \in Ids, NEW seg \in Segment, Register(id, seg)
    PROVE  IInv'
<1> USE DEF IInv, TypeOK, Register
<1>1. Registered' = Registered \cup {id}
  BY DEF Registered
<1>2. segments' \in [Registered' -> Segment]
  <2>1. segments' = [s \in Registered \cup {id} |-> IF s = id THEN seg ELSE segments[s]]
    OBVIOUS
  <2>2. \A s \in Registered \cup {id} : (IF s = id THEN seg ELSE segments[s]) \in Segment
    OBVIOUS
  <2> HIDE DEF IInv, TypeOK, Register
  <2> QED BY <1>1, <2>1, <2>2
<1>3. visited' \in Seq(Registered') /\ waves' \in Seq(SUBSET Registered')
  BY <1>1, SeqMonotonic, EmptySeq
<1>4. TypeOK'
  BY <1>1, <1>2, <1>3
<1> QED
  BY <1>4 DEF KahnCounts, KahnOrder, VerdictStands, LayoutCounts, LayoutOrder,
              LayoutEarliest, LayoutComplete

(* A call that raises early leaves the graph as it is.                      *)
LEMMA RaiseStep ==
    ASSUME IInv, RaiseDuplicate \/ RaiseUnknown PROVE IInv'
<1> USE DEF IInv, RaiseDuplicate, RaiseUnknown
<1>1. Registered' = Registered /\ AllKnown' = AllKnown
  BY GraphStays
<1>2. TypeOK'
  BY <1>1, EmptySeq DEF TypeOK, Verdicts
<1>3. VerdictStands'
  BY <1>1 DEF VerdictStands
<1> QED
  BY <1>2, <1>3 DEF KahnCounts, KahnOrder, LayoutCounts, LayoutOrder, LayoutEarliest,
                    LayoutComplete

(* At the start nothing has been taken from the queue.                      *)
LEMMA StartValidationStep ==
    ASSUME IInv, StartValidation PROVE IInv'
<1> USE DEF StartValidation
<1>1. GraphOK /\ TypeOK
  BY TypeGraph DEF IInv
<1>2. /\ Registered' = Registered /\ AllKnown' = AllKnown
      /\ \A s, D : Entries(s, D)' = Entries(s, D)
  BY GraphStays
<1>3. Seen' = {} /\ Len(visited') = 0
  BY DEF Seen
<1>4. \A s \in Registered : inDegree'[s] = Entries(s, Registered) /\ inDegree'[s] \in Nat
  <2>1. ASSUME NEW s \in Registered
        PROVE  Len(segments[s].deps) = Entries(s, Registered) /\ Entries(s, Registered) \in Nat
    BY <1>1, EntriesAll, EntriesType DEF AllKnown
  <2> QED BY <2>1
<1>5. TypeOK'
  BY <1>1, <1>2, <1>4, EmptySeq DEF TypeOK
<1>6. KahnCounts'
  <2>1. ASSUME NEW s \in Registered PROVE inDegree'[s] = Entries(s, Registered \ Seen)'
    <3>1. Registered \ {} = Registered
      OBVIOUS
    <3>2. inDegree'[s] = Entries(s, Registered \ {})
      BY <1>4, <3>1
    <3> QED BY <1>2, <1>3, <3>2 DEF Entries
  <2>2. ready' = {s \in Registered' \ Seen' : inDegree'[s] = 0}
    BY <1>2, <1>3
  <2> QED BY <1>2, <2>1, <2>2 DEF KahnCounts
<1>7. KahnOrder'
  <2>1. Cardinality({}) = 0
    BY FS_EmptySet
  <2> QED BY <1>2, <1>3, <2>1 DEF KahnOrder
<1> QED
  BY <1>5, <1>6, <1>7 DEF IInv, VerdictStands, LayoutCounts, LayoutOrder, LayoutEarliest,
                          LayoutComplete
(* queue.pop() and the loop over the dependents of what it returns.         *)
LEMMA VisitStep ==
    ASSUME IInv, NEW s \in Registered, Visit(s) PROVE IInv'
<1> DEFINE Left == Registered \ Seen
<1>1. /\ GraphOK /\ TypeOK /\ pc = "kahn" /\ pc' = "kahn" /\ AllKnown
      /\ DOMAIN inDegree = Registered /\ Seen \subseteq Registered
  BY TypeGraph, SeenType DEF IInv, Visit, KahnCounts, KahnOrder
<1>2. /\ Registered' = Registered /\ AllKnown' = AllKnown
      /\ \A t : DependsOn(t)' = DependsOn(t)
      /\ \A t, D : Entries(t, D)' = Entries(t, D)
  BY GraphStays DEF Visit
<1>3. /\ Seen' = Seen \cup {s} /\ Len(visited') = Len(visited) + 1
      /\ Registered' \ Seen' = Left \ {s}
  BY <1>1, <1>2, SeenGrows DEF Visit
<1>4. /\ s \in Left /\ DependsOn(s) \cap Left = {}
      /\ \A t \in Seen : DependsOn(t) \subseteq Seen
  <2>1. s \in Left /\ inDegree[s] = 0 /\ inDegree[s] = Entries(s, Left)
    BY <1>1 DEF Visit, IInv, KahnCounts
  <2>2. DependsOn(s) \cap Left = {}
    BY <1>1, <2>1, EntriesZero
  <2> QED BY <1>1, <2>1, <2>2 DEF IInv, KahnOrder
<1>5. ASSUME NEW t \in Registered
      PROVE  /\ inDegree'[t] = Entries(t, Left \ {s})
             /\ inDegree'[t] = 0 <=> DependsOn(t) \cap (Left \ {s}) = {}
  <2>1. inDegree'[t] = inDegree[t] - Entries(t, {s})
    BY <1>1 DEF Visit, Decremented
  <2>2. inDegree[t] = Entries(t, Left)
    BY <1>1 DEF IInv, KahnCounts
  <2>3. {s} \in SUBSET Left
    BY <1>4
  <2>4. Entries(t, Left) - Entries(t, {s}) = Entries(t, Left \ {s})
    BY <1>1, <2>3, EntriesDrop
  <2> QED BY <1>1, <2>1, <2>2, <2>4, EntriesZero
<1>6. \A t \in Registered : inDegree'[t] \in Nat
  BY <1>1, <1>5, EntriesType
<1>7. DOMAIN inDegree' = Registered /\ inDegree' \in [Registered -> Nat]
  BY <1>1, <1>6 DEF Visit, Decremented
<1>8. ready' = {t \in Left \ {s} : inDegree'[t] = 0}
  <2>1. ready' = (ready \ {s}) \cup {t \in Registered : inDegree'[t] = 0 /\ s \in DependsOn(t)}
    BY <1>1 DEF Visit, ReachZero
  <2>2. ready = {t \in Left : inDegree[t] = 0}
    BY <1>1 DEF IInv, KahnCounts
  <2>3. ASSUME NEW t \in Left PROVE inDegree[t] = 0 <=> DependsOn(t) \cap Left = {}
    BY <1>1, EntriesZero DEF IInv, KahnCounts
  <2>4. ASSUME NEW t \in ready' PROVE t \in Left \ {s} /\ inDegree'[t] = 0
    <3>1. CASE t \in ready \ {s}
      BY <1>5, <2>2, <2>3, <3>1
    <3>2. CASE t \in Registered /\ inDegree'[t] = 0 /\ s \in DependsOn(t)
      BY <1>4, <3>2
    <3> QED BY <2>1, <2>4, <3>1, <3>2
  <2>5. ASSUME NEW t \in Left \ {s}, inDegree'[t] = 0 PROVE t \in ready'
    BY <1>5, <2>1, <2>2, <2>3, <2>5
  <2> QED BY <2>4, <2>5
<1>9. TypeOK'
  <2>1. visited' \in Seq(Registered)
    BY <1>1 DEF Visit, TypeOK
  <2>2. ready' \subseteq Registered
    BY <1>8
  <2> QED BY <1>1, <1>2, <1>7, <2>1, <2>2 DEF Visit, TypeOK
<1>10. KahnCounts'
  <2>1. ASSUME NEW t \in Registered PROVE inDegree'[t] = Entries(t, Registered \ Seen)'
    <3>1. inDegree'[t] = Entries(t, Registered' \ Seen')
      BY <1>3, <1>5, Zenon
    <3> QED BY <3>1 DEF Entries, Visit
  <2> QED BY <1>2, <1>3, <1>7, <1>8, <2>1 DEF KahnCounts
<1>11. KahnOrder'
  <2>1. DependsOn(s) \subseteq Seen
    BY <1>1, <1>4 DEF AllKnown
  <2>2. Cardinality(Seen') = Len(visited')
    <3>1. IsFiniteSet(Seen)
      BY <1>1, GraphAssumption, FS_Subset DEF GraphOK
    <3>2. Cardinality(Seen \cup {s}) = Cardinality(Seen) + 1
      BY <1>4, <3>1, FS_AddElement
    <3> QED BY <1>1, <1>3, <3>2 DEF IInv, KahnOrder
  <2>3. \A t \in Seen' : DependsOn(t) \subseteq Seen'
    BY <1>3, <1>4, <2>1
  <2>4. ASSUME NEW S \in SUBSET (Seen \cup {s}), S # {}
        PROVE  \E t \in S : DependsOn(t) \cap S = {}
    <3>1. CASE S \ {s} = {}
      BY <1>4, <2>1, <2>4, <3>1
    <3>2. CASE S \ {s} # {}
      <4>1. PICK t \in S \ {s} : DependsOn(t) \cap (S \ {s}) = {}
        BY <1>1, <3>2 DEF IInv, KahnOrder
      <4>2. DependsOn(t) \subseteq Seen
        BY <1>4
      <4> QED BY <1>4, <4>1, <4>2
    <3> QED BY <3>1, <3>2
  <2> QED BY <1>1, <1>2, <1>3, <2>2, <2>3, <2>4 DEF KahnOrder
<1> QED
  BY <1>1, <1>9, <1>10, <1>11 DEF IInv, VerdictStands, LayoutCounts, LayoutOrder,
                                  LayoutEarliest, LayoutComplete

(* Kahn's verdict: either everything was taken from the queue, or what is   *)
(* left depends on itself.                                                  *)
LEMMA EndValidationStep ==
    ASSUME IInv, EndValidation PROVE IInv'
<1> USE DEF EndValidation
<1>1. /\ GraphOK /\ TypeOK /\ AllKnown /\ Seen \subseteq Registered
      /\ Cardinality(Seen) = Len(visited)
  BY TypeGraph, SeenType DEF IInv, KahnOrder
<1>2. Registered' = Registered /\ AllKnown' = AllKnown /\ Acyclic' = Acyclic
  BY GraphStays
<1>3. IsFiniteSet(Registered)
  BY <1>1, GraphAssumption, FS_Subset DEF GraphOK
<1>4. ASSUME Len(visited) = Cardinality(Registered) PROVE Acyclic
  <2>1. Seen = Registered
    BY <1>1, <1>3, <1>4, FS_Subset
  <2> QED BY <2>1 DEF IInv, KahnOrder, Acyclic
<1>5. ASSUME Len(visited) # Cardinality(Registered) PROVE ~Acyclic
  <2>1. Registered \ Seen # {}
    <3>1. Seen # Registered
      BY <1>1, <1>5, Zenon
    <3> QED BY <1>1, <3>1
  <2>2. ASSUME NEW s \in Registered \ Seen PROVE DependsOn(s) \cap (Registered \ Seen) # {}
    <3>1. inDegree[s] # 0 /\ inDegree[s] = Entries(s, Registered \ Seen)
      BY DEF IInv, KahnCounts
    <3> QED BY <1>1, <3>1, EntriesZero
  <2> QED BY <2>1, <2>2 DEF Acyclic
<1>6. VerdictStands'
  BY <1>1, <1>2, <1>4, <1>5 DEF VerdictStands
<1>7. TypeOK'
  BY <1>1, <1>2 DEF TypeOK, Verdicts
<1> QED
  BY <1>6, <1>7 DEF IInv, KahnCounts, KahnOrder, LayoutCounts, LayoutOrder,
                    LayoutEarliest, LayoutComplete
(* The NONE segments are laid out first.                                    *)
LEMMA StartLayoutStep ==
    ASSUME IInv, StartLayout PROVE IInv'
<1> USE DEF StartLayout
<1>1. GraphOK /\ TypeOK
  BY TypeGraph DEF IInv
<1>2. /\ Registered' = Registered /\ Immediate' = Immediate /\ Waiting' = Waiting
      /\ First' = First /\ AllKnown' = AllKnown /\ Acyclic' = Acyclic
      /\ \A t : DependsOn(t)' = DependsOn(t)
  BY GraphStays
<1>3. Immediate \subseteq Registered /\ Waiting = Registered \ Immediate
  BY DEF Immediate, Waiting
<1>4. /\ waves' \in Seq(SUBSET Registered)
      /\ IF Immediate = {} THEN DOMAIN waves' = {} /\ Len(waves') = 0
                          ELSE DOMAIN waves' = {1} /\ waves'[1] = Immediate /\ Len(waves') = 1
  <2>1. CASE Immediate = {}
    BY <2>1, EmptySeq
  <2>2. CASE Immediate # {}
    <3>1. waves' = << Immediate >> /\ Immediate \in SUBSET Registered
      BY <1>3, <2>2
    <3>2. /\ << Immediate >> \in Seq(SUBSET Registered)
          /\ Len(<< Immediate >>) = 1 /\ << Immediate >>[1] = Immediate
      BY <3>1
    <3>3. DOMAIN << Immediate >> = {1}
      OBVIOUS
    <3> QED BY <2>2, <3>1, <3>2, <3>3, Zenon
  <2> QED BY <2>1, <2>2
<1>5. Laid' = Immediate
  BY <1>4 DEF Laid
<1>6. Waiting \ Laid' = Waiting
  BY <1>3, <1>5
<1>7. \A s \in Waiting : Entries(s, Waiting) \in Nat
  BY <1>1, <1>3, EntriesType
<1>8. TypeOK'
  BY <1>1, <1>2, <1>3, <1>4, <1>7 DEF TypeOK
<1>9. LayoutCounts'
  <2>1. ASSUME NEW s \in Waiting PROVE inDegree'[s] = Entries(s, Waiting \ Laid)'
    <3>1. inDegree'[s] = Entries(s, Waiting' \ Laid')
      BY <1>2, <1>6, Zenon
    <3> QED BY <3>1 DEF Entries
  <2> QED BY <1>2, <1>6, <2>1 DEF LayoutCounts
<1>10. LayoutOrder' /\ LayoutEarliest'
  BY <1>2, <1>3, <1>4 DEF LayoutOrder, LayoutEarliest, First
<1>11. VerdictStands'
  BY <1>2 DEF IInv, VerdictStands
<1> QED
  BY <1>8, <1>9, <1>10, <1>11 DEF IInv, KahnCounts, KahnOrder, LayoutComplete

(* A wave: what is ready is laid out, and what becomes ready hangs on it.   *)
LEMMA AddWaveStep ==
    ASSUME IInv, AddWave PROVE IInv'
<1> DEFINE Left == Waiting \ Laid
<1>1. /\ GraphOK /\ TypeOK /\ pc = "layout" /\ pc' = "layout"
      /\ DOMAIN inDegree = Waiting /\ Waiting \subseteq Registered
      /\ ready = {s \in Left : inDegree[s] = 0}
  BY TypeGraph DEF IInv, AddWave, LayoutCounts, Waiting
<1>2. /\ Registered' = Registered /\ Immediate' = Immediate /\ Waiting' = Waiting
      /\ First' = First /\ AllKnown' = AllKnown /\ Acyclic' = Acyclic
      /\ \A t : DependsOn(t)' = DependsOn(t)
  BY GraphStays DEF AddWave
<1>3. /\ ready \subseteq Left /\ ready \in SUBSET Registered /\ ready # {}
      /\ Laid' = Laid \cup ready /\ Waiting' \ Laid' = Left \ ready
      /\ Len(waves') = Len(waves) + 1 /\ DOMAIN waves' = 1..(Len(waves) + 1)
      /\ waves'[Len(waves) + 1] = ready
      /\ \A i \in DOMAIN waves : waves'[i] = waves[i]
  <2>1. ready \in SUBSET Registered /\ ready \subseteq Left /\ ready # {}
    BY <1>1 DEF AddWave
  <2>2. waves' = Append(waves, ready)
    BY DEF AddWave
  <2>3. Waiting \ (Laid \cup ready) = Left \ ready
    OBVIOUS
  <2> QED BY <1>1, <1>2, <2>1, <2>2, <2>3, LaidGrows
<1>4. /\ Len(waves) \in Nat /\ DOMAIN waves = 1..Len(waves)
      /\ \A j \in DOMAIN waves : waves[j] \subseteq Laid
  BY <1>1, LaidType DEF Laid
<1>5. ASSUME NEW t \in Left PROVE inDegree[t] = 0 <=> DependsOn(t) \cap Left = {}
  BY <1>1, EntriesZero DEF IInv, LayoutCounts
<1>6. ASSUME NEW t \in Laid \cap Waiting PROVE DependsOn(t) \cap Left = {}
  <2>1. PICK j \in DOMAIN waves : t \in waves[j]
    BY DEF Laid
  <2>2. ASSUME NEW d \in DependsOn(t) \cap Waiting PROVE d \in Laid
    BY <1>1, <1>4, <2>1, <2>2 DEF IInv, LayoutOrder
  <2> QED BY <2>2
<1>7. ASSUME NEW t \in Waiting
      PROVE  /\ inDegree'[t] = Entries(t, Left \ ready)
             /\ inDegree'[t] = 0 <=> DependsOn(t) \cap (Left \ ready) = {}
  <2>1. inDegree'[t] = inDegree[t] - Entries(t, ready)
    BY <1>1 DEF AddWave, Decremented
  <2>2. inDegree[t] = Entries(t, Left)
    BY <1>1 DEF IInv, LayoutCounts
  <2>3. Entries(t, Left) - Entries(t, ready) = Entries(t, Left \ ready)
    BY <1>1, <1>3, EntriesDrop
  <2> QED BY <1>1, <2>1, <2>2, <2>3, EntriesZero
<1>8. ASSUME NEW t \in Waiting PROVE inDegree'[t] \in Nat
  <2>1. Entries(t, Left \ ready) \in Nat
    BY <1>1, EntriesType
  <2> QED BY <1>7, <2>1
<1>9. DOMAIN inDegree' = Waiting /\ inDegree' \in [Waiting -> Nat]
  BY <1>1, <1>8 DEF AddWave, Decremented
<1>10. /\ ready' = {t \in Left \ ready : inDegree'[t] = 0}
       /\ \A t \in ready' : DependsOn(t) \cap ready # {}
  <2>1. ready' = {t \in Waiting : inDegree'[t] = 0 /\ DependsOn(t) \cap ready # {}}
    BY <1>1 DEF AddWave, ReachZero
  <2>2. ASSUME NEW t \in ready' PROVE t \in Left \ ready
    <3>1. t \in Waiting /\ DependsOn(t) \cap Left # {}
      BY <1>3, <2>1
    <3>2. t \in Left
      BY <1>6, <3>1
    <3> QED BY <1>1, <1>5, <3>1, <3>2
  <2>3. ASSUME NEW t \in Left \ ready, inDegree'[t] = 0 PROVE DependsOn(t) \cap ready # {}
    <3>1. DependsOn(t) \cap Left # {}
      BY <1>1, <1>5
    <3> QED BY <1>7, <2>3, <3>1
  <2> QED BY <2>1, <2>2, <2>3
<1>11. TypeOK'
  <2>1. waves' \in Seq(SUBSET Registered)
    BY <1>1, <1>3 DEF AddWave, TypeOK
  <2>2. ready' \subseteq Waiting
    BY <1>10
  <2> QED BY <1>1, <1>2, <1>9, <2>1, <2>2 DEF AddWave, TypeOK
<1>12. LayoutCounts'
  <2>1. ASSUME NEW t \in Waiting PROVE inDegree'[t] = Entries(t, Waiting \ Laid)'
    <3>1. inDegree'[t] = Entries(t, Waiting' \ Laid')
      BY <1>3, <1>7, Zenon
    <3> QED BY <3>1 DEF Entries, AddWave
  <2> QED BY <1>2, <1>3, <1>9, <1>10, <2>1 DEF LayoutCounts
<1>13. First \in {1, 2} /\ (Immediate # {} => Len(waves) >= 1)
  BY <1>1, <1>4 DEF First, IInv, LayoutOrder
<1>14. LayoutOrder'
  <2>1. Immediate # {} => 1 \in DOMAIN waves' /\ waves'[1] = Immediate
    BY <1>1, <1>3, <1>4 DEF IInv, LayoutOrder
  <2>2. ASSUME NEW j \in DOMAIN waves', j >= First PROVE waves'[j] \subseteq Waiting
    <3>1. j \in DOMAIN waves \/ j = Len(waves) + 1
      BY <1>3, <1>4
    <3> QED BY <1>1, <1>3, <2>2, <3>1 DEF IInv, LayoutOrder
  <2>3. ASSUME NEW i \in DOMAIN waves', NEW j \in DOMAIN waves', i # j
        PROVE  waves'[i] \cap waves'[j] = {}
    <3>1. /\ i \in DOMAIN waves \/ i = Len(waves) + 1
          /\ j \in DOMAIN waves \/ j = Len(waves) + 1
      BY <1>3, <1>4
    <3>2. CASE i \in DOMAIN waves /\ j \in DOMAIN waves
      BY <1>1, <1>3, <2>3, <3>2 DEF IInv, LayoutOrder
    <3>3. CASE i = Len(waves) + 1 \/ j = Len(waves) + 1
      BY <1>3, <1>4, <2>3, <3>1, <3>3
    <3> QED BY <3>1, <3>2, <3>3
  <2>4. ASSUME NEW j \in DOMAIN waves', NEW s \in waves'[j] \cap Waiting,
               NEW d \in DependsOn(s) \cap Waiting
        PROVE  \E i \in DOMAIN waves' : i < j /\ d \in waves'[i]
    <3>1. CASE j \in DOMAIN waves
      <4>1. PICK i \in DOMAIN waves : i < j /\ d \in waves[i]
        BY <1>1, <1>3, <3>1 DEF IInv, LayoutOrder
      <4> QED BY <1>3, <1>4, <4>1
    <3>2. CASE j = Len(waves) + 1
      <4>1. s \in Left /\ inDegree[s] = 0
        BY <1>1, <1>3, <3>2
      <4>2. d \in Laid
        BY <1>5, <4>1
      <4>3. PICK i \in DOMAIN waves : d \in waves[i]
        BY <4>2 DEF Laid
      <4>4. i \in DOMAIN waves' /\ i < j /\ waves'[i] = waves[i]
        BY <1>3, <1>4, <3>2
      <4> QED BY <4>3, <4>4
    <3> QED BY <1>3, <1>4, <3>1, <3>2
  <2> QED BY <1>2, <2>1, <2>2, <2>3, <2>4 DEF LayoutOrder
<1>15. LayoutEarliest'
  <2>1. ASSUME NEW j \in DOMAIN waves', j > First, NEW s \in waves'[j]
        PROVE  DependsOn(s) \cap waves'[j - 1] # {}
    <3>1. CASE j \in DOMAIN waves
      <4>1. j - 1 \in DOMAIN waves
        BY <1>4, <1>13, <2>1, <3>1
      <4> QED BY <1>1, <1>3, <2>1, <3>1, <4>1 DEF IInv, LayoutEarliest
    <3>2. CASE j = Len(waves) + 1
      <4>1. j - 1 = Len(waves) /\ Len(waves) \in DOMAIN waves /\ Len(waves) >= First
        BY <1>4, <1>13, <2>1, <3>2
      <4> QED BY <1>1, <1>3, <3>2, <4>1 DEF IInv, LayoutEarliest
    <3> QED BY <1>3, <1>4, <3>1, <3>2
  <2>2. \A s \in ready' : DependsOn(s) \cap waves'[Len(waves')] # {}
    BY <1>3, <1>10
  <2> QED BY <1>1, <1>2, <2>1, <2>2 DEF LayoutEarliest
<1>16. VerdictStands'
  BY <1>1, <1>2 DEF IInv, VerdictStands, AddWave
<1> QED
  BY <1>1, <1>11, <1>12, <1>14, <1>15, <1>16 DEF IInv, KahnCounts, KahnOrder, LayoutComplete

(* When nothing is ready any more, an acyclic graph has been laid out.      *)
LEMMA EndLayoutStep ==
    ASSUME IInv, EndLayout PROVE IInv'
<1> USE DEF EndLayout
<1>1. GraphOK /\ TypeOK
  BY TypeGraph DEF IInv
<1>2. /\ Registered' = Registered /\ Immediate' = Immediate /\ Waiting' = Waiting
      /\ First' = First /\ AllKnown' = AllKnown /\ Acyclic' = Acyclic /\ Laid' = Laid
      /\ \A t : DependsOn(t)' = DependsOn(t)
  BY GraphStays DEF Laid
<1>3. ASSUME verdict = "accepted" PROVE Registered \subseteq Laid
  <2>1. \A s \in Waiting \ Laid : inDegree[s] # 0 /\ inDegree[s] = Entries(s, Waiting \ Laid)
    BY DEF IInv, LayoutCounts
  <2>2. \A s \in Waiting \ Laid : DependsOn(s) \cap (Waiting \ Laid) # {}
    BY <1>1, <2>1, EntriesZero DEF Waiting
  <2>3. Acyclic /\ Waiting \ Laid \in SUBSET Registered
    BY <1>3 DEF IInv, VerdictStands, Waiting
  <2>4. Waiting \subseteq Laid
    BY <2>2, <2>3 DEF Acyclic
  <2>5. Immediate \subseteq Laid
    BY DEF IInv, LayoutOrder, Laid
  <2> QED BY <2>4, <2>5 DEF Waiting
<1>4. TypeOK'
  BY <1>1, <1>2 DEF TypeOK
<1>5. VerdictStands' /\ LayoutOrder' /\ LayoutEarliest' /\ LayoutComplete'
  BY <1>2, <1>3 DEF IInv, VerdictStands, LayoutOrder, LayoutEarliest, LayoutComplete
<1> QED
  BY <1>4, <1>5 DEF IInv, KahnCounts, KahnOrder, LayoutCounts

-----------------------------------------------------------------------------
(* IInv is inductive.                                                       *)
LEMMA Invariance == Spec => []IInv
<1>1. Init => IInv
  <2>1. Init => TypeOK
    BY EmptySeq DEF Init, TypeOK, Verdicts, Registered
  <2> QED
    BY <2>1 DEF Init, IInv, KahnCounts, KahnOrder, VerdictStands, LayoutCounts, LayoutOrder,
                LayoutEarliest, LayoutComplete
<1>2. ASSUME IInv, [Next]_vars PROVE IInv'
  <2>1. CASE UNCHANGED vars
    <3>1. UNCHANGED segments
      BY <2>1 DEF vars
    <3>2. /\ Seen' = Seen /\ Laid' = Laid /\ First' = First /\ Registered' = Registered
          /\ Immediate' = Immediate /\ Waiting' = Waiting
          /\ AllKnown' = AllKnown /\ Acyclic' = Acyclic
      BY <2>1, <3>1, GraphStays DEF Seen, Laid, vars
    <3>3. /\ \A s : DependsOn(s)' = DependsOn(s)
          /\ \A s : Entries(s, Registered \ Seen)' = Entries(s, Registered \ Seen)
          /\ \A s : Entries(s, Waiting \ Laid)' = Entries(s, Waiting \ Laid)
      BY <3>1, <3>2 DEF DependsOn, Entries
    <3> USE <1>2, <2>1, <3>2, <3>3 DEF IInv, vars
    <3>4. TypeOK' /\ VerdictStands'
      BY DEF TypeOK, VerdictStands
    <3>5. KahnCounts' /\ KahnOrder'
      BY DEF KahnCounts, KahnOrder
    <3>6. LayoutCounts'
      BY DEF LayoutCounts
    <3>7. LayoutOrder' /\ LayoutEarliest' /\ LayoutComplete'
      BY DEF LayoutOrder, LayoutEarliest, LayoutComplete
    <3> QED BY <3>4, <3>5, <3>6, <3>7
  <2> QED
    BY <1>2, <2>1, RegisterStep, RaiseStep, StartValidationStep, VisitStep,
       EndValidationStep, StartLayoutStep, AddWaveStep, EndLayoutStep DEF Next
<1> QED BY <1>1, <1>2, PTL DEF Spec

(* The counters of both algorithms stay within the naturals, and the queue  *)
(* and the waves hold registered segments only.                             *)
THEOREM TypeCorrect == Spec => []TypeOK
<1>1. IInv => TypeOK
  BY DEF IInv
<1> QED BY <1>1, Invariance, PTL

(* _validate_dag accepts exactly the graphs without unknown dependencies    *)
(* and without cycles, whatever lists the segments come with.               *)
THEOREM VerdictIsExact == Spec => []VerdictExact
<1>1. IInv => VerdictExact
  BY DEF IInv, VerdictStands, VerdictExact
<1> QED BY <1>1, Invariance, PTL

(* topological_waves keeps the promise OpusRun relies on: every segment is  *)
(* in exactly one wave, behind all it waits for.                            *)
THEOREM WavesKeepPromise == Spec => []WavesPromise
<1>1. IInv => WavesPromise
  <2> SUFFICES ASSUME IInv, pc = "planned", verdict = "accepted" PROVE WavesPromise
    BY DEF WavesPromise
  <2>1. \A s \in Registered : \E i \in DOMAIN waves : s \in waves[i]
    BY DEF IInv, LayoutComplete, Laid
  <2>2. \A i, j \in DOMAIN waves : i # j => waves[i] \cap waves[j] = {}
    BY DEF IInv, LayoutOrder
  <2>3. ASSUME NEW j \in DOMAIN waves, NEW s \in waves[j] \cap Waiting, NEW d \in DependsOn(s)
        PROVE  \E i \in DOMAIN waves : i < j /\ d \in waves[i]
    <3>1. CASE d \in Waiting
      BY <3>1 DEF IInv, LayoutOrder
    <3>2. CASE d \in Immediate
      <4>1. 1 \in DOMAIN waves /\ d \in waves[1] /\ s \notin waves[1]
        BY <3>2 DEF IInv, LayoutOrder, Waiting
      <4>2. 1 < j
        BY <2>3, <4>1, LaidType DEF IInv
      <4> QED BY <4>1, <4>2
    <3>3. d \in Registered
      BY DEF IInv, VerdictStands, AllKnown, Waiting
    <3> QED BY <3>1, <3>2, <3>3 DEF Waiting
  <2> QED BY <2>1, <2>2, <2>3 DEF WavesPromise
<1> QED BY <1>1, Invariance, PTL

(* No segment is laid out later than it has to be.                          *)
THEOREM WavesComeEarly == Spec => []WavesAreEarliest
<1>1. IInv => WavesAreEarliest
  BY DEF IInv, LayoutEarliest, WavesAreEarliest, First
<1> QED BY <1>1, Invariance, PTL
=============================================================================
