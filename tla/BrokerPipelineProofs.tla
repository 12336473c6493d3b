------------------------ MODULE BrokerPipelineProofs ------------------------
(***************************************************************************)
(* What becomes of the records that a brokered pipe publishes, for every   *)
(* source, every number of workers per role, every batch size, all three   *)
(* brokers, and any number of faults and of workers that die: types, the   *)
(* balance of the records, and what a death repeats or loses.              *)
(***************************************************************************)
EXTENDS BrokerPipeline, FiniteSetTheorems, SequenceTheorems, TLAPS

-----------------------------------------------------------------------------
(* Copies of a record in a sequence.                                        *)

Places(s, x) == {i \in DOMAIN s : s[i] = x}

LEMMA CopiesNat ==
    ASSUME NEW S, NEW s \in Seq(S), NEW x
    PROVE  /\ IsFiniteSet(Places(s, x)) /\ Copies(s, x) = Cardinality(Places(s, x))
           /\ Copies(s, x) \in Nat
<1>1. DOMAIN s = 1..Len(s) /\ Len(s) \in Nat
  BY LenProperties
<1>2. IsFiniteSet(DOMAIN s)
  BY <1>1, FS_Interval
<1>3. Places(s, x) \in SUBSET DOMAIN s
  BY DEF Places
<1>4. IsFiniteSet(Places(s, x))
  BY <1>2, <1>3, FS_Subset
<1>5. Copies(s, x) = Cardinality(Places(s, x))
  BY DEF Copies, Places
<1> QED BY <1>4, <1>5, FS_CardinalityType

LEMMA CopiesOne ==
    ASSUME NEW x, NEW y PROVE Copies(<<y>>, x) = IF y = x THEN 1 ELSE 0
<1>1. Places(<<y>>, x) = IF y = x THEN {1} ELSE {}
  BY DEF Places
<1>2. Copies(<<y>>, x) = Cardinality(Places(<<y>>, x))
  BY DEF Copies, Places
<1>3. CASE y = x
  <2>1. Places(<<y>>, x) = {1}
    BY <1>1, <1>3
  <2> QED BY <1>2, <1>3, <2>1, FS_Singleton
<1>4. CASE y # x
  <2>1. Places(<<y>>, x) = {}
    BY <1>1, <1>4
  <2> QED BY <1>2, <1>4, <2>1, FS_EmptySet
<1> QED BY <1>3, <1>4

LEMMA CopiesNone == ASSUME NEW x PROVE Copies(<< >>, x) = 0
<1>1. Places(<< >>, x) = {}
  BY DEF Places
<1> QED BY <1>1, FS_EmptySet DEF Copies, Places

(* A concatenation has the copies of both parts.                            *)
LEMMA CopiesConcat ==
    ASSUME NEW S, NEW s \in Seq(S), NEW t \in Seq(S), NEW x
    PROVE  Copies(s \o t, x) = Copies(s, x) + Copies(t, x)
<1> DEFINE m == Len(s)
           n == Len(t)
           A == Places(s, x)
           B == Places(t, x)
           C == {m + j : j \in B}
<1>1. /\ m \in Nat /\ n \in Nat /\ DOMAIN s = 1..m /\ DOMAIN t = 1..n
      /\ s \o t \in Seq(S) /\ DOMAIN (s \o t) = 1..(m + n)
      /\ \A i \in 1..(m + n) : (s \o t)[i] = IF i <= m THEN s[i] ELSE t[i - m]
  BY LenProperties, ConcatProperties
<1>2. A \subseteq 1..m /\ B \subseteq 1..n
  BY <1>1 DEF Places
<1>3. Places(s \o t, x) = A \cup C
  <2>1. ASSUME NEW i \in Places(s \o t, x) PROVE i \in A \cup C
    <3>1. i \in 1..(m + n) /\ (s \o t)[i] = x
      BY <1>1 DEF Places
    <3>2. CASE i <= m
      BY <1>1, <3>1, <3>2 DEF Places
    <3>3. CASE i > m
      <4>1. i - m \in B /\ i = m + (i - m)
        BY <1>1, <3>1, <3>3 DEF Places
      <4> QED BY <4>1
    <3> QED BY <1>1, <3>1, <3>2, <3>3
  <2>2. ASSUME NEW i \in A PROVE i \in Places(s \o t, x)
    BY <1>1 DEF Places
  <2>3. ASSUME NEW j \in B PROVE m + j \in Places(s \o t, x)
    BY <1>1 DEF Places
  <2> QED BY <2>1, <2>2, <2>3
<1>4. A \cap C = {}
  BY <1>1, <1>2
<1>5. IsFiniteSet(C) /\ Cardinality(C) = Cardinality(B)
  <2> DEFINE f == [j \in B |-> m + j]
  <2>1. f \in Bijection(B, C)
    <3>1. f \in [B -> C] /\ \A c \in C : \E j \in B : f[j] = c
      OBVIOUS
    <3>2. \A j, k \in B : f[j] = f[k] => j = k
      BY <1>1, <1>2
    <3> QED BY <3>1, <3>2 DEF Bijection, Injection, Surjection, IsInjective
  <2>2. IsFiniteSet(B)
    BY CopiesNat
  <2> QED BY <2>1, <2>2, FS_Bijection DEF ExistsBijection
<1>6. IsFiniteSet(A) /\ Cardinality(A) \in Nat /\ Cardinality(C) \in Nat
  BY <1>5, CopiesNat, FS_CardinalityType
<1>7. Cardinality(A \cup C) = Cardinality(A) + Cardinality(C)
  <2>1. Cardinality(A \cup C) = Cardinality(A) + Cardinality(C) - Cardinality(A \cap C)
    BY <1>5, <1>6, FS_Union
  <2>2. Cardinality(A \cap C) = 0
    BY <1>4, FS_EmptySet
  <2> QED BY <1>6, <2>1, <2>2
<1> QED
  <2>1. Copies(s \o t, x) = Cardinality(Places(s \o t, x))
    BY <1>1, CopiesNat
  <2>2. Copies(s, x) = Cardinality(A) /\ Copies(t, x) = Cardinality(B)
    BY CopiesNat
  <2> QED BY <1>3, <1>5, <1>7, <2>1, <2>2

LEMMA CopiesAppend ==
    ASSUME NEW S, NEW s \in Seq(S), NEW y \in S, NEW x
    PROVE  Copies(Append(s, y), x) = Copies(s, x) + (IF y = x THEN 1 ELSE 0)
<1>1. Append(s, y) = s \o <<y>> /\ <<y>> \in Seq(S)
  BY AppendIsConcat
<1>2. Copies(s \o <<y>>, x) = Copies(s, x) + Copies(<<y>>, x)
  BY <1>1, CopiesConcat
<1>3. Copies(<<y>>, x) = IF y = x THEN 1 ELSE 0
  BY CopiesOne
<1> QED BY <1>1, <1>2, <1>3

(* The copies of a queue are its head and those of the rest.                *)
LEMMA CopiesTail ==
    ASSUME NEW S, NEW s \in Seq(S), s # << >>, NEW x
    PROVE  Copies(s, x) = Copies(Tail(s), x) + (IF Head(s) = x THEN 1 ELSE 0)
<1>1. Head(s) \in S /\ Tail(s) \in Seq(S) /\ s = <<Head(s)>> \o Tail(s)
  <2>1. Head(s) \in S /\ Tail(s) \in Seq(S) /\ Len(Tail(s)) = Len(s) - 1
    BY HeadTailProperties
  <2>2. \A i \in 1..Len(Tail(s)) : Tail(s)[i] = s[i + 1]
    BY HeadTailProperties
  <2>3. <<Head(s)>> \in Seq(S) /\ Len(<<Head(s)>>) = 1
    BY <2>1
  <2>4. Len(s) \in Nat \ {0}
    BY EmptySeq
  <2>5. /\ <<Head(s)>> \o Tail(s) \in Seq(S)
        /\ Len(<<Head(s)>> \o Tail(s)) = 1 + Len(Tail(s))
        /\ \A i \in 1..(1 + Len(Tail(s))) :
              (<<Head(s)>> \o Tail(s))[i] = IF i <= 1 THEN <<Head(s)>>[i]
                                            ELSE Tail(s)[i - 1]
    BY <2>1, <2>3, ConcatProperties
  <2>6. ASSUME NEW i \in 1..Len(s) PROVE s[i] = (<<Head(s)>> \o Tail(s))[i]
    <3>1. CASE i = 1
      BY <2>1, <2>4, <2>5, <3>1
    <3>2. CASE i # 1
      BY <2>1, <2>2, <2>4, <2>5, <3>2
    <3> QED BY <3>1, <3>2
  <2> QED BY <2>1, <2>4, <2>5, <2>6, SeqEqual
<1>2. <<Head(s)>> \in Seq(S)
  BY <1>1
<1>3. Copies(<<Head(s)>> \o Tail(s), x) = Copies(<<Head(s)>>, x) + Copies(Tail(s), x)
  BY <1>1, <1>2, CopiesConcat
<1>4. Copies(Tail(s), x) \in Nat
  BY <1>1, CopiesNat
<1>5. Copies(<<Head(s)>>, x) = IF Head(s) = x THEN 1 ELSE 0
  BY CopiesOne
<1>6. s = <<Head(s)>> \o Tail(s)
  BY <1>1
<1>7. Copies(s, x) = Copies(<<Head(s)>> \o Tail(s), x)
  BY <1>6
<1> QED BY <1>3, <1>4, <1>5, <1>7

-----------------------------------------------------------------------------
(* Where a record waits: who has it in hand, and its places in batches.     *)

HoldSet(p, h, x) == {w \in Processors : p[w] = "handle" /\ h[w] = <<x>>}

SlotsOf(W, b, x) ==
    UNION {{<<w, i>> : i \in {j \in DOMAIN b[w] : b[w][j] = x}} : w \in W}

Batches == {b \in [Writers -> Seq(Records)] : \A w \in Writers : Len(b[w]) <= BatchSize}

LEMMA HoldFinite ==
    ASSUME NEW p, NEW h, NEW x
    PROVE  IsFiniteSet(HoldSet(p, h, x)) /\ Cardinality(HoldSet(p, h, x)) \in Nat
<1>1. HoldSet(p, h, x) \in SUBSET Processors
  BY DEF HoldSet
<1>2. IsFiniteSet(HoldSet(p, h, x))
  BY <1>1, BrokerAssumption, FS_Subset
<1> QED BY <1>2, FS_CardinalityType

(* A step of one worker changes the number of holders by that worker.       *)
LEMMA HoldChange ==
    ASSUME NEW w, NEW p, NEW h, NEW q, NEW g, NEW x,
           \A v \in Processors \ {w} : q[v] = p[v] /\ g[v] = h[v]
    PROVE  Cardinality(HoldSet(q, g, x)) + (IF w \in HoldSet(p, h, x) THEN 1 ELSE 0)
              = Cardinality(HoldSet(p, h, x)) + (IF w \in HoldSet(q, g, x) THEN 1 ELSE 0)
<1>1. HoldSet(q, g, x) \ {w} = HoldSet(p, h, x) \ {w}
  BY DEF HoldSet
<1>2. Cardinality(HoldSet(q, g, x) \ {w}) = Cardinality(HoldSet(p, h, x) \ {w})
  BY <1>1, Zenon
<1>3. Cardinality(HoldSet(p, h, x) \ {w})
         = IF w \in HoldSet(p, h, x) THEN Cardinality(HoldSet(p, h, x)) - 1
                                     ELSE Cardinality(HoldSet(p, h, x))
  BY HoldFinite, FS_RemoveElement
<1>4. Cardinality(HoldSet(q, g, x) \ {w})
         = IF w \in HoldSet(q, g, x) THEN Cardinality(HoldSet(q, g, x)) - 1
                                     ELSE Cardinality(HoldSet(q, g, x))
  BY HoldFinite, FS_RemoveElement
<1>5. Cardinality(HoldSet(p, h, x)) \in Nat /\ Cardinality(HoldSet(q, g, x)) \in Nat
  BY HoldFinite
<1> QED BY <1>2, <1>3, <1>4, <1>5

LEMMA SlotsFinite ==
    ASSUME NEW b \in Batches, NEW W \in SUBSET Writers, NEW x
    PROVE  IsFiniteSet(SlotsOf(W, b, x)) /\ Cardinality(SlotsOf(W, b, x)) \in Nat
<1>1. SlotsOf(W, b, x) \in SUBSET (Writers \X (1..BatchSize))
  <2>1. ASSUME NEW w \in W, NEW i \in DOMAIN b[w] PROVE i \in 1..BatchSize
    <3>1. b[w] \in Seq(Records) /\ Len(b[w]) <= BatchSize
      BY DEF Batches
    <3>2. DOMAIN b[w] = 1..Len(b[w]) /\ Len(b[w]) \in Nat
      BY <3>1, LenProperties
    <3> QED BY <3>1, <3>2, BrokerAssumption
  <2> QED BY <2>1 DEF SlotsOf
<1>2. IsFiniteSet(Writers \X (1..BatchSize))
  <2>1. IsFiniteSet(1..BatchSize)
    BY BrokerAssumption, FS_Interval
  <2> QED BY <2>1, BrokerAssumption, FS_Product
<1>3. IsFiniteSet(SlotsOf(W, b, x))
  BY <1>1, <1>2, FS_Subset
<1> QED BY <1>3, FS_CardinalityType

(* The slots of one writer are the copies in its batch.                     *)
LEMMA SlotsOfOne ==
    ASSUME NEW b \in Batches, NEW w \in Writers, NEW x
    PROVE  /\ Cardinality(SlotsOf(Writers, b, x))
                = Cardinality(SlotsOf(Writers \ {w}, b, x)) + Copies(b[w], x)
           /\ Cardinality(SlotsOf(Writers \ {w}, b, x)) \in Nat
           /\ Copies(b[w], x) \in Nat
<1> DEFINE Own == {<<w, i>> : i \in Places(b[w], x)}
           Rest == SlotsOf(Writers \ {w}, b, x)
<1>1. SlotsOf(Writers, b, x) = Rest \cup Own
  BY DEF SlotsOf, Places
<1>2. Rest \cap Own = {}
  BY DEF SlotsOf
<1>3. IsFiniteSet(Rest) /\ Cardinality(Rest) \in Nat
  BY SlotsFinite
<1>4. b[w] \in Seq(Records)
  BY DEF Batches
<1>5. IsFiniteSet(Places(b[w], x)) /\ Copies(b[w], x) = Cardinality(Places(b[w], x))
      /\ Copies(b[w], x) \in Nat
  BY <1>4, CopiesNat
<1>6. IsFiniteSet(Own) /\ Cardinality(Own) = Cardinality(Places(b[w], x))
  <2> DEFINE f == [i \in Places(b[w], x) |-> <<w, i>>]
  <2>1. f \in Bijection(Places(b[w], x), Own)
    BY DEF Bijection, Injection, Surjection, IsInjective
  <2> QED BY <1>5, <2>1, FS_Bijection DEF ExistsBijection
<1>7. Cardinality(Rest \cup Own)
         = Cardinality(Rest) + Cardinality(Own) - Cardinality(Rest \cap Own)
  BY <1>3, <1>6, FS_Union
<1>8. Cardinality(Rest \cap Own) = 0
  BY <1>2, FS_EmptySet
<1>9. Cardinality(SlotsOf(Writers, b, x)) = Cardinality(Rest \cup Own)
  BY <1>1, Zenon
<1> QED BY <1>3, <1>5, <1>6, <1>7, <1>8, <1>9

LEMMA SlotsOfOthers ==
    ASSUME NEW b, NEW c, NEW w, NEW x, \A v \in Writers \ {w} : c[v] = b[v]
    PROVE  SlotsOf(Writers \ {w}, c, x) = SlotsOf(Writers \ {w}, b, x)
BY DEF SlotsOf

(* A step of one writer changes the slots by the copies in its batch.       *)
LEMMA SlotsChange ==
    ASSUME NEW b \in Batches, NEW c \in Batches, NEW w \in Writers, NEW x,
           \A v \in Writers \ {w} : c[v] = b[v]
    PROVE  Cardinality(SlotsOf(Writers, c, x)) + Copies(b[w], x)
              = Cardinality(SlotsOf(Writers, b, x)) + Copies(c[w], x)
<1>1. SlotsOf(Writers \ {w}, c, x) = SlotsOf(Writers \ {w}, b, x)
  BY SlotsOfOthers
<1>2. Cardinality(SlotsOf(Writers \ {w}, c, x)) = Cardinality(SlotsOf(Writers \ {w}, b, x))
  BY <1>1, Zenon
<1>3. /\ Cardinality(SlotsOf(Writers, b, x))
           = Cardinality(SlotsOf(Writers \ {w}, b, x)) + Copies(b[w], x)
      /\ Cardinality(SlotsOf(Writers \ {w}, b, x)) \in Nat /\ Copies(b[w], x) \in Nat
  BY SlotsOfOne
<1>4. /\ Cardinality(SlotsOf(Writers, c, x))
           = Cardinality(SlotsOf(Writers \ {w}, c, x)) + Copies(c[w], x)
      /\ Copies(c[w], x) \in Nat
  BY SlotsOfOne
<1> QED BY <1>2, <1>3, <1>4

(* Waiting(x) as a function of the variables it is about.                   *)
WaitingIn(q, p, h, b, x) ==
    Copies(q["raw"], x) + Copies(q["processed"], x)
      + Cardinality(HoldSet(p, h, x)) + Cardinality(SlotsOf(Writers, b, x))

LEMMA WaitingNow ==
    ASSUME NEW x PROVE Waiting(x) = WaitingIn(queue, pc, held, batch, x)
BY DEF Waiting, WaitingIn, Holding, BatchSlots, HoldSet, SlotsOf

LEMMA WaitingNext ==
    ASSUME NEW x PROVE Waiting(x)' = WaitingIn(queue', pc', held', batch', x)
BY DEF Waiting, WaitingIn, Holding, BatchSlots, HoldSet, SlotsOf, Copies

-----------------------------------------------------------------------------
(* Types.                                                                   *)

(* What the two roles do, that a consume() call hands out another record    *)
(* only below batch_size, and that a writer writes a batch exactly when the *)
(* record it was handed last has filled it.                                 *)
Phased ==
    /\ \A w \in Processors : pc[w] \notin {"write", "tail"}
    /\ \A w \in Writers : pc[w] # "handle"
    /\ \A w \in Workers :
          pc[w] \in {"ask", "handle", "write", "ack"} => count[w] < BatchSize
    /\ \A w \in Writers :
          IF pc[w] = "write" THEN batch[w] # << >> /\ held[w] = <<batch[w][Len(batch[w])]>>
                             ELSE Len(batch[w]) < BatchSize

IInv == PipeOK /\ Phased

LEMMA InitIInv == Init => IInv
<1> SUFFICES ASSUME Init PROVE IInv
  OBVIOUS
<1> USE BrokerAssumption DEF Init
<1>1. \A S : << >> \in Seq(S) /\ Len(<< >>) = 0
  BY EmptySeq
<1>2. PipeOK
  <2>1. stage \in Stages /\ pc \in [Workers -> PCs] /\ count \in [Workers -> 0..BatchSize]
    BY DEF Stages, PCs
  <2>2. /\ queue \in [Topics -> Seq(Records)] /\ held \in [Workers -> Seq(Records)]
        /\ batch \in [Writers -> Seq(Records)]
    BY <1>1
  <2>3. /\ \A w \in Workers : Len(held[w]) = 0 /\ pc[w] = "idle"
        /\ \A w \in Writers : Len(batch[w]) <= BatchSize
    BY <1>1
  <2>4. ends \in [Records -> [Ways -> Nat]] /\ published \in [Records -> Nat]
    OBVIOUS
  <2> QED BY <2>1, <2>2, <2>3, <2>4 DEF PipeOK
<1>3. Phased
  BY <1>1 DEF Phased, Workers
<1> QED BY <1>2, <1>3 DEF IInv

(* A worker consumes from one of the two topics.                            *)
LEMMA TopicOf == \A w \in Workers : InTopic(w) \in Topics
  BY DEF InTopic, Topics

LEMMA EndAllTypes ==
    ASSUME ends \in [Records -> [Ways -> Nat]], NEW s \in Seq(Records), NEW y \in Ways,
           EndAll(s, y)
    PROVE  /\ ends' \in [Records -> [Ways -> Nat]]
           /\ \A x \in Records : ends'[x] = [ends[x] EXCEPT ![y] = @ + Copies(s, x)]
<1>1. \A x \in Records : Copies(s, x) \in Nat
  BY CopiesNat
<1>2. ends' = [x \in Records |-> [ends[x] EXCEPT ![y] = @ + Copies(s, x)]]
  BY DEF EndAll, AddEnds
<1> QED BY <1>1, <1>2

LEMMA AddEndsTypes ==
    ASSUME NEW e \in [Records -> [Ways -> Nat]], NEW s \in Seq(Records), NEW y \in Ways
    PROVE  AddEnds(e, s, y) \in [Records -> [Ways -> Nat]]
<1>1. \A x \in Records : Copies(s, x) \in Nat
  BY CopiesNat
<1> QED BY <1>1 DEF AddEnds

(* The ends of one record, in all.                                          *)
EndsIn(r) == r["written"] + r["dlq"] + r["dropped"]

LEMMA AddEndsCounts ==
    ASSUME NEW e \in [Records -> [Ways -> Nat]], NEW s \in Seq(Records), NEW y \in Ways,
           NEW x \in Records
    PROVE  /\ EndsIn(e[x]) \in Nat /\ Copies(s, x) \in Nat
           /\ EndsIn(AddEnds(e, s, y)[x]) = EndsIn(e[x]) + Copies(s, x)
<1> DEFINE c == Copies(s, x)
           r == e[x]
<1>1. c \in Nat
  BY CopiesNat
<1>2. r \in [Ways -> Nat]
  OBVIOUS
<1>3. AddEnds(e, s, y)[x] = [r EXCEPT ![y] = @ + c]
  BY DEF AddEnds
<1> HIDE DEF r, c
<1>4. /\ EndsIn(r) \in Nat
      /\ EndsIn([r EXCEPT ![y] = @ + c]) = EndsIn(r) + c
  BY <1>1, <1>2 DEF EndsIn, Ways
<1>5. EndsIn(AddEnds(e, s, y)[x]) = EndsIn(r) + c
  BY <1>3, <1>4
<1> QED BY <1>1, <1>4, <1>5 DEF r, c

(* The first n rows of a batch.                                             *)
LEMMA KeptRows ==
    ASSUME NEW s \in Seq(Records), NEW n \in 0..Len(s), NEW x
    PROVE  /\ SubSeq(s, 1, n) \in Seq(Records)
           /\ Copies(SubSeq(s, 1, n), x) \in Nat
           /\ Copies(SubSeq(s, 1, n), x) <= Len(s)
<1> DEFINE k == SubSeq(s, 1, n)
<1>1. Len(s) \in Nat /\ DOMAIN s = 1..Len(s)
  BY LenProperties
<1>2. k \in Seq(Records) /\ Len(k) = n
  <2>1. \A i \in 1..n : s[i] \in Records
    BY <1>1, ElementOfSeq
  <2> QED BY <1>1, <2>1, SubSeqProperties
<1>3. DOMAIN k = 1..n
  BY <1>2, LenProperties
<1>4. Places(k, x) \in SUBSET (1..n)
  BY <1>3 DEF Places
<1>5. IsFiniteSet(1..n) /\ Cardinality(1..n) = n
  BY <1>1, FS_Interval
<1>6. Cardinality(Places(k, x)) <= n
  BY <1>4, <1>5, FS_Subset
<1>7. Copies(k, x) = Cardinality(Places(k, x)) /\ Copies(k, x) \in Nat
  BY <1>2, CopiesNat
<1> QED BY <1>1, <1>2, <1>6, <1>7

(* What a step of one worker has to show of that worker.                    *)
WorkerTyped(p, h, c) ==
    /\ p \in PCs /\ h \in Seq(Records) /\ c \in 0..BatchSize
    /\ Len(h) = IF p \in {"handle", "write", "ack"} THEN 1 ELSE 0

LEMMA ReaderTypes ==
    ASSUME IInv, \/ StartRead \/ ReadFails \/ \E x \in Records : PublishRaw(x)
    PROVE  IInv'
<1> USE BrokerAssumption
<1>1. UNCHANGED <<pc, held, count, batch, broker, ends, stops>>
  BY DEF StartRead, PublishRaw, ReadFails
<1>2. Phased'
  BY <1>1 DEF IInv, Phased
<1>3. ASSUME StartRead PROVE PipeOK'
  <2>1. /\ stage' \in Stages /\ unread' \subseteq Records /\ reads' \in 0..MaxReads
        /\ UNCHANGED <<queue, published, faults>>
    BY <1>3 DEF StartRead, IInv, PipeOK, Stages
  <2> QED BY <1>1, <2>1 DEF IInv, PipeOK
<1>4. ASSUME ReadFails PROVE PipeOK'
  <2>1. /\ stage' \in Stages /\ unread' \subseteq Records /\ faults' \in 0..MaxFaults
        /\ UNCHANGED <<queue, published, reads>>
    BY <1>4 DEF ReadFails, IInv, PipeOK, Stages
  <2> QED BY <1>1, <2>1 DEF IInv, PipeOK
<1>5. ASSUME NEW x \in Records, PublishRaw(x) PROVE PipeOK'
  <2>1. queue' \in [Topics -> Seq(Records)]
    <3>1. queue \in [Topics -> Seq(Records)] /\ "raw" \in Topics
      BY DEF IInv, PipeOK, Topics
    <3>2. Append(queue["raw"], x) \in Seq(Records)
      BY <3>1, AppendProperties
    <3> QED BY <1>5, <3>1, <3>2 DEF PublishRaw
  <2>2. published' \in [Records -> Nat] /\ stage' \in Stages /\ unread' \subseteq Records
        /\ reads' = reads /\ faults' = faults
    BY <1>5 DEF PublishRaw, IInv, PipeOK, Stages
  <2> QED BY <1>1, <2>1, <2>2 DEF IInv, PipeOK
<1> QED
  BY <1>2, <1>3, <1>4, <1>5 DEF IInv

(* A step of worker w that gives it a typed place, record, count and batch. *)
LEMMA WorkerTypes ==
    ASSUME IInv, NEW w \in Workers, NEW p, NEW h, NEW c,
           pc' = [pc EXCEPT ![w] = p], held' = [held EXCEPT ![w] = h],
           count' = [count EXCEPT ![w] = c], WorkerTyped(p, h, c),
           p \in {"ask", "handle", "write", "ack"} => c < BatchSize,
           batch' \in [Writers -> Seq(Records)],
           \A v \in Writers \ {w} : batch'[v] = batch[v],
           w \in Processors => p \notin {"write", "tail"},
           w \in Writers =>
              /\ p # "handle" /\ Len(batch'[w]) <= BatchSize
              /\ IF p = "write" THEN batch'[w] # << >> /\ h = <<batch'[w][Len(batch'[w])]>>
                                ELSE Len(batch'[w]) < BatchSize,
           UNCHANGED <<broker, unread, reads, published>>,
           stage' \in Stages, queue' \in [Topics -> Seq(Records)],
           ends' \in [Records -> [Ways -> Nat]],
           faults' \in 0..MaxFaults, stops' \in 0..MaxStops
    PROVE  IInv'
<1> USE BrokerAssumption
<1>1. /\ pc' \in [Workers -> PCs] /\ held' \in [Workers -> Seq(Records)]
      /\ count' \in [Workers -> 0..BatchSize]
  BY DEF IInv, PipeOK, WorkerTyped
<1>2. /\ pc'[w] = p /\ held'[w] = h /\ count'[w] = c
      /\ \A v \in Workers \ {w} :
            pc'[v] = pc[v] /\ held'[v] = held[v] /\ count'[v] = count[v]
  BY DEF IInv, PipeOK
<1>3. \A v \in Workers : Len(held'[v]) = IF pc'[v] \in {"handle", "write", "ack"}
                                         THEN 1 ELSE 0
  BY <1>2 DEF IInv, PipeOK, WorkerTyped
<1>4. \A v \in Writers : Len(batch'[v]) <= BatchSize
  BY DEF IInv, PipeOK
<1>5. PipeOK'
  BY <1>1, <1>3, <1>4 DEF IInv, PipeOK
<1>6. \A v \in Processors : pc'[v] \notin {"write", "tail"}
  BY <1>2 DEF IInv, Phased, Workers
<1>7. \A v \in Writers : pc'[v] # "handle"
  BY <1>2 DEF IInv, Phased, Workers
<1>8. \A v \in Workers :
          pc'[v] \in {"ask", "handle", "write", "ack"} => count'[v] < BatchSize
  BY <1>2 DEF IInv, Phased
<1>9. \A v \in Writers :
          IF pc'[v] = "write" THEN batch'[v] # << >> /\ held'[v] = <<batch'[v][Len(batch'[v])]>>
                              ELSE Len(batch'[v]) < BatchSize
  <2>1. ASSUME NEW v \in Writers, v # w
        PROVE  IF pc'[v] = "write"
               THEN batch'[v] # << >> /\ held'[v] = <<batch'[v][Len(batch'[v])]>>
               ELSE Len(batch'[v]) < BatchSize
    BY <1>2, <2>1 DEF IInv, Phased, Workers
  <2> QED BY <1>2, <2>1
<1> QED BY <1>5, <1>6, <1>7, <1>8, <1>9 DEF IInv, Phased

(* What worker w looks like before its step.                                *)
LEMMA WorkerNow ==
    ASSUME IInv, NEW w \in Workers
    PROVE  /\ pc[w] \in PCs /\ held[w] \in Seq(Records) /\ count[w] \in 0..BatchSize
           /\ Len(held[w]) = IF pc[w] \in {"handle", "write", "ack"} THEN 1 ELSE 0
           /\ pc[w] \in {"ask", "handle", "write", "ack"} => count[w] < BatchSize
           /\ pc = [pc EXCEPT ![w] = pc[w]] /\ held = [held EXCEPT ![w] = held[w]]
           /\ count = [count EXCEPT ![w] = count[w]]
           /\ w \in Writers =>
                 /\ batch[w] \in Seq(Records) /\ Len(batch[w]) <= BatchSize
                 /\ pc[w] # "write" => Len(batch[w]) < BatchSize
           /\ batch \in [Writers -> Seq(Records)]
           /\ queue \in [Topics -> Seq(Records)] /\ queue[InTopic(w)] \in Seq(Records)
           /\ ends \in [Records -> [Ways -> Nat]]
           /\ stage \in Stages /\ faults \in 0..MaxFaults /\ stops \in 0..MaxStops
           /\ w \in Processors => pc[w] \notin {"write", "tail"}
           /\ w \in Writers => pc[w] # "handle"
<1>1. queue[InTopic(w)] \in Seq(Records)
  BY TopicOf DEF IInv, PipeOK
<1>2. Phased /\ PipeOK
  BY DEF IInv
<1>3. /\ pc[w] \in {"ask", "handle", "write", "ack"} => count[w] < BatchSize
      /\ w \in Processors => pc[w] \notin {"write", "tail"}
      /\ w \in Writers => pc[w] # "handle"
      /\ w \in Writers => (pc[w] # "write" => Len(batch[w]) < BatchSize)
  BY <1>2 DEF Phased
<1>4. /\ pc = [pc EXCEPT ![w] = pc[w]] /\ held = [held EXCEPT ![w] = held[w]]
      /\ count = [count EXCEPT ![w] = count[w]]
  BY <1>2 DEF PipeOK
<1> QED BY <1>1, <1>2, <1>3, <1>4 DEF PipeOK

(* The record in hand.                                                      *)
LEMMA InHand ==
    ASSUME IInv, NEW w \in Workers, pc[w] \in {"handle", "write", "ack"}
    PROVE  held[w][1] \in Records /\ held[w] = <<held[w][1]>>
<1>1. held[w] \in Seq(Records) /\ Len(held[w]) = 1
  BY WorkerNow
<1>2. held[w][1] \in Records
  BY <1>1, ElementOfSeq
<1>3. <<held[w][1]>> \in Seq(Records) /\ Len(<<held[w][1]>>) = 1
  BY <1>2
<1> QED BY <1>1, <1>2, <1>3, SeqEqual

LEMMA NextStageType == ASSUME IInv, NEW w, NEW p PROVE NextStage(w, p) \in Stages
  BY DEF NextStage, IInv, PipeOK, Stages

LEMMA StartConsumeTypes ==
    ASSUME IInv, NEW w \in Workers, StartConsume(w) PROVE IInv'
<1>1. /\ pc' = [pc EXCEPT ![w] = "ask"] /\ count' = [count EXCEPT ![w] = 0]
      /\ held' = [held EXCEPT ![w] = held[w]] /\ Len(held[w]) = 0
      /\ held[w] \in Seq(Records) /\ pc[w] = "idle"
      /\ UNCHANGED <<broker, stage, unread, reads, queue, batch, ends, published,
                     faults, stops>>
  BY WorkerNow DEF StartConsume, SetPC
<1>2. WorkerTyped("ask", held[w], 0) /\ 0 < BatchSize
  BY <1>1, BrokerAssumption DEF WorkerTyped, PCs
<1>3. w \in Writers => Len(batch'[w]) < BatchSize /\ Len(batch'[w]) <= BatchSize
  BY <1>1, WorkerNow
<1> QED BY <1>1, <1>2, <1>3, WorkerNow, WorkerTypes

LEMMA DeliverTypes ==
    ASSUME IInv, NEW w \in Workers, Deliver(w) PROVE IInv'
<1> USE BrokerAssumption
<1> DEFINE q == queue[InTopic(w)]
           x == Head(q)
           p == IF w \in Processors THEN "handle"
                ELSE IF Len(batch'[w]) >= BatchSize THEN "write" ELSE "ack"
<1>1. q \in Seq(Records) /\ q # << >> /\ x \in Records /\ Tail(q) \in Seq(Records)
      /\ InTopic(w) \in Topics
  BY WorkerNow, HeadTailProperties, TopicOf DEF Deliver
<1>2. /\ pc[w] = "ask" /\ pc' = [pc EXCEPT ![w] = p]
      /\ held' = [held EXCEPT ![w] = <<x>>]
      /\ batch' = [v \in Writers |-> IF v = w THEN Append(batch[v], x) ELSE batch[v]]
      /\ queue' = [queue EXCEPT ![InTopic(w)] = Tail(q)]
      /\ UNCHANGED <<broker, stage, unread, reads, count, ends, published,
                     faults, stops>>
  BY DEF Deliver, SetPC
<1>3. queue' \in [Topics -> Seq(Records)]
  BY <1>1, <1>2, WorkerNow
<1>4. count' = [count EXCEPT ![w] = count[w]] /\ count[w] < BatchSize
      /\ count[w] \in 0..BatchSize
  BY <1>2, WorkerNow
<1>5. ASSUME w \in Writers
      PROVE  /\ batch[w] \in Seq(Records) /\ Len(batch[w]) < BatchSize
             /\ batch'[w] = Append(batch[w], x) /\ batch'[w] \in Seq(Records)
             /\ Len(batch'[w]) = Len(batch[w]) + 1 /\ batch'[w] # << >>
             /\ batch'[w][Len(batch'[w])] = x
             /\ Len(batch[w]) \in Nat
  <2>1. batch[w] \in Seq(Records) /\ Len(batch[w]) < BatchSize
    BY <1>2, <1>5, WorkerNow
  <2>2. batch'[w] = Append(batch[w], x)
    BY <1>2, <1>5
  <2> QED BY <1>1, <2>1, <2>2, AppendProperties, LenProperties
<1>6. batch' \in [Writers -> Seq(Records)] /\ \A v \in Writers \ {w} : batch'[v] = batch[v]
  BY <1>2, <1>5, WorkerNow
<1>7. WorkerTyped(p, <<x>>, count[w])
  BY <1>1, <1>4 DEF WorkerTyped, PCs
<1>8. w \in Writers =>
        /\ p # "handle" /\ Len(batch'[w]) <= BatchSize
        /\ IF p = "write" THEN batch'[w] # << >> /\ <<x>> = <<batch'[w][Len(batch'[w])]>>
                          ELSE Len(batch'[w]) < BatchSize
  BY <1>5
<1>9. w \in Processors => p \notin {"write", "tail"}
  OBVIOUS
<1> HIDE DEF p, x, q
<1> QED BY <1>2, <1>3, <1>4, <1>6, <1>7, <1>8, <1>9, WorkerNow, WorkerTypes

LEMMA QueueEmptyTypes ==
    ASSUME IInv, NEW w \in Workers, QueueEmpty(w) PROVE IInv'
<1> USE BrokerAssumption
<1>1. /\ pc[w] = "ask" /\ pc' = [pc EXCEPT ![w] = AfterLoop(w)]
      /\ stage' = NextStage(w, AfterLoop(w))
      /\ UNCHANGED <<broker, unread, reads, queue, held, count, batch, ends,
                     published, faults, stops>>
  BY DEF QueueEmpty, SetPC
<1>2. AfterLoop(w) \in {"tail", "idle"} /\ (w \in Processors => AfterLoop(w) = "idle")
  BY DEF AfterLoop
<1>3. WorkerTyped(AfterLoop(w), held[w], count[w])
  BY <1>1, <1>2, WorkerNow DEF WorkerTyped, PCs
<1>4. held' = [held EXCEPT ![w] = held[w]] /\ count' = [count EXCEPT ![w] = count[w]]
  BY <1>1, WorkerNow
<1>5. w \in Writers => Len(batch'[w]) < BatchSize /\ Len(batch'[w]) <= BatchSize
  BY <1>1, WorkerNow
<1>6. /\ stage' \in Stages /\ batch' \in [Writers -> Seq(Records)]
      /\ queue' \in [Topics -> Seq(Records)] /\ ends' \in [Records -> [Ways -> Nat]]
      /\ faults' \in 0..MaxFaults /\ stops' \in 0..MaxStops
  BY <1>1, NextStageType, WorkerNow
<1> DEFINE p == AfterLoop(w)  h == held[w]  c == count[w]
<1>7. /\ w \in Processors => p \notin {"write", "tail"}
      /\ w \in Writers =>
            /\ p # "handle" /\ Len(batch'[w]) <= BatchSize
            /\ IF p = "write" THEN batch'[w] # << >> /\ h = <<batch'[w][Len(batch'[w])]>>
                              ELSE Len(batch'[w]) < BatchSize
      /\ ~(p \in {"ask", "handle", "write", "ack"})
  BY <1>2, <1>5
<1>8. /\ pc' = [pc EXCEPT ![w] = p] /\ held' = [held EXCEPT ![w] = h]
      /\ count' = [count EXCEPT ![w] = c] /\ WorkerTyped(p, h, c)
      /\ \A v \in Writers \ {w} : batch'[v] = batch[v]
      /\ UNCHANGED <<broker, unread, reads, published>>
  BY <1>1, <1>3, <1>4
<1> HIDE DEF p, h, c
<1> QED BY <1>6, <1>7, <1>8, WorkerTypes

LEMMA AcknowledgeTypes ==
    ASSUME IInv, NEW w \in Workers, Acknowledge(w) PROVE IInv'
<1> USE BrokerAssumption
<1> DEFINE p == IF count'[w] >= BatchSize THEN AfterLoop(w) ELSE "ask"
<1>1. /\ pc[w] = "ack" /\ pc' = [pc EXCEPT ![w] = p] /\ stage' = NextStage(w, p)
      /\ count' = [count EXCEPT ![w] = count[w] + 1]
      /\ held' = [held EXCEPT ![w] = << >>]
      /\ UNCHANGED <<broker, unread, reads, queue, batch, ends, published, faults,
                     stops>>
  BY DEF Acknowledge, SetPC
<1>2. AfterLoop(w) \in {"tail", "idle"} /\ (w \in Processors => AfterLoop(w) = "idle")
  BY DEF AfterLoop
<1>3. count'[w] = count[w] + 1 /\ count[w] + 1 \in 0..BatchSize
  <2>1. count[w] \in 0..BatchSize /\ count[w] < BatchSize
    BY <1>1, WorkerNow
  <2> QED BY <1>1, <2>1 DEF IInv, PipeOK
<1>4. p \in {"ask", "handle", "write", "ack"} => count[w] + 1 < BatchSize
  BY <1>2, <1>3
<1>5. << >> \in Seq(Records) /\ Len(<< >>) = 0
  BY EmptySeq
<1>6. p \in {"ask", "tail", "idle"} /\ (w \in Processors => p # "tail")
  BY <1>2
<1>7. WorkerTyped(p, << >>, count[w] + 1)
  BY <1>3, <1>5, <1>6 DEF WorkerTyped, PCs
<1>8. w \in Writers => Len(batch'[w]) < BatchSize /\ Len(batch'[w]) <= BatchSize
  BY <1>1, WorkerNow
<1> HIDE DEF p
<1> QED BY <1>1, <1>4, <1>6, <1>7, <1>8, NextStageType, WorkerNow, WorkerTypes

LEMMA ProcessTypes ==
    ASSUME IInv, NEW w \in Workers, Process(w) PROVE IInv'
<1> USE BrokerAssumption
<1>1. /\ w \in Processors /\ pc[w] = "handle" /\ pc' = [pc EXCEPT ![w] = "ack"]
      /\ UNCHANGED <<broker, stage, unread, reads, held, count, batch, published,
                     stops>>
  BY DEF Process, SetPC
<1>2. held[w] \in Seq(Records) /\ {"raw", "processed"} \subseteq Topics
  BY WorkerNow DEF Topics
<1>3. \/ UNCHANGED queue
      \/ queue' = [queue EXCEPT !["processed"] = queue["processed"] \o held[w]]
  BY DEF Process
<1>4. queue' \in [Topics -> Seq(Records)]
  <2>1. queue["processed"] \o held[w] \in Seq(Records)
    BY <1>2, WorkerNow, ConcatProperties
  <2> QED BY <1>3, <2>1, WorkerNow
<1>5. ends' \in [Records -> [Ways -> Nat]]
  <2>1. \/ UNCHANGED ends \/ \E y \in Ways : EndAll(held[w], y)
    BY DEF Process, Ways
  <2> QED BY <1>2, <2>1, EndAllTypes, WorkerNow
<1>6. faults' \in 0..MaxFaults
  <2>1. faults' = faults \/ (faults < MaxFaults /\ faults' = faults + 1)
    BY DEF Process
  <2>2. faults \in 0..MaxFaults
    BY WorkerNow
  <2> QED BY <2>1, <2>2
<1>7. WorkerTyped("ack", held[w], count[w]) /\ count[w] < BatchSize
  BY <1>1, WorkerNow DEF WorkerTyped, PCs
<1>8. held' = [held EXCEPT ![w] = held[w]] /\ count' = [count EXCEPT ![w] = count[w]]
      /\ w \notin Writers
  BY <1>1, WorkerNow
<1>9. /\ stage' \in Stages /\ stops' \in 0..MaxStops
      /\ batch' \in [Writers -> Seq(Records)]
  BY <1>1, WorkerNow
<1> DEFINE p == "ack"
<1>10. p \in {"ask", "handle", "write", "ack"} => count[w] < BatchSize
  BY <1>7
<1>11. p \notin {"write", "tail"} /\ pc' = [pc EXCEPT ![w] = p]
       /\ WorkerTyped(p, held[w], count[w])
  BY <1>1, <1>7
<1> HIDE DEF p
<1> QED BY <1>1, <1>4, <1>5, <1>6, <1>8, <1>9, <1>10, <1>11, WorkerTypes

LEMMA WriteTypes ==
    ASSUME IInv, NEW w \in Workers, Write(w) PROVE IInv'
<1> USE BrokerAssumption
<1> DEFINE p == IF pc[w] = "write" THEN "ack" ELSE "idle"
<1>1. /\ w \in Writers /\ pc[w] \in {"write", "tail"} /\ pc' = [pc EXCEPT ![w] = p]
      /\ stage' = NextStage(w, p) /\ batch' = [batch EXCEPT ![w] = << >>]
      /\ UNCHANGED <<broker, unread, reads, queue, held, count, published, stops>>
  BY DEF Write, AfterWrite, SetPC
<1>2. << >> \in Seq(Records) /\ Len(<< >>) = 0
  BY EmptySeq
<1>3. /\ batch' \in [Writers -> Seq(Records)] /\ batch'[w] = << >>
      /\ \A v \in Writers \ {w} : batch'[v] = batch[v]
  BY <1>1, <1>2, WorkerNow
<1>4. ends' \in [Records -> [Ways -> Nat]]
  <2>1. batch[w] \in Seq(Records) /\ ends \in [Records -> [Ways -> Nat]]
        /\ "written" \in Ways /\ "dlq" \in Ways
    BY <1>1, WorkerNow DEF Ways
  <2>2. CASE EndAll(batch[w], "written")
    BY <2>1, <2>2, EndAllTypes
  <2>3. ASSUME NEW n \in 0..Len(batch[w]),
               ends' = AddEnds(AddEnds(ends, SubSeq(batch[w], 1, n), "written"),
                               batch[w], "dlq")
        PROVE  ends' \in [Records -> [Ways -> Nat]]
    <3>1. SubSeq(batch[w], 1, n) \in Seq(Records)
      BY <2>1, KeptRows
    <3>2. AddEnds(ends, SubSeq(batch[w], 1, n), "written") \in [Records -> [Ways -> Nat]]
      BY <2>1, <3>1, AddEndsTypes
    <3> QED BY <2>1, <2>3, <3>2, AddEndsTypes
  <2> QED BY <2>2, <2>3 DEF Write
<1>5. faults' \in 0..MaxFaults
  <2>1. faults \in 0..MaxFaults
    BY WorkerNow
  <2> QED BY <2>1 DEF Write
<1>6. WorkerTyped(p, held[w], count[w]) /\ (p = "ack" => count[w] < BatchSize)
  BY <1>1, WorkerNow DEF WorkerTyped, PCs
<1>7. held' = [held EXCEPT ![w] = held[w]] /\ count' = [count EXCEPT ![w] = count[w]]
      /\ w \notin Processors
  BY <1>1, WorkerNow
<1>8. Len(batch'[w]) < BatchSize /\ Len(batch'[w]) <= BatchSize
  BY <1>2, <1>3
<1>9. p \in {"ack", "idle"}
  OBVIOUS
<1> HIDE DEF p
<1> QED BY <1>1, <1>3, <1>4, <1>5, <1>6, <1>7, <1>8, <1>9, NextStageType, WorkerNow,
           WorkerTypes

LEMMA StopTypes ==
    ASSUME IInv, NEW w \in Workers, Stop(w) PROVE IInv'
<1> USE BrokerAssumption
<1>1. /\ pc' = [pc EXCEPT ![w] = "idle"] /\ held' = [held EXCEPT ![w] = << >>]
      /\ batch' = [v \in Writers |-> IF v = w THEN << >> ELSE batch[v]]
      /\ UNCHANGED <<broker, stage, unread, reads, count, published, faults>>
  BY DEF Stop, SetPC
<1>2. << >> \in Seq(Records) /\ Len(<< >>) = 0
  BY EmptySeq
<1>3. /\ batch' \in [Writers -> Seq(Records)] /\ (w \in Writers => batch'[w] = << >>)
      /\ \A v \in Writers \ {w} : batch'[v] = batch[v]
  BY <1>1, <1>2, WorkerNow
<1>4. queue' \in [Topics -> Seq(Records)]
  <2>1. \/ UNCHANGED queue
        \/ queue' = [queue EXCEPT ![InTopic(w)] = held[w] \o queue[InTopic(w)]]
    BY DEF Stop
  <2>2. held[w] \o queue[InTopic(w)] \in Seq(Records)
    BY WorkerNow, ConcatProperties
  <2> QED BY <2>1, <2>2, WorkerNow
<1>5. ends' \in [Records -> [Ways -> Nat]]
  <2>1. UNCHANGED ends \/ EndAll(held[w], "dlq")
    BY DEF Stop
  <2>2. "dlq" \in Ways /\ held[w] \in Seq(Records)
    BY WorkerNow DEF Ways
  <2> QED BY <2>1, <2>2, EndAllTypes, WorkerNow
<1>6. stops' \in 0..MaxStops
  BY WorkerNow DEF Stop
<1>7. WorkerTyped("idle", << >>, count[w])
  BY <1>2, WorkerNow DEF WorkerTyped, PCs
<1>8. count' = [count EXCEPT ![w] = count[w]]
  BY <1>1, WorkerNow
<1>9. w \in Writers => Len(batch'[w]) < BatchSize /\ Len(batch'[w]) <= BatchSize
  BY <1>2, <1>3
<1> QED BY <1>1, <1>3, <1>4, <1>5, <1>6, <1>7, <1>8, <1>9, WorkerNow, WorkerTypes

LEMMA RebalanceTypes ==
    ASSUME IInv, NEW w \in Workers, Rebalance(w) PROVE IInv'
<1>1. /\ queue' = [queue EXCEPT ![InTopic(w)] = held[w] \o queue[InTopic(w)]]
      /\ UNCHANGED <<broker, stage, unread, reads, pc, held, count, batch, ends,
                     published, faults, stops>>
  BY DEF Rebalance
<1>2. held[w] \o queue[InTopic(w)] \in Seq(Records)
  BY WorkerNow, ConcatProperties
<1>3. queue' \in [Topics -> Seq(Records)]
  BY <1>1, <1>2, WorkerNow
<1>4. PipeOK'
  BY <1>1, <1>3 DEF IInv, PipeOK
<1> QED BY <1>1, <1>4 DEF IInv, Phased

LEMMA NextIInv == IInv /\ [Next]_vars => IInv'
<1> SUFFICES ASSUME IInv, [Next]_vars PROVE IInv'
  OBVIOUS
<1>1. CASE UNCHANGED vars
  BY <1>1 DEF vars, IInv, PipeOK, Phased
<1>2. CASE StartRead \/ ReaderStep \/ ReadFails
  BY <1>2, ReaderTypes DEF ReaderStep
<1>3. ASSUME NEW w \in Workers, WorkerStep(w) \/ Rebalance(w) \/ Stop(w) PROVE IInv'
  BY <1>3, StartConsumeTypes, DeliverTypes, QueueEmptyTypes, AcknowledgeTypes,
     ProcessTypes, WriteTypes, StopTypes, RebalanceTypes DEF WorkerStep
<1> QED BY <1>1, <1>2, <1>3 DEF Next

(* The workers whose partition changed hands, and the doublings.            *)
LEMMA InitGroup == Init => GroupOK
  BY BrokerAssumption DEF Init, GroupOK

LEMMA DoubledTypes ==
    ASSUME extra \in [Records -> Nat], NEW s \in Seq(Records), Doubled(s)
    PROVE  /\ extra' \in [Records -> Nat]
           /\ \A x \in Records : extra'[x] = extra[x] + Copies(s, x)
<1>1. \A x \in Records : Copies(s, x) \in Nat
  BY CopiesNat
<1> QED BY <1>1 DEF Doubled

(* A step of w that keeps w's record in hand, or takes w off the list.      *)
LEMMA RevokedStep ==
    ASSUME IInv, GroupOK, NEW w \in Workers, \A v \in Workers \ {w} : pc'[v] = pc[v],
           \/ revoked' \subseteq revoked \ {w}
           \/ /\ revoked' \subseteq revoked
              /\ \/ pc[w] \notin {"handle", "write", "ack"}
                 \/ pc'[w] \in {"handle", "write", "ack"}
    PROVE  revoked' \subseteq {v \in Workers : pc'[v] \in {"handle", "write", "ack"}}
BY DEF GroupOK

LEMMA GroupStep == IInv /\ GroupOK /\ [Next]_vars => GroupOK'
<1> SUFFICES ASSUME IInv, GroupOK, [Next]_vars PROVE GroupOK'
  OBVIOUS
<1> DEFINE Busy == {"handle", "write", "ack"}
<1>1. CASE UNCHANGED <<pc, revoked, extra, rebalances>>
  BY <1>1 DEF GroupOK
<1>2. CASE StartRead \/ ReaderStep \/ ReadFails \/ UNCHANGED vars
  BY <1>1, <1>2 DEF StartRead, ReaderStep, PublishRaw, ReadFails, group, vars
<1>3. ASSUME NEW w \in Workers,
             \/ StartConsume(w) \/ Deliver(w) \/ QueueEmpty(w) \/ Acknowledge(w)
             \/ Stop(w)
      PROVE  GroupOK'
  <2>1. UNCHANGED <<extra, rebalances>>
    BY <1>3 DEF StartConsume, Deliver, QueueEmpty, Acknowledge, Stop, group
  <2>2. \A v \in Workers \ {w} : pc'[v] = pc[v]
    BY <1>3 DEF StartConsume, Deliver, QueueEmpty, Acknowledge, Stop, SetPC, IInv, PipeOK
  <2>3. \/ revoked' \subseteq revoked \ {w}
        \/ revoked' \subseteq revoked /\ pc[w] \notin Busy
    BY <1>3 DEF StartConsume, Deliver, QueueEmpty, Acknowledge, Stop, group
  <2>4. revoked' \subseteq {v \in Workers : pc'[v] \in Busy}
    BY <2>2, <2>3, RevokedStep
  <2> QED BY <2>1, <2>4 DEF GroupOK
<1>4. ASSUME NEW w \in Workers, Process(w) \/ Write(w) PROVE GroupOK'
  <2>1. UNCHANGED <<revoked, rebalances>>
    BY <1>4 DEF Process, Write, AfterWrite, group
  <2>2. \A v \in Workers \ {w} : pc'[v] = pc[v]
    BY <1>4 DEF Process, Write, AfterWrite, SetPC, IInv, PipeOK
  <2>3. pc[w] \notin Busy \/ pc'[w] \in Busy
    BY <1>4 DEF Process, Write, AfterWrite, SetPC, IInv, PipeOK
  <2>4. revoked' \subseteq {v \in Workers : pc'[v] \in Busy}
    BY <2>1, <2>2, <2>3, RevokedStep
  <2>5. extra' \in [Records -> Nat]
    <3>1. extra \in [Records -> Nat] /\ held[w] \in Seq(Records)
      BY WorkerNow DEF GroupOK
    <3>2. CASE Process(w)
      <4>1. UNCHANGED extra \/ Doubled(held[w])
        BY <3>2 DEF Process
      <4> QED BY <3>1, <4>1, DoubledTypes
    <3>3. CASE Write(w)
      <4>1. batch[w] \in Seq(Records)
        BY <3>3, WorkerNow DEF Write
      <4>2. \A n \in 0..Len(batch[w]) : SubSeq(batch[w], 1, n) \in Seq(Records)
        BY <4>1, KeptRows
      <4>3. UNCHANGED extra
            \/ \E n \in 0..Len(batch[w]) : Doubled(SubSeq(batch[w], 1, n))
        BY <3>3 DEF Write
      <4> QED BY <3>1, <4>2, <4>3, DoubledTypes
    <3> QED BY <1>4, <3>2, <3>3
  <2> QED BY <2>1, <2>4, <2>5 DEF GroupOK
<1>5. ASSUME NEW w \in Workers, Rebalance(w) PROVE GroupOK'
  <2>1. held[w] \in Seq(Records) /\ pc[w] \in Busy
    <3>1. held[w] \in Seq(Records) /\ held[w] # << >>
      BY <1>5, WorkerNow DEF Rebalance
    <3>2. Len(held[w]) # 0
      BY <3>1, EmptySeq
    <3> QED BY <3>1, <3>2, WorkerNow
  <2>2. extra' \in [Records -> Nat]
    BY <1>5, <2>1, DoubledTypes DEF Rebalance, GroupOK
  <2>3. rebalances' \in 0..MaxRebalances
    BY <1>5, BrokerAssumption DEF Rebalance, GroupOK
  <2> QED BY <1>5, <2>1, <2>2, <2>3 DEF Rebalance, GroupOK
<1> QED BY <1>2, <1>3, <1>4, <1>5 DEF Next, WorkerStep

(* Types of the pipeline; a worker has a record in hand exactly between its *)
(* delivery and its acknowledgement, and no batch outgrows batch_size.      *)
THEOREM TypeCorrect == Spec => []TypeOK
<1>1. IInv /\ GroupOK => TypeOK
  BY DEF IInv, TypeOK
<1> QED BY <1>1, InitIInv, NextIInv, InitGroup, GroupStep, PTL DEF Spec

-----------------------------------------------------------------------------
(* The balance of the records.                                              *)

LEMMA PartsNat ==
    ASSUME NEW q \in [Topics -> Seq(Records)], NEW b \in Batches, NEW p, NEW h, NEW x
    PROVE  /\ Copies(q["raw"], x) \in Nat /\ Copies(q["processed"], x) \in Nat
           /\ Cardinality(HoldSet(p, h, x)) \in Nat
           /\ Cardinality(SlotsOf(Writers, b, x)) \in Nat
<1>1. q["raw"] \in Seq(Records) /\ q["processed"] \in Seq(Records)
  BY DEF Topics
<1> QED BY <1>1, CopiesNat, HoldFinite, SlotsFinite

LEMMA BatchesNow == ASSUME IInv PROVE batch \in Batches /\ queue \in [Topics -> Seq(Records)]
  BY DEF IInv, PipeOK, Batches

LEMMA BatchesNext ==
    ASSUME IInv' PROVE batch' \in Batches /\ queue' \in [Topics -> Seq(Records)]
  BY DEF IInv, PipeOK, Batches

LEMMA EndedNat == ASSUME IInv, NEW x \in Records PROVE Ended(x) \in Nat
  BY DEF IInv, PipeOK, Ways, Ended

(* Records that come to their end are counted there.                        *)
LEMMA EndAllCounts ==
    ASSUME IInv, NEW s \in Seq(Records), NEW y \in Ways, EndAll(s, y), NEW x \in Records
    PROVE  Ended(x)' = Ended(x) + Copies(s, x)
<1>1. ends'[x] = [ends[x] EXCEPT ![y] = @ + Copies(s, x)]
  BY EndAllTypes DEF IInv, PipeOK
<1>2. Copies(s, x) \in Nat /\ ends[x] \in [Ways -> Nat]
  BY CopiesNat DEF IInv, PipeOK
<1>3. Ended(x)' = ends'[x]["written"] + ends'[x]["dlq"] + ends'[x]["dropped"]
  BY DEF Ended
<1> QED BY <1>1, <1>2, <1>3 DEF Ended, Ways

(* What a step adds to the places where x waits, to its ends, to its        *)
(* publications and to its doublings.                                       *)
Balanced(x) ==
    Waiting(x)' + Ended(x)' + published[x] + extra[x]
       = Waiting(x) + Ended(x) + published'[x] + extra'[x]

LEMMA ExtraNat ==
    ASSUME GroupOK, GroupOK', NEW x \in Records PROVE extra[x] \in Nat /\ extra'[x] \in Nat
BY DEF GroupOK

(* A step of worker w that changes the holders and the slots by w only.     *)
LEMMA WorkerMoves ==
    ASSUME IInv, IInv', NEW w \in Workers, NEW x \in Records,
           \A v \in Workers \ {w} : pc'[v] = pc[v] /\ held'[v] = held[v],
           \A v \in Writers \ {w} : batch'[v] = batch[v]
    PROVE  /\ Cardinality(HoldSet(pc', held', x))
                + (IF w \in HoldSet(pc, held, x) THEN 1 ELSE 0)
                = Cardinality(HoldSet(pc, held, x))
                    + (IF w \in HoldSet(pc', held', x) THEN 1 ELSE 0)
           /\ w \in Writers =>
                 Cardinality(SlotsOf(Writers, batch', x)) + Copies(batch[w], x)
                 = Cardinality(SlotsOf(Writers, batch, x)) + Copies(batch'[w], x)
           /\ w \notin Writers => Cardinality(SlotsOf(Writers, batch', x))
                                     = Cardinality(SlotsOf(Writers, batch, x))
<1>1. \A v \in Processors \ {w} : pc'[v] = pc[v] /\ held'[v] = held[v]
  BY DEF Workers
<1>2. Cardinality(HoldSet(pc', held', x)) + (IF w \in HoldSet(pc, held, x) THEN 1 ELSE 0)
         = Cardinality(HoldSet(pc, held, x))
             + (IF w \in HoldSet(pc', held', x) THEN 1 ELSE 0)
  BY <1>1, HoldChange
<1>3. ASSUME w \in Writers
      PROVE  Cardinality(SlotsOf(Writers, batch', x)) + Copies(batch[w], x)
                = Cardinality(SlotsOf(Writers, batch, x)) + Copies(batch'[w], x)
  BY <1>3, BatchesNow, BatchesNext, SlotsChange
<1>4. ASSUME w \notin Writers
      PROVE  Cardinality(SlotsOf(Writers, batch', x)) = Cardinality(SlotsOf(Writers, batch, x))
  <2>1. batch' = batch
    <3>1. batch \in [Writers -> Seq(Records)] /\ batch' \in [Writers -> Seq(Records)]
      BY DEF IInv, PipeOK
    <3>2. \A v \in Writers : batch'[v] = batch[v]
      BY <1>4
    <3> QED BY <3>1, <3>2
  <2> QED BY <2>1, Zenon
<1> QED BY <1>2, <1>3, <1>4

(* A step that moves no record.                                             *)
LEMMA NothingMoves ==
    ASSUME IInv, NEW x \in Records, UNCHANGED <<queue, batch, ends, published, extra>>,
           HoldSet(pc', held', x) = HoldSet(pc, held, x)
    PROVE  Balanced(x)
<1>1. WaitingIn(queue', pc', held', batch', x) = WaitingIn(queue, pc, held, batch, x)
  <2>1. Cardinality(HoldSet(pc', held', x)) = Cardinality(HoldSet(pc, held, x))
    BY Zenon
  <2> QED BY <2>1 DEF WaitingIn
<1>2. Ended(x)' = Ended(x)
  BY DEF Ended
<1> QED BY <1>1, <1>2, WaitingNow, WaitingNext DEF Balanced

LEMMA PublishBalance ==
    ASSUME IInv, GroupOK, NEW y \in Records, PublishRaw(y), NEW x \in Records
    PROVE  Balanced(x)
<1>1. /\ queue' = [queue EXCEPT !["raw"] = Append(queue["raw"], y)]
      /\ published' = [published EXCEPT ![y] = @ + 1]
      /\ UNCHANGED <<pc, held, batch, ends>>
  BY DEF PublishRaw
<1>2. queue \in [Topics -> Seq(Records)] /\ batch \in Batches
      /\ published \in [Records -> Nat] /\ queue["raw"] \in Seq(Records)
  BY BatchesNow DEF IInv, PipeOK, Topics
<1>3. /\ queue'["raw"] = Append(queue["raw"], y)
      /\ queue'["processed"] = queue["processed"]
  BY <1>1, <1>2 DEF Topics
<1>4. Copies(queue'["raw"], x) = Copies(queue["raw"], x) + (IF y = x THEN 1 ELSE 0)
  BY <1>2, <1>3, CopiesAppend
<1>5. /\ Copies(queue["raw"], x) \in Nat /\ Copies(queue["processed"], x) \in Nat
      /\ Cardinality(HoldSet(pc, held, x)) \in Nat
      /\ Cardinality(SlotsOf(Writers, batch, x)) \in Nat
  BY <1>2, PartsNat
<1>6. WaitingIn(queue', pc', held', batch', x)
         = WaitingIn(queue, pc, held, batch, x) + (IF y = x THEN 1 ELSE 0)
  BY <1>1, <1>3, <1>4, <1>5 DEF WaitingIn
<1>7. WaitingIn(queue, pc, held, batch, x) \in Nat
  BY <1>5 DEF WaitingIn
<1>8. Ended(x)' = Ended(x) /\ Ended(x) \in Nat
  BY <1>1, EndedNat DEF Ended
<1>9. published'[x] = published[x] + (IF y = x THEN 1 ELSE 0) /\ published[x] \in Nat
  BY <1>1, <1>2
<1>10. extra'[x] = extra[x] /\ extra[x] \in Nat
  BY DEF PublishRaw, GroupOK
<1> QED BY <1>6, <1>7, <1>8, <1>9, <1>10, WaitingNow, WaitingNext DEF Balanced

LEMMA IdleBalance ==
    ASSUME IInv, NEW w \in Workers, NEW x \in Records,
           StartConsume(w) \/ QueueEmpty(w) \/ Acknowledge(w)
    PROVE  Balanced(x)
<1>1. \E p \in {"ask", "idle", "tail"} : pc' = [pc EXCEPT ![w] = p]
  BY DEF StartConsume, QueueEmpty, Acknowledge, SetPC, AfterLoop
<1>2. held' = held \/ held' = [held EXCEPT ![w] = << >>]
  BY DEF StartConsume, QueueEmpty, Acknowledge
<1>3. pc[w] # "handle" /\ UNCHANGED <<queue, batch, ends, published, extra>>
  BY DEF StartConsume, QueueEmpty, Acknowledge
<1>4. pc'[w] # "handle" /\ \A v \in Workers \ {w} : pc'[v] = pc[v] /\ held'[v] = held[v]
  BY <1>1, <1>2 DEF IInv, PipeOK
<1>5. HoldSet(pc', held', x) = HoldSet(pc, held, x)
  BY <1>3, <1>4 DEF HoldSet, Workers
<1> QED BY <1>3, <1>5, NothingMoves

(* Delivery takes the record from its topic into the hand or the batch.     *)
LEMMA DeliverBalance ==
    ASSUME IInv, IInv', NEW w \in Workers, Deliver(w), NEW x \in Records
    PROVE  Balanced(x)
<1> DEFINE y == Head(queue[InTopic(w)])
           d == IF y = x THEN 1 ELSE 0
<1>1. /\ pc[w] = "ask" /\ queue[InTopic(w)] # << >>
      /\ held' = [held EXCEPT ![w] = <<y>>]
      /\ batch' = [v \in Writers |-> IF v = w THEN Append(batch[v], y) ELSE batch[v]]
      /\ queue' = [queue EXCEPT ![InTopic(w)] = Tail(queue[InTopic(w)])]
      /\ pc' = [pc EXCEPT ![w] = pc'[w]] /\ UNCHANGED <<ends, published, extra>>
      /\ pc'[w] = "handle" <=> w \in Processors
  BY DEF Deliver, SetPC, IInv, PipeOK
<1>2. /\ queue \in [Topics -> Seq(Records)] /\ InTopic(w) \in Topics
      /\ queue' \in [Topics -> Seq(Records)]
      /\ batch \in Batches /\ batch' \in Batches
  BY BatchesNow, BatchesNext, TopicOf
<1>3. y \in Records
  BY <1>1, <1>2, HeadTailProperties
<1>4. /\ queue'[InTopic(w)] = Tail(queue[InTopic(w)])
      /\ \A t \in Topics \ {InTopic(w)} : queue'[t] = queue[t]
  BY <1>1, <1>2
<1>5. Copies(queue[InTopic(w)], x) = Copies(queue'[InTopic(w)], x) + d
  BY <1>1, <1>2, <1>4, CopiesTail
<1>6. Copies(queue["raw"], x) + Copies(queue["processed"], x)
         = Copies(queue'["raw"], x) + Copies(queue'["processed"], x) + d
  <2>1. /\ Copies(queue["raw"], x) \in Nat /\ Copies(queue["processed"], x) \in Nat
        /\ Copies(queue'["raw"], x) \in Nat /\ Copies(queue'["processed"], x) \in Nat
    BY <1>2, PartsNat
  <2>2. CASE InTopic(w) = "raw"
    <3>1. queue'["processed"] = queue["processed"]
      BY <1>4, <2>2 DEF Topics
    <3>2. Copies(queue["raw"], x) = Copies(queue'["raw"], x) + d
      BY <1>5, <2>2
    <3> QED BY <2>1, <3>1, <3>2
  <2>3. CASE InTopic(w) = "processed"
    <3>1. queue'["raw"] = queue["raw"]
      BY <1>4, <2>3 DEF Topics
    <3>2. Copies(queue["processed"], x) = Copies(queue'["processed"], x) + d
      BY <1>5, <2>3
    <3> QED BY <2>1, <3>1, <3>2
  <2> QED BY <1>2, <2>2, <2>3 DEF Topics
<1>7. /\ \A v \in Workers \ {w} : pc'[v] = pc[v] /\ held'[v] = held[v]
      /\ \A v \in Writers \ {w} : batch'[v] = batch[v]
      /\ held'[w] = <<y>>
  BY <1>1 DEF IInv, PipeOK
<1>8. Cardinality(HoldSet(pc', held', x)) + Cardinality(SlotsOf(Writers, batch', x))
         = Cardinality(HoldSet(pc, held, x)) + Cardinality(SlotsOf(Writers, batch, x)) + d
  <2>1. /\ Cardinality(HoldSet(pc, held, x)) \in Nat
        /\ Cardinality(SlotsOf(Writers, batch, x)) \in Nat
        /\ Cardinality(HoldSet(pc', held', x)) \in Nat
        /\ Cardinality(SlotsOf(Writers, batch', x)) \in Nat
    BY <1>2, PartsNat
  <2>2. w \notin HoldSet(pc, held, x)
    BY <1>1 DEF HoldSet
  <2>3. CASE w \in Processors
    <3>1. w \notin Writers
      BY <2>3, BrokerAssumption
    <3>2. w \in HoldSet(pc', held', x) <=> y = x
      BY <1>1, <1>7, <2>3 DEF HoldSet
    <3>3. Cardinality(SlotsOf(Writers, batch', x)) = Cardinality(SlotsOf(Writers, batch, x))
      BY <1>7, <3>1, WorkerMoves
    <3>4. Cardinality(HoldSet(pc', held', x)) = Cardinality(HoldSet(pc, held, x)) + d
      BY <1>7, <2>1, <2>2, <3>2, WorkerMoves
    <3> QED BY <2>1, <3>3, <3>4
  <2>4. CASE w \in Writers
    <3>1. w \notin HoldSet(pc', held', x)
      BY <2>4, BrokerAssumption DEF HoldSet
    <3>2. Cardinality(HoldSet(pc', held', x)) = Cardinality(HoldSet(pc, held, x))
      BY <1>7, <2>1, <2>2, <3>1, WorkerMoves
    <3>3. batch'[w] = Append(batch[w], y) /\ batch[w] \in Seq(Records)
      BY <1>1, <2>4, WorkerNow
    <3>4. Copies(batch'[w], x) = Copies(batch[w], x) + d /\ Copies(batch[w], x) \in Nat
      BY <1>3, <3>3, CopiesAppend, CopiesNat
    <3>5. Cardinality(SlotsOf(Writers, batch', x)) + Copies(batch[w], x)
             = Cardinality(SlotsOf(Writers, batch, x)) + Copies(batch'[w], x)
      BY <1>7, <2>4, WorkerMoves
    <3> QED BY <2>1, <3>2, <3>4, <3>5
  <2> QED BY <2>3, <2>4 DEF Workers
<1>9. WaitingIn(queue', pc', held', batch', x) = WaitingIn(queue, pc, held, batch, x)
  <2>1. /\ Copies(queue["raw"], x) \in Nat /\ Copies(queue["processed"], x) \in Nat
        /\ Cardinality(HoldSet(pc, held, x)) \in Nat
        /\ Cardinality(SlotsOf(Writers, batch, x)) \in Nat
    BY <1>2, PartsNat
  <2>2. /\ Copies(queue'["raw"], x) \in Nat /\ Copies(queue'["processed"], x) \in Nat
        /\ Cardinality(HoldSet(pc', held', x)) \in Nat
        /\ Cardinality(SlotsOf(Writers, batch', x)) \in Nat
    BY <1>2, PartsNat
  <2> HIDE DEF d
  <2>3. d \in Nat
    BY DEF d
  <2> QED BY <1>6, <1>8, <2>1, <2>2, <2>3 DEF WaitingIn
<1>10. Ended(x)' = Ended(x)
  BY <1>1 DEF Ended
<1> QED BY <1>1, <1>9, <1>10, WaitingNow, WaitingNext DEF Balanced

(* A processor drops, forwards or dead-letters the record in its hand.      *)
LEMMA ProcessBalance ==
    ASSUME IInv, IInv', GroupOK, NEW w \in Workers, Process(w), NEW x \in Records
    PROVE  Balanced(x)
<1> DEFINE d == IF held[w][1] = x THEN 1 ELSE 0
<1>1. /\ w \in Processors /\ pc[w] = "handle" /\ pc' = [pc EXCEPT ![w] = "ack"]
      /\ UNCHANGED <<held, batch, published>>
  BY DEF Process, SetPC
<1>2. held[w] = <<held[w][1]>> /\ held[w] \in Seq(Records)
  BY <1>1, InHand, WorkerNow
<1>3. Copies(held[w], x) = d
  <2>1. Copies(<<held[w][1]>>, x) = d
    BY CopiesOne
  <2> QED BY <1>2, <2>1, Zenon
<1>4. /\ queue \in [Topics -> Seq(Records)] /\ batch \in Batches
      /\ queue' \in [Topics -> Seq(Records)] /\ batch' \in Batches
  BY BatchesNow, BatchesNext
<1>5. /\ Copies(queue["raw"], x) \in Nat /\ Copies(queue["processed"], x) \in Nat
      /\ Cardinality(HoldSet(pc, held, x)) \in Nat
      /\ Cardinality(SlotsOf(Writers, batch, x)) \in Nat
  BY <1>4, PartsNat
<1>6. /\ Copies(queue'["raw"], x) \in Nat /\ Copies(queue'["processed"], x) \in Nat
      /\ Cardinality(HoldSet(pc', held', x)) \in Nat
      /\ Cardinality(SlotsOf(Writers, batch', x)) \in Nat
  BY <1>4, PartsNat
<1>7. Cardinality(HoldSet(pc, held, x)) = Cardinality(HoldSet(pc', held', x)) + d
      /\ Cardinality(SlotsOf(Writers, batch', x)) = Cardinality(SlotsOf(Writers, batch, x))
  <2>1. /\ \A v \in Workers \ {w} : pc'[v] = pc[v] /\ held'[v] = held[v]
        /\ \A v \in Writers \ {w} : batch'[v] = batch[v]
        /\ pc'[w] = "ack"
    BY <1>1 DEF IInv, PipeOK
  <2>2. w \notin HoldSet(pc', held', x) /\ w \notin Writers
    BY <1>1, <2>1, BrokerAssumption DEF HoldSet
  <2>3. w \in HoldSet(pc, held, x) <=> held[w][1] = x
    BY <1>1, <1>2 DEF HoldSet
  <2> QED BY <1>5, <1>6, <2>1, <2>2, <2>3, WorkerMoves
<1>8. Ended(x) \in Nat /\ d \in Nat /\ published'[x] = published[x] /\ extra[x] \in Nat
  BY <1>1, EndedNat DEF GroupOK
<1>9. \/ queue' = queue /\ Ended(x)' = Ended(x) + d /\ extra' = extra
      \/ /\ Ended(x)' = Ended(x) /\ extra' = extra
         /\ Copies(queue'["raw"], x) = Copies(queue["raw"], x)
         /\ Copies(queue'["processed"], x) = Copies(queue["processed"], x) + d
      \/ /\ Ended(x)' = Ended(x) + d /\ extra'[x] = extra[x] + d
         /\ Copies(queue'["raw"], x) = Copies(queue["raw"], x)
         /\ Copies(queue'["processed"], x) = Copies(queue["processed"], x) + d
  <2>1. ASSUME NEW e \in Ways, EndAll(held[w], e) PROVE Ended(x)' = Ended(x) + d
    BY <1>2, <1>3, <2>1, EndAllCounts
  <2>2. ASSUME queue' = [queue EXCEPT !["processed"] = @ \o held[w]]
        PROVE  /\ Copies(queue'["raw"], x) = Copies(queue["raw"], x)
               /\ Copies(queue'["processed"], x) = Copies(queue["processed"], x) + d
    <3>1. /\ queue'["raw"] = queue["raw"]
          /\ queue'["processed"] = queue["processed"] \o held[w]
          /\ queue["processed"] \in Seq(Records)
      BY <1>4, <2>2 DEF Topics
    <3>2. Copies(queue["processed"] \o held[w], x)
             = Copies(queue["processed"], x) + Copies(held[w], x)
      BY <1>2, <3>1, CopiesConcat
    <3> QED BY <1>3, <3>1, <3>2
  <2>3. UNCHANGED ends => Ended(x)' = Ended(x)
    BY DEF Ended
  <2>4. Doubled(held[w]) => extra'[x] = extra[x] + d
    <3>1. Doubled(held[w]) => extra'[x] = extra[x] + Copies(held[w], x)
      BY <1>2, DoubledTypes DEF GroupOK
    <3> QED BY <1>3, <3>1
  <2>5. "dropped" \in Ways /\ "dlq" \in Ways
    BY DEF Ways
  <2> HIDE DEF d
  <2> QED BY <2>1, <2>2, <2>3, <2>4, <2>5 DEF Process
<1> HIDE DEF d
<1>10. /\ Waiting(x) = WaitingIn(queue, pc, held, batch, x)
       /\ Waiting(x)' = WaitingIn(queue', pc', held', batch', x)
  BY WaitingNow, WaitingNext
<1>11. CASE queue' = queue /\ Ended(x)' = Ended(x) + d /\ extra' = extra
  BY <1>5, <1>6, <1>7, <1>8, <1>10, <1>11 DEF WaitingIn, Balanced
<1>12. CASE /\ Ended(x)' = Ended(x) /\ extra' = extra
            /\ Copies(queue'["raw"], x) = Copies(queue["raw"], x)
            /\ Copies(queue'["processed"], x) = Copies(queue["processed"], x) + d
  BY <1>5, <1>6, <1>7, <1>8, <1>10, <1>12 DEF WaitingIn, Balanced
<1>13. CASE /\ Ended(x)' = Ended(x) + d /\ extra'[x] = extra[x] + d
            /\ Copies(queue'["raw"], x) = Copies(queue["raw"], x)
            /\ Copies(queue'["processed"], x) = Copies(queue["processed"], x) + d
  <2>1. Waiting(x) \in Nat /\ Waiting(x)' = Waiting(x)
    BY <1>5, <1>6, <1>7, <1>8, <1>10, <1>13 DEF WaitingIn
  <2>2. published[x] \in Nat
    BY DEF IInv, PipeOK
  <2> QED BY <1>8, <1>13, <2>1, <2>2 DEF Balanced
<1> QED BY <1>9, <1>11, <1>12, <1>13

(* A writer writes its batch or dead-letters it, and then some rows of it   *)
(* may be written as well.                                                  *)
LEMMA WriteBalance ==
    ASSUME IInv, IInv', GroupOK, NEW w \in Workers, Write(w), NEW x \in Records
    PROVE  Balanced(x)
<1>1. /\ w \in Writers /\ batch' = [batch EXCEPT ![w] = << >>]
      /\ \E p \in PCs : pc' = [pc EXCEPT ![w] = p]
      /\ UNCHANGED <<queue, held, published>>
  BY DEF Write, AfterWrite, SetPC, PCs
<1>2. batch \in Batches /\ batch' \in Batches /\ queue \in [Topics -> Seq(Records)]
  BY BatchesNow, BatchesNext
<1>3. batch[w] \in Seq(Records) /\ batch'[w] = << >>
  BY <1>1, <1>2 DEF Batches
<1>4. PICK k \in Nat : /\ Ended(x)' = Ended(x) + Copies(batch[w], x) + k
                       /\ extra'[x] = extra[x] + k
  <2>1. "written" \in Ways /\ "dlq" \in Ways /\ Copies(batch[w], x) \in Nat
        /\ Ended(x) \in Nat /\ ends[x] \in [Ways -> Nat] /\ extra[x] \in Nat
        /\ ends \in [Records -> [Ways -> Nat]] /\ extra \in [Records -> Nat]
    BY <1>3, CopiesNat, EndedNat DEF Ways, GroupOK, IInv, PipeOK
  <2>2. CASE EndAll(batch[w], "written") /\ UNCHANGED extra
    <3>1. Ended(x)' = Ended(x) + Copies(batch[w], x)
      BY <1>3, <2>1, <2>2, EndAllCounts
    <3> QED BY <2>1, <2>2, <3>1
  <2>3. ASSUME NEW n \in 0..Len(batch[w]),
               ends' = AddEnds(AddEnds(ends, SubSeq(batch[w], 1, n), "written"),
                               batch[w], "dlq"),
               Doubled(SubSeq(batch[w], 1, n))
        PROVE  \E k \in Nat : /\ Ended(x)' = Ended(x) + Copies(batch[w], x) + k
                              /\ extra'[x] = extra[x] + k
    <3> DEFINE kept == SubSeq(batch[w], 1, n)
               e == AddEnds(ends, kept, "written")
    <3>1. kept \in Seq(Records) /\ Copies(kept, x) \in Nat
      BY <1>3, KeptRows
    <3>2. extra'[x] = extra[x] + Copies(kept, x)
      BY <2>1, <2>3, <3>1, DoubledTypes
    <3>3. e \in [Records -> [Ways -> Nat]]
      BY <2>1, <3>1, AddEndsTypes
    <3>4. EndsIn(e[x]) = EndsIn(ends[x]) + Copies(kept, x)
      BY <2>1, <3>1, AddEndsCounts
    <3>5. ends' = AddEnds(e, batch[w], "dlq")
      BY <2>3
    <3> HIDE DEF kept, e
    <3>6. EndsIn(ends'[x]) = EndsIn(e[x]) + Copies(batch[w], x)
      BY <1>3, <2>1, <3>3, <3>5, AddEndsCounts
    <3>7. EndsIn(ends[x]) = Ended(x) /\ EndsIn(ends'[x]) = Ended(x)'
      BY DEF EndsIn, Ended
    <3>8. Ended(x)' = Ended(x) + Copies(batch[w], x) + Copies(kept, x)
      BY <2>1, <3>1, <3>4, <3>6, <3>7
    <3>9. \E k \in Nat : /\ Ended(x)' = Ended(x) + Copies(batch[w], x) + k
                         /\ extra'[x] = extra[x] + k
      BY <3>1, <3>2, <3>8
    <3> QED BY <3>9
  <2> QED BY <2>2, <2>3 DEF Write
<1>5. /\ \A v \in Workers \ {w} : pc'[v] = pc[v] /\ held'[v] = held[v]
      /\ \A v \in Writers \ {w} : batch'[v] = batch[v]
  BY <1>1 DEF IInv, PipeOK
<1>6. w \notin HoldSet(pc, held, x) /\ w \notin HoldSet(pc', held', x)
  BY <1>1, BrokerAssumption DEF HoldSet
<1>7. /\ Copies(queue["raw"], x) \in Nat /\ Copies(queue["processed"], x) \in Nat
      /\ Cardinality(HoldSet(pc, held, x)) \in Nat
      /\ Cardinality(SlotsOf(Writers, batch, x)) \in Nat
  BY <1>2, PartsNat
<1>8. /\ Cardinality(HoldSet(pc', held', x)) \in Nat
      /\ Cardinality(SlotsOf(Writers, batch', x)) \in Nat
  BY <1>2, PartsNat
<1>9. Copies(batch'[w], x) = 0 /\ Copies(batch[w], x) \in Nat
  BY <1>3, CopiesNone, CopiesNat
<1>10. /\ Cardinality(HoldSet(pc', held', x)) = Cardinality(HoldSet(pc, held, x))
       /\ Cardinality(SlotsOf(Writers, batch', x)) + Copies(batch[w], x)
             = Cardinality(SlotsOf(Writers, batch, x))
  <2>1. /\ Cardinality(HoldSet(pc', held', x))
               + (IF w \in HoldSet(pc, held, x) THEN 1 ELSE 0)
             = Cardinality(HoldSet(pc, held, x))
                 + (IF w \in HoldSet(pc', held', x) THEN 1 ELSE 0)
        /\ Cardinality(SlotsOf(Writers, batch', x)) + Copies(batch[w], x)
             = Cardinality(SlotsOf(Writers, batch, x)) + Copies(batch'[w], x)
    BY <1>1, <1>5, WorkerMoves
  <2> QED BY <1>6, <1>7, <1>8, <1>9, <2>1
<1>11. Ended(x) \in Nat /\ published'[x] = published[x] /\ queue' = queue
       /\ extra[x] \in Nat
  BY <1>1, EndedNat DEF GroupOK
<1>12. /\ Waiting(x) = WaitingIn(queue, pc, held, batch, x)
       /\ Waiting(x)' = WaitingIn(queue', pc', held', batch', x)
  BY WaitingNow, WaitingNext
<1>13. Waiting(x) = Waiting(x)' + Copies(batch[w], x) /\ Waiting(x)' \in Nat
  BY <1>7, <1>8, <1>9, <1>10, <1>11, <1>12 DEF WaitingIn
<1>14. published[x] \in Nat
  BY DEF IInv, PipeOK
<1> QED BY <1>4, <1>9, <1>11, <1>13, <1>14 DEF Balanced

LEMMA HandCopies ==
    ASSUME IInv, NEW w \in Workers, NEW x \in Records
    PROVE  held[w] \in Seq(Records) /\ Copies(held[w], x) \in 0..1
<1>1. held[w] \in Seq(Records)
  BY WorkerNow
<1>2. CASE pc[w] \in {"handle", "write", "ack"}
  <2>1. held[w] = <<held[w][1]>>
    BY <1>2, InHand
  <2>2. Copies(<<held[w][1]>>, x) \in 0..1
    BY CopiesOne
  <2>3. Copies(held[w], x) = Copies(<<held[w][1]>>, x)
    BY <2>1, Zenon
  <2> QED BY <1>1, <2>2, <2>3
<1>3. CASE pc[w] \notin {"handle", "write", "ack"}
  <2>1. held[w] = << >>
    BY <1>1, <1>3, WorkerNow, EmptySeq
  <2> QED BY <1>1, <2>1, CopiesNone
<1> QED BY <1>2, <1>3

(* The record in the hand of w goes back to the front of its topic.         *)
LEMMA Requeued ==
    ASSUME IInv, NEW w \in Workers, NEW x \in Records,
           queue' = [queue EXCEPT ![InTopic(w)] = held[w] \o queue[InTopic(w)]]
    PROVE  Copies(queue'["raw"], x) + Copies(queue'["processed"], x)
              = Copies(queue["raw"], x) + Copies(queue["processed"], x)
                  + Copies(held[w], x)
<1> DEFINE h == Copies(held[w], x)
<1>1. /\ queue \in [Topics -> Seq(Records)] /\ InTopic(w) \in Topics
      /\ held[w] \in Seq(Records) /\ h \in Nat
  BY BatchesNow, TopicOf, HandCopies
<1>2. /\ Copies(queue["raw"], x) \in Nat /\ Copies(queue["processed"], x) \in Nat
  BY <1>1, CopiesNat DEF Topics
<1>3. /\ queue'[InTopic(w)] = held[w] \o queue[InTopic(w)]
      /\ \A t \in Topics \ {InTopic(w)} : queue'[t] = queue[t]
      /\ queue[InTopic(w)] \in Seq(Records)
  BY <1>1
<1>4. Copies(held[w] \o queue[InTopic(w)], x) = h + Copies(queue[InTopic(w)], x)
  BY <1>1, <1>3, CopiesConcat
<1>5. Copies(queue'[InTopic(w)], x) = h + Copies(queue[InTopic(w)], x)
  BY <1>3, <1>4
<1> HIDE DEF h
<1>6. CASE InTopic(w) = "raw"
  <2>1. queue'["processed"] = queue["processed"]
    BY <1>3, <1>6 DEF Topics
  <2>2. Copies(queue'["raw"], x) = h + Copies(queue["raw"], x)
    BY <1>5, <1>6
  <2>3. Copies(queue'["raw"], x) + Copies(queue'["processed"], x)
          = Copies(queue["raw"], x) + Copies(queue["processed"], x) + h
    BY <1>1, <1>2, <2>1, <2>2
  <2> QED BY <2>3 DEF h
<1>7. CASE InTopic(w) = "processed"
  <2>1. queue'["raw"] = queue["raw"]
    BY <1>3, <1>7 DEF Topics
  <2>2. Copies(queue'["processed"], x) = h + Copies(queue["processed"], x)
    BY <1>5, <1>7
  <2>3. Copies(queue'["raw"], x) + Copies(queue'["processed"], x)
          = Copies(queue["raw"], x) + Copies(queue["processed"], x) + h
    BY <1>1, <1>2, <2>1, <2>2
  <2> QED BY <2>3 DEF h
<1> QED BY <1>1, <1>6, <1>7 DEF Topics

(* A record whose partition changes hands waits in its topic once more.     *)
LEMMA RebalanceBalance ==
    ASSUME IInv, GroupOK, NEW w \in Workers, Rebalance(w), NEW x \in Records
    PROVE  Balanced(x)
<1> DEFINE h == Copies(held[w], x)
           p == Cardinality(HoldSet(pc, held, x))
           q == Cardinality(SlotsOf(Writers, batch, x))
<1>1. /\ held[w] \in Seq(Records) /\ h \in 0..1 /\ p \in Nat /\ q \in Nat
      /\ Copies(queue["raw"], x) \in Nat /\ Copies(queue["processed"], x) \in Nat
  BY BatchesNow, PartsNat, HandCopies
<1>2. Copies(queue'["raw"], x) + Copies(queue'["processed"], x)
         = Copies(queue["raw"], x) + Copies(queue["processed"], x) + h
  BY Requeued DEF Rebalance
<1>3. UNCHANGED <<pc, held, batch, ends, published>>
  BY DEF Rebalance
<1>4. Waiting(x)' = Copies(queue'["raw"], x) + Copies(queue'["processed"], x) + p + q
  BY <1>3, WaitingNext DEF WaitingIn
<1>5. Waiting(x) = Copies(queue["raw"], x) + Copies(queue["processed"], x) + p + q
  BY WaitingNow DEF WaitingIn
<1>6. Ended(x)' = Ended(x) /\ Ended(x) \in Nat
  BY <1>3, EndedNat DEF Ended
<1>7. extra'[x] = extra[x] + h /\ extra[x] \in Nat
  BY <1>1, DoubledTypes DEF Rebalance, GroupOK
<1>8. published[x] \in Nat
  BY DEF IInv, PipeOK
<1> HIDE DEF h, p, q
<1>9. Waiting(x)' = Waiting(x) + h /\ Waiting(x) \in Nat
  BY <1>1, <1>2, <1>4, <1>5
<1> QED BY <1>1, <1>3, <1>6, <1>7, <1>8, <1>9 DEF Balanced

(* A worker that stops puts back or dead-letters the record in its hand, so *)
(* that one that it had passed on is there twice, unless its partition      *)
(* changed hands before, and takes its batch with it.                       *)
LEMMA StopBalance ==
    ASSUME IInv, IInv', NEW w \in Workers, Stop(w), NEW x \in Records
    PROVE  /\ \E r \in {0, Copies(held[w], x)} :
                 /\ Waiting(x)' + Ended(x)'
                       + (IF w \in HoldSet(pc, held, x) THEN 1 ELSE 0)
                       + (IF w \in Writers THEN Copies(batch[w], x) ELSE 0)
                     = Waiting(x) + Ended(x) + r
                 /\ w \notin revoked => r = Copies(held[w], x)
           /\ Copies(held[w], x) \in 0..1
           /\ w \in HoldSet(pc, held, x) => Copies(held[w], x) = 1
<1> DEFINE h == Copies(held[w], x)
           d == IF w \in HoldSet(pc, held, x) THEN 1 ELSE 0
           c == IF w \in Writers THEN Copies(batch[w], x) ELSE 0
<1>1. /\ pc[w] # "idle" /\ pc' = [pc EXCEPT ![w] = "idle"]
      /\ held' = [held EXCEPT ![w] = << >>]
      /\ batch' = [v \in Writers |-> IF v = w THEN << >> ELSE batch[v]]
  BY DEF Stop, SetPC
<1>2. /\ queue \in [Topics -> Seq(Records)] /\ batch \in Batches
      /\ queue' \in [Topics -> Seq(Records)] /\ batch' \in Batches
      /\ InTopic(w) \in Topics
  BY BatchesNow, BatchesNext, TopicOf
<1>3. /\ Copies(queue["raw"], x) \in Nat /\ Copies(queue["processed"], x) \in Nat
      /\ Cardinality(HoldSet(pc, held, x)) \in Nat
      /\ Cardinality(SlotsOf(Writers, batch, x)) \in Nat
  BY <1>2, PartsNat
<1>4. /\ Copies(queue'["raw"], x) \in Nat /\ Copies(queue'["processed"], x) \in Nat
      /\ Cardinality(HoldSet(pc', held', x)) \in Nat
      /\ Cardinality(SlotsOf(Writers, batch', x)) \in Nat
  BY <1>2, PartsNat
<1>5. held[w] \in Seq(Records) /\ h \in 0..1
  BY HandCopies
<1>6. w \in HoldSet(pc, held, x) => h = 1
  <2>1. w \in HoldSet(pc, held, x) => held[w] = <<x>>
    BY DEF HoldSet
  <2>2. Copies(<<x>>, x) = 1
    BY CopiesOne
  <2> QED BY <2>1, <2>2
<1>7. /\ \A v \in Workers \ {w} : pc'[v] = pc[v] /\ held'[v] = held[v]
      /\ \A v \in Writers \ {w} : batch'[v] = batch[v]
      /\ pc'[w] = "idle"
  BY <1>1 DEF IInv, PipeOK
<1>8. w \notin HoldSet(pc', held', x)
  BY <1>7 DEF HoldSet
<1>9. /\ Cardinality(HoldSet(pc', held', x)) + d = Cardinality(HoldSet(pc, held, x))
      /\ Cardinality(SlotsOf(Writers, batch', x)) + c = Cardinality(SlotsOf(Writers, batch, x))
      /\ c \in Nat
  <2>1. Cardinality(HoldSet(pc', held', x)) + d
           = Cardinality(HoldSet(pc, held, x))
               + (IF w \in HoldSet(pc', held', x) THEN 1 ELSE 0)
    BY <1>7, WorkerMoves
  <2>2. CASE w \in Writers
    <3>1. batch'[w] = << >> /\ batch[w] \in Seq(Records)
      BY <1>1, <2>2, WorkerNow
    <3>2. Copies(batch'[w], x) = 0 /\ Copies(batch[w], x) \in Nat
      BY <3>1, CopiesNone, CopiesNat
    <3>3. Cardinality(SlotsOf(Writers, batch', x)) + Copies(batch[w], x)
             = Cardinality(SlotsOf(Writers, batch, x)) + Copies(batch'[w], x)
      BY <1>7, <2>2, WorkerMoves
    <3> QED BY <1>3, <1>4, <1>8, <2>1, <2>2, <3>2, <3>3
  <2>3. CASE w \notin Writers
    <3>1. Cardinality(SlotsOf(Writers, batch', x)) = Cardinality(SlotsOf(Writers, batch, x))
      BY <1>7, <2>3, WorkerMoves
    <3> QED BY <1>3, <1>4, <1>8, <2>1, <2>3, <3>1
  <2> QED BY <2>2, <2>3
<1>10. PICK r \in {0, h} :
          /\ w \notin revoked => r = h
          /\ \/ queue' = queue /\ Ended(x)' = Ended(x) + r
             \/ /\ Ended(x)' = Ended(x)
                /\ Copies(queue'["raw"], x) + Copies(queue'["processed"], x)
                      = Copies(queue["raw"], x) + Copies(queue["processed"], x) + r
  <2>1. CASE EndAll(held[w], "dlq") /\ UNCHANGED queue
    <3>1. "dlq" \in Ways
      BY DEF Ways
    <3>2. Ended(x)' = Ended(x) + h
      BY <1>5, <2>1, <3>1, EndAllCounts
    <3> QED BY <2>1, <3>2
  <2>2. CASE /\ queue' = [queue EXCEPT ![InTopic(w)] = held[w] \o queue[InTopic(w)]]
             /\ UNCHANGED ends
    <3>1. Ended(x)' = Ended(x)
      BY <2>2 DEF Ended
    <3>2. Copies(queue'["raw"], x) + Copies(queue'["processed"], x)
             = Copies(queue["raw"], x) + Copies(queue["processed"], x) + h
      BY <2>2, Requeued
    <3> HIDE DEF h
    <3> QED BY <3>1, <3>2
  <2>3. CASE w \in revoked /\ UNCHANGED <<queue, ends>>
    <3>1. Ended(x)' = Ended(x) /\ Ended(x) \in Nat
      BY <2>3, EndedNat DEF Ended
    <3>2. Ended(x)' = Ended(x) + 0
      BY <3>1
    <3> HIDE DEF h
    <3> QED BY <2>3, <3>2
  <2> QED BY <2>1, <2>2, <2>3 DEF Stop
<1>11. Ended(x) \in Nat
  BY EndedNat
<1>12. /\ Waiting(x) = WaitingIn(queue, pc, held, batch, x)
       /\ Waiting(x)' = WaitingIn(queue', pc', held', batch', x)
  BY WaitingNow, WaitingNext
<1>13. Waiting(x)' + Ended(x)' + d + c = Waiting(x) + Ended(x) + r
  <2> HIDE DEF h, d, c
  <2>0. d \in Nat
    BY DEF d
  <2>1. Waiting(x) = Copies(queue["raw"], x) + Copies(queue["processed"], x)
                       + Cardinality(HoldSet(pc, held, x))
                       + Cardinality(SlotsOf(Writers, batch, x))
    BY <1>12 DEF WaitingIn
  <2>2. Waiting(x)' = Copies(queue'["raw"], x) + Copies(queue'["processed"], x)
                        + Cardinality(HoldSet(pc', held', x))
                        + Cardinality(SlotsOf(Writers, batch', x))
    BY <1>12 DEF WaitingIn
  <2>3. \/ /\ Copies(queue'["raw"], x) + Copies(queue'["processed"], x)
                  = Copies(queue["raw"], x) + Copies(queue["processed"], x)
           /\ Ended(x)' = Ended(x) + r
        \/ /\ Ended(x)' = Ended(x)
           /\ Copies(queue'["raw"], x) + Copies(queue'["processed"], x)
                 = Copies(queue["raw"], x) + Copies(queue["processed"], x) + r
    BY <1>10
  <2>4. r \in Nat /\ c \in Nat /\ d \in Nat
    BY <1>5, <1>9, <2>0
  <2>5. Waiting(x)' + d + c
           = Copies(queue'["raw"], x) + Copies(queue'["processed"], x)
               + Cardinality(HoldSet(pc, held, x))
               + Cardinality(SlotsOf(Writers, batch, x))
    BY <1>3, <1>4, <1>9, <2>2, <2>4
  <2>6. Waiting(x) \in Nat /\ Waiting(x)' \in Nat
    BY <1>3, <1>4, <2>1, <2>2
  <2>7. Waiting(x)' + d + c + Ended(x)' = Waiting(x) + Ended(x) + r
    <3>1. \/ Waiting(x)' + d + c = Waiting(x) /\ Ended(x)' = Ended(x) + r
          \/ Waiting(x)' + d + c = Waiting(x) + r /\ Ended(x)' = Ended(x)
      BY <1>3, <1>4, <2>1, <2>3, <2>4, <2>5
    <3> QED BY <1>11, <2>4, <2>6, <3>1
  <2>8. Ended(x)' \in Nat
    BY <1>11, <2>3, <2>4
  <2> QED BY <1>11, <2>4, <2>6, <2>7, <2>8
<1> QED BY <1>5, <1>6, <1>10, <1>13

(* No step but a stop creates or loses a record.                            *)
LEMMA StepBalance ==
    ASSUME IInv, GroupOK, [Next]_vars, NEW x \in Records
    PROVE  \/ Balanced(x) /\ stops' = stops
           \/ \E w \in Workers : Stop(w)
<1>1. IInv'
  BY NextIInv
<1>2. CASE UNCHANGED vars
  <2>1. UNCHANGED <<queue, batch, ends, published, extra, stops>>
        /\ HoldSet(pc', held', x) = HoldSet(pc, held, x)
    BY <1>2 DEF vars
  <2> QED BY <2>1, NothingMoves
<1>3. CASE StartRead \/ ReadFails
  <2>1. UNCHANGED <<queue, batch, ends, published, extra, stops>>
        /\ HoldSet(pc', held', x) = HoldSet(pc, held, x)
    BY <1>3 DEF StartRead, ReadFails
  <2> QED BY <2>1, NothingMoves
<1>4. CASE ReaderStep
  BY <1>4, PublishBalance DEF ReaderStep, PublishRaw
<1>5. ASSUME NEW w \in Workers, WorkerStep(w) PROVE Balanced(x) /\ stops' = stops
  <2>1. stops' = stops
    BY <1>5 DEF WorkerStep, StartConsume, Deliver, QueueEmpty, Process, Write, AfterWrite,
       Acknowledge
  <2> QED BY <1>1, <1>5, <2>1, IdleBalance, DeliverBalance, ProcessBalance, WriteBalance
          DEF WorkerStep
<1>6. ASSUME NEW w \in Workers, Rebalance(w) PROVE Balanced(x) /\ stops' = stops
  BY <1>6, RebalanceBalance DEF Rebalance
<1> QED BY <1>2, <1>3, <1>4, <1>5, <1>6 DEF Next

LEMMA WaitingNat == ASSUME IInv, NEW x \in Records PROVE Waiting(x) \in Nat
<1>1. /\ Copies(queue["raw"], x) \in Nat /\ Copies(queue["processed"], x) \in Nat
      /\ Cardinality(HoldSet(pc, held, x)) \in Nat
      /\ Cardinality(SlotsOf(Writers, batch, x)) \in Nat
  BY BatchesNow, PartsNat
<1> QED BY <1>1, WaitingNow DEF WaitingIn

(* The numbers of a record before and after a step.                         *)
LEMMA Numbers ==
    ASSUME IInv, [Next]_vars, NEW x \in Records
    PROVE  /\ Waiting(x) \in Nat /\ Ended(x) \in Nat /\ published[x] \in Nat
           /\ Waiting(x)' \in Nat /\ Ended(x)' \in Nat /\ published'[x] \in Nat
           /\ stops \in Nat /\ stops' \in Nat
<1>1. IInv' /\ \A y \in Records : published[y] \in Nat
  BY NextIInv DEF IInv, PipeOK
<1>2. Waiting(x) \in Nat /\ Ended(x) \in Nat /\ published[x] \in Nat
  BY <1>1, WaitingNat, EndedNat
<1>3. published'[x] \in Nat /\ stops \in Nat /\ stops' \in Nat
  BY <1>1 DEF IInv, PipeOK
<1>4. Ended(x)' \in Nat
  <2>1. ends' \in [Records -> [Ways -> Nat]]
    BY <1>1 DEF IInv, PipeOK
  <2>2. /\ ends'[x]["written"] \in Nat /\ ends'[x]["dlq"] \in Nat
        /\ ends'[x]["dropped"] \in Nat
    BY <2>1 DEF Ways
  <2> QED BY <2>2 DEF Ended
<1>5. Waiting(x)' \in Nat
  <2>1. /\ Copies(queue'["raw"], x) \in Nat /\ Copies(queue'["processed"], x) \in Nat
        /\ Cardinality(HoldSet(pc', held', x)) \in Nat
        /\ Cardinality(SlotsOf(Writers, batch', x)) \in Nat
    BY <1>1, BatchesNext, PartsNat
  <2> QED BY <2>1, WaitingNext DEF WaitingIn
<1> QED BY <1>2, <1>3, <1>4, <1>5

LEMMA InitCounts ==
    ASSUME Init, NEW x \in Records
    PROVE  /\ Waiting(x) = 0 /\ Ended(x) = 0 /\ published[x] = 0 /\ stops = 0
           /\ extra[x] = 0 /\ rebalances = 0 /\ faults = 0 /\ revoked = {}
<1>1. queue["raw"] = << >> /\ queue["processed"] = << >>
  BY DEF Init, Topics
<1>2. Copies(queue["raw"], x) = 0 /\ Copies(queue["processed"], x) = 0
  BY <1>1, CopiesNone
<1>3. HoldSet(pc, held, x) = {}
  BY DEF Init, HoldSet, Workers
<1>4. SlotsOf(Writers, batch, x) = {}
  BY DEF Init, SlotsOf
<1>5. Cardinality(HoldSet(pc, held, x)) = 0 /\ Cardinality(SlotsOf(Writers, batch, x)) = 0
  BY <1>3, <1>4, FS_EmptySet
<1>6. Waiting(x) = 0
  BY <1>2, <1>5, WaitingNow DEF WaitingIn
<1>7. Ended(x) = 0 /\ published[x] = 0 /\ stops = 0
  BY DEF Init, Ended, Ways
<1>8. extra[x] = 0 /\ rebalances = 0 /\ faults = 0 /\ revoked = {}
  BY DEF Init
<1> QED BY <1>6, <1>7, <1>8

(* A record is nowhere more often than it was published, doubled or         *)
(* redelivered to another worker.                                           *)
Surplus ==
    \A x \in Records : Waiting(x) + Ended(x) <= published[x] + extra[x] + stops

LEMMA SurplusStep == ASSUME IInv, GroupOK, Surplus, [Next]_vars PROVE Surplus'
<1> SUFFICES ASSUME NEW x \in Records
             PROVE  Waiting(x)' + Ended(x)' <= published'[x] + extra'[x] + stops'
  BY DEF Surplus
<1>1. Waiting(x) + Ended(x) <= published[x] + extra[x] + stops
  BY DEF Surplus
<1>0. extra[x] \in Nat /\ extra'[x] \in Nat
  BY GroupStep, ExtraNat
<1>2. CASE Balanced(x) /\ stops' = stops
  BY <1>0, <1>1, <1>2, Numbers DEF Balanced
<1>3. ASSUME NEW w \in Workers, Stop(w)
      PROVE  Waiting(x)' + Ended(x)' <= published'[x] + extra'[x] + stops'
  <2>1. IInv' /\ stops' = stops + 1 /\ published' = published /\ extra' = extra
    BY <1>3, NextIInv DEF Stop
  <2>2. w \in Writers => Copies(batch[w], x) \in Nat
    BY WorkerNow, CopiesNat
  <2>3. Waiting(x)' + Ended(x)' <= Waiting(x) + Ended(x) + 1
    <3>1. PICK r \in {0, Copies(held[w], x)} :
             Waiting(x)' + Ended(x)' + (IF w \in HoldSet(pc, held, x) THEN 1 ELSE 0)
                 + (IF w \in Writers THEN Copies(batch[w], x) ELSE 0)
               = Waiting(x) + Ended(x) + r
      BY <1>3, <2>1, StopBalance
    <3>2. r \in 0..1
      BY HandCopies
    <3> QED BY <2>2, <3>1, <3>2, Numbers
  <2> QED BY <1>0, <1>1, <2>1, <2>3, Numbers
<1> QED BY <1>2, <1>3, StepBalance

(* A record is doubled at most once per partition that changed hands, and   *)
(* at most batch_size times per exception.                                  *)
ExtraBound == \A x \in Records : extra[x] <= rebalances + BatchSize * faults

(* What a step adds to the doublings of x.                                  *)
LEMMA ExtraGrows ==
    ASSUME IInv, GroupOK, [Next]_vars, NEW x \in Records
    PROVE  /\ extra[x] <= extra'[x] /\ faults \in Nat /\ rebalances \in Nat
           /\ \/ UNCHANGED <<extra, rebalances>> /\ faults' \in {faults, faults + 1}
              \/ /\ extra'[x] <= extra[x] + BatchSize
                 /\ faults' = faults + 1 /\ rebalances' = rebalances
              \/ /\ extra'[x] <= extra[x] + 1
                 /\ faults' = faults /\ rebalances' = rebalances + 1
<1> USE BrokerAssumption
<1>1. /\ extra \in [Records -> Nat] /\ extra[x] \in Nat /\ rebalances \in Nat
      /\ faults \in Nat
  BY DEF IInv, PipeOK, GroupOK
<1>2. CASE UNCHANGED <<extra, rebalances>> /\ faults' \in {faults, faults + 1}
  BY <1>1, <1>2
<1>3. ASSUME NEW s \in Seq(Records), Copies(s, x) <= BatchSize, Doubled(s)
      PROVE  extra[x] <= extra'[x] /\ extra'[x] <= extra[x] + BatchSize
  <2>1. extra'[x] = extra[x] + Copies(s, x) /\ Copies(s, x) \in Nat
    BY <1>1, <1>3, DoubledTypes, CopiesNat
  <2> QED BY <1>1, <1>3, <2>1
<1>4. ASSUME NEW w \in Workers
      PROVE  /\ held[w] \in Seq(Records) /\ Copies(held[w], x) \in 0..1
             /\ Copies(held[w], x) <= BatchSize
  <2>1. held[w] \in Seq(Records) /\ Copies(held[w], x) \in 0..1
    BY HandCopies
  <2> QED BY <2>1
<1>5. ASSUME NEW w \in Workers, Process(w), Doubled(held[w]), faults' = faults + 1
      PROVE  /\ extra[x] <= extra'[x] /\ extra'[x] <= extra[x] + BatchSize
             /\ rebalances' = rebalances
  BY <1>3, <1>4, <1>5 DEF Process, group
<1>6. ASSUME NEW w \in Workers, Write(w), faults' = faults + 1,
             NEW n \in 0..Len(batch[w]), Doubled(SubSeq(batch[w], 1, n))
      PROVE  /\ extra[x] <= extra'[x] /\ extra'[x] <= extra[x] + BatchSize
             /\ rebalances' = rebalances
  <2>1. batch[w] \in Seq(Records) /\ Len(batch[w]) <= BatchSize
    BY <1>6, WorkerNow DEF Write
  <2>2. Len(batch[w]) \in Nat
    BY <2>1, LenProperties
  <2>3. /\ SubSeq(batch[w], 1, n) \in Seq(Records)
        /\ Copies(SubSeq(batch[w], 1, n), x) \in Nat
        /\ Copies(SubSeq(batch[w], 1, n), x) <= Len(batch[w])
    BY <2>1, KeptRows
  <2>4. Copies(SubSeq(batch[w], 1, n), x) <= BatchSize
    BY <2>1, <2>2, <2>3
  <2> QED BY <1>3, <1>6, <2>3, <2>4 DEF Write, AfterWrite, group
<1>7. ASSUME NEW w \in Workers, Rebalance(w)
      PROVE  /\ extra[x] <= extra'[x] /\ extra'[x] <= extra[x] + 1
             /\ faults' = faults /\ rebalances' = rebalances + 1
  <2>1. extra'[x] = extra[x] + Copies(held[w], x) /\ Copies(held[w], x) \in 0..1
    BY <1>1, <1>4, <1>7, DoubledTypes DEF Rebalance
  <2> QED BY <1>1, <1>7, <2>1 DEF Rebalance
<1>8. ASSUME NEW w \in Workers, Process(w)
      PROVE  \/ UNCHANGED <<extra, rebalances>> /\ faults' \in {faults, faults + 1}
             \/ Doubled(held[w]) /\ faults' = faults + 1
  BY <1>8 DEF Process, group
<1>9. ASSUME NEW w \in Workers, Write(w)
      PROVE  \/ UNCHANGED <<extra, rebalances>> /\ faults' \in {faults, faults + 1}
             \/ /\ faults' = faults + 1
                /\ \E n \in 0..Len(batch[w]) : Doubled(SubSeq(batch[w], 1, n))
  BY <1>9 DEF Write, AfterWrite, group
<1>10. ASSUME NEW w \in Workers,
              StartConsume(w) \/ Deliver(w) \/ QueueEmpty(w) \/ Acknowledge(w) \/ Stop(w)
       PROVE  UNCHANGED <<extra, rebalances>> /\ faults' \in {faults, faults + 1}
  BY <1>10 DEF StartConsume, Deliver, QueueEmpty, Acknowledge, Stop, group
<1>11. CASE StartRead \/ ReaderStep \/ ReadFails \/ UNCHANGED vars
  <2>1. UNCHANGED <<extra, rebalances>> /\ faults' \in {faults, faults + 1}
    BY <1>11 DEF StartRead, ReaderStep, PublishRaw, ReadFails, group, vars
  <2> QED BY <1>2, <2>1
<1>12. ASSUME NEW w \in Workers, WorkerStep(w) \/ Stop(w)
       PROVE  \/ UNCHANGED <<extra, rebalances>> /\ faults' \in {faults, faults + 1}
              \/ /\ extra[x] <= extra'[x] /\ extra'[x] <= extra[x] + BatchSize
                 /\ faults' = faults + 1 /\ rebalances' = rebalances
  BY <1>12, <1>5, <1>6, <1>8, <1>9, <1>10 DEF WorkerStep
<1> QED BY <1>1, <1>2, <1>7, <1>11, <1>12 DEF Next

LEMMA ExtraStep == ASSUME IInv, GroupOK, ExtraBound, [Next]_vars PROVE ExtraBound'
<1> SUFFICES ASSUME NEW x \in Records
             PROVE  extra'[x] <= rebalances' + BatchSize * faults'
  BY DEF ExtraBound
<1>1. extra[x] <= rebalances + BatchSize * faults /\ BatchSize \in Nat
  BY BrokerAssumption DEF ExtraBound
<1>2. extra[x] \in Nat /\ extra'[x] \in Nat
  BY GroupStep, ExtraNat
<1>3. faults \in Nat /\ rebalances \in Nat
  BY ExtraGrows
<1>4. /\ BatchSize * (faults + 1) = BatchSize * faults + BatchSize
      /\ BatchSize * faults \in Nat
  BY <1>1, <1>3
<1> QED BY <1>1, <1>2, <1>3, <1>4, ExtraGrows

LEMMA SurplusInvariance == Spec => [](IInv /\ GroupOK /\ Surplus /\ ExtraBound)
<1>1. Init => Surplus
  BY InitCounts DEF Surplus
<1>2. Init => ExtraBound
  BY InitCounts, BrokerAssumption DEF ExtraBound
<1> QED BY <1>1, <1>2, InitIInv, InitGroup, NextIInv, GroupStep, SurplusStep, ExtraStep,
           PTL DEF Spec

(* However many processors and writers share the topics, a record is        *)
(* written, dead-lettered or dropped at most once per publication, plus     *)
(* once per worker that stopped and per partition that changed hands, plus  *)
(* batch_size times per exception.                                          *)
THEOREM RepeatsAreRedelivered == Spec => []RepeatsNeedRedelivery
<1>1. IInv /\ GroupOK /\ Surplus /\ ExtraBound => RepeatsNeedRedelivery
  <2> SUFFICES ASSUME IInv, GroupOK, Surplus, ExtraBound, NEW x \in Records
               PROVE  Ended(x) <= published[x] + stops + rebalances + BatchSize * faults
    BY DEF RepeatsNeedRedelivery
  <2>1. /\ Waiting(x) \in Nat /\ Ended(x) \in Nat
        /\ published[x] \in Nat /\ stops \in Nat
    BY WaitingNat, EndedNat DEF IInv, PipeOK
  <2>2. extra[x] \in Nat /\ rebalances \in Nat /\ faults \in Nat /\ BatchSize \in Nat
    BY BrokerAssumption DEF IInv, PipeOK, GroupOK
  <2>3. BatchSize * faults \in Nat
    BY <2>2
  <2>4. /\ Waiting(x) + Ended(x) <= published[x] + extra[x] + stops
        /\ extra[x] <= rebalances + BatchSize * faults
    BY DEF Surplus, ExtraBound
  <2> QED BY <2>1, <2>2, <2>3, <2>4
<1> QED BY <1>1, SurplusInvariance, PTL

LEMMA AccountedStep == ASSUME IInv, GroupOK, Accounted, [Next]_vars PROVE Accounted'
<1> SUFFICES ASSUME stops' = 0, NEW x \in Records
             PROVE  published'[x] + extra'[x] = Waiting(x)' + Ended(x)'
  BY DEF Accounted
<1>1. ~ \E w \in Workers : Stop(w)
  <2> SUFFICES ASSUME NEW w \in Workers, Stop(w) PROVE FALSE
    OBVIOUS
  <2>1. stops' = stops + 1 /\ stops \in Nat
    BY DEF Stop, IInv, PipeOK
  <2> QED BY <2>1
<1>2. Balanced(x) /\ stops' = stops
  BY <1>1, StepBalance
<1>3. published[x] + extra[x] = Waiting(x) + Ended(x)
  BY <1>2 DEF Accounted
<1>4. extra[x] \in Nat /\ extra'[x] \in Nat
  BY GroupStep, ExtraNat
<1> QED BY <1>2, <1>3, <1>4, Numbers DEF Balanced

(* As long as no worker stops, every publication of a record and every      *)
(* doubling is accounted for exactly once: for any numbers of workers,      *)
(* batches, faults and partitions that change hands, over each of the three *)
(* brokers, in one process or in several.                                   *)
THEOREM EveryRecordIsAccounted == Spec => []Accounted
<1>1. Init => Accounted
  BY InitCounts DEF Accounted
<1> QED BY <1>1, InitIInv, InitGroup, NextIInv, GroupStep, AccountedStep, PTL DEF Spec

-----------------------------------------------------------------------------
(* Losses.                                                                  *)

Lost == {x \in Records : published[x] > 0 /\ Waiting(x) + Ended(x) = 0}

(* What a stop can lose: the batch without the record in hand.              *)
Exposed(w) == {x \in Records : /\ w \in Writers
                               /\ Copies(batch[w], x) # 0 /\ Copies(held[w], x) = 0}

LEMMA LostFinite ==
    /\ IsFiniteSet(Lost) /\ Cardinality(Lost) \in Nat
    /\ IsFiniteSet(Lost') /\ Cardinality(Lost') \in Nat
<1>1. Lost \in SUBSET Records /\ Lost' \in SUBSET Records
  BY DEF Lost
<1>2. IsFiniteSet(Records)
  BY BrokerAssumption
<1>3. IsFiniteSet(Lost) /\ IsFiniteSet(Lost')
  BY <1>1, <1>2, FS_Subset
<1> QED BY <1>3, FS_CardinalityType

(* The first n places of a sequence hold at most n records.                 *)
LEMMA FirstOfSeq ==
    ASSUME NEW s \in Seq(Records), NEW n \in Nat, n <= Len(s)
    PROVE  /\ IsFiniteSet({s[i] : i \in 1..n})
           /\ Cardinality({s[i] : i \in 1..n}) \in Nat
           /\ Cardinality({s[i] : i \in 1..n}) <= n
<1> DEFINE T == {s[i] : i \in 1..n}
           f == [i \in 1..n |-> s[i]]
<1>1. f \in Surjection(1..n, T)
  BY DEF Surjection
<1>2. IsFiniteSet(1..n) /\ Cardinality(1..n) = n
  BY FS_Interval
<1>3. IsFiniteSet(T) /\ Cardinality(T) <= n
  BY <1>1, <1>2, FS_Surjection
<1> QED BY <1>3, FS_CardinalityType

(* Less than a batch is exposed: the record that fills it is in hand until  *)
(* it is written.                                                           *)
LEMMA ExposedBound ==
    ASSUME IInv, NEW w \in Workers
    PROVE  /\ IsFiniteSet(Exposed(w)) /\ Cardinality(Exposed(w)) \in Nat
           /\ Cardinality(Exposed(w)) <= BatchSize - 1
<1> USE BrokerAssumption
<1>1. CASE w \notin Writers
  <2>1. Exposed(w) = {}
    BY <1>1 DEF Exposed
  <2>2. IsFiniteSet(Exposed(w)) /\ Cardinality(Exposed(w)) = 0
    BY <2>1, FS_EmptySet
  <2> QED BY <2>2
<1>2. CASE w \in Writers
  <2> DEFINE s == batch[w]
             n == IF pc[w] = "write" THEN Len(s) - 1 ELSE Len(s)
  <2>1. s \in Seq(Records) /\ Len(s) <= BatchSize /\ Len(s) \in Nat /\ DOMAIN s = 1..Len(s)
    BY <1>2, WorkerNow, LenProperties
  <2>2. n \in Nat /\ n <= Len(s) /\ n <= BatchSize - 1
    <3>1. CASE pc[w] = "write"
      <4>1. s # << >>
        BY <1>2, <3>1 DEF IInv, Phased
      <4>2. Len(s) # 0
        BY <2>1, <4>1, EmptySeq
      <4> QED BY <2>1, <3>1, <4>2
    <3>2. CASE pc[w] # "write"
      <4>1. Len(s) < BatchSize
        BY <1>2, <3>2 DEF IInv, Phased
      <4> QED BY <2>1, <3>2, <4>1
    <3> QED BY <3>1, <3>2
  <2>3. Exposed(w) \in SUBSET {s[i] : i \in 1..n}
    <3> SUFFICES ASSUME NEW x \in Exposed(w) PROVE x \in {s[i] : i \in 1..n}
      OBVIOUS
    <3>1. Copies(s, x) # 0 /\ Copies(held[w], x) = 0
      BY DEF Exposed
    <3>2. Places(s, x) # {}
      <4>1. Copies(s, x) = Cardinality(Places(s, x))
        BY <2>1, CopiesNat
      <4> QED BY <3>1, <4>1, FS_EmptySet
    <3>3. PICK i \in 1..Len(s) : s[i] = x
      BY <2>1, <3>2 DEF Places
    <3>4. CASE pc[w] = "write" /\ i = Len(s)
      <4>1. held[w] = <<x>>
        BY <1>2, <3>3, <3>4 DEF IInv, Phased
      <4>2. Copies(<<x>>, x) = 1
        BY CopiesOne
      <4>3. Copies(held[w], x) = 1
        BY <4>1, <4>2
      <4> QED BY <3>1, <4>3
    <3>5. CASE ~(pc[w] = "write" /\ i = Len(s))
      <4>1. i \in 1..n
        BY <2>1, <3>5
      <4> QED BY <3>3, <4>1
    <3> QED BY <3>4, <3>5
  <2> HIDE DEF n
  <2>4. /\ IsFiniteSet({s[i] : i \in 1..n}) /\ Cardinality({s[i] : i \in 1..n}) <= n
        /\ Cardinality({s[i] : i \in 1..n}) \in Nat
    BY <2>1, <2>2, FirstOfSeq
  <2>5. /\ IsFiniteSet(Exposed(w))
        /\ Cardinality(Exposed(w)) <= Cardinality({s[i] : i \in 1..n})
    BY <2>3, <2>4, FS_Subset
  <2>6. Cardinality(Exposed(w)) \in Nat
    BY <2>5, FS_CardinalityType
  <2> QED BY <2>2, <2>4, <2>5, <2>6
<1> QED BY <1>1, <1>2

Loss == Cardinality(Lost) + Cardinality(revoked) <= stops * (BatchSize - 1) + rebalances

LEMMA RevokedFinite ==
    ASSUME GroupOK, GroupOK'
    PROVE  /\ IsFiniteSet(revoked) /\ Cardinality(revoked) \in Nat
           /\ IsFiniteSet(revoked') /\ Cardinality(revoked') \in Nat
<1>1. revoked \in SUBSET Workers /\ revoked' \in SUBSET Workers
  BY DEF GroupOK
<1>2. IsFiniteSet(Workers)
  BY BrokerAssumption, FS_Union DEF Workers
<1>3. IsFiniteSet(revoked) /\ IsFiniteSet(revoked')
  BY <1>1, <1>2, FS_Subset
<1> QED BY <1>3, FS_CardinalityType

(* No step but a stop loses a record.                                       *)
LEMMA LostShrinks ==
    ASSUME IInv, GroupOK, [Next]_vars, \A w \in Workers : ~Stop(w)
    PROVE  Cardinality(Lost') <= Cardinality(Lost)
<1>1. \A x \in Records : Balanced(x)
  BY StepBalance
<1>2. Lost' \subseteq Lost
  <2> SUFFICES ASSUME NEW x \in Records, published'[x] > 0, Waiting(x)' + Ended(x)' = 0
               PROVE  published[x] > 0 /\ Waiting(x) + Ended(x) = 0
    BY DEF Lost
  <2>1. published'[x] = published[x] \/ published'[x] = published[x] + 1
    BY DEF Next, StartRead, ReaderStep, PublishRaw, ReadFails, WorkerStep, StartConsume,
           Deliver, QueueEmpty, Process, Write, AfterWrite, Acknowledge, Rebalance, vars,
           IInv, PipeOK
  <2>2. Waiting(x)' + Ended(x)' + published[x] + extra[x]
           = Waiting(x) + Ended(x) + published'[x] + extra'[x]
    BY <1>1 DEF Balanced
  <2>3. extra[x] <= extra'[x] /\ extra[x] \in Nat /\ extra'[x] \in Nat
    BY GroupStep, ExtraNat, ExtraGrows
  <2> QED BY <2>1, <2>2, <2>3, Numbers
<1> QED BY <1>2, LostFinite, FS_Subset

(* A stop exposes its batch without the record in its hand, and that one    *)
(* too if the partition changed hands.                                      *)
LEMMA LostByStop ==
    ASSUME IInv, GroupOK, NEW w \in Workers, Stop(w)
    PROVE  Lost' \subseteq (Lost \cup Exposed(w))
                             \cup (IF w \in revoked THEN {held[w][1]} ELSE {})
<1> SUFFICES ASSUME NEW x \in Records, published'[x] > 0,
                    Waiting(x)' + Ended(x)' = 0, Waiting(x) + Ended(x) # 0
             PROVE  x \in Exposed(w) \/ (w \in revoked /\ x = held[w][1])
  BY DEF Stop, Lost
<1>0. [Next]_vars
  BY DEF Next
<1>1. PICK r \in {0, Copies(held[w], x)} :
         /\ Waiting(x)' + Ended(x)' + (IF w \in HoldSet(pc, held, x) THEN 1 ELSE 0)
                 + (IF w \in Writers THEN Copies(batch[w], x) ELSE 0)
               = Waiting(x) + Ended(x) + r
         /\ w \notin revoked => r = Copies(held[w], x)
  BY <1>0, NextIInv, StopBalance
<1>2. /\ Copies(held[w], x) \in 0..1
      /\ w \in HoldSet(pc, held, x) => Copies(held[w], x) = 1
  BY <1>0, NextIInv, StopBalance
<1>3. /\ Waiting(x) \in Nat /\ Ended(x) \in Nat
      /\ Waiting(x)' \in Nat /\ Ended(x)' \in Nat
  BY <1>0, Numbers
<1>4. CASE w \in revoked /\ Copies(held[w], x) # 0
  <2>1. pc[w] \in {"handle", "write", "ack"}
    BY <1>4 DEF GroupOK
  <2>2. held[w] = <<held[w][1]>>
    BY <2>1, InHand
  <2>3. Copies(<<held[w][1]>>, x) = IF held[w][1] = x THEN 1 ELSE 0
    BY CopiesOne
  <2>4. Copies(held[w], x) = Copies(<<held[w][1]>>, x)
    BY <2>2, Zenon
  <2> QED BY <1>4, <2>3, <2>4
<1>5. CASE w \in revoked /\ Copies(held[w], x) = 0
  <2>1. w \notin HoldSet(pc, held, x) /\ r = 0
    BY <1>2, <1>5
  <2>2. w \in Writers /\ Copies(batch[w], x) # 0
    BY <1>1, <1>3, <2>1
  <2> QED BY <1>5, <2>2 DEF Exposed
<1>6. CASE w \notin revoked
  <2>1. r = Copies(held[w], x)
    BY <1>1, <1>6
  <2>2. w \in Writers
    BY <1>1, <1>2, <1>3, <2>1
  <2>3. w \notin HoldSet(pc, held, x)
    BY <2>2, BrokerAssumption DEF HoldSet
  <2>4. /\ Copies(batch[w], x) = Waiting(x) + Ended(x) + Copies(held[w], x)
        /\ Copies(batch[w], x) \in Nat
    <3>1. Copies(batch[w], x) \in Nat
      BY <2>2, WorkerNow, CopiesNat
    <3> QED BY <1>1, <1>3, <2>1, <2>2, <2>3, <3>1
  <2>5. Copies(batch[w], x) <= Waiting(x)
    <3>1. /\ Copies(queue["raw"], x) \in Nat /\ Copies(queue["processed"], x) \in Nat
          /\ Cardinality(HoldSet(pc, held, x)) \in Nat
          /\ Cardinality(SlotsOf(Writers, batch, x)) \in Nat
      BY BatchesNow, PartsNat
    <3>2. /\ Cardinality(SlotsOf(Writers, batch, x))
               = Cardinality(SlotsOf(Writers \ {w}, batch, x)) + Copies(batch[w], x)
          /\ Cardinality(SlotsOf(Writers \ {w}, batch, x)) \in Nat
      BY <2>2, BatchesNow, SlotsOfOne
    <3>3. Waiting(x) = Copies(queue["raw"], x) + Copies(queue["processed"], x)
                         + Cardinality(HoldSet(pc, held, x))
                         + Cardinality(SlotsOf(Writers, batch, x))
      BY WaitingNow DEF WaitingIn
    <3> QED BY <2>4, <3>1, <3>2, <3>3
  <2> QED BY <1>2, <1>3, <2>2, <2>4, <2>5 DEF Exposed
<1> QED BY <1>4, <1>5, <1>6

LEMMA LossStep == ASSUME IInv, GroupOK, Loss, [Next]_vars PROVE Loss'
<1> USE BrokerAssumption
<1> DEFINE l == Cardinality(Lost)
           g == Cardinality(revoked)
           m == Cardinality(Lost')
           n == Cardinality(revoked')
           b == stops * (BatchSize - 1)
<1>1. /\ l \in Nat /\ g \in Nat /\ m \in Nat /\ n \in Nat /\ b \in Int
      /\ stops \in Nat /\ rebalances \in Nat
  BY GroupStep, LostFinite, RevokedFinite DEF IInv, PipeOK, GroupOK
<1>2. IsFiniteSet(revoked) /\ IsFiniteSet(revoked') /\ IsFiniteSet(Lost)
  BY GroupStep, LostFinite, RevokedFinite
<1>3. l + g <= b + rebalances
  BY DEF Loss
<1>4. CASE \A w \in Workers : ~Stop(w) /\ ~Rebalance(w)
  <2>1. m <= l
    BY <1>4, LostShrinks
  <2>2. revoked' \subseteq revoked /\ rebalances' = rebalances /\ stops' = stops
    BY <1>4 DEF Next, StartRead, ReaderStep, PublishRaw, ReadFails, WorkerStep,
       StartConsume, Deliver, QueueEmpty, Process, Write, AfterWrite, Acknowledge, group,
       vars
  <2>3. n <= g
    BY <1>2, <2>2, FS_Subset
  <2>4. m + n <= b + rebalances
    <3> HIDE DEF l, g, m, n, b
    <3> QED BY <1>1, <1>3, <2>1, <2>3
  <2> QED BY <2>2, <2>4 DEF Loss
<1>5. ASSUME NEW w \in Workers, Rebalance(w) PROVE Loss'
  <2>1. /\ revoked' = revoked \cup {w} /\ w \notin revoked
        /\ rebalances' = rebalances + 1 /\ stops' = stops
    BY <1>5 DEF Rebalance
  <2>2. \A v \in Workers : ~Stop(v)
    <3>1. \A v \in Workers : Stop(v) => stops' = stops + 1
      BY DEF Stop
    <3> QED BY <1>1, <2>1, <3>1
  <2>3. m <= l
    BY <2>2, LostShrinks
  <2>4. n = g + 1
    BY <1>2, <2>1, FS_AddElement
  <2>5. m + n <= b + (rebalances + 1)
    <3> HIDE DEF l, g, m, n, b
    <3> QED BY <1>1, <1>3, <2>3, <2>4
  <2> QED BY <2>1, <2>5 DEF Loss
<1>6. ASSUME NEW w \in Workers, Stop(w) PROVE Loss'
  <2> DEFINE H == IF w \in revoked THEN {held[w][1]} ELSE {}
             e == Cardinality(Exposed(w))
             h == IF w \in revoked THEN 1 ELSE 0
  <2>1. /\ revoked' = revoked \ {w} /\ rebalances' = rebalances
        /\ stops' = stops + 1
    BY <1>6 DEF Stop
  <2>2. IsFiniteSet(Exposed(w)) /\ e \in Nat /\ e <= BatchSize - 1
    BY ExposedBound
  <2>3. IsFiniteSet(H) /\ Cardinality(H) = h /\ h \in 0..1
    <3>1. CASE w \in revoked
      <4>1. H = {held[w][1]} /\ h = 1
        BY <3>1
      <4>2. /\ IsFiniteSet({held[w][1]}) /\ Cardinality({held[w][1]}) = 1
        BY FS_Singleton
      <4> HIDE DEF H, h
      <4>3. IsFiniteSet(H) /\ Cardinality(H) = 1
        BY <4>1, <4>2
      <4> QED BY <4>1, <4>3
    <3>2. CASE w \notin revoked
      <4>1. H = {} /\ h = 0
        BY <3>2
      <4> QED BY <4>1, FS_EmptySet
    <3> QED BY <3>1, <3>2
  <2>4. n = g - h
    <3>1. n = Cardinality(revoked \ {w})
      BY <2>1, Zenon
    <3>2. Cardinality(revoked \ {w}) = IF w \in revoked THEN g - 1 ELSE g
      BY <1>2, FS_RemoveElement
    <3> HIDE DEF n, g
    <3> QED BY <1>1, <3>1, <3>2
  <2>5. m <= l + e + h
    <3>1. Lost' \subseteq (Lost \cup Exposed(w)) \cup H
      BY <1>6, LostByStop
    <3>2. IsFiniteSet(Lost \cup Exposed(w)) /\ Cardinality(Lost \cup Exposed(w)) <= l + e
      <4>1. /\ IsFiniteSet(Lost \cup Exposed(w))
            /\ Cardinality(Lost \cup Exposed(w))
                  = Cardinality(Lost) + Cardinality(Exposed(w))
                      - Cardinality(Lost \cap Exposed(w))
        BY <1>2, <2>2, FS_Union
      <4>2. Cardinality(Lost \cap Exposed(w)) \in Nat
        BY <1>2, FS_Intersection, FS_CardinalityType
      <4> QED BY <1>1, <2>2, <4>1, <4>2
    <3> DEFINE U == Lost \cup Exposed(w)
    <3>3. U \cup H = (Lost \cup Exposed(w)) \cup H
      OBVIOUS
    <3>4. IsFiniteSet(U) /\ Cardinality(U) <= l + e /\ Lost' \subseteq U \cup H
      BY <3>1, <3>2
    <3> HIDE DEF U, H, h, e, l
    <3>5. IsFiniteSet(U \cup H)
          /\ Cardinality(U \cup H) = Cardinality(U) + Cardinality(H) - Cardinality(U \cap H)
      BY <2>3, <3>4, FS_Union
    <3>6. Cardinality(U \cap H) \in Nat /\ Cardinality(U) \in Nat
      BY <3>4, FS_Intersection, FS_CardinalityType
    <3>7. m <= Cardinality(U \cup H)
      BY <3>4, <3>5, FS_Subset
    <3>8. Cardinality(U \cup H) \in Nat
      BY <3>5, FS_CardinalityType
    <3> HIDE DEF m
    <3> QED BY <1>1, <2>2, <2>3, <3>4, <3>5, <3>6, <3>7, <3>8
  <2>6. (stops + 1) * (BatchSize - 1) = b + (BatchSize - 1)
    BY <1>1
  <2>7. m + n <= (stops + 1) * (BatchSize - 1) + rebalances
    <3> HIDE DEF l, g, m, n, b, e, h
    <3> QED BY <1>1, <1>3, <2>2, <2>3, <2>4, <2>5, <2>6
  <2> QED BY <2>1, <2>7 DEF Loss
<1> QED BY <1>4, <1>5, <1>6

(* Every worker that stops loses less than a batch of published records,    *)
(* and at most one more for every partition that changed hands, however     *)
(* many workers there are and whatever else fails.                          *)
THEOREM LossIsBounded == Spec => []LossBounded
<1>1. IInv /\ GroupOK /\ Loss => LossBounded
  <2> SUFFICES ASSUME IInv, GroupOK, Loss PROVE LossBounded
    OBVIOUS
  <2>1. /\ IsFiniteSet(revoked) /\ Cardinality(revoked) \in Nat
    <3>1. revoked \in SUBSET Workers /\ IsFiniteSet(Workers)
      BY BrokerAssumption, FS_Union DEF GroupOK, Workers
    <3>2. IsFiniteSet(revoked)
      BY <3>1, FS_Subset
    <3> QED BY <3>2, FS_CardinalityType
  <2>2. Cardinality(Lost) <= stops * (BatchSize - 1) + rebalances
    <3>1. Cardinality(Lost) \in Nat /\ stops * (BatchSize - 1) \in Int /\ rebalances \in Nat
      BY LostFinite, BrokerAssumption DEF IInv, PipeOK, GroupOK
    <3> QED BY <2>1, <3>1 DEF Loss
  <2> QED BY <2>2 DEF LossBounded, Lost
<1>2. Init => Loss
  <2> SUFFICES ASSUME Init PROVE Loss
    OBVIOUS
  <2>1. Lost = {}
    BY InitCounts DEF Lost
  <2>2. Cardinality(Lost) = 0 /\ Cardinality(revoked) = 0
    BY <2>1, FS_EmptySet DEF Init
  <2>3. stops * (BatchSize - 1) = 0 /\ rebalances = 0
    BY BrokerAssumption DEF Init
  <2> QED BY <2>2, <2>3 DEF Loss
<1> QED BY <1>1, <1>2, InitIInv, InitGroup, NextIInv, GroupStep, LossStep, PTL DEF Spec
=============================================================================
