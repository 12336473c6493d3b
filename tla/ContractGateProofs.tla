------------------------- MODULE ContractGateProofs -------------------------
(***************************************************************************)
(* The guards that keep state from run to run, for every schema registry,  *)
(* contract, batch and threshold: type correctness, the circuit breaker,   *)
(* and what the stages promise one another.  Before them, what             *)
(* diff_schemas promises, for all versions of a schema: a change that it   *)
(* does not call breaking, and that tightens nothing it does not look at,  *)
(* keeps every record valid.                                               *)
(***************************************************************************)
EXTENDS ContractGate, WellFoundedInduction, TLAPS

(* A version of a schema: fields by name.                                   *)
IsSchema(s, T) == s = [n \in DOMAIN s |-> s[n]] /\ \A n \in DOMAIN s : s[n] \in Field(T)

(* CompareField (schema/diff.py:92) finds no breaking change only if the    *)
(* type is kept, null stays allowed and max_length does not shrink.         *)
LEMMA NotBreaking ==
    ASSUME NEW T, NEW o \in Field(T), NEW f \in Field(T),
           CompareField(o, f) # "breaking"
    PROVE  /\ o.nullable => f.nullable
           /\ o.max # None /\ f.max # None => f.max >= o.max
<1>1. o.type = f.type
  BY DEF CompareField
<1>2. o.nullable => f.nullable
  BY <1>1 DEF CompareField, Field
<1>3. ASSUME o.max # None, f.max # None PROVE f.max >= o.max
  BY <1>1, <1>2, <1>3 DEF CompareField, Field
<1>4. QED  BY <1>2, <1>3

(* For all versions old and new of a schema and every payload p: if         *)
(* diff_schemas reports no breaking change, no field gets a max_length it   *)
(* had not, and none loses a default it needs, then a payload that          *)
(* Schema.validate accepts under old is accepted under new, unless it has   *)
(* fields that old does not declare, which no version looks at.             *)
THEOREM SafeChangesKeepRecords ==
    ASSUME NEW T, NEW old, NEW new, NEW p,
           IsSchema(old, T), IsSchema(new, T),
           \A n \in DOMAIN p : p[n] \in Nat,
           ~HasBreakingChanges(old, new), ~Tightened(old, new),
           DOMAIN p \subseteq DOMAIN old,
           Valid(old, p)
    PROVE  Valid(new, p)
<1> SUFFICES ASSUME NEW n \in DOMAIN new
             PROVE  IF n \notin DOMAIN p THEN new[n].nullable \/ new[n].default
                    ELSE /\ p[n] = None => new[n].nullable
                         /\ new[n].max # None => p[n] <= new[n].max
  BY DEF Valid
<1>1. Diff(old, new)[n] # "breaking"
  BY DEF HasBreakingChanges
<1>2. CASE n \notin DOMAIN old
  BY <1>1, <1>2 DEF Diff
<1>3. CASE n \in DOMAIN old
  <2>1. CompareField(old[n], new[n]) # "breaking"
    BY <1>1, <1>3 DEF Diff
  <2>2. old[n] \in Field(T) /\ new[n] \in Field(T)
    BY <1>3 DEF IsSchema
  <2>3. /\ old[n].nullable => new[n].nullable
        /\ old[n].max # None /\ new[n].max # None => new[n].max >= old[n].max
    BY <2>1, <2>2, NotBreaking
  <2>4. /\ old[n].max = None => new[n].max = None
        /\ old[n].default => new[n].default \/ new[n].nullable
    BY <1>3 DEF Tightened
  <2>5. IF n \notin DOMAIN p THEN old[n].nullable \/ old[n].default
        ELSE /\ p[n] = None => old[n].nullable
             /\ old[n].max # None => p[n] <= old[n].max
    BY <1>3 DEF Valid
  <2>6. CASE n \notin DOMAIN p
    BY <2>3, <2>4, <2>5, <2>6
  <2>7. CASE n \in DOMAIN p
    <3>1. old[n].max \in Nat /\ new[n].max \in Nat /\ p[n] \in Nat
      BY <2>2, <2>7 DEF Field
    <3>2. QED  BY <2>3, <2>4, <2>5, <2>7, <3>1
  <2>8. QED  BY <2>6, <2>7
<1>4. QED  BY <1>2, <1>3

(* The counters are bounded by the batches seen, and the breaker is closed  *)
(* exactly while its counter is below the threshold.                        *)
BreakerInv ==
    /\ breaker.failures <= checks
    /\ breaker.state = "closed" <=> breaker.failures < Threshold
    /\ retries <= checks

IInv == TypeOK /\ BreakerInv

(* What a check of the breaker returns (guards/reliability.py:99-131).      *)
LEMMA BreakerAfterCheck ==
    ASSUME TypeOK, BreakerInv, NEW failed \in BOOLEAN,
           breaker' = CheckBreaker(failed), checks' = checks + 1
    PROVE  /\ breaker' \in [state : {"closed", "open"}, failures : 0..checks',
                            at : 0..clock]
           /\ breaker'.state = "closed" <=> breaker'.failures < Threshold
<1> USE GateAssumption
<1>0. /\ breaker \in [state : {"closed", "open"}, failures : 0..checks, at : 0..clock]
      /\ checks \in Nat /\ clock \in Nat /\ Threshold \in Nat \ {0}
  BY DEF TypeOK, BreakerInv
<1>1. CASE breaker.state = "open" /\ clock - breaker.at < Recovery
  BY <1>0, <1>1 DEF CheckBreaker, BreakerInv
<1>2. CASE ~(breaker.state = "open" /\ clock - breaker.at < Recovery) /\ ~failed
  <2>1. breaker' = Closed
    BY <1>2 DEF CheckBreaker
  <2>2. QED  BY <1>0, <2>1 DEF Closed
<1>3. CASE /\ ~(breaker.state = "open" /\ clock - breaker.at < Recovery)
           /\ failed /\ breaker.failures + 1 >= Threshold
  <2>1. breaker' = [state |-> "open", failures |-> breaker.failures + 1, at |-> clock]
    BY <1>3 DEF CheckBreaker
  <2>2. breaker.failures + 1 \in 0..checks' /\ clock \in 0..clock
    BY <1>0
  <2>3. ~(breaker.failures + 1 < Threshold)
    BY <1>0, <1>3
  <2>4. QED  BY <2>1, <2>2, <2>3
<1>4. CASE /\ ~(breaker.state = "open" /\ clock - breaker.at < Recovery)
           /\ failed /\ ~(breaker.failures + 1 >= Threshold)
  <2>1. breaker.state = "closed"
    BY <1>0, <1>4 DEF BreakerInv
  <2>2. breaker' = [state |-> "closed", failures |-> breaker.failures + 1,
                    at |-> breaker.at]
    BY <1>4, <2>1 DEF CheckBreaker
  <2>3. breaker.failures + 1 \in 0..checks' /\ breaker.at \in 0..clock
    BY <1>0
  <2>4. breaker.failures + 1 < Threshold
    BY <1>0, <1>4
  <2>5. QED  BY <2>2, <2>3, <2>4
<1>5. QED  BY <1>1, <1>2, <1>3, <1>4

LEMMA InitIInv == Init => IInv
BY GateAssumption DEF Init, IInv, TypeOK, BreakerInv, Closed

LEMMA NextIInv == IInv /\ [Next]_vars => IInv'
<1> SUFFICES ASSUME TypeOK, BreakerInv, [Next]_vars
             PROVE  TypeOK' /\ BreakerInv'
  BY DEF IInv
<1> USE GateAssumption
<1>1. CASE Tick
  BY <1>1 DEF Tick, TypeOK, BreakerInv, fixed, Versions
<1>2. CASE Deploy
  BY <1>2 DEF Deploy, TypeOK, BreakerInv, fixed, Versions, Rejections
<1>3. ASSUME NEW v \in Incoming, RunStart(v) PROVE TypeOK' /\ BreakerInv'
  BY <1>3 DEF RunStart, TypeOK, BreakerInv, fixed, Versions, Rejections
<1>4. CASE BatchFails
  <2>1. checks' = checks + 1 /\ breaker' = CheckBreaker(TRUE)
    BY <1>4 DEF BatchFails
  <2>2. /\ breaker' \in [state : {"closed", "open"}, failures : 0..checks',
                         at : 0..clock]
        /\ breaker'.state = "closed" <=> breaker'.failures < Threshold
    BY <2>1, BreakerAfterCheck
  <2>3. /\ checks' \in 0..MaxChecks
        /\ retries' \in 0..MaxChecks /\ retries' <= checks'
        /\ stage' \in {"running"} \cup Rejections
        /\ UNCHANGED <<contract, migrations, version, raw, count, clock>>
    BY <1>4 DEF BatchFails, TypeOK, BreakerInv, fixed, Rejections
  <2>4. QED
    BY <2>2, <2>3 DEF TypeOK, BreakerInv, Versions
<1>5. ASSUME NEW b \in Batches, NEW d \in 0..Timeout + 1, LoadBatch(b, d)
      PROVE  TypeOK' /\ BreakerInv'
  <2>1. checks' = checks + 1 /\ checks < MaxChecks /\ raw' = b
        /\ UNCHANGED <<contract, migrations, version, clock>>
    BY <1>5 DEF LoadBatch, fixed
  <2>2. \/ breaker' = breaker
        \/ breaker' = CheckBreaker(FALSE)
    BY <1>5 DEF LoadBatch
  <2>3. /\ breaker' \in [state : {"closed", "open"}, failures : 0..checks',
                         at : 0..clock]
        /\ breaker'.state = "closed" <=> breaker'.failures < Threshold
    <3>1. CASE breaker' = breaker
      BY <2>1, <3>1 DEF TypeOK, BreakerInv
    <3>2. CASE breaker' = CheckBreaker(FALSE)
      BY <2>1, <3>2, BreakerAfterCheck
    <3>3. QED  BY <2>2, <3>1, <3>2
  <2>4. /\ stage' \in {stage} \cup Rejections
        /\ count' \in {count, count + Len(b)}
        /\ retries' \in {retries, 0}
    BY <1>5 DEF LoadBatch, Rejections
  <2>5. QED
    BY <2>1, <2>3, <2>4 DEF TypeOK, BreakerInv, Versions, Rejections
<1>6. ASSUME NEW e \in Counts, NEW l \in 0..clock, Publish(e, l) PROVE TypeOK' /\ BreakerInv'
  BY <1>6 DEF Publish, TypeOK, BreakerInv, fixed, Versions, Rejections
<1>7. CASE UNCHANGED vars
  BY <1>7 DEF vars, TypeOK, BreakerInv, Versions
<1>8. QED
  BY <1>1, <1>2, <1>3, <1>4, <1>5, <1>6, <1>7 DEF Next

LEMMA InvariantHolds == Spec => []IInv
<1>1. QED  BY InitIInv, NextIInv, PTL DEF Spec

(* TypeOK of the gate, for every registry, contract, suite and bound: in    *)
(* particular the breaker is never at rest in HALF_OPEN.                    *)
THEOREM TypeCorrect == Spec => []TypeOK
<1>1. IInv => TypeOK  BY DEF IInv
<1>2. QED  BY <1>1, InvariantHolds, PTL

(* The circuit breaker, for every threshold and recovery time               *)
(* (guards/reliability.py): closed exactly below the threshold, a probe     *)
(* settles it at once, and open it blocks every batch.                      *)
THEOREM BreakerIsSound == Spec => BreakerSound
<1>1. IInv /\ IInv' /\ [Next]_vars =>
        [/\ breaker'.state = "closed" \/ breaker'.state = "open"
         /\ breaker'.state = "closed" <=> breaker'.failures < Threshold
         /\ breaker.state = "open" /\ clock - breaker.at < Recovery =>
                breaker' = breaker /\ count' <= count]_vars
  <2> SUFFICES ASSUME TypeOK, TypeOK', BreakerInv, BreakerInv', Next
               PROVE  /\ breaker'.state = "closed" \/ breaker'.state = "open"
                      /\ breaker'.state = "closed" <=> breaker'.failures < Threshold
                      /\ breaker.state = "open" /\ clock - breaker.at < Recovery =>
                             breaker' = breaker /\ count' <= count
    BY DEF IInv
  <2>1. /\ breaker'.state = "closed" \/ breaker'.state = "open"
        /\ breaker'.state = "closed" <=> breaker'.failures < Threshold
    BY DEF TypeOK, BreakerInv
  <2>2. ASSUME breaker.state = "open", clock - breaker.at < Recovery
        PROVE  breaker' = breaker /\ count' <= count
    <3>1. count \in Nat
      BY DEF TypeOK
    <3>2. CASE Tick \/ Deploy
      BY <3>1, <3>2 DEF Tick, Deploy
    <3>3. ASSUME NEW v \in Incoming, RunStart(v)
          PROVE  breaker' = breaker /\ count' <= count
      BY <3>1, <3>3 DEF RunStart
    <3>4. CASE BatchFails
      BY <2>2, <3>1, <3>4 DEF BatchFails, CheckBreaker
    <3>5. ASSUME NEW b \in Batches, NEW d \in 0..Timeout + 1, LoadBatch(b, d)
          PROVE  breaker' = breaker /\ count' <= count
      <4>1. CheckBreaker(FALSE) = breaker
        BY <2>2 DEF CheckBreaker
      <4>2. breaker' = breaker
        BY <3>5, <4>1 DEF LoadBatch
      <4>3. \A u : ~SuitePasses(u, d)
        BY <2>2, <4>2 DEF SuitePasses
      <4>4. count' = count
        BY <3>5, <4>3 DEF LoadBatch
      <4>5. QED  BY <3>1, <4>2, <4>4
    <3>6. ASSUME NEW e \in Counts, NEW l \in 0..clock, Publish(e, l)
          PROVE  breaker' = breaker /\ count' <= count
      BY <3>1, <3>6 DEF Publish
    <3>7. QED  BY <3>2, <3>3, <3>4, <3>5, <3>6 DEF Next
  <2>3. QED  BY <2>1, <2>2
<1>2. QED  BY <1>1, InvariantHolds, PTL DEF Spec, BreakerSound

-----------------------------------------------------------------------------
(* The upgrade of records.  The provers cannot use an induction theorem     *)
(* that takes a predicate; a least counterexample does the same.            *)
LEMMA LeastCounterexample ==
    ASSUME NEW T, T \subseteq Nat, T # {}
    PROVE  \E n \in T : \A m \in T : n <= m
<1> DEFINE R == {ss \in Nat \X Nat : ss[1] < ss[2]}
<1>1. IsWellFoundedOn(R, Nat)
  BY NatLessThanWellFounded, Zenon DEF OpToRel
<1> HIDE DEF R
<1>2. PICK n \in T : \A m \in T : ~(<<m, n>> \in R)
  BY <1>1, WFMin
<1>3. ASSUME NEW m \in T PROVE n <= m
  <2>1. m \in Nat /\ n \in Nat /\ <<m, n>> \notin R
    BY <1>2
  <2>2. ~(m < n)
    BY <2>1 DEF R
  <2> QED BY <2>1, <2>2
<1> QED BY <1>3

(* What the way begins with (a name for it keeps the provers from expanding *)
(* equality of sets).                                                       *)
Only(p) == {p}

(* A payload on its way through the versions, as a function.                *)
OnTheWay(g, M, p, from, to) ==
    g = [v \in from..to |-> IF v = from THEN Only(p) ELSE Migrate(M[v - 1], g[v - 1])]

(* The recursive function of UpgradePath exists for every way.              *)
LEMMA WayExists ==
    ASSUME NEW M, NEW p, NEW from \in Nat, NEW to \in Nat
    PROVE  \E g : OnTheWay(g, M, p, from, to)
<1> DEFINE T == {k \in Nat : ~ \E g : OnTheWay(g, M, p, from, k)}
<1> SUFFICES ASSUME T # {} PROVE FALSE
  OBVIOUS
<1>1. PICK n \in T : \A m \in T : n <= m
  BY LeastCounterexample
<1>2. n \in Nat /\ ~ \E g : OnTheWay(g, M, p, from, n)
  OBVIOUS
<1>3. CASE n <= from
  <2>1. OnTheWay([v \in from..n |-> Only(p)], M, p, from, n)
    BY <1>2, <1>3 DEF OnTheWay
  <2> QED BY <1>2, <2>1
<1>4. CASE n > from
  <2>1. n - 1 \in Nat /\ n - 1 >= from /\ n - 1 \notin T
    BY <1>1, <1>2, <1>4
  <2>2. PICK h : OnTheWay(h, M, p, from, n - 1)
    BY <2>1
  <2> DEFINE g == [v \in from..n |-> IF v = n THEN Migrate(M[n - 1], h[n - 1]) ELSE h[v]]
  <2>3. \A v \in from..n : g[v] = IF v = from THEN Only(p) ELSE Migrate(M[v - 1], g[v - 1])
    <3> SUFFICES ASSUME NEW v \in from..n
                 PROVE  g[v] = IF v = from THEN Only(p) ELSE Migrate(M[v - 1], g[v - 1])
      OBVIOUS
    <3>1. CASE v = n
      <4>1. v - 1 \in from..n /\ v - 1 # n
        BY <1>2, <1>4, <3>1
      <4>2. g[v] = Migrate(M[n - 1], h[n - 1]) /\ g[v - 1] = h[v - 1]
        BY <3>1, <4>1
      <4> QED BY <1>2, <1>4, <3>1, <4>2
    <3>2. CASE v # n
      <4>1. v \in from..(n - 1)
        BY <1>2, <3>2
      <4>2. h[v] = IF v = from THEN Only(p) ELSE Migrate(M[v - 1], h[v - 1])
        BY <2>2, <4>1 DEF OnTheWay
      <4>3. g[v] = h[v]
        BY <3>2
      <4>4. v # from => g[v - 1] = h[v - 1]
        BY <1>2, <4>1
      <4> QED BY <4>2, <4>3, <4>4
    <3> QED BY <3>1, <3>2
  <2>4. g = [v \in from..n |-> g[v]]
    OBVIOUS
  <2> HIDE DEF g
  <2>5. OnTheWay(g, M, p, from, n)
    BY <2>3, <2>4 DEF OnTheWay
  <2> QED BY <1>2, <2>5
<1> QED BY <1>2, <1>3, <1>4

(* What OnTheWay says of UpgradePath.                                       *)
LEMMA WayIsPath ==
    ASSUME NEW M, NEW p, NEW from \in Nat, NEW to \in Nat
    PROVE  OnTheWay(UpgradePath(M, p, from, to), M, p, from, to)
<1>1. UpgradePath(M, p, from, to) = CHOOSE g : OnTheWay(g, M, p, from, to)
  BY DEF UpgradePath, OnTheWay, Only
<1>2. \E g : OnTheWay(g, M, p, from, to)
  BY WayExists
<1> QED BY <1>1, <1>2

(* RuntimeUpgrader.upgrade (schema/migration.py:138-146) begins with the    *)
(* payload.                                                                 *)
LEMMA WayStarts ==
    ASSUME NEW M, NEW p, NEW from \in Nat, NEW to \in Nat, from <= to
    PROVE  UpgradePath(M, p, from, to)[from] = Only(p)
<1> DEFINE at == UpgradePath(M, p, from, to)
<1>1. OnTheWay(at, M, p, from, to)
  BY WayIsPath
<1> HIDE DEF at
<1>2. from \in from..to
  OBVIOUS
<1>3. at[from] = Only(p)
  BY <1>1, <1>2 DEF OnTheWay
<1> QED BY <1>3, Zenon DEF at

(* An upgrade raises only because a version or a migration is missing or a  *)
(* cast raises, and otherwise gives the end of the way.                     *)
LEMMA UpgradeOutcome ==
    ASSUME NEW V, NEW M, NEW p, NEW from \in Nat, NEW to \in Nat
    PROVE  /\ Upgrade(V, M, p, from, to) = {} =>
                 \/ \E u \in from..(to - 1) : u \notin DOMAIN M \/ u + 1 \notin V
                 \/ from <= to /\ UpgradePath(M, p, from, to)[to] = {}
           /\ from <= to =>
                 Upgrade(V, M, p, from, to) \subseteq UpgradePath(M, p, from, to)[to]
<1>1. CASE from > to
  BY <1>1 DEF Upgrade
<1>2. CASE from = to
  <2>0. from <= to
    BY <1>2
  <2>1. UpgradePath(M, p, from, to)[from] = Only(p)
    BY <2>0, WayStarts
  <2> QED BY <1>2, <2>1 DEF Upgrade, Only
<1>3. CASE from < to
  <2>1. ASSUME \A u \in from..(to - 1) : u \in DOMAIN M /\ u + 1 \in V
        PROVE  HasPath(V, from, to) /\ from..(to - 1) \subseteq DOMAIN M
    <3>1. ASSUME NEW w \in (from + 1)..to PROVE w \in V
      <4>1. w - 1 \in from..(to - 1) /\ (w - 1) + 1 = w
        OBVIOUS
      <4> QED BY <2>1, <4>1
    <3> QED BY <2>1, <3>1 DEF HasPath
  <2> QED BY <1>3, <2>1 DEF Upgrade
<1> QED BY <1>1, <1>2, <1>3

(* Sound migrations carry a record of its version to one of the contract's, *)
(* without an exception.                                                    *)
LEMMA SoundWay ==
    ASSUME NEW v \in Nat, contract.schema \in Nat, v <= contract.schema,
           SoundFrom(v), NEW p \in Payloads, Conforms(v, p)
    PROVE  Arrived(contract.schema,
                   UpgradePath(migrations, p, v, contract.schema)[contract.schema])
<1>0. UpgradePath(migrations, p, v, contract.schema)[v] = Only(p)
  BY WayStarts
<1> DEFINE to == contract.schema
           at == UpgradePath(migrations, p, v, to)
           T == {k \in v..to : ~Arrived(k, at[k])}
<1>1. at[v] = Only(p)
  BY <1>0 DEF at
<1>2. \A u \in v..(to - 1) : Arrived(u, at[u]) => Arrived(u + 1, at[u + 1])
  BY DEF SoundFrom
<1> SUFFICES ASSUME T # {} PROVE FALSE
  OBVIOUS
<1> HIDE DEF at
<1>3. PICK n \in T : \A m \in T : n <= m
  <2>1. T \subseteq Nat
    OBVIOUS
  <2> HIDE DEF T
  <2> QED BY <2>1, LeastCounterexample
<1>4. n \in v..to /\ ~Arrived(n, at[n]) /\ n # v
  BY <1>1 DEF Arrived, Only
<1>5. n - 1 \in v..(to - 1) /\ n - 1 \in v..to /\ (n - 1) + 1 = n /\ n - 1 \notin T
  BY <1>3, <1>4
<1>6. Arrived(n - 1, at[n - 1])
  BY <1>5
<1> QED BY <1>2, <1>4, <1>5, <1>6

(* What a record of the contract's version passes at pre_load, when every   *)
(* required field must have a value (contracts/enforcement.py).             *)
LEMMA RecordsAreLoadable ==
    ASSUME contract.required \subseteq DOMAIN Declared,
           \A n \in contract.required : ~Declared[n].nullable /\ ~Declared[n].default,
           NEW q, Conforms(contract.schema, q)
    PROVE  Loadable(q)
<1>1. Valid(Declared, q)
  BY DEF Conforms, Declared
<1>2. ASSUME NEW n \in contract.required PROVE Has(q, n) /\ q[n] # None
  BY <1>1, <1>2 DEF Valid, Has
<1> QED BY <1>1, <1>2 DEF Loadable

(* A run is only let in when the contract was deployed, with records of     *)
(* some version; the promise itself is the rest.                            *)
Deployed ==
    /\ stage \notin {"off", "deploy"} => DeployPasses
    /\ stage = "running" => version \in Incoming

WInv == TypeOK /\ Deployed /\ GateKeepsItsWord

(* What LoadBatch says of the payloads that it upgrades.                    *)
LEMMA UpgradedBatch ==
    ASSUME NEW b \in Batches, version \in Nat, contract.schema \in Nat
    PROVE  /\ Upgraded(b) = {} =>
                 \/ \E u \in version..(contract.schema - 1) :
                       u \notin DOMAIN migrations \/ u + 1 \notin Versions
                 \/ /\ version <= contract.schema
                    /\ \E i \in DOMAIN b :
                          UpgradePath(migrations, b[i], version,
                                      contract.schema)[contract.schema] = {}
           /\ \A q \in Upgraded(b) : version <= contract.schema =>
                 /\ DOMAIN q = DOMAIN b
                 /\ \A i \in DOMAIN b :
                       q[i] \in UpgradePath(migrations, b[i], version,
                                            contract.schema)[contract.schema]
<1> DEFINE to == contract.schema
           up(p) == Upgrade(Versions, migrations, p, version, to)
           end(p) == UpgradePath(migrations, p, version, to)[to]
           missing == \E u \in version..(to - 1) :
                         u \notin DOMAIN migrations \/ u + 1 \notin Versions
<1>1. Upgraded(b) = IF \E i \in DOMAIN b : up(b[i]) = {} THEN {}
                    ELSE {[i \in DOMAIN b |-> CHOOSE q \in up(b[i]) : TRUE]}
  BY DEF Upgraded
<1>2. ASSUME NEW p
      PROVE  /\ up(p) = {} => missing \/ (version <= to /\ end(p) = {})
             /\ version <= to => up(p) \subseteq end(p)
  BY UpgradeOutcome, Zenon
<1> HIDE DEF up, end, missing
<1>3. ASSUME Upgraded(b) = {}
      PROVE  missing \/ (version <= to /\ \E i \in DOMAIN b : end(b[i]) = {})
  <2>1. PICK i \in DOMAIN b : up(b[i]) = {}
    BY <1>1, <1>3
  <2> QED BY <1>2, <2>1
<1>4. ASSUME NEW q \in Upgraded(b), version <= to
      PROVE  DOMAIN q = DOMAIN b /\ \A i \in DOMAIN b : q[i] \in end(b[i])
  <2>1. /\ q = [i \in DOMAIN b |-> CHOOSE r \in up(b[i]) : TRUE]
        /\ \A i \in DOMAIN b : up(b[i]) # {}
    BY <1>1, <1>4
  <2>2. ASSUME NEW i \in DOMAIN b PROVE q[i] \in end(b[i])
    <3>1. q[i] \in up(b[i])
      BY <2>1
    <3> QED BY <1>2, <1>4, <3>1
  <2> QED BY <2>1, <2>2
<1> QED BY <1>3, <1>4 DEF end, missing

(* The step that loads a batch and stops over it.                           *)
LEMMA LoadKeepsWord ==
    ASSUME WInv, NEW b \in Batches, NEW d \in 0..Timeout + 1, LoadBatch(b, d)
    PROVE  GateKeepsItsWord'
<1> USE GateAssumption
<1>1. /\ stage = "running" /\ raw' = b
      /\ contract' = contract /\ migrations' = migrations /\ version' = version
  BY DEF LoadBatch, fixed
<1>2. /\ version \in Nat /\ contract.schema \in Nat
      /\ contract.required \subseteq DOMAIN Declared
  BY <1>1 DEF WInv, TypeOK, Deployed, DeployPasses, Versions, Declared
<1> DEFINE end(i) == UpgradePath(migrations, b[i], version,
                                 contract.schema)[contract.schema]
<1>2a. ASSUME \A p \in Range(b) : Conforms(version, p), SoundFrom(version),
             version <= contract.schema, NEW i \in DOMAIN b
      PROVE  Arrived(contract.schema, end(i))
  <2>1. b[i] \in Payloads /\ Conforms(version, b[i])
    BY <1>2a DEF Payloads, Range
  <2> QED BY <1>2, <1>2a, <2>1, SoundWay
<1>3. ASSUME stage' = "upgrade",
             \A p \in Range(b) : Conforms(version, p), SoundFrom(version)
      PROVE  \E u \in version..(contract.schema - 1) :
                 u \notin DOMAIN migrations \/ u + 1 \notin Versions
  <2>1. Upgraded(b) = {}
    BY <1>1, <1>3 DEF LoadBatch
  <2>2. \/ \E u \in version..(contract.schema - 1) :
              u \notin DOMAIN migrations \/ u + 1 \notin Versions
        \/ version <= contract.schema /\ \E i \in DOMAIN b : end(i) = {}
    BY <1>2, <2>1, UpgradedBatch
  <2> QED BY <1>3, <1>2a, <2>2 DEF Arrived
<1>4. ASSUME stage' = "pre_load", version <= contract.schema,
             \A p \in Range(b) : Conforms(version, p), SoundFrom(version),
             \A n \in contract.required : ~Declared[n].nullable /\ ~Declared[n].default
      PROVE  FALSE
  <2>1. PICK q \in Upgraded(b) : \E i \in DOMAIN q : ~Loadable(q[i])
    BY <1>1, <1>4 DEF LoadBatch
  <2>2. PICK i \in DOMAIN b : ~Loadable(q[i]) /\ q[i] \in end(i)
    BY <1>2, <1>4, <2>1, UpgradedBatch
  <2>3. Conforms(contract.schema, q[i])
    BY <1>4, <1>2a, <2>2 DEF Arrived
  <2> QED BY <1>2, <1>4, <2>2, <2>3, RecordsAreLoadable
<1>5. /\ (\E u \in version..(contract.schema - 1) :
             u \notin DOMAIN migrations \/ u + 1 \notin Versions)'
         <=> \E u \in version..(contract.schema - 1) :
                u \notin DOMAIN migrations \/ u + 1 \notin Versions
      /\ SoundFrom(version)' <=> SoundFrom(version)
      /\ Declared' = Declared
  BY <1>1 DEF SoundFrom, Versions, Declared, Arrived, Conforms, Payloads
<1>6. (\E p \in Range(raw) : ~Conforms(version, p))'
         <=> \E p \in Range(b) : ~Conforms(version, p)
  BY <1>1 DEF Conforms, Versions
<1>7. version > contract.schema <=> ~(version <= contract.schema)
  BY <1>2
<1>8. (stage = "upgrade" =>
          \/ \E u \in version..(contract.schema - 1) :
                u \notin DOMAIN migrations \/ u + 1 \notin Versions
          \/ \E p \in Range(raw) : ~Conforms(version, p)
          \/ ~SoundFrom(version))'
  BY <1>3, <1>5, <1>6
<1>9. (stage = "pre_load" =>
          \/ version > contract.schema
          \/ \E p \in Range(raw) : ~Conforms(version, p)
          \/ ~SoundFrom(version)
          \/ \E n \in contract.required : Declared[n].nullable \/ Declared[n].default)'
  BY <1>1, <1>4, <1>5, <1>6, <1>7
<1> QED BY <1>8, <1>9 DEF GateKeepsItsWord

LEMMA NextDeployed == ASSUME WInv, Next PROVE Deployed'
<1>1. contract' = contract
  BY DEF Next, Tick, Deploy, BatchFails, RunStart, LoadBatch, Publish, fixed
<1>2. DeployPasses' <=> DeployPasses
  BY <1>1 DEF DeployPasses, Declared
<1>3. \/ stage' = stage /\ version' = version
      \/ stage' = "deploy"
      \/ stage' = "ready" /\ DeployPasses
      \/ stage \notin {"off", "deploy"} /\ stage' = "running" /\ version' \in Incoming
      \/ stage \notin {"off", "deploy"} /\ stage' # "running"
  BY DEF Next, Tick, Deploy, BatchFails, RunStart, LoadBatch, Publish, fixed
<1> QED BY <1>2, <1>3 DEF WInv, Deployed, Versions

(* A step that stops no run over its records leaves the promise as it was.  *)
LEMMA OthersKeepWord ==
    ASSUME WInv, contract' = contract, migrations' = migrations,
           \/ stage' \notin {"upgrade", "pre_load"}
           \/ stage' = stage /\ version' = version /\ raw' = raw
    PROVE  GateKeepsItsWord'
<1>1. CASE stage' \notin {"upgrade", "pre_load"}
  BY <1>1 DEF GateKeepsItsWord
<1>2. CASE stage' = stage /\ version' = version /\ raw' = raw
  BY <1>2 DEF WInv, GateKeepsItsWord, SoundFrom, Versions, Declared, Arrived, Conforms, Payloads
<1> QED BY <1>1, <1>2

(* What the stages of a contract promise one another, for every registry of *)
(* schemas, also one with gaps, for every registry of migrations, contract, *)
(* suite of guards and batch (contracts/enforcement.py,                     *)
(* schema/migration.py), and for runs of any version, registered or not: a  *)
(* run is stopped over its records only if a migration or a version is      *)
(* missing, the records are newer than the contract or are not what they    *)
(* claim to be, a migration is unsound or raises on one of them, or the     *)
(* contract requires a field that its schema lets be absent.  Sound steps   *)
(* from version to version are enough for the whole way.                    *)
THEOREM GateIsTrueToItsWord == Spec => []GateKeepsItsWord
<1>1. Init => Deployed /\ GateKeepsItsWord
  BY DEF Init, Deployed, GateKeepsItsWord
<1>2. IInv /\ IInv' /\ Deployed /\ GateKeepsItsWord /\ [Next]_vars
          => Deployed' /\ GateKeepsItsWord'
  <2> SUFFICES ASSUME WInv, TypeOK', [Next]_vars
               PROVE  Deployed' /\ GateKeepsItsWord'
    BY DEF IInv, WInv
  <2>1. CASE UNCHANGED vars
    <3>1. Deployed'
      BY <2>1 DEF WInv, Deployed, DeployPasses, Declared, Versions, vars
    <3>2. GateKeepsItsWord'
      BY <2>1, OthersKeepWord DEF vars
    <3> QED BY <3>1, <3>2
  <2>2. CASE Next
    <3>1. Deployed'
      BY <2>2, NextDeployed
    <3>2. ASSUME Tick PROVE GateKeepsItsWord'
      <4>1. /\ contract' = contract /\ migrations' = migrations
            /\ stage' = stage /\ version' = version /\ raw' = raw
        BY <3>2 DEF Tick, fixed
      <4> QED BY <4>1, OthersKeepWord
    <3>3. ASSUME Deploy \/ BatchFails PROVE GateKeepsItsWord'
      <4>1. /\ contract' = contract /\ migrations' = migrations
            /\ stage' \notin {"upgrade", "pre_load"}
        BY <3>3 DEF Deploy, BatchFails, fixed
      <4> QED BY <4>1, OthersKeepWord
    <3>4. ASSUME NEW v \in Incoming, RunStart(v) PROVE GateKeepsItsWord'
      BY <3>4, OthersKeepWord DEF RunStart, fixed
    <3>5. ASSUME NEW b \in Batches, NEW d \in 0..Timeout + 1, LoadBatch(b, d)
          PROVE  GateKeepsItsWord'
      BY <3>5, LoadKeepsWord
    <3>6. ASSUME NEW e \in Counts, NEW l \in 0..clock, Publish(e, l) PROVE GateKeepsItsWord'
      BY <3>6, OthersKeepWord DEF Publish, fixed
    <3> QED BY <2>2, <3>1, <3>2, <3>3, <3>4, <3>5, <3>6 DEF Next
  <2> QED BY <2>1, <2>2
<1>3. QED  BY <1>1, <1>2, InvariantHolds, PTL DEF Spec
=============================================================================
