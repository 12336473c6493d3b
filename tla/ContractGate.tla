---------------------------- MODULE ContractGate ----------------------------
(***************************************************************************)
(* A contract enforced at its four stages (contracts/enforcement.py), with *)
(* the upgrade of old records (schema/migration.py) and a suite of guards  *)
(* (guards/) in between.  No code of src/ drives the stages: the order is  *)
(* that of README.md:237, a caller that stops a run at the first stage that *)
(* does not pass.  Several runs follow one another; the guards keep their  *)
(* state from run to run.                                                  *)
(*                                                                         *)
(* Time is in ticks.  A batch is a sequence of payloads.                   *)
(***************************************************************************)
EXTENDS SchemaEvolution, FiniteSets

CONSTANTS
    Schemas,      \* the schema registry: Schemas[v], for every version v
    Migrations,   \* contents of the migration registry to consider
    Contracts,    \* contracts to consider
    Suites,       \* names in the guard suite registry
    Incoming,     \* versions that a run may be offered, registered or not
    Batches,      \* batches that a source may deliver
    Counts,       \* values of records_expected; 0 also for None
    KeyField,     \* field of DuplicateCheckGuard and of the null guards
    MinRows, MaxRows, MaxNullPct, Timeout,   \* thresholds of the guards
    MaxRetries,   \* of RetryGuard
    Threshold,    \* failure_threshold of CircuitBreakerGuard
    Recovery,     \* recovery_s of CircuitBreakerGuard
    MaxTime,      \* bound: ticks
    MaxChecks     \* bound: batches, failed ones included

ASSUME GateAssumption ==
    /\ DOMAIN Schemas \subseteq Nat \ {None} /\ Incoming \subseteq Nat
    /\ \A c \in Contracts : c.schema \in DOMAIN Schemas \cup {None} /\ c.sla \in Nat
    /\ \A b \in Batches : Len(b) \in Nat
    /\ MinRows \in Nat /\ MaxRows \in Nat /\ MaxNullPct \in 0..100 /\ Timeout \in Nat
    /\ MaxRetries \in Nat /\ Threshold \in Nat \ {0} /\ Recovery \in Nat
    /\ MaxTime \in Nat \ {0} /\ MaxChecks \in Nat

VARIABLES
    contract,    \* the contract; never changes
    migrations,  \* the migration registry; never changes
    stage,       \* where the lifecycle stands
    version,     \* schema version of the records of the run
    raw,         \* the batch delivered last
    count,       \* records_written
    breaker,     \* the circuit breaker
    retries,     \* _consecutive_failures of the RetryGuard
    clock,
    checks

vars == <<contract, migrations, stage, version, raw, count, breaker,
          retries, clock, checks>>

Rejections == {"deploy", "run_start", "upgrade", "guard", "retries", "pre_load", "publish"}
Closed == [state |-> "closed", failures |-> 0, at |-> 0]
Versions == DOMAIN Schemas
Declared == Schemas[contract.schema]

(* The type invariant.                                                      *)
TypeOK ==
    /\ contract \in Contracts /\ migrations \in Migrations
    /\ stage \in {"off", "ready", "running", "published"} \cup Rejections
    /\ version \in {None} \cup Incoming /\ raw \in Batches \cup {<< >>}
    /\ count \in Nat
    /\ breaker \in [state : {"closed", "open"}, failures : 0..MaxChecks, at : 0..clock]
    /\ retries \in 0..MaxChecks
    /\ clock \in 1..MaxTime /\ checks \in 0..MaxChecks

Init ==
    /\ contract \in Contracts /\ migrations \in Migrations
    /\ stage = "off" /\ version = None /\ raw = << >> /\ count = 0
    /\ breaker = Closed /\ retries = 0
    /\ clock = 1 /\ checks = 0

-----------------------------------------------------------------------------
(* The contract.                                                            *)

(* enforce_deploy.                                                          *)
DeployPasses ==
    /\ contract.schema # None
    /\ contract.key # {} /\ contract.key \cup contract.required \subseteq DOMAIN Declared
    /\ contract.suites \subseteq Suites

(* Contract.accepted_versions.                                              *)
Accepted == IF contract.accepted # {} THEN contract.accepted ELSE {contract.schema}

(* check_schema_version_compatibility is not INCOMPATIBLE.                  *)
Compatible(v) ==
    \/ v \in {contract.schema} \cup Accepted
    \/ contract.mode = "forward"  /\ v < contract.schema
    \/ contract.mode = "backward" /\ v > contract.schema
    \/ contract.mode = "full"

(* enforce_pre_load.                                                        *)
Loadable(p) ==
    /\ \A n \in contract.required : Has(p, n) /\ p[n] # None
    /\ Valid(Declared, p)

Abs(m, n) == IF m > n THEN m - n ELSE n - m

(* The gap to last, the last successful run (0: none), exceeds              *)
(* freshness_sla.                                                           *)
Overdue(last) == contract.sla # None /\ last # 0 /\ clock - last > contract.sla

(* enforce_publish; no row count is wrong if none is expected.              *)
PublishPasses(expected, last) ==
    /\ expected > 0 => Abs(count, expected) * 100 <= contract.deviation * expected
    /\ ~Overdue(last)

-----------------------------------------------------------------------------
(* The guards.                                                              *)

Get(p, n) == IF Has(p, n) THEN p[n] ELSE None
Nulls(b) == Cardinality({i \in DOMAIN b : Get(b[i], KeyField) = None})

(* RowCountGuard, DuplicateCheckGuard, SchemaMatchGuard, NullSpikeGuard,    *)
(* EmptyColumnGuard and TimeoutGuard; these keep nothing.                   *)
RowCountPasses(b)    == Len(b) \in MinRows..MaxRows
DuplicatesPass(b)    == \A i, j \in DOMAIN b :
                            i # j => Get(b[i], KeyField) # Get(b[j], KeyField)
SchemaMatchPasses(b) == \A i \in DOMAIN b : DOMAIN b[i] \subseteq DOMAIN Declared
NullSpikePasses(b)   == Nulls(b) * 100 <= MaxNullPct * Len(b)
EmptyColumnPasses(b) == b = << >> \/ Nulls(b) < Len(b)
TimeoutPasses(duration) == duration <= Timeout

(* Mutant: tripping resets the counter of the breaker.                      *)
CheckBreakerResets(failed) ==
    IF breaker.state = "open" /\ clock - breaker.at < Recovery THEN breaker
    ELSE IF ~failed THEN Closed
    ELSE IF breaker.failures + 1 >= Threshold
    THEN [state |-> "open", failures |-> 0, at |-> clock]
    ELSE [state |-> IF breaker.state = "open" THEN "half_open" ELSE "closed",
          failures |-> breaker.failures + 1, at |-> breaker.at]

(* CircuitBreakerGuard.check: its state afterwards.  An open breaker lets   *)
(* a batch through, half open, when the recovery time is over.              *)
CheckBreaker(failed) ==
    IF breaker.state = "open" /\ clock - breaker.at < Recovery THEN breaker
    ELSE IF ~failed THEN Closed
    ELSE IF breaker.failures + 1 >= Threshold
    THEN [state |-> "open", failures |-> breaker.failures + 1, at |-> clock]
    ELSE [state |-> IF breaker.state = "open" THEN "half_open" ELSE "closed",
          failures |-> breaker.failures + 1, at |-> breaker.at]

(* GuardSuite.run_all: every guard is run, also after one that failed.  The *)
(* breaker passes unless it is open afterwards.                             *)
SuitePasses(b, duration) ==
    /\ RowCountPasses(b) /\ DuplicatesPass(b) /\ SchemaMatchPasses(b)
    /\ NullSpikePasses(b) /\ EmptyColumnPasses(b) /\ TimeoutPasses(duration)
    /\ breaker'.state # "open"

-----------------------------------------------------------------------------
fixed == <<contract, migrations>>

Tick == /\ clock < MaxTime /\ clock' = clock + 1
        /\ UNCHANGED <<fixed, stage, version, raw, count, breaker, retries, checks>>

Deploy ==
    /\ stage = "off"
    /\ stage' = IF DeployPasses THEN "ready" ELSE "deploy"
    /\ UNCHANGED <<fixed, version, raw, count, breaker, retries, clock, checks>>

(* A run begins after deployment or after an earlier run, whatever became   *)
(* of it, with records of any version: nothing looks it up in the registry. *)
RunStart(v) ==
    /\ stage \notin {"off", "deploy", "running"}
    /\ stage' = IF Compatible(v) THEN "running" ELSE "run_start"
    /\ version' = v /\ raw' = << >> /\ count' = 0
    /\ UNCHANGED <<fixed, breaker, retries, clock, checks>>

(* The payloads of b as the contract's schema wants them; none if an        *)
(* upgrade raises.                                                          *)
Upgraded(b) ==
    LET up(p) == Upgrade(Versions, migrations, p, version, contract.schema)
    IN  IF \E i \in DOMAIN b : up(b[i]) = {} THEN {}
        ELSE {[i \in DOMAIN b |-> CHOOSE q \in up(b[i]) : TRUE]}

(* A batch is upgraded, guarded, enforced and written.                      *)
LoadBatch(b, duration) ==
    /\ stage = "running" /\ checks < MaxChecks
    /\ checks' = checks + 1 /\ raw' = b
    /\ \/ /\ Upgraded(b) = {}
          /\ stage' = "upgrade" /\ UNCHANGED <<count, breaker, retries>>
       \/ \E u \in Upgraded(b) :
             /\ breaker' = CheckBreaker(FALSE)
             /\ IF SuitePasses(u, duration) /\ \A i \in DOMAIN u : Loadable(u[i])
                THEN /\ count' = count + Len(b)
                     /\ retries' = 0 /\ UNCHANGED stage
                ELSE /\ stage' = IF SuitePasses(u, duration) THEN "pre_load" ELSE "guard"
                     /\ UNCHANGED <<count, retries>>
    /\ UNCHANGED <<fixed, version, clock>>

(* A batch fails: the breaker counts it, and RetryGuard says whether the    *)
(* caller may try again.                                                    *)
BatchFails ==
    /\ stage = "running" /\ checks < MaxChecks
    /\ checks' = checks + 1
    /\ breaker' = CheckBreaker(TRUE)
    /\ retries' = retries + 1
    /\ stage' = IF retries' > MaxRetries THEN "retries"
                ELSE IF breaker'.state = "open" THEN "guard" ELSE "running"
    /\ UNCHANGED <<fixed, version, raw, count, clock>>

(* The run ends, with whatever last_successful_run_at the caller hands to   *)
(* enforce_publish.                                                         *)
Publish(expected, last) ==
    /\ stage = "running"
    /\ stage' = IF PublishPasses(expected, last) THEN "published" ELSE "publish"
    /\ UNCHANGED <<fixed, version, raw, count, breaker, retries, clock, checks>>

Next ==
    \/ Tick \/ Deploy \/ BatchFails
    \/ \E v \in Incoming : RunStart(v)
    \/ \E b \in Batches, duration \in 0..Timeout + 1 : LoadBatch(b, duration)
    \/ \E expected \in Counts, last \in 0..clock : Publish(expected, last)

Spec == Init /\ [][Next]_vars

-----------------------------------------------------------------------------
(* Properties.                                                              *)

Payloads == UNION {Range(b) : b \in Batches}

(* A record of version v: valid, and without fields that v does not declare *)
(* (which Valid lets pass).  A version that nobody registered has none.     *)
Conforms(v, p) ==
    v \in Versions /\ Valid(Schemas[v], p) /\ DOMAIN p \subseteq DOMAIN Schemas[v]

(* ps is the outcome of an upgrade to version v: it has not raised, and has *)
(* made a record of that version.                                           *)
Arrived(v, ps) == ps # {} /\ \A p \in ps : Conforms(v, p)

(* The migrations on the way make records of a version of those before it:  *)
(* each takes what the ones before it have made of a payload, if it is a    *)
(* record of its version, to one of the next version, and raises on none.   *)
SoundFrom(v) ==
    /\ v..(contract.schema - 1) \subseteq DOMAIN migrations
    /\ \A p \in Payloads :
          LET at == UpgradePath(migrations, p, v, contract.schema)
          IN  \A u \in v..(contract.schema - 1) :
                 Arrived(u, at[u]) => Arrived(u + 1, at[u + 1])

(* What the stages promise one another.  A run that run_start has let in is *)
(* stopped over its records only for these reasons: a migration that is     *)
(* missing, or a version on the way that nobody registered (run_start looks *)
(* for neither), records newer than the contract (nothing downgrades them,  *)
(* compatibility.py:26), a record that does not conform to its own version  *)
(* (none does to a version that is not registered), a migration that is     *)
(* unsound, in what it makes of a record or because its cast raises on one, *)
(* or a required field that the contract's schema lets be absent.           *)
GateKeepsItsWord ==
    /\ stage = "upgrade" =>
          \/ \E u \in version..(contract.schema - 1) :
                u \notin DOMAIN migrations \/ u + 1 \notin Versions
          \/ \E p \in Range(raw) : ~Conforms(version, p)
          \/ ~SoundFrom(version)
    /\ stage = "pre_load" =>
          \/ version > contract.schema
          \/ \E p \in Range(raw) : ~Conforms(version, p)
          \/ ~SoundFrom(version)
          \/ \E n \in contract.required : Declared[n].nullable \/ Declared[n].default

(* The circuit breaker is never at rest half open: a probe closes it or     *)
(* opens it again at once, because tripping leaves the counter at the       *)
(* threshold.  It is closed exactly while the failures in a row are below   *)
(* the threshold, and open, it blocks every batch until the recovery time   *)
(* is over.                                                                 *)
BreakerSound ==
    [][/\ breaker'.state = "closed" \/ breaker'.state = "open"
       /\ breaker'.state = "closed" <=> breaker'.failures < Threshold
       /\ breaker.state = "open" /\ clock - breaker.at < Recovery =>
              breaker' = breaker /\ count' <= count]_vars
=============================================================================
