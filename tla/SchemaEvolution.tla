-------------------------- MODULE SchemaEvolution --------------------------
(***************************************************************************)
(* Versions of a schema (schema/): what a version accepts, how a change    *)
(* from one to the next is classified, and how the migrations between them *)
(* rewrite the payload of a record.  A schema is a function from field     *)
(* names to Fields, a payload one from names to values.                    *)
(*                                                                         *)
(* Values are strings, told apart by their length; None is 0.              *)
(***************************************************************************)
EXTENDS Naturals, SequencesExt

None == 0

(* max is None if the field has no max_length; default: it has a default.   *)
Field(T) == [type : T, nullable : BOOLEAN, max : Nat, default : BOOLEAN]

(* SchemaMeta: the fields of a subclass, on top of those of its base.       *)
Inherit(base, own) ==
    [n \in DOMAIN base \cup DOMAIN own |-> IF n \in DOMAIN own THEN own[n] ELSE base[n]]

(* Schema.validate finds no error.  Fields that are not declared pass.      *)
Valid(schema, p) ==
    \A n \in DOMAIN schema :
        IF n \notin DOMAIN p THEN schema[n].nullable \/ schema[n].default
        ELSE /\ p[n] = None => schema[n].nullable
             /\ schema[n].max # None => p[n] <= schema[n].max

-----------------------------------------------------------------------------
(* diff_schemas.                                                            *)

(* _compare_field: the first kind of change that applies.                   *)
CompareField(o, f) ==
    LET capped == o.max # None /\ f.max # None
    IN  IF o.type # f.type \/ (o.nullable /\ ~f.nullable) \/ (capped /\ f.max < o.max)
        THEN "breaking"
        ELSE IF (capped /\ f.max > o.max) \/ (~o.nullable /\ f.nullable) THEN "safe"
        ELSE "none"

(* The kind of change of every field of either version.                     *)
Diff(old, new) ==
    [n \in DOMAIN old \cup DOMAIN new |->
        IF n \notin DOMAIN new THEN "breaking"
        ELSE IF n \in DOMAIN old THEN CompareField(old[n], new[n])
        ELSE IF new[n].nullable \/ new[n].default THEN "safe" ELSE "breaking"]

(* SchemaDiff.has_breaking_changes.                                         *)
HasBreakingChanges(old, new) ==
    \E n \in DOMAIN old \cup DOMAIN new : Diff(old, new)[n] = "breaking"

(* What the comparison does not look at: a max_length where there was none, *)
(* and a default taken away from a field that needs one.                    *)
Tightened(old, new) ==
    \E n \in DOMAIN old \cap DOMAIN new :
        \/ old[n].max = None /\ new[n].max # None
        \/ old[n].default /\ ~new[n].default /\ ~new[n].nullable

-----------------------------------------------------------------------------
(* Migrations.  A step is a record of its kind, the field it works on, the  *)
(* new name of a rename, the value of a fill or an add, and the function of  *)
(* a cast, which raises outside its domain.  A step takes a payload to the  *)
(* set of its outcomes: one payload, or none if it raises.                  *)

Put(p, n, v) == [m \in DOMAIN p \cup {n} |-> IF m = n THEN v ELSE p[m]]
Without(p, n) == [m \in DOMAIN p \ {n} |-> p[m]]
Has(p, n) == n \in DOMAIN p

(* MigrationStep.apply.                                                     *)
ApplyStep(p, step) ==
    LET n == step.field
    IN  CASE step.kind = "rename" ->
                {IF Has(p, n) THEN Put(Without(p, n), step.to, p[n]) ELSE p}
          [] step.kind = "fill" ->
                {IF ~Has(p, n) \/ p[n] = None THEN Put(p, n, step.value) ELSE p}
          [] step.kind = "drop" -> {Without(p, n)}
          [] step.kind = "add"  -> {IF Has(p, n) THEN p ELSE Put(p, n, step.value)}
          [] step.kind = "cast" ->
                IF ~Has(p, n) \/ p[n] = None THEN {p}
                ELSE IF p[n] \in DOMAIN step.cast THEN {Put(p, n, step.cast[p[n]])}
                ELSE {}

(* Migration.apply, of a set of payloads.                                   *)
Migrate(steps, ps) ==
    LET apply(qs, step) == UNION {ApplyStep(q, step) : q \in qs}
    IN  FoldLeft(apply, ps, steps)

(* SchemaRegistry.migration_path: every version on the way is registered,   *)
(* the first need not be.                                                   *)
HasPath(versions, from, to) == (from + 1)..to \subseteq versions

(* What the payload p of version from has become at every version on the    *)
(* way to version to: {} from the migration on that raises.  migrations[u]  *)
(* are the steps from version u to u + 1.                                   *)
UpgradePath(migrations, p, from, to) ==
    LET at[v \in from..to] == IF v = from THEN {p} ELSE Migrate(migrations[v - 1], at[v - 1])
    IN  at

(* Mutant: the last migration of the path is left out.                      *)
UpgradeOneShort(versions, migrations, p, from, to) ==
    IF from >= to THEN {p}
    ELSE IF HasPath(versions, from, to) /\ from..(to - 1) \subseteq DOMAIN migrations
    THEN UpgradePath(migrations, p, from, to)[to - 1]
    ELSE {}

(* RuntimeUpgrader.upgrade: the migrations from each version to the next;   *)
(* the empty set if it raises because a version or a migration is missing,  *)
(* or a cast raises.                                                        *)
Upgrade(versions, migrations, p, from, to) ==
    IF from >= to THEN {p}
    ELSE IF HasPath(versions, from, to) /\ from..(to - 1) \subseteq DOMAIN migrations
    THEN UpgradePath(migrations, p, from, to)[to]
    ELSE {}
=============================================================================
