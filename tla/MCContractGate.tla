--------------------------- MODULE MCContractGate ---------------------------
(* Versions of a schema: the second shortens nothing but adds a             *)
(* field, the third renames it.  A fifth is like the third, and nobody      *)
(* registered the fourth.  The migrations are complete and sound,           *)
(* incomplete, unsound (the field is added as None), or complete with a     *)
(* cast that raises on a string of length 3, which the second version lets  *)
(* an id have.                                                              *)
EXTENDS ContractGate

Str(nullable, max, default) ==
    [type |-> "string", nullable |-> nullable, max |-> max, default |-> default]

V1 == [id |-> Str(FALSE, None, FALSE)]
V2 == Inherit(V1, [ccy |-> Str(FALSE, 2, FALSE)])
V3 == [id |-> Str(FALSE, 2, FALSE), currency |-> Str(TRUE, 2, FALSE)]
MCSchemas == [v \in {1, 2, 3, 5} |-> <<V1, V2, V3, V3, V3>>[v]]

Step(kind, field, to, value) ==
    [kind |-> kind, field |-> field, to |-> to, value |-> value, cast |-> << >>]
Cast(field, fn) == [Step("cast", field, "", 0) EXCEPT !.cast = fn]
ToV2(value) == <<Step("add", "ccy", "", value), Step("fill", "ccy", "", value)>>
ToV3(fn) == <<Cast("id", fn), Step("rename", "ccy", "currency", 0),
              Step("drop", "note", "", 0)>>
Cut == <<1, 2, 2>>
Parse == <<1, 2>>
MCMigrations == {<<ToV2(1), ToV3(Cut), << >>, << >> >>, <<ToV2(0), ToV3(Cut)>>,
                 <<ToV2(1)>>, <<ToV2(1), ToV3(Parse)>>}

MCContracts ==
    {[schema |-> s, key |-> k, required |-> r, mode |-> m, accepted |-> a,
      deviation |-> 50, sla |-> 2, suites |-> {"core"}] :
        s \in {1, 2, 3}, k \in {{"id"}}, r \in {{"id"}, {"id", "currency"}},
        m \in {"strict", "forward", "backward", "full"}, a \in {{}}}
    \cup {[schema |-> 2, key |-> {"id"}, required |-> {}, mode |-> "strict",
           accepted |-> {1}, deviation |-> 0, sla |-> None, suites |-> {}],
          [schema |-> 5, key |-> {"id"}, required |-> {"id"}, mode |-> "forward",
           accepted |-> {}, deviation |-> 50, sla |-> None, suites |-> {"core"}],
          [schema |-> None, key |-> {}, required |-> {}, mode |-> "full",
           accepted |-> {}, deviation |-> 0, sla |-> None, suites |-> {"other"}]}

P(i) == [id |-> i]
Q(i, c) == [id |-> i, ccy |-> c]
MCBatches == {<<P(1)>>, <<P(3)>>, <<P(1), P(2)>>, <<P(1), P(1)>>, <<P(0), P(1)>>,
              <<Q(1, 1)>>, <<Q(1, 0)>>, <<Q(1, 3)>>, <<[id |-> 1, currency |-> 1]>>,
              << >>}
=============================================================================
