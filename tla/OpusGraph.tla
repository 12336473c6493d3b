----------------------------- MODULE OpusGraph -----------------------------
(***************************************************************************)
(* The segment graph of an Opus (opus/opus.py): add_segment, add_segments  *)
(* and add_dynamic_segments register segments and validate the graph by    *)
(* Kahn's algorithm; topological_waves lays it out for OpusRunner.         *)
(*                                                                         *)
(* Both algorithms are modelled loop by loop, with their counters, because *)
(* what matters is that the counters end where the graph says: depends_on  *)
(* is a list and may name a dependency twice.  The caller may go on after  *)
(* a ValueError, and the segments of the rejected call stay registered.    *)
(***************************************************************************)
EXTENDS Integers, Sequences, FiniteSets

CONSTANTS
    Ids,        \* segment ids
    DepLists    \* the depends_on lists that callers may pass

ASSUME GraphAssumption == IsFiniteSet(Ids) /\ DepLists \subseteq Seq(Ids)

(* ANY and MAJORITY are laid out like ALL.                                  *)
Strategies == {"ALL", "NONE"}

VARIABLES
    segments,   \* _segments: id -> depends_on and wait_strategy
    pc,         \* where the call under way stands
    verdict,    \* how the latest call of add_segments ended
    inDegree,   \* in_degree of either algorithm
    ready,      \* queue of _validate_dag, ready of topological_waves
    visited,    \* ids taken from the queue, in order
    waves       \* what topological_waves has built

vars == <<segments, pc, verdict, inDegree, ready, visited, waves>>

Registered == DOMAIN segments
Segment    == [deps : DepLists, strategy : Strategies]
Verdicts   == {"none", "accepted", "duplicate", "unknown", "cycle"}

(* The type invariant; no counter falls below zero.                         *)
TypeOK ==
    /\ Registered \subseteq Ids
    /\ segments \in [Registered -> Segment]
    /\ pc \in {"idle", "adding", "kahn", "layout", "planned"}
    /\ verdict \in Verdicts
    /\ DOMAIN inDegree \subseteq Registered
    /\ inDegree \in [DOMAIN inDegree -> Nat]
    /\ ready \subseteq DOMAIN inDegree
    /\ visited \in Seq(Registered)
    /\ waves \in Seq(SUBSET Registered)

Init ==
    /\ segments = << >> /\ pc = "idle" /\ verdict = "none"
    /\ inDegree = << >> /\ ready = {} /\ visited = << >> /\ waves = << >>

-----------------------------------------------------------------------------
(* Mutant: dependents[d] lists a segment once, however often it names d.    *)
EntriesOnce(s, D) == IF \E i \in DOMAIN segments[s].deps : segments[s].deps[i] \in D
                     THEN 1 ELSE 0

(* Entries of depends_on of s that name a member of D.                      *)
Entries(s, D) == Cardinality({i \in DOMAIN segments[s].deps :
                                 segments[s].deps[i] \in D})

DependsOn(s) == {segments[s].deps[i] : i \in DOMAIN segments[s].deps}

(* The segments of D count as done: decrement, and collect what reaches 0.  *)
Decremented(D) == [s \in DOMAIN inDegree |-> inDegree[s] - Entries(s, D)]
ReachZero(D)   == {s \in DOMAIN inDegree :
                      Decremented(D)[s] = 0 /\ DependsOn(s) \cap D # {}}

(* add_segment, add_segments, add_dynamic_segments: the loop registers the  *)
(* next segment of the list.                                                *)
Register(id, seg) ==
    /\ pc \in {"idle", "adding", "planned"} /\ id \notin Registered
    /\ segments' = [s \in Registered \cup {id} |->
                       IF s = id THEN seg ELSE segments[s]]
    /\ pc' = "adding" /\ waves' = << >>
    /\ UNCHANGED <<verdict, inDegree, ready, visited>>

(* An id is already there: ValueError, without validation.                  *)
RaiseDuplicate ==
    /\ pc \in {"idle", "adding", "planned"} /\ Registered # {}
    /\ pc' = "idle" /\ verdict' = "duplicate" /\ waves' = << >>
    /\ UNCHANGED <<segments, inDegree, ready, visited>>

AllKnown == \A s \in Registered : DependsOn(s) \subseteq Registered

RaiseUnknown ==
    /\ pc = "adding" /\ ~AllKnown
    /\ pc' = "idle" /\ verdict' = "unknown"
    /\ UNCHANGED <<segments, inDegree, ready, visited, waves>>

(* Mutant: _validate_dag counts distinct dependencies.                      *)
StartValidationDistinct ==
    /\ pc = "adding" /\ AllKnown
    /\ inDegree' = [s \in Registered |-> Cardinality(DependsOn(s))]
    /\ ready' = {s \in Registered : DependsOn(s) = {}}
    /\ visited' = << >>
    /\ pc' = "kahn"
    /\ UNCHANGED <<segments, verdict, waves>>

(* _validate_dag counts every entry of every depends_on.                    *)
StartValidation ==
    /\ pc = "adding" /\ AllKnown
    /\ inDegree' = [s \in Registered |-> Len(segments[s].deps)]
    /\ ready' = {s \in Registered : Len(segments[s].deps) = 0}
    /\ visited' = << >>
    /\ pc' = "kahn"
    /\ UNCHANGED <<segments, verdict, waves>>

(* queue.pop(); the order does not matter.                                  *)
Visit(s) ==
    /\ pc = "kahn" /\ s \in ready
    /\ inDegree' = Decremented({s})
    /\ ready' = (ready \ {s}) \cup ReachZero({s})
    /\ visited' = Append(visited, s)
    /\ UNCHANGED <<segments, pc, verdict, waves>>

EndValidation ==
    /\ pc = "kahn" /\ ready = {}
    /\ verdict' = IF Len(visited) = Cardinality(Registered) THEN "accepted"
                                                            ELSE "cycle"
    /\ pc' = "idle"
    /\ UNCHANGED <<segments, inDegree, ready, visited, waves>>

Immediate == {s \in Registered : segments[s].strategy = "NONE"}
Waiting   == Registered \ Immediate

(* Mutant: dependencies on NONE segments are counted, too.                  *)
StartLayoutCountsAll ==
    /\ pc \in {"idle", "planned"}
    /\ inDegree' = [s \in Waiting |-> Len(segments[s].deps)]
    /\ ready' = {s \in Waiting : Len(segments[s].deps) = 0}
    /\ waves' = IF Immediate = {} THEN << >> ELSE << Immediate >>
    /\ pc' = "layout"
    /\ UNCHANGED <<segments, verdict, visited>>

(* topological_waves: the NONE segments make a wave of their own; among the *)
(* others only dependencies on one another count.                           *)
StartLayout ==
    /\ pc \in {"idle", "planned"}
    /\ inDegree' = [s \in Waiting |-> Entries(s, Waiting)]
    /\ ready' = {s \in Waiting : Entries(s, Waiting) = 0}
    /\ waves' = IF Immediate = {} THEN << >> ELSE << Immediate >>
    /\ pc' = "layout"
    /\ UNCHANGED <<segments, verdict, visited>>

(* Mutant: one ready segment at a time makes a wave.                        *)
AddWaveOfOne ==
    /\ pc = "layout" /\ ready # {}
    /\ \E s \in ready :
          /\ waves' = Append(waves, {s})
          /\ inDegree' = Decremented({s})
          /\ ready' = (ready \ {s}) \cup ReachZero({s})
    /\ UNCHANGED <<segments, pc, verdict, visited>>

AddWave ==
    /\ pc = "layout" /\ ready # {}
    /\ waves' = Append(waves, ready)
    /\ inDegree' = Decremented(ready)
    /\ ready' = ReachZero(ready)
    /\ UNCHANGED <<segments, pc, verdict, visited>>

EndLayout ==
    /\ pc = "layout" /\ ready = {}
    /\ pc' = "planned"
    /\ UNCHANGED <<segments, verdict, inDegree, ready, visited, waves>>

Next == \/ \E id \in Ids, seg \in Segment : Register(id, seg)
        \/ RaiseDuplicate \/ RaiseUnknown
        \/ StartValidation \/ (\E s \in Registered : Visit(s)) \/ EndValidation
        \/ StartLayout \/ AddWave \/ EndLayout

Spec == Init /\ [][Next]_vars

-----------------------------------------------------------------------------
(* Properties.                                                              *)

(* The reference definition: every nonempty set of segments has a member    *)
(* that depends on no segment of the set.                                   *)
Acyclic == \A S \in SUBSET Registered :
               S # {} => \E s \in S : DependsOn(s) \cap S = {}

(* The verdict is exact: a call is accepted only if the graph has neither   *)
(* unknown dependencies nor cycles, and is rejected for a cycle only if it  *)
(* has one (opus.py:127), lists with repeated entries included.             *)
VerdictExact ==
    pc \in {"idle", "planned"} =>
        /\ verdict = "accepted" => AllKnown /\ Acyclic
        /\ verdict = "cycle" => ~Acyclic
        /\ verdict = "unknown" => ~AllKnown

(* What module OpusRun assumes of Waves (its WavesAssumption): every        *)
(* segment is in exactly one wave, after all it waits for.                  *)
WavesPromise ==
    pc = "planned" /\ verdict = "accepted" =>
        /\ \A s \in Registered : \E i \in DOMAIN waves : s \in waves[i]
        /\ \A i, j \in DOMAIN waves : i # j => waves[i] \cap waves[j] = {}
        /\ \A j \in DOMAIN waves : \A s \in waves[j] \cap Waiting :
              \A d \in DependsOn(s) : \E i \in DOMAIN waves : i < j /\ d \in waves[i]

(* No segment waits longer than it has to ("all segments whose dependencies *)
(* are satisfied by the completion of all previous waves", opus.py:166):    *)
(* a later wave has a dependency in the wave just before it.  Only the      *)
(* first waiting wave need not: it follows the wave of the NONE segments.   *)
WavesAreEarliest ==
    pc = "planned" /\ verdict = "accepted" =>
        \A j \in DOMAIN waves : j > (IF Immediate = {} THEN 1 ELSE 2) =>
            \A s \in waves[j] : DependsOn(s) \cap waves[j - 1] # {}
=============================================================================
