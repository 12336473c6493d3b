----------------------------- MODULE GraphStore -----------------------------
(***************************************************************************)
(* Lineage of pipe runs in the persisted knowledge graph (lineage/         *)
(* tracker.py, lineage/graph/model.py and store.py).  A tracker collects   *)
(* the events of one run, builds a graph of them, and merge_event adds it  *)
(* to the stored graph: load, merge in memory, save.  Writers are runs in  *)
(* processes of their own that share the store, a JSON file or one Redis   *)
(* key.  A caller whose merge_event has raised may call it again.          *)
(***************************************************************************)
EXTENDS Naturals, Sequences, FiniteSets

CONSTANTS
    Writers,      \* runs; a writer is also the id of its run
    PipeOf,       \* PipeOf[w]: the pipe that run w executes
    ReadsFrom,    \* dataset that a pipe reads
    WritesTo,     \* dataset that a pipe writes
    Stores,       \* kinds of store to consider
    MaxTries,     \* bound: calls of merge_event per writer
    MaxFaults     \* bound: processes that die, saves that raise

Pipes == {PipeOf[w] : w \in Writers}
Datasets == {ReadsFrom[p] : p \in Pipes} \cup {WritesTo[p] : p \in Pipes}

ASSUME GraphAssumption ==
    /\ IsFiniteSet(Writers) /\ Writers # {}
    /\ Stores \subseteq {"file", "redis"}
    /\ MaxTries \in Nat \ {0} /\ MaxFaults \in Nat

VARIABLES
    store,     \* the kind of store; never changes
    events,    \* events[w]: what the tracker of w has collected
    pc,        \* where the merge_event call of w stands
    mem,       \* mem[w]: the merged graph in its memory
    content,   \* what the file or the key holds
    graph,     \* the graph that was saved last
    tries,     \* calls of merge_event by w
    faults,
    stale,     \* history: writers whose loaded graph is no longer the stored one
    broken     \* history: saves of the file overlapped, or one was cut short

vars == <<store, events, pc, mem, content, tries, faults, graph, stale, broken>>

-----------------------------------------------------------------------------
(* KnowledgeGraph: nodes by id, and a list of edges; an edge is identified  *)
(* by the run and the event it stems from, and counted.                     *)

Node(kind, name) == [kind |-> kind, name |-> name]
Nodes == [kind : {"run"}, name : Writers] \cup [kind : {"pipe"}, name : Pipes]
            \cup [kind : {"dataset"}, name : Datasets]
EdgeKinds == {"EXECUTED_IN", "READS_FROM", "WRITES_TO"}
EdgeIds == Writers \X EdgeKinds

RunNode(w)  == Node("run", w)
PipeNode(w) == Node("pipe", PipeOf[w])

(* Where an edge begins and where it ends.                                  *)
EndsOf(e) == {PipeNode(e[1]),
    IF e[2] = "EXECUTED_IN" THEN RunNode(e[1])
    ELSE IF e[2] = "READS_FROM" THEN Node("dataset", ReadsFrom[PipeOf[e[1]]])
    ELSE Node("dataset", WritesTo[PipeOf[e[1]]])}

EmptyGraph == [nodes |-> {}, edges |-> [e \in EdgeIds |-> 0]]

(* What the file or the key holds: nothing yet, the JSON of graph, or (the  *)
(* file) nothing after it was opened, or the mixed texts of two writers.    *)
Contents == {"absent", "json", "empty", "torn"}

AddEdge(g, e) == [nodes |-> g.nodes \cup EndsOf(e),
                  edges |-> [g.edges EXCEPT ![e] = @ + 1]]

(* Mutant: the EXECUTED_IN edge is added whether or not the pipe is new.    *)
AddEventAlways(g, w, kind) ==
    AddEdge(AddEdge(g, <<w, "EXECUTED_IN">>),
            <<w, IF kind = "read" THEN "READS_FROM" ELSE "WRITES_TO">>)

(* add_event: the run node and, if it is new, the pipe node with its        *)
(* EXECUTED_IN edge; then the dataset node and the edge to it.              *)
AddEvent(g, w, kind) ==
    LET g1 == IF PipeNode(w) \in g.nodes
              THEN [g EXCEPT !.nodes = @ \cup {RunNode(w)}]
              ELSE AddEdge(g, <<w, "EXECUTED_IN">>)
    IN  AddEdge(g1, <<w, IF kind = "read" THEN "READS_FROM" ELSE "WRITES_TO">>)

(* LineageTracker.to_graph: the read, then the write if there was one.      *)
ToGraph(w) ==
    LET g == AddEvent(EmptyGraph, w, "read")
    IN  IF events[w] = <<"read">> THEN g ELSE AddEvent(g, w, "write")

(* Mutant: only the edges are merged.                                       *)
MergedEdgesOnly(g, h) == [nodes |-> g.nodes,
                          edges |-> [e \in EdgeIds |-> g.edges[e] + h.edges[e]]]

(* The merge in merge_event: nodes by id, all edges appended.               *)
Merged(g, h) == [nodes |-> g.nodes \cup h.nodes,
                 edges |-> [e \in EdgeIds |-> g.edges[e] + h.edges[e]]]

-----------------------------------------------------------------------------
PCs == {"run", "loaded", "writing", "failed", "done", "dead"}

Graphs == [nodes : SUBSET Nodes, edges : [EdgeIds -> Nat]]
Sized(g) == \A e \in EdgeIds : g.edges[e] <= tries[e[1]]

(* The type invariant.  An edge is stored once per call of merge_event at   *)
(* most, and only a file is ever open for writing.                          *)
TypeOK ==
    /\ store \in Stores
    /\ events \in [Writers -> {<< >>, <<"read">>, <<"read", "write">>}]
    /\ pc \in [Writers -> PCs]
    /\ mem \in [Writers -> Graphs] /\ \A w \in Writers : Sized(mem[w])
    /\ content \in Contents /\ graph \in Graphs /\ Sized(graph)
    /\ tries \in [Writers -> 0..MaxTries] /\ faults \in 0..MaxFaults
    /\ stale \subseteq Writers /\ broken \in BOOLEAN
    /\ \A w \in Writers : pc[w] = "writing" => store = "file"

Init ==
    /\ store \in Stores
    /\ events = [w \in Writers |-> << >>]
    /\ pc = [w \in Writers |-> "run"]
    /\ mem = [w \in Writers |-> EmptyGraph]
    /\ content = "absent" /\ graph = EmptyGraph
    /\ tries = [w \in Writers |-> 0] /\ faults = 0
    /\ stale = {} /\ broken = FALSE

SetPC(w, p) == pc' = [pc EXCEPT ![w] = p]

(* LocalRunner tracks the read when it starts, the write at the end.        *)
Track(w, seen) ==
    /\ pc[w] = "run" /\ tries[w] = 0
    /\ events' = [events EXCEPT ![w] = seen]
    /\ UNCHANGED <<store, pc, mem, content, tries, faults, graph, stale, broken>>

TrackRead(w)  == events[w] = << >> /\ Track(w, <<"read">>)
TrackWrite(w) == events[w] = <<"read">> /\ Track(w, <<"read", "write">>)

(* Mutant: the graph of the run is saved without the stored one.            *)
LoadNothing(w) ==
    /\ pc[w] \in {"run", "failed"} /\ events[w] # << >> /\ tries[w] < MaxTries
    /\ tries' = [tries EXCEPT ![w] = @ + 1]
    /\ SetPC(w, "loaded")
    /\ mem' = [mem EXCEPT ![w] = ToGraph(w)]
    /\ stale' = stale \ {w}
    /\ UNCHANGED <<store, events, content, faults, graph, broken>>

(* merge_event up to its save: load the stored graph and merge into it.     *)
(* json.loads raises on a file that is not JSON.                            *)
Load(w) ==
    /\ pc[w] \in {"run", "failed"} /\ events[w] # << >> /\ tries[w] < MaxTries
    /\ tries' = [tries EXCEPT ![w] = @ + 1]
    /\ IF content \in {"empty", "torn"}
       THEN SetPC(w, "failed") /\ UNCHANGED <<mem, stale>>
       ELSE /\ SetPC(w, "loaded")
            /\ mem' = [mem EXCEPT ![w] = Merged(graph, ToGraph(w))]
            /\ stale' = stale \ {w}
    /\ UNCHANGED <<store, events, content, faults, graph, broken>>

Saved(w) == /\ content' = "json" /\ graph' = mem[w]
            /\ stale' = stale \cup (Writers \ {w})

(* Mutant: the file is opened without being emptied.                        *)
OpenFileKeeps(w) ==
    /\ pc[w] = "loaded" /\ store = "file"
    /\ SetPC(w, "writing")
    /\ stale' = stale \cup (Writers \ {w})
    /\ broken' = (broken \/ \E v \in Writers : pc[v] = "writing")
    /\ content' = IF content = "absent" THEN "empty" ELSE content
    /\ UNCHANGED <<store, events, mem, tries, faults, graph>>

(* JsonFileGraphStore.save: write_text opens the file, which empties it ... *)
OpenFile(w) ==
    /\ pc[w] = "loaded" /\ store = "file"
    /\ SetPC(w, "writing")
    /\ content' = "empty"
    /\ stale' = stale \cup (Writers \ {w})
    /\ broken' = (broken \/ \E v \in Writers : pc[v] = "writing")
    /\ UNCHANGED <<store, events, mem, tries, faults, graph>>

(* ... and writes the text, over that of a writer that had the file open at *)
(* the same time: the tail of the longer text may be left.                  *)
WriteFile(w) ==
    /\ pc[w] = "writing"
    /\ SetPC(w, "done")
    /\ \/ Saved(w)
       \/ content # "empty" /\ content' = "torn" /\ UNCHANGED <<graph, stale>>
    /\ UNCHANGED <<store, events, mem, tries, faults, broken>>

(* The write raises (the disk is full, say) before, amid or after the text; *)
(* the process goes on, and the caller may call merge_event again.          *)
WriteFileRaises(w) ==
    /\ pc[w] = "writing" /\ faults < MaxFaults
    /\ faults' = faults + 1
    /\ SetPC(w, "failed")
    /\ broken' = TRUE
    /\ \/ Saved(w)
       \/ content' \in {content, "torn"} /\ UNCHANGED <<graph, stale>>
    /\ UNCHANGED <<store, events, mem, tries>>

(* RedisGraphStore.save: one SET.                                           *)
SetKey(w) ==
    /\ pc[w] = "loaded" /\ store = "redis"
    /\ SetPC(w, "done")
    /\ Saved(w)
    /\ UNCHANGED <<store, events, mem, tries, faults, broken>>

(* The SET raises, before or after it has taken effect.                     *)
SetKeyRaises(w) ==
    /\ pc[w] = "loaded" /\ store = "redis" /\ faults < MaxFaults
    /\ faults' = faults + 1
    /\ SetPC(w, "failed")
    /\ Saved(w) \/ UNCHANGED <<content, graph, stale>>
    /\ UNCHANGED <<store, events, mem, tries, broken>>

(* The process of w dies, perhaps with a part of the text in the file.      *)
Die(w) ==
    /\ pc[w] \in {"loaded", "writing"} /\ faults < MaxFaults
    /\ faults' = faults + 1
    /\ SetPC(w, "dead")
    /\ broken' = (broken \/ pc[w] = "writing")
    /\ content' \in {content} \cup (IF pc[w] = "writing" THEN {"torn"} ELSE {})
    /\ UNCHANGED <<store, events, mem, tries, graph, stale>>

Next == \E w \in Writers :
            \/ TrackRead(w) \/ TrackWrite(w) \/ Load(w) \/ OpenFile(w)
            \/ WriteFile(w) \/ WriteFileRaises(w)
            \/ SetKey(w) \/ SetKeyRaises(w) \/ Die(w)

Spec == Init /\ [][Next]_vars

-----------------------------------------------------------------------------
(* Properties.                                                              *)

(* The stored graph makes sense whatever writers did to it: edges lead from *)
(* node to node, every run hangs on its pipe by an EXECUTED_IN edge (each   *)
(* tracker builds a graph of its own, where the pipe is new), and an edge   *)
(* is there once, unless a save that raised has taken effect all the same:  *)
(* the repeated merge_event appends its edges again.                        *)
StoredGraphSound ==
    content = "json" =>
        /\ \A e \in EdgeIds : graph.edges[e] > 0 => EndsOf(e) \subseteq graph.nodes
        /\ \A w \in Writers : RunNode(w) \in graph.nodes =>
               graph.edges[<<w, "EXECUTED_IN">>] > 0
        /\ \A e \in EdgeIds : graph.edges[e] <= 1 + faults

(* A save loses nothing of the last saved graph unless another writer saved *)
(* between the load and the save of this one (store.py:76 "Not suitable for *)
(* concurrent multi-process writes").                                       *)
LossNeedsOverlap ==
    [][\A w \in Writers \ stale : pc[w] \in {"loaded", "writing"} /\ pc'[w] # pc[w] =>
          /\ graph.nodes \subseteq graph'.nodes
          /\ \A e \in EdgeIds : graph.edges[e] <= graph'.edges[e]]_vars

(* While nobody writes the file it can be read, unless two saves of it have *)
(* overlapped, or one ended by an exception or by the death of its process  *)
(* after the file was emptied: then every later merge_event may raise, and  *)
(* no code of the store repairs the file.                                   *)
ReadableAtRest ==
    (\A w \in Writers : pc[w] # "writing") /\ content \in {"empty", "torn"} => broken
=============================================================================
