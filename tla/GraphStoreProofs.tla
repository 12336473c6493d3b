-------------------------- MODULE GraphStoreProofs --------------------------
(***************************************************************************)
(* The stored knowledge graph, for any runs, pipes and datasets, any number *)
(* of concurrent merge_event calls, deaths and failing saves.              *)
(***************************************************************************)
EXTENDS GraphStore, TLAPS

(* Edges lead from node to node, and a run hangs on its pipe.               *)
Consistent(g) ==
    /\ \A e \in EdgeIds : g.edges[e] > 0 => EndsOf(e) \subseteq g.nodes
    /\ \A w \in Writers : RunNode(w) \in g.nodes => g.edges[<<w, "EXECUTED_IN">>] > 0

(* g has all that h has.                                                    *)
Covers(g, h) == /\ h.nodes \subseteq g.nodes
                /\ \A e \in EdgeIds : h.edges[e] <= g.edges[e]

-----------------------------------------------------------------------------
(* What the operators on graphs return.                                     *)

(* EndsOf(e) are nodes, and its only run node is that of e.                 *)
LEMMA EndsAreNodes ==
    ASSUME NEW e \in EdgeIds
    PROVE  /\ EndsOf(e) \subseteq Nodes
           /\ \A v \in Writers : RunNode(v) \in EndsOf(e) => v = e[1]
BY DEF EdgeIds, EdgeKinds, EndsOf, Nodes, Node, RunNode, PipeNode, Pipes, Datasets

(* KnowledgeGraph.add_edge.                                                 *)
LEMMA AddEdgeAdds ==
    ASSUME NEW g \in Graphs, NEW e \in EdgeIds
    PROVE  /\ AddEdge(g, e) \in Graphs
           /\ AddEdge(g, e).nodes = g.nodes \cup EndsOf(e)
           /\ AddEdge(g, e).edges = [g.edges EXCEPT ![e] = @ + 1]
BY EndsAreNodes DEF AddEdge, Graphs

(* LineageTracker.to_graph: one edge of each kind at most, all of this run, *)
(* EXECUTED_IN always, and their ends.                                      *)
LEMMA GraphOfRun ==
    ASSUME NEW w \in Writers
    PROVE  /\ ToGraph(w) \in Graphs
           /\ Consistent(ToGraph(w))
           /\ \A e \in EdgeIds : ToGraph(w).edges[e] \in {0, 1}
           /\ \A e \in EdgeIds : e[1] # w => ToGraph(w).edges[e] = 0
<1> DEFINE x == <<w, "EXECUTED_IN">>
           r == <<w, "READS_FROM">>
           t == <<w, "WRITES_TO">>
           G(kind) == IF kind = "read" THEN r ELSE t
           g1 == AddEdge(EmptyGraph, x)
           g2 == AddEdge(g1, r)
           g3 == AddEdge(g2, t)
<1>1. x \in EdgeIds /\ r \in EdgeIds /\ t \in EdgeIds
  BY DEF EdgeIds, EdgeKinds
<1>2. EmptyGraph \in Graphs /\ \A e \in EdgeIds : EmptyGraph.edges[e] = 0
  BY DEF EmptyGraph, Graphs
<1>3. /\ g1 \in Graphs /\ g1.nodes = EndsOf(x)
      /\ \A e \in EdgeIds : g1.edges[e] = IF e = x THEN 1 ELSE 0
  <2>1. EmptyGraph.nodes = {}
    BY DEF EmptyGraph
  <2>2. /\ g1 \in Graphs /\ g1.nodes = EmptyGraph.nodes \cup EndsOf(x)
        /\ g1.edges = [EmptyGraph.edges EXCEPT ![x] = @ + 1]
    BY <1>1, <1>2, AddEdgeAdds
  <2>3. EmptyGraph.edges \in [EdgeIds -> Nat]
    BY <1>2 DEF Graphs
  <2>4. QED  BY <1>1, <1>2, <2>1, <2>2, <2>3
<1>4. /\ g2 \in Graphs /\ g2.nodes = EndsOf(x) \cup EndsOf(r)
      /\ \A e \in EdgeIds : g2.edges[e] = IF e \in {x, r} THEN 1 ELSE 0
  <2> HIDE DEF g1
  <2>1. /\ g2 \in Graphs /\ g2.nodes = g1.nodes \cup EndsOf(r)
        /\ g2.edges = [g1.edges EXCEPT ![r] = @ + 1]
    BY <1>1, <1>3, AddEdgeAdds
  <2>2. g1.edges \in [EdgeIds -> Nat]
    BY <1>3 DEF Graphs
  <2>3. r # x
    OBVIOUS
  <2>4. QED  BY <1>1, <1>3, <2>1, <2>2, <2>3
<1>5. /\ g3 \in Graphs /\ g3.nodes = EndsOf(x) \cup EndsOf(r) \cup EndsOf(t)
      /\ \A e \in EdgeIds : g3.edges[e] = IF e \in {x, r, t} THEN 1 ELSE 0
  <2> HIDE DEF g2
  <2>1. /\ g3 \in Graphs /\ g3.nodes = g2.nodes \cup EndsOf(t)
        /\ g3.edges = [g2.edges EXCEPT ![t] = @ + 1]
    BY <1>1, <1>4, AddEdgeAdds
  <2>2. g2.edges \in [EdgeIds -> Nat]
    BY <1>4 DEF Graphs
  <2>3. t # x /\ t # r
    OBVIOUS
  <2>4. QED  BY <1>1, <1>4, <2>1, <2>2, <2>3
<1>6. ToGraph(w) \in {g2, g3}
  <2>1. PipeNode(w) \notin EmptyGraph.nodes /\ PipeNode(w) \in g2.nodes
    BY <1>4 DEF EmptyGraph, EndsOf
  <2>2. AddEvent(EmptyGraph, w, "read") = g2
    BY <2>1 DEF AddEvent
  <2>3. [g2 EXCEPT !.nodes = @ \cup {RunNode(w)}] = g2
    <3>1. RunNode(w) \in EndsOf(x)
      BY DEF EndsOf
    <3>2. QED  BY <1>4, <3>1 DEF Graphs
  <2>4. AddEvent(g2, w, "write") = g3
    BY <2>1, <2>3 DEF AddEvent
  <2>5. QED  BY <2>2, <2>4 DEF ToGraph
<1> HIDE DEF g1, g2, g3
<1>7. \A g \in {g2, g3} :
         /\ g \in Graphs
         /\ \A e \in EdgeIds : g.edges[e] \in {0, 1}
         /\ \A e \in EdgeIds : e[1] # w => g.edges[e] = 0
         /\ \A e \in EdgeIds : g.edges[e] > 0 => EndsOf(e) \subseteq g.nodes
         /\ \A v \in Writers : RunNode(v) \in g.nodes => v = w
         /\ g.edges[x] > 0
  BY <1>1, <1>4, <1>5, EndsAreNodes
<1>8. QED  BY <1>6, <1>7 DEF Consistent

(* The merge of merge_event keeps both graphs and their consistency.        *)
LEMMA MergeKeeps ==
    ASSUME NEW g \in Graphs, NEW h \in Graphs, Consistent(g), Consistent(h)
    PROVE  /\ Merged(g, h) \in Graphs
           /\ Consistent(Merged(g, h))
           /\ Covers(Merged(g, h), g)
           /\ \A e \in EdgeIds : Merged(g, h).edges[e] = g.edges[e] + h.edges[e]
<1>1. /\ Merged(g, h) \in Graphs
      /\ Merged(g, h).nodes = g.nodes \cup h.nodes
      /\ \A e \in EdgeIds : Merged(g, h).edges[e] = g.edges[e] + h.edges[e]
  BY DEF Merged, Graphs
<1>2. \A e \in EdgeIds : g.edges[e] \in Nat /\ h.edges[e] \in Nat
  BY DEF Graphs
<1>3. \A w \in Writers : <<w, "EXECUTED_IN">> \in EdgeIds
  BY DEF EdgeIds, EdgeKinds
<1>4. Consistent(Merged(g, h))
  BY <1>1, <1>2, <1>3 DEF Consistent
<1>5. QED  BY <1>1, <1>2, <1>4 DEF Covers

-----------------------------------------------------------------------------
(* The inductive invariant.                                                 *)

Merging(w) == pc[w] \in {"loaded", "writing"}

(* How often the edges of run w may have been stored.                       *)
Applied(w) == faults + (IF pc[w] = "done" THEN 1 ELSE 0)

Shape == /\ Consistent(graph)
         /\ \A w \in Writers : Merging(w) => Consistent(mem[w])

Counted ==
    /\ \A e \in EdgeIds : graph.edges[e] <= Applied(e[1])
    /\ \A w \in Writers : Merging(w) =>
          \A e \in EdgeIds :
              mem[w].edges[e] <= Applied(e[1]) + (IF e[1] = w THEN 1 ELSE 0)

(* A writer whose loaded graph is not stale has merged with the stored one. *)
Fresh == \A w \in Writers \ stale : Merging(w) => Covers(mem[w], graph)

(* The file is empty while it is written, unless two writers have it open.  *)
FileInv ==
    /\ \A v, w \in Writers : v # w /\ pc[v] = "writing" /\ pc[w] = "writing" => broken
    /\ \A w \in Writers : pc[w] = "writing" /\ content # "empty" => broken
    /\ content \in {"empty", "torn"} => broken \/ \E w \in Writers : pc[w] = "writing"

IInv == TypeOK /\ Shape /\ Counted /\ Fresh /\ FileInv

LEMMA InitIInv == Init => IInv
<1> SUFFICES ASSUME Init PROVE IInv
  OBVIOUS
<1>1. EmptyGraph \in Graphs /\ EmptyGraph.nodes = {}
      /\ \A e \in EdgeIds : EmptyGraph.edges[e] = 0
  BY DEF EmptyGraph, Graphs
<1>2. \A e \in EdgeIds : e[1] \in Writers
  BY DEF EdgeIds
<1>3. TypeOK
  <2>1. events \in [Writers -> {<< >>, <<"read">>, <<"read", "write">>}]
    BY DEF Init
  <2>2. pc \in [Writers -> PCs] /\ \A w \in Writers : pc[w] # "writing"
    BY DEF Init, PCs
  <2>3. /\ mem \in [Writers -> Graphs] /\ tries \in [Writers -> 0..MaxTries]
        /\ faults \in 0..MaxFaults
    BY <1>1, GraphAssumption DEF Init
  <2>4. \A w \in Writers : Sized(mem[w]) /\ Sized(graph)
    BY <1>1, <1>2 DEF Init, Sized
  <2>5. graph \in Graphs /\ Sized(graph) /\ content \in Contents
    BY <1>1, <1>2 DEF Init, Sized, Contents
  <2>6. store \in Stores /\ stale \subseteq Writers /\ broken \in BOOLEAN
    BY DEF Init
  <2>7. QED  BY <2>1, <2>2, <2>3, <2>4, <2>5, <2>6 DEF TypeOK
<1>4. Shape
  BY <1>1 DEF Init, Shape, Consistent, Merging
<1>5. Counted
  BY <1>1, <1>2 DEF Init, Counted, Merging, Applied
<1>6. Fresh /\ FileInv
  BY DEF Init, Fresh, FileInv, Merging
<1>7. QED  BY <1>3, <1>4, <1>5, <1>6 DEF IInv

(* What a step of merge_event from the load to the save relies on.          *)
LEMMA Facts ==
    ASSUME TypeOK
    PROVE  /\ pc \in [Writers -> PCs] /\ mem \in [Writers -> Graphs] /\ graph \in Graphs
           /\ faults \in Nat
           /\ \A e \in EdgeIds : e[1] \in Writers /\ graph.edges[e] \in Nat
           /\ \A w \in Writers, e \in EdgeIds : mem[w].edges[e] \in Nat
           /\ \A w \in Writers : tries[w] \in Nat /\ Applied(w) \in Nat
<1>1. faults \in Nat /\ \A w \in Writers : Applied(w) \in Nat
  BY GraphAssumption DEF TypeOK, Applied
<1>2. QED  BY <1>1, GraphAssumption DEF TypeOK, EdgeIds, Graphs

LEMMA TypeStep ==
    ASSUME TypeOK, Shape, [Next]_vars
    PROVE  TypeOK'
<1> USE GraphAssumption
<1>0. \A e \in EdgeIds : e[1] \in Writers
  BY DEF EdgeIds
<1>1. ASSUME NEW w \in Writers, TrackRead(w) \/ TrackWrite(w) PROVE TypeOK'
  BY <1>1 DEF TrackRead, TrackWrite, Track, TypeOK, Sized
<1>2. ASSUME NEW w \in Writers, Load(w) PROVE TypeOK'
  <2>1. /\ tries' \in [Writers -> 0..MaxTries] /\ pc' \in [Writers -> PCs]
        /\ tries'[w] = tries[w] + 1
        /\ \A v \in Writers : tries[v] <= tries'[v] /\ tries'[v] \in Nat
        /\ pc' = [pc EXCEPT ![w] = pc'[w]] /\ pc'[w] \in {"loaded", "failed"}
    BY <1>2 DEF Load, SetPC, TypeOK, PCs
  <2>2. UNCHANGED <<store, events, content, faults, graph, broken>> /\ stale' \subseteq stale
    BY <1>2 DEF Load
  <2>3. \A g \in Graphs : Sized(g) => \A e \in EdgeIds : g.edges[e] <= tries'[e[1]]
    BY <1>0, <2>1 DEF Sized, TypeOK, Graphs
  <2>4. mem' \in [Writers -> Graphs]
        /\ \A v \in Writers, e \in EdgeIds : mem'[v].edges[e] <= tries'[e[1]]
    <3>1. CASE mem' = mem
      BY <2>3, <3>1 DEF TypeOK
    <3>2. CASE mem' = [mem EXCEPT ![w] = Merged(graph, ToGraph(w))]
      <4>1. Merged(graph, ToGraph(w)) \in Graphs
            /\ \A e \in EdgeIds : Merged(graph, ToGraph(w)).edges[e]
                                    = graph.edges[e] + ToGraph(w).edges[e]
        BY GraphOfRun, MergeKeeps DEF TypeOK, Shape
      <4>2. \A e \in EdgeIds : graph.edges[e] <= tries[e[1]] /\ graph.edges[e] \in Nat
                               /\ tries[e[1]] \in Nat
        BY <1>0 DEF TypeOK, Sized, Graphs
      <4>3. \A e \in EdgeIds : Merged(graph, ToGraph(w)).edges[e] <= tries'[e[1]]
        <5>1. ASSUME NEW e \in EdgeIds
              PROVE  graph.edges[e] + ToGraph(w).edges[e] <= tries'[e[1]]
          <6>1. CASE e[1] = w
            BY <2>1, <4>2, <6>1, GraphOfRun
          <6>2. CASE e[1] # w
            BY <1>0, <2>1, <4>2, <6>2, GraphOfRun
          <6>3. QED  BY <6>1, <6>2
        <5>2. QED  BY <4>1, <5>1
      <4>4. QED  BY <2>3, <3>2, <4>1, <4>3 DEF TypeOK
    <3>3. QED  BY <1>2, <3>1, <3>2 DEF Load
  <2>5. \A v \in Writers : pc'[v] = "writing" => store' = "file"
    BY <2>1, <2>2 DEF TypeOK
  <2>6. QED
    BY <2>1, <2>2, <2>3, <2>4, <2>5 DEF TypeOK, Sized
<1>3. ASSUME NEW w \in Writers, OpenFile(w) PROVE TypeOK'
  BY <1>3 DEF OpenFile, SetPC, TypeOK, Sized, PCs, Contents
<1>4. ASSUME NEW w \in Writers, WriteFile(w) PROVE TypeOK'
  BY <1>4 DEF WriteFile, Saved, SetPC, TypeOK, Sized, PCs, Contents
<1>5. ASSUME NEW w \in Writers, SetKey(w) PROVE TypeOK'
  BY <1>5 DEF SetKey, Saved, SetPC, TypeOK, Sized, PCs, Contents
<1>6. ASSUME NEW w \in Writers, SetKeyRaises(w) PROVE TypeOK'
  BY <1>6 DEF SetKeyRaises, Saved, SetPC, TypeOK, Sized, PCs, Contents
<1>7. ASSUME NEW w \in Writers, Die(w) PROVE TypeOK'
  BY <1>7 DEF Die, SetPC, TypeOK, Sized, PCs, Contents
<1>10. ASSUME NEW w \in Writers, WriteFileRaises(w) PROVE TypeOK'
  BY <1>10 DEF WriteFileRaises, Saved, SetPC, TypeOK, Sized, PCs, Contents
<1>8. CASE UNCHANGED vars
  BY <1>8 DEF vars, TypeOK, Sized
<1>9. QED
  BY <1>1, <1>2, <1>3, <1>4, <1>5, <1>6, <1>7, <1>8, <1>10 DEF Next

LEMMA InvStep ==
    ASSUME IInv, TypeOK', [Next]_vars
    PROVE  Shape' /\ Counted' /\ Fresh' /\ FileInv'
<1> USE DEF Merging
<1>0. /\ pc \in [Writers -> PCs] /\ mem \in [Writers -> Graphs] /\ graph \in Graphs
      /\ faults \in Nat
      /\ \A e \in EdgeIds : e[1] \in Writers /\ graph.edges[e] \in Nat
      /\ \A w \in Writers, e \in EdgeIds : mem[w].edges[e] \in Nat
      /\ \A w \in Writers : Applied(w) \in Nat
      /\ broken \in BOOLEAN
      /\ \A w \in Writers : pc[w] = "writing" => store = "file"
  BY Facts DEF IInv, TypeOK
<1> USE DEF IInv
(* Nothing but the events changes.                                          *)
<1>1. CASE UNCHANGED <<store, pc, mem, content, graph, faults, stale, broken>>
  BY <1>1 DEF Shape, Consistent, Counted, Applied, Fresh, Covers, FileInv
<1>2. ASSUME NEW w \in Writers, Load(w)
      PROVE  Shape' /\ Counted' /\ Fresh' /\ FileInv'
  <2> DEFINE M == Merged(graph, ToGraph(w))
  <2>1. /\ pc' = [pc EXCEPT ![w] = pc'[w]] /\ pc'[w] \in {"loaded", "failed"}
        /\ pc[w] \in {"run", "failed"}
        /\ UNCHANGED <<store, content, graph, faults, broken>>
    BY <1>0, <1>2 DEF Load, SetPC
  <2>2. \A v \in Writers : Applied(v)' = Applied(v)
    BY <1>0, <2>1 DEF Applied
  <2>3. FileInv'
    BY <1>0, <2>1 DEF FileInv
  <2>4. CASE pc'[w] = "failed"
    <3>1. mem' = mem /\ stale' = stale
      BY <1>0, <1>2, <2>4 DEF Load, SetPC
    <3>2. \A v \in Writers : Merging(v)' => Merging(v)
      BY <1>0, <2>1, <2>4
    <3>3. Shape' /\ Counted' /\ Fresh'
      BY <1>0, <2>1, <2>2, <3>1, <3>2 DEF Shape, Consistent, Counted, Fresh, Covers
    <3>4. QED  BY <2>3, <3>3
  <2>5. CASE pc'[w] = "loaded"
    <3>1. mem' = [mem EXCEPT ![w] = M] /\ stale' = stale \ {w}
      BY <1>0, <1>2, <2>1, <2>5 DEF Load, SetPC
    <3>2. /\ M \in Graphs /\ Consistent(M) /\ Covers(M, graph)
          /\ \A e \in EdgeIds : M.edges[e] = graph.edges[e] + ToGraph(w).edges[e]
      BY <1>0, GraphOfRun, MergeKeeps DEF Shape
    <3>3. \A e \in EdgeIds : M.edges[e] <= Applied(e[1]) + (IF e[1] = w THEN 1 ELSE 0)
      BY <1>0, <3>2, GraphOfRun DEF Counted
    <3> HIDE DEF M
    <3>4. \A v \in Writers : v # w => mem'[v] = mem[v] /\ (Merging(v)' <=> Merging(v))
      BY <1>0, <2>1, <3>1
    <3>5. mem'[w] = M
      BY <1>0, <3>1
    <3>6. Shape'
      BY <2>1, <3>2, <3>4, <3>5 DEF Shape, Consistent
    <3>7. Counted'
      BY <1>0, <2>1, <2>2, <3>3, <3>4, <3>5 DEF Counted
    <3>8. Fresh'
      BY <2>1, <3>1, <3>2, <3>4, <3>5 DEF Fresh, Covers
    <3>9. QED  BY <2>3, <3>6, <3>7, <3>8
  <2>6. QED  BY <2>1, <2>4, <2>5
<1>3. ASSUME NEW w \in Writers, OpenFile(w)
      PROVE  Shape' /\ Counted' /\ Fresh' /\ FileInv'
  <2>1. /\ pc' = [pc EXCEPT ![w] = "writing"] /\ pc[w] = "loaded"
        /\ stale' = stale \cup (Writers \ {w}) /\ content' = "empty"
        /\ UNCHANGED <<store, mem, graph, faults>>
        /\ broken' = (broken \/ \E v \in Writers : pc[v] = "writing")
    BY <1>3 DEF OpenFile, SetPC
  <2>2. \A v \in Writers : Applied(v)' = Applied(v) /\ (Merging(v)' <=> Merging(v))
    BY <1>0, <2>1 DEF Applied
  <2>3. Shape' /\ Counted' /\ Fresh'
    BY <1>0, <2>1, <2>2 DEF Shape, Consistent, Counted, Fresh, Covers
  <2>4. FileInv'
    BY <1>0, <2>1 DEF FileInv
  <2>5. QED  BY <2>3, <2>4
(* A save: the graph of w becomes the stored one.                           *)
<1>4. ASSUME NEW w \in Writers, Merging(w), graph' = mem[w], mem' = mem,
             stale' = stale \cup (Writers \ {w}),
             pc' = [pc EXCEPT ![w] = pc'[w]], ~Merging(w)',
             \A v \in Writers : Applied(v)' \in Nat /\ Applied(v) <= Applied(v)',
             Applied(w) + 1 <= Applied(w)'
      PROVE  Shape' /\ Counted' /\ Fresh'
  <2>1. \A v \in Writers : Merging(v)' => Merging(v) /\ v # w
    BY <1>0, <1>4
  <2>2. Shape'
    BY <1>4, <2>1 DEF Shape, Consistent
  <2>3. Counted'
    <3>1. ASSUME NEW e \in EdgeIds PROVE graph'.edges[e] <= Applied(e[1])'
      <4>1. /\ mem[w].edges[e] <= Applied(e[1]) + (IF e[1] = w THEN 1 ELSE 0)
            /\ Applied(e[1]) \in Nat /\ mem[w].edges[e] \in Nat /\ e[1] \in Writers
        BY <1>0, <1>4 DEF Counted
      <4>2. QED  BY <1>4, <4>1
    <3>2. ASSUME NEW v \in Writers, Merging(v)', NEW e \in EdgeIds
          PROVE  mem'[v].edges[e] <= Applied(e[1])' + (IF e[1] = v THEN 1 ELSE 0)
      <4>1. /\ mem[v].edges[e] <= Applied(e[1]) + (IF e[1] = v THEN 1 ELSE 0)
            /\ Applied(e[1]) \in Nat /\ mem[v].edges[e] \in Nat /\ e[1] \in Writers
        BY <1>0, <2>1, <3>2 DEF Counted
      <4>2. QED  BY <1>4, <4>1
    <3>3. QED  BY <3>1, <3>2 DEF Counted
  <2>4. Fresh'
    BY <1>4, <2>1 DEF Fresh
  <2>5. QED  BY <2>2, <2>3, <2>4
(* A writer leaves the merge and the stored graph stays.                    *)
<1>5. ASSUME NEW w \in Writers, graph' = graph, mem' = mem, stale' = stale,
             pc' = [pc EXCEPT ![w] = pc'[w]], ~Merging(w)',
             \A v \in Writers : Applied(v)' \in Nat /\ Applied(v) <= Applied(v)'
      PROVE  Shape' /\ Counted' /\ Fresh'
  <2>1. \A v \in Writers : Merging(v)' => Merging(v)
    BY <1>0, <1>5
  <2>2. Shape'
    BY <1>5, <2>1 DEF Shape, Consistent
  <2>3. Counted'
    <3>1. ASSUME NEW e \in EdgeIds PROVE graph'.edges[e] <= Applied(e[1])'
      BY <1>0, <1>5 DEF Counted
    <3>2. ASSUME NEW v \in Writers, Merging(v)', NEW e \in EdgeIds
          PROVE  mem'[v].edges[e] <= Applied(e[1])' + (IF e[1] = v THEN 1 ELSE 0)
      <4>1. /\ mem[v].edges[e] <= Applied(e[1]) + (IF e[1] = v THEN 1 ELSE 0)
            /\ Applied(e[1]) \in Nat /\ mem[v].edges[e] \in Nat /\ e[1] \in Writers
        BY <1>0, <2>1, <3>2 DEF Counted
      <4>2. QED  BY <1>5, <4>1
    <3>3. QED  BY <3>1, <3>2 DEF Counted
  <2>4. Fresh'
    BY <1>5, <2>1 DEF Fresh, Covers
  <2>5. QED  BY <2>2, <2>3, <2>4
<1>6. ASSUME NEW w \in Writers, WriteFile(w)
      PROVE  Shape' /\ Counted' /\ Fresh' /\ FileInv'
  <2>1. /\ pc' = [pc EXCEPT ![w] = "done"] /\ pc[w] = "writing" /\ mem' = mem
        /\ UNCHANGED <<store, faults, broken>>
        /\ \/ Saved(w)
           \/ content # "empty" /\ content' = "torn" /\ UNCHANGED <<graph, stale>>
    BY <1>6 DEF WriteFile, SetPC
  <2>2. /\ \A v \in Writers : Applied(v)' \in Nat /\ Applied(v) <= Applied(v)'
        /\ Applied(w) + 1 <= Applied(w)'
    BY <1>0, <2>1 DEF Applied
  <2>3. Merging(w) /\ ~Merging(w)' /\ pc' = [pc EXCEPT ![w] = pc'[w]]
    BY <1>0, <2>1
  <2>4. Shape' /\ Counted' /\ Fresh'
    <3>1. CASE Saved(w)
      BY <1>4, <2>1, <2>2, <2>3, <3>1 DEF Saved
    <3>2. CASE UNCHANGED <<graph, stale>>
      BY <1>5, <2>1, <2>2, <2>3, <3>2
    <3>3. QED  BY <2>1, <3>1, <3>2
  <2>5. FileInv'
    BY <1>0, <2>1 DEF FileInv, Saved
  <2>6. QED  BY <2>4, <2>5
<1>7. ASSUME NEW w \in Writers, SetKey(w) \/ SetKeyRaises(w)
      PROVE  Shape' /\ Counted' /\ Fresh' /\ FileInv'
  <2>1. /\ pc' = [pc EXCEPT ![w] = pc'[w]] /\ pc[w] = "loaded" /\ mem' = mem
        /\ store = "redis" /\ UNCHANGED <<store, broken>>
        /\ Saved(w) \/ UNCHANGED <<content, graph, stale>>
        /\ \/ pc'[w] = "done" /\ faults' = faults
           \/ pc'[w] = "failed" /\ faults' = faults + 1
    BY <1>0, <1>7 DEF SetKey, SetKeyRaises, SetPC
  <2>2. /\ \A v \in Writers : Applied(v)' \in Nat /\ Applied(v) <= Applied(v)'
        /\ Applied(w) + 1 <= Applied(w)'
    BY <1>0, <2>1 DEF Applied
  <2>3. Merging(w) /\ ~Merging(w)'
    BY <1>0, <2>1
  <2>4. Shape' /\ Counted' /\ Fresh'
    <3>1. CASE Saved(w)
      BY <1>4, <2>1, <2>2, <2>3, <3>1 DEF Saved
    <3>2. CASE UNCHANGED <<graph, stale>>
      BY <1>5, <2>1, <2>2, <2>3, <3>2
    <3>3. QED  BY <2>1, <3>1, <3>2
  <2>5. FileInv'
    BY <1>0, <2>1 DEF FileInv, Saved
  <2>6. QED  BY <2>4, <2>5
<1>8. ASSUME NEW w \in Writers, Die(w)
      PROVE  Shape' /\ Counted' /\ Fresh' /\ FileInv'
  <2>1. /\ pc' = [pc EXCEPT ![w] = "dead"] /\ pc[w] \in {"loaded", "writing"}
        /\ faults' = faults + 1 /\ broken' = (broken \/ pc[w] = "writing")
        /\ content' \in {content} \cup (IF pc[w] = "writing" THEN {"torn"} ELSE {})
        /\ UNCHANGED <<store, mem, graph, stale>>
    BY <1>8 DEF Die, SetPC
  <2>2. \A v \in Writers : Applied(v)' \in Nat /\ Applied(v) <= Applied(v)'
    BY <1>0, <2>1 DEF Applied
  <2>3. ~Merging(w)' /\ pc' = [pc EXCEPT ![w] = pc'[w]]
    BY <1>0, <2>1
  <2>4. Shape' /\ Counted' /\ Fresh'
    BY <1>5, <2>1, <2>2, <2>3
  <2>5. FileInv'
    BY <1>0, <2>1 DEF FileInv
  <2>6. QED  BY <2>4, <2>5
<1>11. ASSUME NEW w \in Writers, WriteFileRaises(w)
       PROVE  Shape' /\ Counted' /\ Fresh' /\ FileInv'
  <2>1. /\ pc' = [pc EXCEPT ![w] = "failed"] /\ pc[w] = "writing" /\ mem' = mem
        /\ faults' = faults + 1 /\ broken' = TRUE /\ UNCHANGED store
        /\ Saved(w) \/ UNCHANGED <<graph, stale>>
    BY <1>11 DEF WriteFileRaises, SetPC
  <2>2. /\ \A v \in Writers : Applied(v)' \in Nat /\ Applied(v) <= Applied(v)'
        /\ Applied(w) + 1 <= Applied(w)'
    BY <1>0, <2>1 DEF Applied
  <2>3. Merging(w) /\ ~Merging(w)' /\ pc' = [pc EXCEPT ![w] = pc'[w]]
    BY <1>0, <2>1
  <2>4. Shape' /\ Counted' /\ Fresh'
    <3>1. CASE Saved(w)
      BY <1>4, <2>1, <2>2, <2>3, <3>1 DEF Saved
    <3>2. CASE UNCHANGED <<graph, stale>>
      BY <1>5, <2>1, <2>2, <2>3, <3>2
    <3>3. QED  BY <2>1, <3>1, <3>2
  <2>5. FileInv'
    BY <2>1 DEF FileInv
  <2>6. QED  BY <2>4, <2>5
<1>9. ASSUME NEW w \in Writers, TrackRead(w) \/ TrackWrite(w)
      PROVE  UNCHANGED <<store, pc, mem, content, graph, faults, stale, broken>>
  BY <1>9 DEF TrackRead, TrackWrite, Track
<1>10. QED
  BY <1>1, <1>2, <1>3, <1>6, <1>7, <1>8, <1>9, <1>11 DEF Next, vars

LEMMA InvariantHolds == Spec => []IInv
<1>1. IInv /\ [Next]_vars => IInv'
  BY TypeStep, InvStep DEF IInv
<1>2. QED  BY <1>1, InitIInv, PTL DEF Spec

-----------------------------------------------------------------------------
(* TypeOK for any runs: merge_event stores an edge of a run at most as      *)
(* often as it was called for the run.                                      *)
THEOREM TypeCorrect == Spec => []TypeOK
<1>1. IInv => TypeOK  BY DEF IInv
<1>2. QED  BY <1>1, InvariantHolds, PTL

(* The stored graph is sound for any runs, overlaps, deaths and failing     *)
(* calls (lineage/graph/store.py:94-104): no dangling edges, every run on   *)
(* its pipe, and no edge twice but after a save that raised.                *)
THEOREM StoredGraphIsSound == Spec => []StoredGraphSound
<1>1. IInv => StoredGraphSound
  <2> SUFFICES ASSUME IInv PROVE StoredGraphSound
    OBVIOUS
  <2>1. \A e \in EdgeIds : graph.edges[e] <= 1 + faults
    <3>1. \A e \in EdgeIds : e[1] \in Writers /\ graph.edges[e] \in Nat
          /\ faults \in Nat /\ graph.edges[e] <= Applied(e[1])
      BY Facts DEF IInv, Counted
    <3>2. QED  BY <3>1 DEF Applied
  <2>2. QED  BY <2>1 DEF IInv, Shape, Consistent, StoredGraphSound
<1>2. QED  BY <1>1, InvariantHolds, PTL

(* The file can be read at rest (lineage/graph/store.py:85-87) unless two   *)
(* saves overlapped or one was cut short by an exception or a death.        *)
THEOREM FileIsReadableAtRest == Spec => []ReadableAtRest
<1>1. IInv => ReadableAtRest  BY DEF IInv, FileInv, ReadableAtRest
<1>2. QED  BY <1>1, InvariantHolds, PTL

(* Nothing that is stored gets lost, unless another save came between the   *)
(* load and the save of one merge_event (store.py:76).                      *)
THEOREM LossOnlyByOverlap == Spec => LossNeedsOverlap
<1>1. IInv /\ [Next]_vars =>
        [\A w \in Writers \ stale : pc[w] \in {"loaded", "writing"} /\ pc'[w] # pc[w] =>
            /\ graph.nodes \subseteq graph'.nodes
            /\ \A e \in EdgeIds : graph.edges[e] <= graph'.edges[e]]_vars
  <2> SUFFICES ASSUME IInv, Next, NEW w \in Writers \ stale,
                      pc[w] \in {"loaded", "writing"}, pc'[w] # pc[w]
               PROVE  Covers(graph', graph)
    BY DEF Covers
  <2>1. pc \in [Writers -> PCs] /\ \A e \in EdgeIds : graph.edges[e] \in Nat
    BY Facts DEF IInv
  <2>2. CASE graph' = graph
    BY <2>1, <2>2 DEF Covers
  <2>3. ASSUME NEW v \in Writers, graph' = mem[v], pc' = [pc EXCEPT ![v] = pc'[v]]
        PROVE  Covers(graph', graph)
    <3>1. v = w
      BY <2>1, <2>3
    <3>2. QED  BY <2>3, <3>1 DEF IInv, Fresh, Merging
  <2>4. PICK v \in Writers : \/ TrackRead(v) \/ TrackWrite(v) \/ Load(v) \/ OpenFile(v)
                             \/ WriteFile(v) \/ WriteFileRaises(v)
                             \/ SetKey(v) \/ SetKeyRaises(v) \/ Die(v)
    BY DEF Next
  <2>5. CASE TrackRead(v) \/ TrackWrite(v) \/ Load(v) \/ OpenFile(v) \/ Die(v)
    BY <2>2, <2>5 DEF TrackRead, TrackWrite, Track, Load, OpenFile, Die
  <2>6. CASE WriteFile(v) \/ WriteFileRaises(v) \/ SetKey(v) \/ SetKeyRaises(v)
    <3>1. pc' = [pc EXCEPT ![v] = pc'[v]]
      BY <2>1, <2>6 DEF WriteFile, WriteFileRaises, SetKey, SetKeyRaises, SetPC
    <3>2. graph' = graph \/ graph' = mem[v]
      BY <2>6 DEF WriteFile, WriteFileRaises, SetKey, SetKeyRaises, Saved
    <3>3. QED  BY <2>2, <2>3, <3>1, <3>2
  <2>7. QED  BY <2>4, <2>5, <2>6
<1>2. QED  BY <1>1, InvariantHolds, PTL DEF Spec, LossNeedsOverlap
=============================================================================
