--------------------------- MODULE ApiServerProofs ---------------------------
(***************************************************************************)
(* The API server for any numbers of requests, threads, rows, faults and   *)
(* secret values: types, what pipes are registered, what a run starts      *)
(* from, and the connections that runs share.                              *)
(***************************************************************************)
EXTENDS ApiServer, FiniteSetTheorems, SequenceTheorems, TLAPS

Building == {"building", "built", "absent"}
Ending   == {"closing", "halfclosed", "closed", "done"}

(* Where a request stands, and what it has by then.                         *)
Control ==
    /\ \A r \in Requests :
          /\ pc[r] \in Phases => job[r] \in Jobs /\ obj[r] \in Objs
          /\ pc[r] = "reading" \/ ok[r] => bm[r] # NoOne
          /\ ok[r] => pc[r] \in Ending
          /\ pc[r] \in Building => job[r] = "create"
          /\ bm[r] # NoOne => pc[bm[r]] # "new"
    /\ store # NoOne => pc[store] # "new"

InTable(n) == \E o \in Objs : n \in live[o]

(* The rows up to a value are in the table of a pipe.                       *)
Below(v) == \A n \in Rows : n <= v => InTable(n)

Copied ==
    /\ \A b \in Requests : Below(val[b])
    /\ \A p \in points : Below(p.value)
    /\ \A r \in Requests :
          pc[r] = "reading" /\ job[r] \in {"run", "replace"} => Below(pos[r])

(* A creation that was not raced.                                           *)
Created ==
    /\ \A r \in Requests \ raced :
          /\ pc[r] = "building" => built[r][1] = secret
          /\ pc[r] \in {"built", "absent"} => built[r][1] = built[r][2]
          /\ pc[r] = "absent" => registry = NoOne
    /\ \A r, q \in Requests :
          r # q /\ pc[r] \in Building /\ pc[q] \in Building => r \in raced /\ q \in raced

(* Runs that share a pipe or a Bookmark object know of it.                  *)
Separate ==
    \A r, q \in Requests :
        /\ r # q /\ pc[r] \in Phases /\ pc[q] \in Phases
        /\ obj[r] = obj[q] \/ (bm[r] # NoOne /\ bm[r] = bm[q])
        => r \in shared /\ q \in shared

InStep == \A r \in Requests \ shared :
              pc[r] = "reading" /\ job[r] = "run" => val[bm[r]] = pos[r]

(* Every connection that is kept was opened by a run of the same pipe, and  *)
(* a run that is alone has its own from the setup to the teardown.          *)
Kept ==
    /\ \A o \in Objs : sourceConn[o] # NoOne =>
          obj[sourceConn[o]] = o /\ pc[sourceConn[o]] # "new"
    /\ \A o \in Objs : sinkConn[o] # NoOne =>
          obj[sinkConn[o]] = o /\ pc[sinkConn[o]] # "new"
    /\ \A q \in Requests : sinkConn[Startup + q] # NoOne =>
          /\ pc[q] # "new" /\ pc[sinkConn[Startup + q]] # "new"
          /\ obj[sinkConn[Startup + q]] = obj[q]
    /\ \A c \in open : pc[c[2]] \notin {"new", "begun"}

Alike(r) ==
    /\ pc[r] \in {"source", "sink", "reading"} =>
          sourceConn[obj[r]] = r /\ <<"source", r>> \in open
    /\ pc[r] \in {"sink", "reading"} /\ SinkOf(r) # NoOne =>
          sinkConn[SinkOf(r)] = r /\ <<"sink", r>> \in open
    /\ pc[r] = "reading" => cursor[r] = r

Clean(r) ==
    /\ <<"source", r>> \in open =>
          /\ sourceConn[obj[r]] = r
          /\ pc[r] \in {"source", "sink", "reading", "closing", "halfclosed"}
    /\ <<"sink", r>> \in open =>
          /\ SinkOf(r) # NoOne /\ sinkConn[SinkOf(r)] = r
          /\ pc[r] \in {"sink", "reading", "closing"}

Own ==
    /\ \A r \in Requests \ shared : Alike(r)
    /\ \A r \in Requests \ (shared \cup leaked) : Clean(r)

-----------------------------------------------------------------------------
LEMMA Numbers ==
    /\ MaxRequests \in Nat /\ Startup \in Nat /\ NumRows \in Nat /\ MaxFaults \in Nat
    /\ \A r \in Requests : r \in Objs /\ r \in Nat /\ r # NoOne /\ Startup + r \in Sinks
                           /\ Startup + r \notin Objs /\ Startup + r # NoOne
    /\ Startup \in Objs /\ \A o \in Objs : o \in Nat /\ o # NoOne /\ o \in Sinks
    /\ \A r, q \in Requests : Startup + r = Startup + q => r = q
    /\ NoOne \notin Requests
    /\ IsFiniteSet(Requests)
BY ServerAssumption, FS_Interval DEF Requests, Startup, Objs, Sinks, NoOne

(* At most MaxActive requests are served at a time.                         *)
LEMMA OneMoreActive ==
    ASSUME TypeOK, NEW r \in Requests, Arrives(r), NEW p, pc' = [pc EXCEPT ![r] = p]
    PROVE  Cardinality(Active') <= MaxActive
<1>1. IsFiniteSet(Active) /\ Active' \subseteq Active \cup {r}
  BY Numbers, FS_Subset DEF Active, TypeOK, RunTypes
<1>2. /\ IsFiniteSet(Active \cup {r}) /\ Cardinality(Active) \in Nat
      /\ Cardinality(Active \cup {r}) <= Cardinality(Active) + 1
  <2>1. IsFiniteSet(Active \cup {r})
    BY <1>1, FS_AddElement
  <2>2. Cardinality(Active \cup {r}) \in {Cardinality(Active), Cardinality(Active) + 1}
    BY <1>1, FS_AddElement
  <2>3. QED  BY <1>1, <2>1, <2>2, FS_CardinalityType
<1>3. /\ Cardinality(Active') <= Cardinality(Active \cup {r})
      /\ Cardinality(Active') \in Nat /\ Cardinality(Active \cup {r}) \in Nat
  BY <1>1, <1>2, FS_Subset, FS_CardinalityType
<1>4. Cardinality(Active) < MaxActive /\ MaxActive \in Nat
  BY ServerAssumption DEF Arrives
<1>5. QED  BY <1>2, <1>3, <1>4

LEMMA NoMoreActive ==
    ASSUME TypeOK, NEW r \in Requests, pc[r] \in PCs \ {"new", "done"},
           NEW p, pc' = [pc EXCEPT ![r] = p]
    PROVE  Cardinality(Active') <= MaxActive
<1>1. IsFiniteSet(Active) /\ Active' \subseteq Active
  BY Numbers, FS_Subset DEF Active, TypeOK, RunTypes
<1>2. /\ Cardinality(Active') <= Cardinality(Active)
      /\ Cardinality(Active') \in Nat /\ Cardinality(Active) \in Nat
  BY <1>1, FS_Subset, FS_CardinalityType
<1>3. QED  BY <1>2, ServerAssumption DEF TypeOK

LEMMA BeginTypes ==
    ASSUME RunTypes, NEW r \in Requests, NEW j \in Jobs, NEW o \in Objs,
           NEW b \in {NoOne} \cup Requests, Begin(r, j, o, b)
    PROVE  RunTypes'
<1> DEFINE others == {q \in Running : obj[q] = o \/ (b # NoOne /\ bm[q] = b)}
<1>1. shared' = shared \cup others \cup {q \in {r} : others # {}}
  BY DEF Begin
<1>2. others \subseteq Requests
  BY DEF Running
<1>3. shared' \subseteq Requests
  BY <1>1, <1>2 DEF RunTypes
<1>4. /\ pc' = [pc EXCEPT ![r] = "begun"] /\ job' = [job EXCEPT ![r] = j]
      /\ obj' = [obj EXCEPT ![r] = o] /\ bm' = [bm EXCEPT ![r] = b]
      /\ UNCHANGED <<ok, faults, leaked>>
  BY DEF Begin, SetPC
<1>5. QED  BY <1>3, <1>4 DEF RunTypes, PCs, Phases

LEMMA TypeStep ==
    ASSUME TypeOK, Control, [Next]_vars
    PROVE  TypeOK'
<1> USE DEF pipes, reads, conns, links, results, tables, traces, runs, SetPC
<1>0. /\ MaxRequests \in Nat /\ Startup \in Nat /\ NumRows \in Nat /\ MaxFaults \in Nat
      /\ \A r \in Requests : r \in Objs /\ r # NoOne /\ Startup + r \in Sinks
      /\ Startup \in Objs /\ NoOne \notin Requests
      /\ \A o \in Objs : o \in Sinks /\ o # NoOne
      /\ PipeTypes /\ RunTypes /\ ReadTypes /\ LinkTypes /\ ResultTypes /\ TableTypes
      /\ \A r \in Requests : ok[r] => pos[r] >= last[r]
  BY Numbers DEF TypeOK
<1> DEFINE Ended == \A r \in Requests : ok[r] => pos[r] >= last[r]
<1>1. CASE Insert \/ UNCHANGED vars
  <2>1. Active' = Active
    BY <1>1 DEF Insert, vars, Active
  <2>2. Cardinality(Active') <= MaxActive
    BY <2>1 DEF TypeOK
  <2>3. UNCHANGED <<pos, last, ok>>
    BY <1>1 DEF Insert, vars
  <2>4. Ended'
    BY <1>0, <2>3
  <2>5. PipeTypes' /\ RunTypes' /\ LinkTypes' /\ ResultTypes' /\ TableTypes'
    BY <1>0, <1>1 DEF Insert, vars, PipeTypes, RunTypes, ReadTypes, LinkTypes, ResultTypes, TableTypes
  <2>6. ReadTypes'
    BY <1>0, <1>1 DEF Insert, vars, ReadTypes
  <2>7. QED  BY <2>2, <2>4, <2>5, <2>6 DEF TypeOK
<1>2. ASSUME NEW r \in Requests, PutSecret(r) PROVE TypeOK'
  <2>1. Cardinality(Active') <= MaxActive
    BY <1>2, OneMoreActive DEF PutSecret
  <2>2. ReadTypes' /\ LinkTypes' /\ ResultTypes' /\ TableTypes'
    BY <1>0, <1>2 DEF PutSecret, Arrives, ReadTypes, LinkTypes, ResultTypes, TableTypes
  <2>3. PipeTypes'
    BY <1>0, <1>2 DEF PutSecret, Arrives, PipeTypes
  <2>4. RunTypes'
    BY <1>0, <1>2 DEF PutSecret, Arrives, RunTypes, PCs, Phases, Jobs, Strategies, Admin
  <2>5. Ended'
    BY <1>0, <1>2 DEF PutSecret, Arrives, RunTypes, ReadTypes, Control, Ending
  <2>6. QED  BY <2>1, <2>2, <2>3, <2>4, <2>5 DEF TypeOK
<1>3. ASSUME NEW r \in Requests, ResolveSource(r) PROVE TypeOK'
  <2>1. Cardinality(Active') <= MaxActive
    BY <1>3, OneMoreActive DEF ResolveSource
  <2>2. ReadTypes' /\ LinkTypes' /\ ResultTypes' /\ TableTypes'
    BY <1>0, <1>3 DEF ResolveSource, Arrives, ReadTypes, LinkTypes, ResultTypes, TableTypes
  <2>3. PipeTypes'
    <3>1. <<secret, 0>> \in (0..MaxSecret) \X (0..MaxSecret)
      BY ServerAssumption, <1>0 DEF PipeTypes
    <3>2. built' \in [Objs -> (0..MaxSecret) \X (0..MaxSecret)]
      BY <1>0, <1>3, <3>1 DEF ResolveSource, PipeTypes
    <3>3. config' \in [Objs -> Configs]
      BY <1>0, <1>3 DEF ResolveSource, PipeTypes
    <3>4. raced' \subseteq Requests
      BY <1>0, <1>3 DEF ResolveSource, PipeTypes, Active
    <3>5. QED  BY <1>0, <1>3, <3>2, <3>3, <3>4 DEF ResolveSource, PipeTypes
  <2>4. RunTypes'
    BY <1>0, <1>3 DEF ResolveSource, Arrives, RunTypes, PCs, Phases, Jobs, Strategies, Admin
  <2>5. Ended'
    BY <1>0, <1>3 DEF ResolveSource, Arrives, RunTypes, ReadTypes, Control, Ending
  <2>6. QED  BY <2>1, <2>2, <2>3, <2>4, <2>5 DEF TypeOK
<1>4. ASSUME NEW r \in Requests, ResolveSink(r) PROVE TypeOK'
  <2>1. Cardinality(Active') <= MaxActive
    BY <1>4, NoMoreActive DEF ResolveSink, PCs, Phases
  <2>2. ReadTypes' /\ LinkTypes' /\ ResultTypes' /\ TableTypes'
    BY <1>0, <1>4 DEF ResolveSink, ReadTypes, LinkTypes, ResultTypes, TableTypes
  <2>3. PipeTypes'
    BY <1>0, <1>4 DEF ResolveSink, PipeTypes
  <2>4. RunTypes'
    BY <1>0, <1>4 DEF ResolveSink, RunTypes, PCs, Phases, Jobs, Strategies, Admin
  <2>5. Ended'
    BY <1>0, <1>4 DEF ResolveSink, RunTypes, ReadTypes, Control, Ending
  <2>6. QED  BY <2>1, <2>2, <2>3, <2>4, <2>5 DEF TypeOK
<1>5. ASSUME NEW r \in Requests, CheckAbsent(r) PROVE TypeOK'
  <2>1. Cardinality(Active') <= MaxActive
    BY <1>5, NoMoreActive DEF CheckAbsent, PCs, Phases
  <2>2. PipeTypes' /\ ReadTypes' /\ LinkTypes' /\ ResultTypes' /\ TableTypes'
    BY <1>0, <1>5 DEF CheckAbsent, PipeTypes, ReadTypes, LinkTypes, ResultTypes, TableTypes
  <2>3. RunTypes'
    BY <1>0, <1>5 DEF CheckAbsent, RunTypes, PCs, Phases, Jobs, Strategies, Admin
  <2>4. Ended'
    BY <1>0, <1>5 DEF CheckAbsent, RunTypes, ReadTypes, Control, Ending
  <2>5. QED  BY <2>1, <2>2, <2>3, <2>4 DEF TypeOK
<1>6. ASSUME NEW r \in Requests, Register(r) PROVE TypeOK'
  <2>1. Cardinality(Active') <= MaxActive
    BY <1>6, NoMoreActive DEF Register, PCs, Phases
  <2>2. ReadTypes' /\ LinkTypes' /\ ResultTypes' /\ TableTypes'
    BY <1>0, <1>6 DEF Register, ReadTypes, LinkTypes, ResultTypes, TableTypes
  <2>3. PipeTypes'
    BY <1>0, <1>6 DEF Register, PipeTypes
  <2>4. RunTypes'
    BY <1>0, <1>6 DEF Register, RunTypes, PCs, Phases, Jobs, Strategies, Admin
  <2>5. Ended'
    BY <1>0, <1>6 DEF Register, RunTypes, ReadTypes, Control, Ending
  <2>6. QED  BY <2>1, <2>2, <2>3, <2>4, <2>5 DEF TypeOK
<1>7. ASSUME NEW r \in Requests, LookUp(r) PROVE TypeOK'
  <2>1. Cardinality(Active') <= MaxActive
    BY <1>7, OneMoreActive DEF LookUp
  <2>2. PipeTypes' /\ ReadTypes' /\ LinkTypes' /\ ResultTypes' /\ TableTypes'
    BY <1>0, <1>7 DEF LookUp, Arrives, PipeTypes, ReadTypes, LinkTypes, ResultTypes, TableTypes
  <2>3. RunTypes'
    BY <1>0, <1>7 DEF LookUp, Arrives, RunTypes, PCs, Phases, Jobs, Strategies, Admin
  <2>4. Ended'
    BY <1>0, <1>7 DEF LookUp, Arrives, RunTypes, ReadTypes, Control, Ending
  <2>5. QED  BY <2>1, <2>2, <2>3, <2>4 DEF TypeOK
<1>8. ASSUME NEW r \in Requests, DeletePipe(r) PROVE TypeOK'
  <2>1. Cardinality(Active') <= MaxActive
    BY <1>8, NoMoreActive DEF DeletePipe, PCs, Phases
  <2>2. ReadTypes' /\ LinkTypes' /\ ResultTypes' /\ TableTypes'
    BY <1>0, <1>8 DEF DeletePipe, ReadTypes, LinkTypes, ResultTypes, TableTypes
  <2>3. PipeTypes'
    BY <1>0, <1>8 DEF DeletePipe, PipeTypes
  <2>4. RunTypes'
    BY <1>0, <1>8 DEF DeletePipe, RunTypes, PCs, Phases, Jobs, Strategies, Admin
  <2>5. Ended'
    BY <1>0, <1>8 DEF DeletePipe, RunTypes, ReadTypes, Control, Ending
  <2>6. QED  BY <2>1, <2>2, <2>3, <2>4, <2>5 DEF TypeOK
<1>9. ASSUME NEW r \in Requests, ResetBookmark(r) PROVE TypeOK'
  <2>1. Cardinality(Active') <= MaxActive
    BY <1>9, NoMoreActive DEF ResetBookmark, PCs, Phases
  <2>2. PipeTypes' /\ ReadTypes' /\ LinkTypes' /\ TableTypes'
    BY <1>0, <1>9 DEF ResetBookmark, PipeTypes, ReadTypes, LinkTypes, TableTypes
  <2>3. RunTypes'
    BY <1>0, <1>9 DEF ResetBookmark, RunTypes, PCs, Phases, Jobs, Strategies, Admin
  <2>4. ResultTypes'
    BY <1>0, <1>9 DEF ResetBookmark, ResultTypes, RunTypes, PipeTypes, ReadTypes, Control, Phases, Points
  <2>5. Ended'
    BY <1>0, <1>9 DEF ResetBookmark, RunTypes, ReadTypes, Control, Ending
  <2>6. QED  BY <2>1, <2>2, <2>3, <2>4, <2>5 DEF TypeOK
<1>10. ASSUME NEW r \in Requests, StartRun(r) PROVE TypeOK'
  <2>1. Cardinality(Active') <= MaxActive
    BY <1>10, OneMoreActive DEF StartRun, Begin
  <2>2. PipeTypes' /\ ReadTypes' /\ LinkTypes' /\ ResultTypes' /\ TableTypes'
    BY <1>0, <1>10 DEF StartRun, Begin, Arrives, PipeTypes, ReadTypes, LinkTypes, ResultTypes, TableTypes
  <2>3. RunTypes'
    BY <1>0, <1>10, BeginTypes DEF StartRun, PipeTypes, ResultTypes, Jobs
  <2>4. Ended'
    BY <1>0, <1>10 DEF StartRun, Begin, Arrives, RunTypes, ReadTypes, Control, Ending
  <2>5. QED  BY <2>1, <2>2, <2>3, <2>4 DEF TypeOK
<1>11. ASSUME NEW r \in Requests, StartReplay(r) PROVE TypeOK'
  <2>1. Cardinality(Active') <= MaxActive
    BY <1>11, OneMoreActive DEF StartReplay, Begin
  <2>2. PipeTypes' /\ ResultTypes' /\ TableTypes'
    BY <1>0, <1>11 DEF StartReplay, Begin, Arrives, PipeTypes, ResultTypes, TableTypes
  <2>3. RunTypes'
    BY <1>0, <1>11, BeginTypes DEF StartReplay, PipeTypes, Jobs
  <2>4. ReadTypes'
    <3>1. PICK p \in points : val' = [val EXCEPT ![r] = p.value]
      BY <1>11 DEF StartReplay
    <3>2. UNCHANGED reads
      BY <1>11 DEF StartReplay, Begin
    <3>3. p.value \in 0..NumRows
      BY <1>0 DEF ResultTypes, Points
    <3>4. QED  BY <1>0, <3>1, <3>2, <3>3 DEF ReadTypes
  <2>5. LinkTypes'
    <3>1. registry \in Objs /\ sinkConn[registry] \in {NoOne} \cup Requests
      BY <1>0, <1>11 DEF StartReplay, PipeTypes, LinkTypes
    <3>2. sinkConn' \in {sinkConn, [sinkConn EXCEPT ![Startup + r] = sinkConn[registry]]}
      BY <1>11 DEF StartReplay
    <3>3. QED  BY <1>0, <1>11, <3>1, <3>2 DEF StartReplay, Begin, LinkTypes
  <2>6. Ended'
    BY <1>0, <1>11 DEF StartReplay, Begin, Arrives, RunTypes, ReadTypes, Control, Ending
  <2>7. QED  BY <2>1, <2>2, <2>3, <2>4, <2>5, <2>6 DEF TypeOK
<1>12. ASSUME NEW r \in Requests, OpenSource(r) PROVE TypeOK'
  <2>1. Cardinality(Active') <= MaxActive
    BY <1>12, NoMoreActive DEF OpenSource, PCs, Phases
  <2>2. PipeTypes' /\ ReadTypes' /\ ResultTypes' /\ TableTypes'
    BY <1>0, <1>12 DEF OpenSource, PipeTypes, ReadTypes, ResultTypes, TableTypes
  <2>3. RunTypes'
    BY <1>0, <1>12 DEF OpenSource, RunTypes, PCs, Phases, Jobs, Strategies, Admin
  <2>4. LinkTypes'
    BY <1>0, <1>12 DEF OpenSource, LinkTypes, RunTypes, PipeTypes, Control, Phases, SinkOf
  <2>5. Ended'
    BY <1>0, <1>12 DEF OpenSource, RunTypes, ReadTypes, Control, Ending
  <2>6. QED  BY <2>1, <2>2, <2>3, <2>4, <2>5 DEF TypeOK
<1>13. ASSUME NEW r \in Requests, OpenSink(r) PROVE TypeOK'
  <2>1. Cardinality(Active') <= MaxActive
    BY <1>13, NoMoreActive DEF OpenSink, PCs, Phases
  <2>2. PipeTypes' /\ ReadTypes' /\ ResultTypes' /\ TableTypes'
    BY <1>0, <1>13 DEF OpenSink, PipeTypes, ReadTypes, ResultTypes, TableTypes
  <2>3. RunTypes'
    BY <1>0, <1>13 DEF OpenSink, RunTypes, PCs, Phases, Jobs, Strategies, Admin
  <2>4. LinkTypes'
    BY <1>0, <1>13 DEF OpenSink, LinkTypes, RunTypes, PipeTypes, Control, Phases, SinkOf
  <2>5. Ended'
    BY <1>0, <1>13 DEF OpenSink, RunTypes, ReadTypes, Control, Ending
  <2>6. QED  BY <2>1, <2>2, <2>3, <2>4, <2>5 DEF TypeOK
<1>14. ASSUME NEW r \in Requests, OpenCursor(r) PROVE TypeOK'
  <2>1. Cardinality(Active') <= MaxActive
    BY <1>14, NoMoreActive DEF OpenCursor, PCs, Phases
  <2>2. PipeTypes' /\ ResultTypes' /\ TableTypes'
    BY <1>0, <1>14 DEF OpenCursor, PipeTypes, ResultTypes, TableTypes
  <2>3. RunTypes'
    BY <1>0, <1>14 DEF OpenCursor, RunTypes, PCs, Phases, Jobs, Strategies, Admin
  <2>4. ReadTypes'
    BY <1>0, <1>14 DEF OpenCursor, ReadTypes, RunTypes, Points
  <2>5. LinkTypes'
    BY <1>0, <1>14 DEF OpenCursor, LinkTypes, RunTypes, PipeTypes, Control, Phases, SinkOf
  <2>6. Ended'
    BY <1>0, <1>14 DEF OpenCursor, RunTypes, ReadTypes, Control, Ending
  <2>7. QED  BY <2>1, <2>2, <2>3, <2>4, <2>5, <2>6 DEF TypeOK
<1>15. ASSUME NEW r \in Requests, CopyRow(r) PROVE TypeOK'
  <2>1. Cardinality(Active') <= MaxActive
    BY <1>15 DEF CopyRow, TypeOK, Active
  <2>2. PipeTypes' /\ RunTypes' /\ LinkTypes' /\ ResultTypes'
    BY <1>0, <1>15 DEF CopyRow, PipeTypes, RunTypes, LinkTypes, ResultTypes
  <2>3. ReadTypes'
    <3>1. /\ pos[r] + 1 \in 0..NumRows /\ pos' = [pos EXCEPT ![r] = pos[r] + 1]
          /\ val' \in {val, [val EXCEPT ![bm[r]] = pos[r] + 1]}
      BY <1>0, <1>15 DEF CopyRow, ReadTypes
    <3>2. UNCHANGED <<rows, last>>
      BY <1>15 DEF CopyRow
    <3>3. QED  BY <1>0, <3>1, <3>2 DEF ReadTypes
  <2>4. TableTypes'
    <3>1. pos[r] + 1 \in Rows
      BY <1>0, <1>15 DEF CopyRow, ReadTypes, Rows
    <3>2. /\ live' \in {live, [live EXCEPT ![obj[r]] = @ \cup {pos[r] + 1}]}
          /\ shadow' \in {shadow, [shadow EXCEPT ![obj[r]] = @ \cup {pos[r] + 1}]}
      BY <1>15 DEF CopyRow
    <3>3. QED  BY <1>0, <3>1, <3>2 DEF TableTypes
  <2>5. Ended'
    BY <1>0, <1>15 DEF CopyRow, RunTypes, ReadTypes, Control, Ending
  <2>6. QED  BY <2>1, <2>2, <2>3, <2>4, <2>5 DEF TypeOK
<1>16. ASSUME NEW r \in Requests, EndCopy(r) PROVE TypeOK'
  <2>1. Cardinality(Active') <= MaxActive
    BY <1>16, NoMoreActive DEF EndCopy, PCs, Phases
  <2>2. PipeTypes' /\ ReadTypes' /\ LinkTypes' /\ ResultTypes' /\ TableTypes'
    BY <1>0, <1>16 DEF EndCopy, PipeTypes, ReadTypes, LinkTypes, ResultTypes, TableTypes
  <2>3. RunTypes'
    BY <1>0, <1>16 DEF EndCopy, RunTypes, PCs, Phases, Jobs, Strategies, Admin
  <2>4. Ended'
    BY <1>0, <1>16 DEF EndCopy, RunTypes, ReadTypes, Control, Ending
  <2>5. QED  BY <2>1, <2>2, <2>3, <2>4 DEF TypeOK
<1>17. ASSUME NEW r \in Requests, Raise(r) PROVE TypeOK'
  <2>1. Cardinality(Active') <= MaxActive
    BY <1>17, NoMoreActive DEF Raise, PCs, Phases
  <2>2. PipeTypes' /\ ReadTypes' /\ LinkTypes' /\ ResultTypes' /\ TableTypes'
    BY <1>0, <1>17 DEF Raise, PipeTypes, ReadTypes, LinkTypes, ResultTypes, TableTypes
  <2>3. RunTypes'
    BY <1>0, <1>17 DEF Raise, RunTypes, PCs, Phases, Jobs, Strategies, Admin
  <2>4. Ended'
    BY <1>0, <1>17 DEF Raise, RunTypes, ReadTypes, Control, Ending
  <2>5. QED  BY <2>1, <2>2, <2>3, <2>4 DEF TypeOK
<1>18. ASSUME NEW r \in Requests, CloseSink(r) PROVE TypeOK'
  <2>1. Cardinality(Active') <= MaxActive
    BY <1>18, NoMoreActive DEF CloseSink, PCs, Phases
  <2>2. PipeTypes' /\ ReadTypes' /\ ResultTypes' /\ TableTypes'
    BY <1>0, <1>18 DEF CloseSink, PipeTypes, ReadTypes, ResultTypes, TableTypes
  <2>3. RunTypes'
    BY <1>0, <1>18 DEF CloseSink, RunTypes, PCs, Phases, Jobs, Strategies, Admin
  <2>4. LinkTypes'
    BY <1>0, <1>18 DEF CloseSink, LinkTypes, RunTypes, PipeTypes, Control, Phases, SinkOf
  <2>5. Ended'
    BY <1>0, <1>18 DEF CloseSink, RunTypes, ReadTypes, Control, Ending
  <2>6. QED  BY <2>1, <2>2, <2>3, <2>4, <2>5 DEF TypeOK
<1>19. ASSUME NEW r \in Requests, CloseSource(r) PROVE TypeOK'
  <2>1. Cardinality(Active') <= MaxActive
    BY <1>19, NoMoreActive DEF CloseSource, PCs, Phases
  <2>2. PipeTypes' /\ ReadTypes' /\ ResultTypes' /\ TableTypes'
    BY <1>0, <1>19 DEF CloseSource, PipeTypes, ReadTypes, ResultTypes, TableTypes
  <2>3. RunTypes'
    BY <1>0, <1>19 DEF CloseSource, RunTypes, PCs, Phases, Jobs, Strategies, Admin
  <2>4. LinkTypes'
    BY <1>0, <1>19 DEF CloseSource, LinkTypes, RunTypes, PipeTypes, Control, Phases, SinkOf
  <2>5. Ended'
    BY <1>0, <1>19 DEF CloseSource, RunTypes, ReadTypes, Control, Ending
  <2>6. QED  BY <2>1, <2>2, <2>3, <2>4, <2>5 DEF TypeOK
<1>20. ASSUME NEW r \in Requests, TeardownRaises(r) PROVE TypeOK'
  <2>1. Cardinality(Active') <= MaxActive
    BY <1>20, NoMoreActive DEF TeardownRaises, PCs, Phases
  <2>2. PipeTypes' /\ ReadTypes' /\ LinkTypes' /\ ResultTypes' /\ TableTypes'
    BY <1>0, <1>20 DEF TeardownRaises, PipeTypes, ReadTypes, LinkTypes, ResultTypes, TableTypes
  <2>3. RunTypes'
    BY <1>0, <1>20 DEF TeardownRaises, RunTypes, PCs, Phases, Jobs, Strategies, Admin
  <2>4. Ended'
    BY <1>0, <1>20 DEF TeardownRaises, RunTypes, ReadTypes, Control, Ending
  <2>5. QED  BY <2>1, <2>2, <2>3, <2>4 DEF TypeOK
<1>21. ASSUME NEW r \in Requests, Finish(r) PROVE TypeOK'
  <2>1. Cardinality(Active') <= MaxActive
    BY <1>21, NoMoreActive DEF Finish, PCs, Phases
  <2>2. PipeTypes' /\ ReadTypes' /\ LinkTypes' /\ TableTypes'
    BY <1>0, <1>21 DEF Finish, PipeTypes, ReadTypes, LinkTypes, TableTypes
  <2>3. RunTypes'
    BY <1>0, <1>21 DEF Finish, RunTypes, PCs, Phases, Jobs, Strategies, Admin
  <2>4. ResultTypes'
    <3> DEFINE h == Append(history, r)
               p == [run |-> r, config |-> config[obj[r]], value |-> val[bm[r]]]
    <3>1. /\ obj[r] \in Objs
          /\ ok[r] => bm[r] \in Requests
      BY <1>0, <1>21 DEF Finish, Control, Phases, RunTypes
    <3>2. ok[r] => p \in Points
      BY <1>0, <3>1 DEF PipeTypes, ReadTypes, Points
    <3>3. /\ store' \in {store} \/ (ok[r] /\ store' = bm[r])
          /\ points' \in {points} \/ (ok[r] /\ points' = points \cup {p})
          /\ history' \in {history} \/ history' = IF Len(h) > HistoryMax THEN Tail(h) ELSE h
      BY <1>21 DEF Finish
    <3>4. h \in Seq(Requests) /\ Len(h) = Len(history) + 1 /\ Len(history) \in Nat
      BY <1>0 DEF ResultTypes
    <3>5. HistoryMax \in Nat \ {0}
      BY ServerAssumption
    <3> HIDE DEF h, p
    <3>6. /\ history' \in Seq(Requests) /\ Len(history') <= HistoryMax
      <4>1. Tail(h) \in Seq(Requests) /\ Len(Tail(h)) = Len(history)
        BY <3>4
      <4>2. history \in Seq(Requests) /\ Len(history) <= HistoryMax
        BY <1>0 DEF ResultTypes
      <4>3. \/ history' = history
            \/ history' = Tail(h)
            \/ history' = h /\ ~(Len(h) > HistoryMax)
        BY <3>3
      <4>4. CASE history' = history
        BY <4>2, <4>4
      <4>5. CASE history' = Tail(h)
        BY <4>1, <4>2, <4>5
      <4>6. CASE history' = h /\ ~(Len(h) > HistoryMax)
        BY <3>4, <3>5, <4>6
      <4>7. QED  BY <4>3, <4>4, <4>5, <4>6
    <3>7. store' \in {NoOne} \cup Requests
      BY <1>0, <3>1, <3>3 DEF ResultTypes
    <3>8. points' \subseteq Points
      BY <1>0, <3>2, <3>3 DEF ResultTypes
    <3>9. QED  BY <3>6, <3>7, <3>8 DEF ResultTypes
  <2>5. Ended'
    BY <1>0, <1>21 DEF Finish, RunTypes, ReadTypes, Control, Ending
  <2>6. QED  BY <2>1, <2>2, <2>3, <2>4, <2>5 DEF TypeOK
<1>22. QED
  BY <1>1, <1>2, <1>3, <1>4, <1>5, <1>6, <1>7, <1>8, <1>9, <1>10, <1>11, <1>12, <1>13,
     <1>14, <1>15, <1>16, <1>17, <1>18, <1>19, <1>20, <1>21 DEF Next

LEMMA ControlStep ==
    ASSUME TypeOK, Control, [Next]_vars
    PROVE  Control'
<1> USE DEF pipes, reads, conns, links, results, tables, traces, runs, SetPC
<1>0. /\ PipeTypes /\ RunTypes /\ ReadTypes /\ LinkTypes /\ ResultTypes /\ TableTypes
      /\ NoOne \notin Requests /\ NoOne \notin Objs
  BY Numbers DEF TypeOK
<1> USE DEF RunTypes
<1>1. CASE Insert \/ UNCHANGED vars
  BY <1>0, <1>1 DEF Insert, vars, Control, Phases, Jobs, Strategies, Building, Ending, PipeTypes, ResultTypes
<1>2. ASSUME NEW r \in Requests, PutSecret(r) PROVE Control'
  BY <1>0, <1>2 DEF PutSecret, Arrives, Control, Phases, Jobs, Strategies, Building, Ending, PipeTypes, ResultTypes
<1>3. ASSUME NEW r \in Requests, ResolveSource(r) PROVE Control'
  BY <1>0, <1>3 DEF ResolveSource, Arrives, Control, Phases, Jobs, Strategies, Building, Ending, PipeTypes, ResultTypes
<1>4. ASSUME NEW r \in Requests, ResolveSink(r) PROVE Control'
  BY <1>0, <1>4 DEF ResolveSink, Control, Phases, Jobs, Strategies, Building, Ending, PipeTypes, ResultTypes
<1>5. ASSUME NEW r \in Requests, CheckAbsent(r) PROVE Control'
  BY <1>0, <1>5 DEF CheckAbsent, Control, Phases, Jobs, Strategies, Building, Ending, PipeTypes, ResultTypes
<1>6. ASSUME NEW r \in Requests, Register(r) PROVE Control'
  BY <1>0, <1>6 DEF Register, Control, Phases, Jobs, Strategies, Building, Ending, PipeTypes, ResultTypes
<1>7. ASSUME NEW r \in Requests, LookUp(r) PROVE Control'
  BY <1>0, <1>7 DEF LookUp, Arrives, Control, Phases, Jobs, Strategies, Building, Ending, PipeTypes, ResultTypes
<1>8. ASSUME NEW r \in Requests, DeletePipe(r) PROVE Control'
  BY <1>0, <1>8 DEF DeletePipe, Control, Phases, Jobs, Strategies, Building, Ending, PipeTypes, ResultTypes
<1>9. ASSUME NEW r \in Requests, ResetBookmark(r) PROVE Control'
  BY <1>0, <1>9 DEF ResetBookmark, Control, Phases, Jobs, Strategies, Building, Ending, PipeTypes, ResultTypes
<1>10. ASSUME NEW r \in Requests, StartRun(r) PROVE Control'
  BY <1>0, <1>10 DEF StartRun, Begin, Arrives, Control, Phases, Jobs, Strategies, Building, Ending, PipeTypes, ResultTypes
<1>11. ASSUME NEW r \in Requests, StartReplay(r) PROVE Control'
  BY <1>0, <1>11 DEF StartReplay, Begin, Arrives, Control, Phases, Jobs, Strategies, Building, Ending, PipeTypes, ResultTypes
<1>12. ASSUME NEW r \in Requests, OpenSource(r) PROVE Control'
  BY <1>0, <1>12 DEF OpenSource, Control, Phases, Jobs, Strategies, Building, Ending, PipeTypes, ResultTypes
<1>13. ASSUME NEW r \in Requests, OpenSink(r) PROVE Control'
  BY <1>0, <1>13 DEF OpenSink, Control, Phases, Jobs, Strategies, Building, Ending, PipeTypes, ResultTypes
<1>14. ASSUME NEW r \in Requests, OpenCursor(r) PROVE Control'
  BY <1>0, <1>14 DEF OpenCursor, Control, Phases, Jobs, Strategies, Building, Ending, PipeTypes, ResultTypes
<1>15. ASSUME NEW r \in Requests, CopyRow(r) PROVE Control'
  BY <1>0, <1>15 DEF CopyRow, Control, Phases, Jobs, Strategies, Building, Ending, PipeTypes, ResultTypes
<1>16. ASSUME NEW r \in Requests, EndCopy(r) PROVE Control'
  BY <1>0, <1>16 DEF EndCopy, Control, Phases, Jobs, Strategies, Building, Ending, PipeTypes, ResultTypes
<1>17. ASSUME NEW r \in Requests, Raise(r) PROVE Control'
  BY <1>0, <1>17 DEF Raise, Control, Phases, Jobs, Strategies, Building, Ending, PipeTypes, ResultTypes
<1>18. ASSUME NEW r \in Requests, CloseSink(r) PROVE Control'
  BY <1>0, <1>18 DEF CloseSink, Control, Phases, Jobs, Strategies, Building, Ending, PipeTypes, ResultTypes
<1>19. ASSUME NEW r \in Requests, CloseSource(r) PROVE Control'
  BY <1>0, <1>19 DEF CloseSource, Control, Phases, Jobs, Strategies, Building, Ending, PipeTypes, ResultTypes
<1>20. ASSUME NEW r \in Requests, TeardownRaises(r) PROVE Control'
  BY <1>0, <1>20 DEF TeardownRaises, Control, Phases, Jobs, Strategies, Building, Ending, PipeTypes, ResultTypes
<1>21. ASSUME NEW r \in Requests, Finish(r) PROVE Control'
  BY <1>0, <1>21 DEF Finish, Control, Phases, Jobs, Strategies, Building, Ending, PipeTypes, ResultTypes
<1>22. QED
  BY <1>1, <1>2, <1>3, <1>4, <1>5, <1>6, <1>7, <1>8, <1>9, <1>10, <1>11, <1>12, <1>13,
     <1>14, <1>15, <1>16, <1>17, <1>18, <1>19, <1>20, <1>21 DEF Next

LEMMA CopiedStep ==
    ASSUME TypeOK, Control, Copied, [Next]_vars
    PROVE  Copied'
<1> USE DEF pipes, reads, conns, links, results, tables, traces, runs, SetPC
<1>0. /\ PipeTypes /\ RunTypes /\ ReadTypes /\ LinkTypes /\ ResultTypes /\ TableTypes
      /\ NoOne \notin Requests /\ NoOne \notin Objs
  BY Numbers DEF TypeOK
<1> USE DEF RunTypes
<1>1. CASE Insert \/ UNCHANGED vars
  BY <1>0, <1>1 DEF Insert, vars, Copied, Below, InTable
<1>2. ASSUME NEW r \in Requests, PutSecret(r) PROVE Copied'
  BY <1>0, <1>2 DEF PutSecret, Arrives, Copied, Below, InTable
<1>3. ASSUME NEW r \in Requests, ResolveSource(r) PROVE Copied'
  BY <1>0, <1>3 DEF ResolveSource, Arrives, Copied, Below, InTable
<1>4. ASSUME NEW r \in Requests, ResolveSink(r) PROVE Copied'
  BY <1>0, <1>4 DEF ResolveSink, Copied, Below, InTable
<1>5. ASSUME NEW r \in Requests, CheckAbsent(r) PROVE Copied'
  BY <1>0, <1>5 DEF CheckAbsent, Copied, Below, InTable
<1>6. ASSUME NEW r \in Requests, Register(r) PROVE Copied'
  BY <1>0, <1>6 DEF Register, Copied, Below, InTable
<1>7. ASSUME NEW r \in Requests, LookUp(r) PROVE Copied'
  BY <1>0, <1>7 DEF LookUp, Arrives, Copied, Below, InTable
<1>8. ASSUME NEW r \in Requests, DeletePipe(r) PROVE Copied'
  BY <1>0, <1>8 DEF DeletePipe, Copied, Below, InTable
<1>9. ASSUME NEW r \in Requests, ResetBookmark(r) PROVE Copied'
  BY <1>0, <1>9 DEF ResetBookmark, Copied, Below, InTable
<1>10. ASSUME NEW r \in Requests, StartRun(r) PROVE Copied'
  BY <1>0, <1>10 DEF StartRun, Begin, Arrives, Copied, Below, InTable
<1>11. ASSUME NEW r \in Requests, StartReplay(r) PROVE Copied'
  BY <1>0, <1>11 DEF StartReplay, Begin, Arrives, Copied, Below, InTable
<1>12. ASSUME NEW r \in Requests, OpenSource(r) PROVE Copied'
  BY <1>0, <1>12 DEF OpenSource, Copied, Below, InTable
<1>13. ASSUME NEW r \in Requests, OpenSink(r) PROVE Copied'
  BY <1>0, <1>13 DEF OpenSink, Copied, Below, InTable
<1>14. ASSUME NEW r \in Requests, OpenCursor(r) PROVE Copied'
  <2>1. /\ bm[r] \in Requests /\ pos' = [pos EXCEPT ![r] = val[bm[r]]]
        /\ UNCHANGED <<val, points, live, job>>
        /\ \A q \in Requests : q # r => pc'[q] = pc[q]
    BY <1>0, <1>14 DEF OpenCursor
  <2>2. \A n : InTable(n)' <=> InTable(n)
    BY <2>1 DEF InTable
  <2>3. \A n \in Rows : n <= pos'[r] => InTable(n)'
    BY <1>0, <2>1, <2>2 DEF Copied, Below, ReadTypes
  <2>4. \A q \in Requests : q # r => pos'[q] = pos[q]
    BY <1>0, <2>1 DEF ReadTypes
  <2> HIDE DEF InTable
  <2>5. \A b \in Requests : Below(val[b])'
    BY <2>1, <2>2 DEF Copied, Below
  <2>6. \A p \in points' : Below(p.value)'
    BY <2>1, <2>2 DEF Copied, Below
  <2>7. QED  BY <1>0, <2>1, <2>2, <2>3, <2>4, <2>5, <2>6 DEF Copied, Below
<1>15. ASSUME NEW r \in Requests, CopyRow(r) PROVE Copied'
  <2>1. /\ pos[r] \in Nat /\ pos' = [pos EXCEPT ![r] = pos[r] + 1]
        /\ val' = IF job[r] = "run" THEN [val EXCEPT ![bm[r]] = pos[r] + 1] ELSE val
        /\ UNCHANGED <<pc, job, points>> /\ pc[r] = "reading" /\ bm[r] \in Requests
        /\ obj[r] \in Objs
    BY <1>0, <1>15 DEF CopyRow, ReadTypes, Control, Phases
  <2>2. live' = IF job[r] \in {"run", "replace"}
                THEN [live EXCEPT ![obj[r]] = @ \cup {pos[r] + 1}] ELSE live
    BY <1>15 DEF CopyRow
  <2>3. \A o \in Objs : live[o] \subseteq live'[o]
    BY <1>0, <2>1, <2>2 DEF TableTypes
  <2>4. \A n : InTable(n) => InTable(n)'
    BY <2>3 DEF InTable
  <2>5. ASSUME job[r] \in {"run", "replace"}
        PROVE  \A n \in Rows : n <= pos[r] + 1 => InTable(n)'
    <3>1. pos[r] + 1 \in live'[obj[r]]
      BY <1>0, <2>1, <2>2, <2>5 DEF TableTypes
    <3>2. \A n \in Rows : n <= pos[r] + 1 => n <= pos[r] \/ n = pos[r] + 1
      BY <2>1 DEF Rows
    <3>3. \A n \in Rows : n <= pos[r] => InTable(n)
      BY <2>1, <2>5 DEF Copied, Below
    <3>4. \A n \in Rows : n = pos[r] + 1 => InTable(n)'
      BY <2>1, <3>1 DEF InTable
    <3>5. QED  BY <2>4, <3>2, <3>3, <3>4
  <2>6. \A b \in Requests : val'[b] = val[b] \/ (job[r] = "run" /\ val'[b] = pos[r] + 1)
    BY <1>0, <2>1 DEF ReadTypes
  <2>7. \A q \in Requests : pos'[q] = IF q = r THEN pos[r] + 1 ELSE pos[q]
    BY <1>0, <2>1 DEF ReadTypes
  <2>8. \A b \in Requests : Below(val[b])'
    BY <2>4, <2>5, <2>6 DEF Copied, Below
  <2>9. \A p \in points' : Below(p.value)'
    BY <2>1, <2>4 DEF Copied, Below
  <2>10. ASSUME NEW q \in Requests, pc'[q] = "reading", job'[q] \in {"run", "replace"}
         PROVE  Below(pos[q])'
    BY <2>1, <2>4, <2>5, <2>7, <2>10 DEF Copied, Below
  <2>11. QED  BY <2>8, <2>9, <2>10 DEF Copied
<1>16. ASSUME NEW r \in Requests, EndCopy(r) PROVE Copied'
  BY <1>0, <1>16 DEF EndCopy, Copied, Below, InTable
<1>17. ASSUME NEW r \in Requests, Raise(r) PROVE Copied'
  BY <1>0, <1>17 DEF Raise, Copied, Below, InTable
<1>18. ASSUME NEW r \in Requests, CloseSink(r) PROVE Copied'
  BY <1>0, <1>18 DEF CloseSink, Copied, Below, InTable
<1>19. ASSUME NEW r \in Requests, CloseSource(r) PROVE Copied'
  BY <1>0, <1>19 DEF CloseSource, Copied, Below, InTable
<1>20. ASSUME NEW r \in Requests, TeardownRaises(r) PROVE Copied'
  BY <1>0, <1>20 DEF TeardownRaises, Copied, Below, InTable
<1>21. ASSUME NEW r \in Requests, Finish(r) PROVE Copied'
  <2> DEFINE p == [run |-> r, config |-> config[obj[r]], value |-> val[bm[r]]]
  <2>1. /\ UNCHANGED <<val, live, job, pos>>
        /\ points' = points \/ (ok[r] /\ points' = points \cup {p})
        /\ \A q \in Requests : pc'[q] = "reading" => pc[q] = "reading"
    BY <1>0, <1>21 DEF Finish
  <2>2. \A v : Below(v)' <=> Below(v)
    BY <2>1 DEF Below, InTable
  <2>3. ok[r] => Below(p.value)
    BY <1>0 DEF Copied, Control
  <2> HIDE DEF p
  <2>4. QED  BY <2>1, <2>2, <2>3 DEF Copied
<1>22. QED
  BY <1>1, <1>2, <1>3, <1>4, <1>5, <1>6, <1>7, <1>8, <1>9, <1>10, <1>11, <1>12, <1>13,
     <1>14, <1>15, <1>16, <1>17, <1>18, <1>19, <1>20, <1>21 DEF Next

LEMMA CreatedStep ==
    ASSUME TypeOK, Control, Created, [Next]_vars
    PROVE  Created'
<1> USE DEF pipes, reads, conns, links, results, tables, traces, runs, SetPC
<1>0. /\ PipeTypes /\ RunTypes /\ ReadTypes /\ LinkTypes /\ ResultTypes /\ TableTypes
      /\ NoOne \notin Requests /\ NoOne \notin Objs
  BY Numbers DEF TypeOK
<1> USE DEF RunTypes
<1>1. CASE Insert \/ UNCHANGED vars
  BY <1>0, <1>1 DEF Insert, vars, Created, Building, Active, PipeTypes
<1>2. ASSUME NEW r \in Requests, PutSecret(r) PROVE Created'
  BY <1>0, <1>2 DEF PutSecret, Arrives, Created, Building, Active, PipeTypes
<1>3. ASSUME NEW r \in Requests, ResolveSource(r) PROVE Created'
  <2> DEFINE others == {q \in Active : job[q] = "create"}
  <2>1. /\ pc[r] = "new" /\ pc' = [pc EXCEPT ![r] = "building"] /\ UNCHANGED <<registry, secret>>
        /\ raced' = raced \cup others \cup {q \in {r} : others # {}}
    BY <1>3 DEF ResolveSource, Arrives
  <2>2. /\ built'[r][1] = secret
        /\ \A q \in Requests : q # r => built'[q] = built[q]
    BY <1>0, <1>3, Numbers DEF ResolveSource, PipeTypes
  <2>3. \A q \in Requests : pc[q] \in Building => q \in others
    BY DEF Building, Control, Active
  <2> HIDE DEF others
  <2>4. \A q \in Requests : q # r /\ pc[q] \in Building => q \in raced' /\ r \in raced'
    BY <2>1, <2>3
  <2>5. \A q \in Requests : pc'[q] = IF q = r THEN "building" ELSE pc[q]
    BY <1>0, <2>1
  <2>6. raced \subseteq raced'
    BY <2>1
  <2>7. QED  BY <2>1, <2>2, <2>4, <2>5, <2>6 DEF Created, Building
<1>4. ASSUME NEW r \in Requests, ResolveSink(r) PROVE Created'
  <2>1. /\ pc[r] = "building" /\ UNCHANGED <<registry, secret, raced>>
        /\ pc' = [pc EXCEPT ![r] = pc'[r]]
        /\ \/ pc'[r] = "done" /\ built' = built
           \/ pc'[r] = "built" /\ built' = [built EXCEPT ![r] = <<built[r][1], secret>>]
    BY <1>0, <1>4 DEF ResolveSink
  <2>2. \A q \in Requests : q # r => built'[q] = built[q] /\ pc'[q] = pc[q]
    BY <1>0, <2>1, Numbers DEF PipeTypes
  <2>3. pc'[r] = "built" => built'[r] = <<built[r][1], secret>>
    BY <1>0, <2>1, Numbers DEF PipeTypes
  <2>4. pc'[r] = "built" /\ r \notin raced => built'[r][1] = built'[r][2]
    BY <2>1, <2>3 DEF Created
  <2>5. QED  BY <2>1, <2>2, <2>4 DEF Created, Building
<1>5. ASSUME NEW r \in Requests, CheckAbsent(r) PROVE Created'
  BY <1>0, <1>5 DEF CheckAbsent, Created, Building, Active, PipeTypes
<1>6. ASSUME NEW r \in Requests, Register(r) PROVE Created'
  BY <1>0, <1>6 DEF Register, Created, Building, Active, PipeTypes
<1>7. ASSUME NEW r \in Requests, LookUp(r) PROVE Created'
  BY <1>0, <1>7 DEF LookUp, Arrives, Created, Building, Active, PipeTypes
<1>8. ASSUME NEW r \in Requests, DeletePipe(r) PROVE Created'
  BY <1>0, <1>8 DEF DeletePipe, Created, Building, Active, PipeTypes
<1>9. ASSUME NEW r \in Requests, ResetBookmark(r) PROVE Created'
  BY <1>0, <1>9 DEF ResetBookmark, Created, Building, Active, PipeTypes
<1>10. ASSUME NEW r \in Requests, StartRun(r) PROVE Created'
  BY <1>0, <1>10 DEF StartRun, Begin, Arrives, Created, Building, Active, PipeTypes
<1>11. ASSUME NEW r \in Requests, StartReplay(r) PROVE Created'
  BY <1>0, <1>11 DEF StartReplay, Begin, Arrives, Created, Building, Active, PipeTypes
<1>12. ASSUME NEW r \in Requests, OpenSource(r) PROVE Created'
  BY <1>0, <1>12 DEF OpenSource, Created, Building, Active, PipeTypes
<1>13. ASSUME NEW r \in Requests, OpenSink(r) PROVE Created'
  BY <1>0, <1>13 DEF OpenSink, Created, Building, Active, PipeTypes
<1>14. ASSUME NEW r \in Requests, OpenCursor(r) PROVE Created'
  BY <1>0, <1>14 DEF OpenCursor, Created, Building, Active, PipeTypes
<1>15. ASSUME NEW r \in Requests, CopyRow(r) PROVE Created'
  BY <1>0, <1>15 DEF CopyRow, Created, Building, Active, PipeTypes
<1>16. ASSUME NEW r \in Requests, EndCopy(r) PROVE Created'
  BY <1>0, <1>16 DEF EndCopy, Created, Building, Active, PipeTypes
<1>17. ASSUME NEW r \in Requests, Raise(r) PROVE Created'
  BY <1>0, <1>17 DEF Raise, Created, Building, Active, PipeTypes
<1>18. ASSUME NEW r \in Requests, CloseSink(r) PROVE Created'
  BY <1>0, <1>18 DEF CloseSink, Created, Building, Active, PipeTypes
<1>19. ASSUME NEW r \in Requests, CloseSource(r) PROVE Created'
  BY <1>0, <1>19 DEF CloseSource, Created, Building, Active, PipeTypes
<1>20. ASSUME NEW r \in Requests, TeardownRaises(r) PROVE Created'
  BY <1>0, <1>20 DEF TeardownRaises, Created, Building, Active, PipeTypes
<1>21. ASSUME NEW r \in Requests, Finish(r) PROVE Created'
  BY <1>0, <1>21 DEF Finish, Created, Building, Active, PipeTypes
<1>22. QED
  BY <1>1, <1>2, <1>3, <1>4, <1>5, <1>6, <1>7, <1>8, <1>9, <1>10, <1>11, <1>12, <1>13,
     <1>14, <1>15, <1>16, <1>17, <1>18, <1>19, <1>20, <1>21 DEF Next

LEMMA SeparateStep ==
    ASSUME TypeOK, Control, Separate, [Next]_vars
    PROVE  Separate'
<1> USE DEF pipes, reads, conns, links, results, tables, traces, runs, SetPC
<1>0. /\ PipeTypes /\ RunTypes /\ ReadTypes /\ LinkTypes /\ ResultTypes /\ TableTypes
      /\ NoOne \notin Requests /\ NoOne \notin Objs
  BY Numbers DEF TypeOK
<1> USE DEF RunTypes
<1>1. CASE Insert \/ UNCHANGED vars
  BY <1>0, <1>1 DEF Insert, vars, Separate, Phases, Running
<1>2. ASSUME NEW r \in Requests, PutSecret(r) PROVE Separate'
  BY <1>0, <1>2 DEF PutSecret, Arrives, Separate, Phases, Running
<1>3. ASSUME NEW r \in Requests, ResolveSource(r) PROVE Separate'
  BY <1>0, <1>3 DEF ResolveSource, Arrives, Separate, Phases, Running
<1>4. ASSUME NEW r \in Requests, ResolveSink(r) PROVE Separate'
  BY <1>0, <1>4 DEF ResolveSink, Separate, Phases, Running
<1>5. ASSUME NEW r \in Requests, CheckAbsent(r) PROVE Separate'
  BY <1>0, <1>5 DEF CheckAbsent, Separate, Phases, Running
<1>6. ASSUME NEW r \in Requests, Register(r) PROVE Separate'
  BY <1>0, <1>6 DEF Register, Separate, Phases, Running
<1>7. ASSUME NEW r \in Requests, LookUp(r) PROVE Separate'
  BY <1>0, <1>7 DEF LookUp, Arrives, Separate, Phases, Running
<1>8. ASSUME NEW r \in Requests, DeletePipe(r) PROVE Separate'
  BY <1>0, <1>8 DEF DeletePipe, Separate, Phases, Running
<1>9. ASSUME NEW r \in Requests, ResetBookmark(r) PROVE Separate'
  BY <1>0, <1>9 DEF ResetBookmark, Separate, Phases, Running
<1>10. ASSUME NEW r \in Requests, StartRun(r) PROVE Separate'
  BY <1>0, <1>10 DEF StartRun, Begin, Arrives, Separate, Phases, Running
<1>11. ASSUME NEW r \in Requests, StartReplay(r) PROVE Separate'
  BY <1>0, <1>11 DEF StartReplay, Begin, Arrives, Separate, Phases, Running
<1>12. ASSUME NEW r \in Requests, OpenSource(r) PROVE Separate'
  BY <1>0, <1>12 DEF OpenSource, Separate, Phases, Running
<1>13. ASSUME NEW r \in Requests, OpenSink(r) PROVE Separate'
  BY <1>0, <1>13 DEF OpenSink, Separate, Phases, Running
<1>14. ASSUME NEW r \in Requests, OpenCursor(r) PROVE Separate'
  BY <1>0, <1>14 DEF OpenCursor, Separate, Phases, Running
<1>15. ASSUME NEW r \in Requests, CopyRow(r) PROVE Separate'
  BY <1>0, <1>15 DEF CopyRow, Separate, Phases, Running
<1>16. ASSUME NEW r \in Requests, EndCopy(r) PROVE Separate'
  BY <1>0, <1>16 DEF EndCopy, Separate, Phases, Running
<1>17. ASSUME NEW r \in Requests, Raise(r) PROVE Separate'
  BY <1>0, <1>17 DEF Raise, Separate, Phases, Running
<1>18. ASSUME NEW r \in Requests, CloseSink(r) PROVE Separate'
  BY <1>0, <1>18 DEF CloseSink, Separate, Phases, Running
<1>19. ASSUME NEW r \in Requests, CloseSource(r) PROVE Separate'
  BY <1>0, <1>19 DEF CloseSource, Separate, Phases, Running
<1>20. ASSUME NEW r \in Requests, TeardownRaises(r) PROVE Separate'
  BY <1>0, <1>20 DEF TeardownRaises, Separate, Phases, Running
<1>21. ASSUME NEW r \in Requests, Finish(r) PROVE Separate'
  BY <1>0, <1>21 DEF Finish, Separate, Phases, Running
<1>22. QED
  BY <1>1, <1>2, <1>3, <1>4, <1>5, <1>6, <1>7, <1>8, <1>9, <1>10, <1>11, <1>12, <1>13,
     <1>14, <1>15, <1>16, <1>17, <1>18, <1>19, <1>20, <1>21 DEF Next

LEMMA InStepStep ==
    ASSUME TypeOK, Control, Separate, InStep, [Next]_vars
    PROVE  InStep'
<1> USE DEF pipes, reads, conns, links, results, tables, traces, runs, SetPC
<1>0. /\ PipeTypes /\ RunTypes /\ ReadTypes /\ LinkTypes /\ ResultTypes /\ TableTypes
      /\ NoOne \notin Requests /\ NoOne \notin Objs
  BY Numbers DEF TypeOK
<1> USE DEF RunTypes
<1>1. CASE Insert \/ UNCHANGED vars
  BY <1>0, <1>1 DEF Insert, vars, InStep, Phases
<1>2. ASSUME NEW r \in Requests, PutSecret(r) PROVE InStep'
  BY <1>0, <1>2 DEF PutSecret, Arrives, InStep, Phases
<1>3. ASSUME NEW r \in Requests, ResolveSource(r) PROVE InStep'
  BY <1>0, <1>3 DEF ResolveSource, Arrives, InStep, Phases
<1>4. ASSUME NEW r \in Requests, ResolveSink(r) PROVE InStep'
  BY <1>0, <1>4 DEF ResolveSink, InStep, Phases
<1>5. ASSUME NEW r \in Requests, CheckAbsent(r) PROVE InStep'
  BY <1>0, <1>5 DEF CheckAbsent, InStep, Phases
<1>6. ASSUME NEW r \in Requests, Register(r) PROVE InStep'
  BY <1>0, <1>6 DEF Register, InStep, Phases
<1>7. ASSUME NEW r \in Requests, LookUp(r) PROVE InStep'
  BY <1>0, <1>7 DEF LookUp, Arrives, InStep, Phases
<1>8. ASSUME NEW r \in Requests, DeletePipe(r) PROVE InStep'
  BY <1>0, <1>8 DEF DeletePipe, InStep, Phases
<1>9. ASSUME NEW r \in Requests, ResetBookmark(r) PROVE InStep'
  BY <1>0, <1>9 DEF ResetBookmark, InStep, Phases
<1>10. ASSUME NEW r \in Requests, StartRun(r) PROVE InStep'
  BY <1>0, <1>10 DEF StartRun, Begin, Arrives, InStep, Phases
<1>11. ASSUME NEW r \in Requests, StartReplay(r) PROVE InStep'
  <2>1. /\ pc[r] = "new" /\ pc' = [pc EXCEPT ![r] = "begun"] /\ shared \subseteq shared'
        /\ job' = [job EXCEPT ![r] = job'[r]] /\ bm' = [bm EXCEPT ![r] = r]
        /\ UNCHANGED pos
    BY <1>0, <1>11 DEF StartReplay, Begin, Arrives
  <2>2. \A q \in Requests : q # r => val'[q] = val[q]
    BY <1>0, <1>11 DEF StartReplay, ReadTypes
  <2>3. ASSUME NEW q \in Requests \ shared', pc'[q] = "reading", job'[q] = "run"
        PROVE  val'[bm'[q]] = pos'[q]
    <3>1. q # r /\ pc[q] = "reading" /\ job[q] = "run" /\ bm'[q] = bm[q] /\ q \notin shared
      BY <1>0, <2>1, <2>3
    <3>2. bm[q] \in Requests /\ bm[q] # r
      BY <1>0, <2>1, <3>1 DEF Control
    <3>3. QED  BY <2>1, <2>2, <3>1, <3>2 DEF InStep
  <2>4. QED  BY <2>3 DEF InStep
<1>12. ASSUME NEW r \in Requests, OpenSource(r) PROVE InStep'
  BY <1>0, <1>12 DEF OpenSource, InStep, Phases
<1>13. ASSUME NEW r \in Requests, OpenSink(r) PROVE InStep'
  BY <1>0, <1>13 DEF OpenSink, InStep, Phases
<1>14. ASSUME NEW r \in Requests, OpenCursor(r) PROVE InStep'
  <2>1. /\ pc' = [pc EXCEPT ![r] = "reading"] /\ pos' = [pos EXCEPT ![r] = val[bm[r]]]
        /\ UNCHANGED <<job, bm, val, shared>>
    BY <1>14 DEF OpenCursor
  <2>2. QED  BY <1>0, <2>1 DEF InStep, ReadTypes
<1>15. ASSUME NEW r \in Requests, CopyRow(r) PROVE InStep'
  <2>1. /\ pos' = [pos EXCEPT ![r] = pos[r] + 1]
        /\ val' = IF job[r] = "run" THEN [val EXCEPT ![bm[r]] = pos[r] + 1] ELSE val
        /\ UNCHANGED <<pc, job, bm, shared>> /\ pc[r] = "reading" /\ bm[r] \in Requests
    BY <1>0, <1>15 DEF CopyRow, Control
  <2>2. ASSUME NEW q \in Requests \ shared, pc[q] = "reading", job[q] = "run"
        PROVE  val'[bm[q]] = pos'[q]
    <3>1. CASE q = r
      BY <1>0, <2>1, <2>2, <3>1 DEF ReadTypes
    <3>2. CASE q # r
      <4>1. bm[q] # bm[r]
        BY <1>0, <2>1, <2>2, <3>2 DEF Separate, Phases
      <4>2. val'[bm[q]] = val[bm[q]] /\ pos'[q] = pos[q]
        BY <1>0, <2>1, <3>2, <4>1 DEF ReadTypes
      <4>3. QED  BY <2>2, <4>2 DEF InStep
    <3>3. QED  BY <3>1, <3>2
  <2>3. QED  BY <2>1, <2>2 DEF InStep
<1>16. ASSUME NEW r \in Requests, EndCopy(r) PROVE InStep'
  BY <1>0, <1>16 DEF EndCopy, InStep, Phases
<1>17. ASSUME NEW r \in Requests, Raise(r) PROVE InStep'
  BY <1>0, <1>17 DEF Raise, InStep, Phases
<1>18. ASSUME NEW r \in Requests, CloseSink(r) PROVE InStep'
  BY <1>0, <1>18 DEF CloseSink, InStep, Phases
<1>19. ASSUME NEW r \in Requests, CloseSource(r) PROVE InStep'
  BY <1>0, <1>19 DEF CloseSource, InStep, Phases
<1>20. ASSUME NEW r \in Requests, TeardownRaises(r) PROVE InStep'
  BY <1>0, <1>20 DEF TeardownRaises, InStep, Phases
<1>21. ASSUME NEW r \in Requests, Finish(r) PROVE InStep'
  BY <1>0, <1>21 DEF Finish, InStep, Phases
<1>22. QED
  BY <1>1, <1>2, <1>3, <1>4, <1>5, <1>6, <1>7, <1>8, <1>9, <1>10, <1>11, <1>12, <1>13,
     <1>14, <1>15, <1>16, <1>17, <1>18, <1>19, <1>20, <1>21 DEF Next

LEMMA KeptStep ==
    ASSUME TypeOK, Control, Kept, [Next]_vars
    PROVE  Kept'
<1> USE DEF pipes, reads, conns, links, results, tables, traces, runs, SetPC
<1>0. /\ PipeTypes /\ RunTypes /\ ReadTypes /\ LinkTypes /\ ResultTypes /\ TableTypes
      /\ NoOne \notin Requests /\ NoOne \notin Objs
  BY Numbers DEF TypeOK
<1> USE DEF RunTypes
<1>1. CASE Insert \/ UNCHANGED vars
  BY <1>0, <1>1 DEF Insert, vars, Kept, Phases, SinkOf
<1>2. ASSUME NEW r \in Requests, PutSecret(r) PROVE Kept'
  BY <1>0, <1>2 DEF PutSecret, Arrives, Kept, Phases, SinkOf
<1>3. ASSUME NEW r \in Requests, ResolveSource(r) PROVE Kept'
  BY <1>0, <1>3 DEF ResolveSource, Arrives, Kept, Phases, SinkOf
<1>4. ASSUME NEW r \in Requests, ResolveSink(r) PROVE Kept'
  <2>1. /\ UNCHANGED <<sourceConn, sinkConn, obj, open>>
        /\ \A q \in Requests : q # r => pc'[q] = pc[q]
        /\ pc[r] = "building" /\ pc'[r] \in {"done", "built"}
    BY <1>0, <1>4 DEF ResolveSink
  <2>2. \A q \in Requests : pc[q] # "new" => pc'[q] # "new"
    BY <2>1
  <2>3. \A q \in Requests : pc[q] \notin {"new", "begun"} => pc'[q] \notin {"new", "begun"}
    BY <2>1
  <2>4. QED  BY <1>0, <2>1, <2>2, <2>3, Numbers DEF Kept, LinkTypes
<1>5. ASSUME NEW r \in Requests, CheckAbsent(r) PROVE Kept'
  BY <1>0, <1>5 DEF CheckAbsent, Kept, Phases, SinkOf
<1>6. ASSUME NEW r \in Requests, Register(r) PROVE Kept'
  BY <1>0, <1>6 DEF Register, Kept, Phases, SinkOf
<1>7. ASSUME NEW r \in Requests, LookUp(r) PROVE Kept'
  BY <1>0, <1>7 DEF LookUp, Arrives, Kept, Phases, SinkOf
<1>8. ASSUME NEW r \in Requests, DeletePipe(r) PROVE Kept'
  BY <1>0, <1>8 DEF DeletePipe, Kept, Phases, SinkOf
<1>9. ASSUME NEW r \in Requests, ResetBookmark(r) PROVE Kept'
  BY <1>0, <1>9 DEF ResetBookmark, Kept, Phases, SinkOf
<1>10. ASSUME NEW r \in Requests, StartRun(r) PROVE Kept'
  BY <1>0, <1>10 DEF StartRun, Begin, Arrives, Kept, Phases, SinkOf
<1>11. ASSUME NEW r \in Requests, StartReplay(r) PROVE Kept'
  <2>1. /\ pc[r] = "new" /\ pc' = [pc EXCEPT ![r] = "begun"]
        /\ obj' = [obj EXCEPT ![r] = registry] /\ UNCHANGED <<sourceConn, open>>
        /\ registry \in Objs
    BY <1>0, <1>11 DEF StartReplay, Begin, Arrives, PipeTypes
  <2>2. sinkConn' \in {sinkConn, [sinkConn EXCEPT ![Startup + r] = sinkConn[registry]]}
    BY <1>11 DEF StartReplay
  <2>3. /\ \A q \in Requests : q # r => pc'[q] = pc[q] /\ obj'[q] = obj[q]
        /\ pc'[r] = "begun" /\ obj'[r] = registry
    BY <1>0, <2>1
  <2>4. \A s \in Sinks : sinkConn'[s] = sinkConn[s]
                         \/ (s = Startup + r /\ sinkConn'[s] = sinkConn[registry])
    BY <1>0, <2>2, Numbers DEF LinkTypes
  <2>5. \A o \in Objs : sinkConn'[o] = sinkConn[o]
    BY <2>4, Numbers
  <2>6. \A q \in Requests : sinkConn'[Startup + q] = sinkConn[Startup + q]
                            \/ (q = r /\ sinkConn'[Startup + q] = sinkConn[registry])
    BY <2>4, Numbers
  <2>7. /\ \A o \in Objs : sourceConn[o] # r /\ sinkConn[o] # r
        /\ \A q \in Requests : sinkConn[Startup + q] # r
        /\ sinkConn[Startup + r] = NoOne
        /\ \A c \in open : c[2] # r
    BY <2>1, Numbers DEF Kept
  <2>8. /\ \A s \in Sinks : sinkConn[s] \in {NoOne} \cup Requests
        /\ \A o \in Objs : sourceConn[o] \in {NoOne} \cup Requests
        /\ \A c \in open : c[2] \in Requests
        /\ \A q \in Requests : Startup + q \in Sinks
        /\ \A o \in Objs : o \in Sinks
    BY <1>0, Numbers DEF LinkTypes
  <2>9. \A o \in Objs :
           /\ sourceConn'[o] # NoOne => obj'[sourceConn'[o]] = o /\ pc'[sourceConn'[o]] # "new"
           /\ sinkConn'[o] # NoOne => obj'[sinkConn'[o]] = o /\ pc'[sinkConn'[o]] # "new"
    BY <2>1, <2>3, <2>5, <2>7, <2>8 DEF Kept
  <2>10. \A q \in Requests : sinkConn'[Startup + q] # NoOne =>
            /\ pc'[q] # "new" /\ pc'[sinkConn'[Startup + q]] # "new"
            /\ obj'[sinkConn'[Startup + q]] = obj'[q]
    BY <2>1, <2>3, <2>6, <2>7, <2>8 DEF Kept
  <2>11. \A c \in open' : pc'[c[2]] \notin {"new", "begun"}
    BY <2>1, <2>3, <2>7, <2>8 DEF Kept
  <2>12. QED  BY <2>9, <2>10, <2>11 DEF Kept
<1>12. ASSUME NEW r \in Requests, OpenSource(r) PROVE Kept'
  BY <1>0, <1>12 DEF OpenSource, Kept, Phases, SinkOf
<1>13. ASSUME NEW r \in Requests, OpenSink(r) PROVE Kept'
  <2> DEFINE s == SinkOf(r)
  <2>1. /\ pc[r] = "source" /\ pc' = [pc EXCEPT ![r] = "sink"] /\ UNCHANGED <<obj, sourceConn>>
        /\ s = NoOne => UNCHANGED <<sinkConn, open>>
        /\ s # NoOne => /\ sinkConn' = [sinkConn EXCEPT ![s] = r]
                        /\ open' = open \cup {<<"sink", r>>}
    BY <1>13 DEF OpenSink
  <2>2. s = NoOne \/ (s \in Objs /\ s = obj[r]) \/ s = Startup + r
    BY <2>1 DEF SinkOf, Control, Phases
  <2> HIDE DEF s
  <2>3. /\ \A q \in Requests : pc[q] # "new" => pc'[q] # "new"
        /\ \A q \in Requests : pc[q] \notin {"new", "begun"} => pc'[q] \notin {"new", "begun"}
        /\ pc'[r] = "sink"
    BY <1>0, <2>1
  <2>4. \A x \in Sinks : sinkConn'[x] = sinkConn[x] \/ (x = s /\ sinkConn'[x] = r)
    BY <1>0, <2>1 DEF LinkTypes
  <2>5. /\ \A x \in Sinks : sinkConn[x] \in {NoOne} \cup Requests
        /\ \A o \in Objs : sourceConn[o] \in {NoOne} \cup Requests
        /\ \A c \in open : c[2] \in Requests
    BY <1>0 DEF LinkTypes
  <2>6. ASSUME NEW o \in Objs
        PROVE  /\ sourceConn'[o] # NoOne =>
                     obj'[sourceConn'[o]] = o /\ pc'[sourceConn'[o]] # "new"
               /\ sinkConn'[o] # NoOne =>
                     obj'[sinkConn'[o]] = o /\ pc'[sinkConn'[o]] # "new"
    <3>1. o \in Sinks /\ o # Startup + r /\ o # NoOne
      BY Numbers
    <3>2. /\ sourceConn[o] # NoOne => obj[sourceConn[o]] = o /\ pc[sourceConn[o]] # "new"
          /\ sinkConn[o] # NoOne => obj[sinkConn[o]] = o /\ pc[sinkConn[o]] # "new"
      BY DEF Kept
    <3>3. sourceConn'[o] # NoOne => obj'[sourceConn'[o]] = o /\ pc'[sourceConn'[o]] # "new"
      BY <2>1, <2>3, <2>5, <3>2
    <3>4. sinkConn'[o] = sinkConn[o] \/ (o = obj[r] /\ sinkConn'[o] = r)
      BY <2>2, <2>4, <3>1
    <3>5. sinkConn'[o] # NoOne => obj'[sinkConn'[o]] = o /\ pc'[sinkConn'[o]] # "new"
      BY <2>1, <2>3, <2>5, <3>1, <3>2, <3>4
    <3>6. QED  BY <3>3, <3>5
  <2>7. \A q \in Requests : sinkConn'[Startup + q] # NoOne =>
            /\ pc'[q] # "new" /\ pc'[sinkConn'[Startup + q]] # "new"
            /\ obj'[sinkConn'[Startup + q]] = obj'[q]
    BY <2>1, <2>2, <2>3, <2>4, <2>5, Numbers DEF Kept
  <2>8. ASSUME NEW c \in open'
        PROVE  pc'[c[2]] \notin {"new", "begun"}
    <3>1. c \in open \/ c = <<"sink", r>>
      BY <2>1
    <3>2. QED  BY <2>3, <2>5, <3>1 DEF Kept
  <2>9. QED  BY <2>6, <2>7, <2>8 DEF Kept
<1>14. ASSUME NEW r \in Requests, OpenCursor(r) PROVE Kept'
  BY <1>0, <1>14 DEF OpenCursor, Kept, Phases, SinkOf
<1>15. ASSUME NEW r \in Requests, CopyRow(r) PROVE Kept'
  BY <1>0, <1>15 DEF CopyRow, Kept, Phases, SinkOf
<1>16. ASSUME NEW r \in Requests, EndCopy(r) PROVE Kept'
  BY <1>0, <1>16 DEF EndCopy, Kept, Phases, SinkOf
<1>17. ASSUME NEW r \in Requests, Raise(r) PROVE Kept'
  BY <1>0, <1>17 DEF Raise, Kept, Phases, SinkOf
<1>18. ASSUME NEW r \in Requests, CloseSink(r) PROVE Kept'
  <2>1. /\ pc[r] = "closing" /\ pc' = [pc EXCEPT ![r] = "halfclosed"]
        /\ UNCHANGED <<obj, sourceConn>> /\ open' \subseteq open
        /\ sinkConn' \in {sinkConn, [sinkConn EXCEPT ![SinkOf(r)] = NoOne]}
    BY <1>18 DEF CloseSink
  <2>2. /\ \A q \in Requests : pc[q] # "new" => pc'[q] # "new"
        /\ \A q \in Requests : pc[q] \notin {"new", "begun"} => pc'[q] \notin {"new", "begun"}
    BY <2>1
  <2>3. \A x \in Sinks : sinkConn'[x] = sinkConn[x] \/ sinkConn'[x] = NoOne
    BY <1>0, <2>1 DEF LinkTypes
  <2>4. /\ \A x \in Sinks : sinkConn[x] \in {NoOne} \cup Requests
        /\ \A o \in Objs : sourceConn[o] \in {NoOne} \cup Requests
        /\ \A c \in open : c[2] \in Requests
    BY <1>0 DEF LinkTypes
  <2>5. QED  BY <2>1, <2>2, <2>3, <2>4, Numbers DEF Kept
<1>19. ASSUME NEW r \in Requests, CloseSource(r) PROVE Kept'
  BY <1>0, <1>19 DEF CloseSource, Kept, Phases, SinkOf
<1>20. ASSUME NEW r \in Requests, TeardownRaises(r) PROVE Kept'
  BY <1>0, <1>20 DEF TeardownRaises, Kept, Phases, SinkOf
<1>21. ASSUME NEW r \in Requests, Finish(r) PROVE Kept'
  BY <1>0, <1>21 DEF Finish, Kept, Phases, SinkOf
<1>22. QED
  BY <1>1, <1>2, <1>3, <1>4, <1>5, <1>6, <1>7, <1>8, <1>9, <1>10, <1>11, <1>12, <1>13,
     <1>14, <1>15, <1>16, <1>17, <1>18, <1>19, <1>20, <1>21 DEF Next

(* The sink that a run writes to is that of its pipe or its own copy of it. *)
LEMMA Redirected ==
    ASSUME TypeOK, Control, NEW r \in Requests, pc[r] \in Phases
    PROVE  /\ obj[r] \in Objs
           /\ SinkOf(r) \in {NoOne, obj[r], Startup + r}
           /\ SinkOf(r) # NoOne => SinkOf(r) \in Sinks
BY Numbers DEF Control, SinkOf

(* A run that shares nothing has a pipe and a sink of its own.              *)
LEMMA Alone ==
    ASSUME TypeOK, Control, Separate, NEW r \in Requests, NEW q \in Requests \ shared,
           q # r, pc[r] \in Phases, pc[q] \in Phases
    PROVE  /\ obj[q] \in Objs /\ obj[q] # obj[r]
           /\ SinkOf(q) # NoOne => SinkOf(q) \in Sinks /\ SinkOf(q) # SinkOf(r)
BY Redirected, Numbers DEF Separate

LEMMA OwnStep ==
    ASSUME TypeOK, Control, Separate, Kept, Own, [Next]_vars
    PROVE  Own'
<1> USE DEF pipes, reads, conns, links, results, tables, traces, runs, SetPC
<1>0. /\ PipeTypes /\ RunTypes /\ ReadTypes /\ LinkTypes /\ ResultTypes /\ TableTypes
      /\ NoOne \notin Requests /\ NoOne \notin Objs
  BY Numbers DEF TypeOK
<1> USE DEF RunTypes
<1>1. CASE Insert \/ UNCHANGED vars
  BY <1>0, <1>1 DEF Insert, vars, Own, Alike, Clean, Kept, Separate, Phases, SinkOf
<1>2. ASSUME NEW r \in Requests, PutSecret(r) PROVE Own'
  BY <1>0, <1>2 DEF PutSecret, Arrives, Own, Alike, Clean, Kept, Separate, Phases, SinkOf
<1>3. ASSUME NEW r \in Requests, ResolveSource(r) PROVE Own'
  BY <1>0, <1>3 DEF ResolveSource, Arrives, Own, Alike, Clean, Kept, Separate, Phases, SinkOf
<1>4. ASSUME NEW r \in Requests, ResolveSink(r) PROVE Own'
  BY <1>0, <1>4 DEF ResolveSink, Own, Alike, Clean, Kept, Separate, Phases, SinkOf
<1>5. ASSUME NEW r \in Requests, CheckAbsent(r) PROVE Own'
  BY <1>0, <1>5 DEF CheckAbsent, Own, Alike, Clean, Kept, Separate, Phases, SinkOf
<1>6. ASSUME NEW r \in Requests, Register(r) PROVE Own'
  BY <1>0, <1>6 DEF Register, Own, Alike, Clean, Kept, Separate, Phases, SinkOf
<1>7. ASSUME NEW r \in Requests, LookUp(r) PROVE Own'
  BY <1>0, <1>7 DEF LookUp, Arrives, Own, Alike, Clean, Kept, Separate, Phases, SinkOf
<1>8. ASSUME NEW r \in Requests, DeletePipe(r) PROVE Own'
  BY <1>0, <1>8 DEF DeletePipe, Own, Alike, Clean, Kept, Separate, Phases, SinkOf
<1>9. ASSUME NEW r \in Requests, ResetBookmark(r) PROVE Own'
  BY <1>0, <1>9 DEF ResetBookmark, Own, Alike, Clean, Kept, Separate, Phases, SinkOf
<1>10. ASSUME NEW r \in Requests, StartRun(r) PROVE Own'
  BY <1>0, <1>10 DEF StartRun, Begin, Arrives, Own, Alike, Clean, Kept, Separate, Phases, SinkOf
<1>11. ASSUME NEW r \in Requests, StartReplay(r) PROVE Own'
  BY <1>0, <1>11 DEF StartReplay, Begin, Arrives, Own, Alike, Clean, Kept, Separate, Phases, SinkOf
<1>12. ASSUME NEW r \in Requests, OpenSource(r) PROVE Own'
  <2>1. /\ pc[r] = "begun" /\ pc' = [pc EXCEPT ![r] = "source"]
        /\ sourceConn' = [sourceConn EXCEPT ![obj[r]] = r]
        /\ open' = open \cup {<<"source", r>>}
        /\ UNCHANGED <<obj, job, sinkConn, cursor, shared, leaked>>
    BY <1>12 DEF OpenSource
  <2>2. \A q \in Requests : SinkOf(q)' = SinkOf(q)
    BY <2>1 DEF SinkOf
  <2>3. obj[r] \in Objs /\ sourceConn'[obj[r]] = r /\ pc'[r] = "source"
    BY <1>0, <2>1 DEF Control, Phases, LinkTypes
  <2>4. <<"sink", r>> \notin open
    BY <2>1 DEF Kept
  <2>5. ASSUME NEW q \in Requests \ shared, q # r, pc[q] \in Phases
        PROVE  sourceConn'[obj[q]] = sourceConn[obj[q]]
    BY <1>0, <2>1, <2>5, Alone DEF LinkTypes, Phases
  <2>6. \A q \in Requests : q # r => /\ pc'[q] = pc[q]
                                     /\ <<"source", q>> \in open' <=> <<"source", q>> \in open
    BY <1>0, <2>1
  <2>7. \A q \in Requests : <<"sink", q>> \in open' <=> <<"sink", q>> \in open
    BY <2>1
  <2>8. Alike(r)' /\ Clean(r)'
    BY <2>1, <2>3, <2>4, <2>7 DEF Alike, Clean
  <2>9. ASSUME NEW q \in Requests \ shared, q # r
        PROVE  Alike(q)' /\ (q \notin leaked => Clean(q)')
    BY <2>1, <2>2, <2>5, <2>6, <2>7, <2>9 DEF Own, Alike, Clean, Phases
  <2>10. QED  BY <2>1, <2>8, <2>9 DEF Own
<1>13. ASSUME NEW r \in Requests, OpenSink(r) PROVE Own'
  <2> DEFINE s == SinkOf(r)
  <2>1. /\ pc[r] = "source" /\ pc' = [pc EXCEPT ![r] = "sink"]
        /\ s = NoOne => UNCHANGED <<sinkConn, open>>
        /\ s # NoOne => /\ sinkConn' = [sinkConn EXCEPT ![s] = r]
                        /\ open' = open \cup {<<"sink", r>>}
        /\ UNCHANGED <<obj, job, sourceConn, cursor, shared, leaked>>
    BY <1>13 DEF OpenSink
  <2>2. \A q \in Requests : SinkOf(q)' = SinkOf(q)
    BY <2>1 DEF SinkOf
  <2>3. /\ s # NoOne => s \in Sinks /\ sinkConn'[s] = r /\ <<"sink", r>> \in open'
        /\ pc'[r] = "sink" /\ open \subseteq open'
    BY <1>0, <2>1, Redirected DEF Phases, LinkTypes
  <2>4. ASSUME NEW q \in Requests \ shared, q # r, pc[q] \in Phases, SinkOf(q) # NoOne
        PROVE  sinkConn'[SinkOf(q)] = sinkConn[SinkOf(q)]
    BY <1>0, <2>1, <2>4, Alone, Redirected DEF LinkTypes, Phases
  <2>5. \A q \in Requests : q # r => /\ pc'[q] = pc[q]
                                     /\ <<"sink", q>> \in open' <=> <<"sink", q>> \in open
    BY <1>0, <2>1
  <2>6. \A q \in Requests : <<"source", q>> \in open' <=> <<"source", q>> \in open
    BY <2>1
  <2>7. r \notin shared => Alike(r)'
    BY <2>1, <2>2, <2>3, <2>6 DEF Own, Alike
  <2>8. r \notin shared \cup leaked => Clean(r)'
    <3>1. ASSUME r \notin shared \cup leaked, <<"sink", r>> \in open'
          PROVE  s # NoOne
      BY <2>1, <3>1 DEF Own, Clean
    <3>2. QED  BY <2>1, <2>2, <2>3, <2>6, <3>1 DEF Own, Clean
  <2>9. ASSUME NEW q \in Requests \ shared, q # r
        PROVE  Alike(q)' /\ (q \notin leaked => Clean(q)')
    BY <2>1, <2>2, <2>4, <2>5, <2>6, <2>9 DEF Own, Alike, Clean, Phases
  <2>10. QED  BY <2>1, <2>7, <2>8, <2>9 DEF Own
<1>14. ASSUME NEW r \in Requests, OpenCursor(r) PROVE Own'
  <2>1. /\ pc[r] = "sink" /\ pc' = [pc EXCEPT ![r] = "reading"]
        /\ cursor' = [cursor EXCEPT ![r] = sourceConn[obj[r]]]
        /\ UNCHANGED <<obj, job, conns, open, shared, leaked>>
    BY <1>14 DEF OpenCursor
  <2>2. \A q \in Requests : SinkOf(q)' = SinkOf(q)
    BY <2>1 DEF SinkOf
  <2>3. /\ \A q \in Requests : q # r => pc'[q] = pc[q] /\ cursor'[q] = cursor[q]
        /\ pc'[r] = "reading" /\ cursor'[r] = sourceConn[obj[r]]
    BY <1>0, <2>1 DEF LinkTypes
  <2>4. r \notin shared => Alike(r)' /\ (r \notin leaked => Clean(r)')
    BY <2>1, <2>2, <2>3 DEF Own, Alike, Clean
  <2>5. ASSUME NEW q \in Requests \ shared, q # r
        PROVE  Alike(q)' /\ (q \notin leaked => Clean(q)')
    BY <2>1, <2>2, <2>3, <2>5 DEF Own, Alike, Clean
  <2>6. QED  BY <2>1, <2>4, <2>5 DEF Own
<1>15. ASSUME NEW r \in Requests, CopyRow(r) PROVE Own'
  BY <1>0, <1>15 DEF CopyRow, Own, Alike, Clean, Kept, Separate, Phases, SinkOf
<1>16. ASSUME NEW r \in Requests, EndCopy(r) PROVE Own'
  BY <1>0, <1>16 DEF EndCopy, Own, Alike, Clean, Kept, Separate, Phases, SinkOf
<1>17. ASSUME NEW r \in Requests, Raise(r) PROVE Own'
  BY <1>0, <1>17 DEF Raise, Own, Alike, Clean, Kept, Separate, Phases, SinkOf
<1>18. ASSUME NEW r \in Requests, CloseSink(r) PROVE Own'
  <2> DEFINE s == SinkOf(r)
  <2>1. /\ pc[r] = "closing" /\ pc' = [pc EXCEPT ![r] = "halfclosed"]
        /\ s = NoOne => UNCHANGED <<sinkConn, open>>
        /\ s # NoOne => /\ sinkConn' = [sinkConn EXCEPT ![s] = NoOne]
                        /\ open' = open \ {<<"sink", sinkConn[s]>>}
        /\ UNCHANGED <<obj, job, sourceConn, cursor, shared, leaked>>
    BY <1>18 DEF CloseSink
  <2>2. \A q \in Requests : SinkOf(q)' = SinkOf(q)
    BY <2>1 DEF SinkOf
  <2>3. /\ \A q \in Requests : q # r => pc'[q] = pc[q]
        /\ pc'[r] = "halfclosed" /\ open' \subseteq open
    BY <1>0, <2>1
  <2>4. ASSUME NEW q \in Requests \ shared, q # r, pc[q] \in Phases
        PROVE  /\ SinkOf(q) # NoOne => sinkConn'[SinkOf(q)] = sinkConn[SinkOf(q)]
               /\ <<"sink", q>> \in open' <=> <<"sink", q>> \in open
    <3>1. s # NoOne => sinkConn[s] # q
      <4>1. ASSUME s # NoOne, sinkConn[s] = q PROVE obj[q] = obj[r]
        <5>1. s = obj[r] \/ s = Startup + r
          BY <2>1, <4>1, Redirected DEF Phases
        <5>2. q # NoOne /\ obj[r] \in Objs
          BY <2>1, Redirected, Numbers DEF Phases
        <5> HIDE DEF s
        <5>3. QED  BY <4>1, <5>1, <5>2 DEF Kept
      <4>2. QED  BY <2>1, <2>4, <4>1, Alone DEF Phases
    <3>2. SinkOf(q) # NoOne => SinkOf(q) \in Sinks /\ SinkOf(q) # s
      BY <2>1, <2>4, Alone, Redirected DEF Phases
    <3> HIDE DEF s
    <3>3. QED  BY <1>0, <2>1, <3>1, <3>2 DEF LinkTypes
  <2>5. \A q \in Requests : <<"source", q>> \in open' <=> <<"source", q>> \in open
    BY <2>1
  <2>6. r \notin shared \cup leaked => <<"sink", r>> \notin open'
    BY <2>1 DEF Own, Clean
  <2>7. Alike(r)' /\ (r \notin shared \cup leaked => Clean(r)')
    BY <2>1, <2>3, <2>5, <2>6 DEF Own, Alike, Clean
  <2>8. ASSUME NEW q \in Requests \ shared, q # r
        PROVE  Alike(q)' /\ (q \notin leaked => Clean(q)')
    BY <2>1, <2>2, <2>3, <2>4, <2>5, <2>8 DEF Own, Alike, Clean, Phases
  <2>9. QED  BY <2>1, <2>7, <2>8 DEF Own
<1>19. ASSUME NEW r \in Requests, CloseSource(r) PROVE Own'
  <2>1. /\ pc[r] = "halfclosed" /\ pc' = [pc EXCEPT ![r] = "closed"]
        /\ open' = open \ {<<"source", sourceConn[obj[r]]>>}
        /\ sourceConn' = [sourceConn EXCEPT ![obj[r]] = NoOne]
        /\ UNCHANGED <<obj, job, sinkConn, cursor, shared, leaked>>
    BY <1>19 DEF CloseSource
  <2>2. \A q \in Requests : SinkOf(q)' = SinkOf(q)
    BY <2>1 DEF SinkOf
  <2>3. /\ \A q \in Requests : q # r => pc'[q] = pc[q]
        /\ pc'[r] = "closed" /\ open' \subseteq open /\ obj[r] \in Objs
    BY <1>0, <2>1 DEF Control, Phases
  <2>4. ASSUME NEW q \in Requests \ shared, q # r, pc[q] \in Phases
        PROVE  /\ sourceConn'[obj[q]] = sourceConn[obj[q]]
               /\ <<"source", q>> \in open' <=> <<"source", q>> \in open
    <3>1. sourceConn[obj[r]] # q
      <4>1. \A o \in Objs : sourceConn[o] # NoOne => obj[sourceConn[o]] = o
        BY DEF Kept
      <4>2. q # NoOne
        BY Numbers
      <4>3. sourceConn[obj[r]] = q => obj[q] = obj[r]
        BY <2>3, <4>1, <4>2
      <4>4. QED  BY <2>1, <2>4, <4>3, Alone DEF Phases
    <3>2. obj[q] \in Objs /\ obj[q] # obj[r]
      BY <2>1, <2>4, Alone DEF Phases
    <3>3. QED  BY <1>0, <2>1, <3>1, <3>2 DEF LinkTypes
  <2>5. \A q \in Requests : <<"sink", q>> \in open' <=> <<"sink", q>> \in open
    BY <2>1
  <2>6. r \notin shared \cup leaked => <<"source", r>> \notin open' /\ <<"sink", r>> \notin open'
    BY <2>1 DEF Own, Clean
  <2>7. Alike(r)' /\ (r \notin shared \cup leaked => Clean(r)')
    BY <2>1, <2>3, <2>6 DEF Own, Alike, Clean
  <2>8. ASSUME NEW q \in Requests \ shared, q # r
        PROVE  Alike(q)' /\ (q \notin leaked => Clean(q)')
    BY <2>1, <2>2, <2>3, <2>4, <2>5, <2>8 DEF Own, Alike, Clean, Phases
  <2>9. QED  BY <2>1, <2>7, <2>8 DEF Own
<1>20. ASSUME NEW r \in Requests, TeardownRaises(r) PROVE Own'
  BY <1>0, <1>20 DEF TeardownRaises, Own, Alike, Clean, Kept, Separate, Phases, SinkOf
<1>21. ASSUME NEW r \in Requests, Finish(r) PROVE Own'
  BY <1>0, <1>21 DEF Finish, Own, Alike, Clean, Kept, Separate, Phases, SinkOf
<1>22. QED
  BY <1>1, <1>2, <1>3, <1>4, <1>5, <1>6, <1>7, <1>8, <1>9, <1>10, <1>11, <1>12, <1>13,
     <1>14, <1>15, <1>16, <1>17, <1>18, <1>19, <1>20, <1>21 DEF Next

(* What a step does to the stored bookmark, the replay points and the table *)
(* of the pipe.                                                             *)
Guarded ==
    /\ store # NoOne /\ store' = store /\ val'[store] < val[store] => Running \cap shared # {}
    /\ \A r \in Requests : job'[r] \in Strategies /\ (pc'[r] # pc[r] \/ pos'[r] # pos[r]) =>
           /\ UNCHANGED <<store, points>>
           /\ store # NoOne => val'[store] = val[store]
           /\ job'[r] # "replace" => UNCHANGED live

LEMMA GuardedStep ==
    ASSUME TypeOK, Control, InStep, [Next]_vars
    PROVE  Guarded
<1> USE DEF pipes, reads, conns, links, results, tables, traces, runs, SetPC, Guarded
<1>0. /\ RunTypes /\ ReadTypes /\ ResultTypes /\ NoOne \notin Requests
      /\ \A b \in Requests : ~(val[b] < val[b])
      /\ store # NoOne => store \in Requests
  BY Numbers DEF TypeOK, ReadTypes, ResultTypes
<1> USE DEF RunTypes
<1>1. CASE Insert \/ UNCHANGED vars
  BY <1>0, <1>1 DEF Insert, vars
<1>2. ASSUME NEW r \in Requests, PutSecret(r) PROVE Guarded
  BY <1>0, <1>2 DEF PutSecret, Arrives, Control, Strategies, Building
<1>3. ASSUME NEW r \in Requests, ResolveSource(r) PROVE Guarded
  BY <1>0, <1>3 DEF ResolveSource, Arrives, Control, Strategies, Building
<1>4. ASSUME NEW r \in Requests, ResolveSink(r) PROVE Guarded
  BY <1>0, <1>4 DEF ResolveSink, Control, Strategies, Building
<1>5. ASSUME NEW r \in Requests, CheckAbsent(r) PROVE Guarded
  BY <1>0, <1>5 DEF CheckAbsent, Control, Strategies, Building
<1>6. ASSUME NEW r \in Requests, Register(r) PROVE Guarded
  BY <1>0, <1>6 DEF Register, Control, Strategies, Building
<1>7. ASSUME NEW r \in Requests, LookUp(r) PROVE Guarded
  BY <1>0, <1>7 DEF LookUp, Arrives, Control, Strategies, Building
<1>8. ASSUME NEW r \in Requests, DeletePipe(r) PROVE Guarded
  BY <1>0, <1>8 DEF DeletePipe, Control, Strategies, Building
<1>9. ASSUME NEW r \in Requests, ResetBookmark(r) PROVE Guarded
  BY <1>0, <1>9 DEF ResetBookmark, Control, Strategies, Building
<1>10. ASSUME NEW r \in Requests, StartRun(r) PROVE Guarded
  BY <1>0, <1>10 DEF StartRun, Begin, Arrives, Control, Strategies, Building
<1>11. ASSUME NEW r \in Requests, StartReplay(r) PROVE Guarded
  <2>1. /\ UNCHANGED <<store, points, live, pos>> /\ pc[r] = "new"
        /\ \A q \in Requests : q # r => val'[q] = val[q] /\ pc'[q] = pc[q]
    BY <1>0, <1>11 DEF StartReplay, Begin, Arrives, ReadTypes
  <2>2. store # NoOne => store # r /\ val'[store] = val[store]
    BY <1>0, <2>1 DEF Control, ResultTypes
  <2>3. QED  BY <1>0, <2>1, <2>2 DEF ResultTypes, ReadTypes
<1>12. ASSUME NEW r \in Requests, OpenSource(r) PROVE Guarded
  BY <1>0, <1>12 DEF OpenSource, Control, Strategies, Building
<1>13. ASSUME NEW r \in Requests, OpenSink(r) PROVE Guarded
  BY <1>0, <1>13 DEF OpenSink, Control, Strategies, Building
<1>14. ASSUME NEW r \in Requests, OpenCursor(r) PROVE Guarded
  BY <1>0, <1>14 DEF OpenCursor, Control, Strategies, Building
<1>15. ASSUME NEW r \in Requests, CopyRow(r) PROVE Guarded
  <2>1. /\ val' = IF job[r] = "run" THEN [val EXCEPT ![bm[r]] = pos[r] + 1] ELSE val
        /\ pc[r] = "reading" /\ bm[r] \in Requests /\ pos[r] \in Nat
        /\ \A q \in Requests : q # r => pc'[q] = pc[q] /\ pos'[q] = pos[q]
        /\ job[r] \notin {"run", "replace"} => UNCHANGED live
        /\ UNCHANGED <<store, points, job, pc>>
    BY <1>0, <1>15 DEF CopyRow, Control, ReadTypes
  <2>2. ASSUME store # NoOne, val'[store] < val[store]
        PROVE  Running \cap shared # {}
    <3>1. job[r] = "run" /\ store = bm[r] /\ val'[store] = pos[r] + 1
      BY <1>0, <2>1, <2>2 DEF ResultTypes, ReadTypes
    <3>2. r \in shared
      BY <1>0, <2>1, <2>2, <3>1 DEF InStep, ReadTypes
    <3>3. r \in Running
      BY <2>1 DEF Running, Phases
    <3>4. QED  BY <3>2, <3>3
  <2>3. \A q \in Requests : job'[q] \in Strategies /\ (pc'[q] # pc[q] \/ pos'[q] # pos[q]) =>
            /\ UNCHANGED <<store, points>>
            /\ store # NoOne => val'[store] = val[store]
            /\ job'[q] # "replace" => UNCHANGED live
    BY <2>1 DEF Strategies
  <2>4. QED  BY <2>1, <2>2, <2>3
<1>16. ASSUME NEW r \in Requests, EndCopy(r) PROVE Guarded
  BY <1>0, <1>16 DEF EndCopy, Control, Strategies, Building
<1>17. ASSUME NEW r \in Requests, Raise(r) PROVE Guarded
  BY <1>0, <1>17 DEF Raise, Control, Strategies, Building
<1>18. ASSUME NEW r \in Requests, CloseSink(r) PROVE Guarded
  BY <1>0, <1>18 DEF CloseSink, Control, Strategies, Building
<1>19. ASSUME NEW r \in Requests, CloseSource(r) PROVE Guarded
  BY <1>0, <1>19 DEF CloseSource, Control, Strategies, Building
<1>20. ASSUME NEW r \in Requests, TeardownRaises(r) PROVE Guarded
  BY <1>0, <1>20 DEF TeardownRaises, Control, Strategies, Building
<1>21. ASSUME NEW r \in Requests, Finish(r) PROVE Guarded
  BY <1>0, <1>21 DEF Finish, Control, Strategies, Building
<1>22. QED
  BY <1>1, <1>2, <1>3, <1>4, <1>5, <1>6, <1>7, <1>8, <1>9, <1>10, <1>11, <1>12, <1>13,
     <1>14, <1>15, <1>16, <1>17, <1>18, <1>19, <1>20, <1>21 DEF Next

-----------------------------------------------------------------------------
Inv == TypeOK /\ Control /\ Copied /\ Created /\ Separate /\ InStep /\ Kept /\ Own

LEMMA InitInv == Init => Inv
<1> SUFFICES ASSUME Init PROVE Inv
  OBVIOUS
<1> USE Numbers, ServerAssumption DEF Init
<1>1. TypeOK
  <2>1. (CHOOSE c \in Configs : TRUE) \in Configs
    OBVIOUS
  <2>2. PipeTypes
    BY <2>1 DEF PipeTypes
  <2>3. RunTypes
    BY DEF RunTypes, PCs
  <2>4. ReadTypes
    BY DEF ReadTypes
  <2>5. LinkTypes
    BY DEF LinkTypes
  <2>6. ResultTypes
    BY DEF ResultTypes
  <2>7. TableTypes
    BY DEF TableTypes
  <2>8. Active = {}
    BY DEF Active
  <2>9. Cardinality(Active) <= MaxActive
    BY <2>8, FS_EmptySet
  <2>10. QED  BY <2>2, <2>3, <2>4, <2>5, <2>6, <2>7, <2>9 DEF TypeOK
<1>2. Control
  BY DEF Control, Phases, Building
<1>3. Copied
  BY DEF Copied, Below, Rows
<1>4. Created
  BY DEF Created, Building
<1>5. Separate
  BY DEF Separate, Phases
<1>6. InStep
  BY DEF InStep
<1>7. Kept
  BY DEF Kept
<1>8. Own
  BY DEF Own, Alike, Clean
<1>9. QED  BY <1>1, <1>2, <1>3, <1>4, <1>5, <1>6, <1>7, <1>8 DEF Inv

THEOREM Invariance == Spec => []Inv
<1>1. Inv /\ [Next]_vars => Inv'
  BY TypeStep, ControlStep, CopiedStep, CreatedStep, SeparateStep, InStepStep, KeptStep,
     OwnStep DEF Inv
<1>2. QED  BY InitInv, <1>1, PTL DEF Spec

(* The variables keep their types, no more requests are served at a time    *)
(* than there are threads, and a run that ended well has copied all rows.   *)
THEOREM TypeCorrect == Spec => []TypeOK
<1>1. Inv => TypeOK
  BY DEF Inv
<1>2. QED  BY <1>1, Invariance, PTL

(* No row below the stored bookmark or a replay point is missing, however   *)
(* many runs advance one Bookmark object at the same time (runner.py:245).  *)
THEOREM NothingIsSkipped == Spec => []NothingSkipped
<1>1. ASSUME Inv PROVE NothingSkipped
  <2> DEFINE copied == UNION {live[o] : o \in Objs}
  <2>1. ASSUME NEW v \in 0..NumRows, Below(v) PROVE 1..v \subseteq copied
    BY <2>1, Numbers DEF Below, InTable, Rows
  <2>2. store # NoOne => 1..val[store] \subseteq copied
    BY <1>1, <2>1 DEF Inv, TypeOK, ReadTypes, ResultTypes, Copied
  <2>3. ASSUME NEW p \in points PROVE 1..p.value \subseteq copied
    <3>1. p.value \in 0..NumRows /\ Below(p.value)
      BY <1>1 DEF Inv, TypeOK, ResultTypes, Points, Copied
    <3>2. QED  BY <2>1, <3>1
  <2>4. QED  BY <2>2, <2>3 DEF NothingSkipped
<1>2. QED  BY <1>1, Invariance, PTL

(* A connection leaks, or is closed under a run that needs it, only if runs *)
(* of the pipe overlapped or a teardown of the run raised.                  *)
THEOREM ConnectionsAreReleased == Spec => []ConnectionsReleased
<1>1. ASSUME Inv PROVE ConnectionsReleased
  <2>1. ASSUME NEW c \in open, pc[c[2]] = "done", c[2] \notin shared \cup leaked
        PROVE  FALSE
    <3>1. /\ c[2] \in Requests
          /\ c = <<"source", c[2]>> \/ c = <<"sink", c[2]>>
      BY <1>1 DEF Inv, TypeOK, LinkTypes
    <3>2. Clean(c[2])
      BY <1>1, <2>1, <3>1 DEF Inv, Own
    <3>3. QED  BY <2>1, <3>1, <3>2 DEF Clean
  <2>2. ASSUME NEW r \in Requests, Lost(r), r \notin shared
        PROVE  FALSE
    <3>1. Alike(r)
      BY <1>1, <2>2 DEF Inv, Own
    <3>2. QED  BY <2>2, <3>1 DEF Lost, CanWrite, Alike
  <2>3. QED  BY <2>1, <2>2 DEF ConnectionsReleased
<1>2. QED  BY <1>1, Invariance, PTL

(* A pipe replaces no other one, and its two connectors agree on the        *)
(* secret, unless another request interfered with its creation.             *)
THEOREM CreationIsAtomic == Spec => CreateIsAtomic
<1>1. ASSUME Inv, [Next]_vars
      PROVE  registry' \notin {registry, NoOne} /\ registry' \notin raced =>
                registry = NoOne /\ built[registry'][1] = built[registry'][2]
  <2> USE DEF pipes, reads, conns, links, results, tables, traces, runs, SetPC
  <2>1. ASSUME NEW r \in Requests, Register(r), r \notin raced
        PROVE  registry = NoOne /\ built[r][1] = built[r][2]
    BY <1>1, <2>1 DEF Inv, Created, Register
  <2>2. \/ registry' = registry \/ registry' = NoOne
        \/ \E r \in Requests : Register(r) /\ registry' = r
    <3>1. CASE Insert \/ UNCHANGED vars
      BY <3>1 DEF Insert, vars
    <3>2. ASSUME NEW r \in Requests, Register(r) PROVE registry' = r
      BY <3>2 DEF Register
    <3>3. ASSUME NEW r \in Requests,
                 \/ PutSecret(r) \/ ResolveSource(r) \/ ResolveSink(r) \/ CheckAbsent(r)
                 \/ LookUp(r) \/ DeletePipe(r) \/ ResetBookmark(r)
          PROVE  registry' \in {registry, NoOne}
      BY <3>3 DEF PutSecret, ResolveSource, ResolveSink, CheckAbsent, LookUp, DeletePipe,
         ResetBookmark
    <3>4. ASSUME NEW r \in Requests, StartRun(r) \/ StartReplay(r)
          PROVE  registry' = registry
      BY <3>4 DEF StartRun, StartReplay, Begin
    <3>5. ASSUME NEW r \in Requests,
                 \/ OpenSource(r) \/ OpenSink(r) \/ OpenCursor(r) \/ CopyRow(r) \/ EndCopy(r)
                 \/ Raise(r) \/ CloseSink(r) \/ CloseSource(r) \/ TeardownRaises(r) \/ Finish(r)
          PROVE  registry' = registry
      BY <3>5 DEF OpenSource, OpenSink, OpenCursor, CopyRow, EndCopy, Raise, CloseSink,
         CloseSource, TeardownRaises, Finish
    <3>6. QED  BY <1>1, <3>1, <3>2, <3>3, <3>4, <3>5 DEF Next
  <2>3. QED  BY <2>1, <2>2
<1>2. QED  BY <1>1, Invariance, PTL DEF Spec, CreateIsAtomic

(* The stored bookmark goes back only under overlapping runs, and a replay  *)
(* moves neither the bookmark nor the replay points, nor the table of the   *)
(* pipe unless it replaces.                                                 *)
THEOREM StartsAreGuarded == Spec => StartIsGuarded
<1>1. ASSUME Inv, [Next]_vars PROVE Guarded
  BY <1>1, GuardedStep DEF Inv
<1>2. QED  BY <1>1, Invariance, PTL DEF Spec, StartIsGuarded, Guarded
=============================================================================
