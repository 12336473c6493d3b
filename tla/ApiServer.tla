----------------------------- MODULE ApiServer -----------------------------
(***************************************************************************)
(* The API server (api/): requests served by threads that share, without   *)
(* locks, what create_app makes: the pipe registry, the secrets, the       *)
(* in-memory bookmark store, the replay points and the run history.  A run *)
(* copies rows in INCREMENTAL mode (runner.py); a replay (replay/runner.py) *)
(* runs the same pipe from the bookmark of a replay point, its output      *)
(* redirected.  All runs of a pipe use its source and its sink object,     *)
(* hence the one connection that each of these keeps.                      *)
(*                                                                         *)
(* All requests are about one pipe id.  Row n is the n-th in the order of  *)
(* the bookmark column and is a batch of its own.  A request that is       *)
(* refused at once (404, 422) changes nothing and is left out.             *)
(***************************************************************************)
EXTENDS Naturals, FiniteSets, SequencesExt

CONSTANTS
    InitialRows,  \* rows in the source at the beginning
    NumRows,      \* bound: rows in the source
    Configs,      \* what _config_digest sees of a pipe: mode and types
    MaxSecret,    \* bound: values given to the secret that a created pipe uses
    MaxRequests,  \* bound: requests
    MaxActive,    \* requests served at a time
    HistoryMax,   \* maxlen of the run history
    MaxFaults     \* bound: exceptions and timeouts

ASSUME ServerAssumption ==
    /\ NumRows \in Nat /\ InitialRows \in 0..NumRows /\ MaxSecret \in Nat /\ MaxRequests \in Nat
    /\ MaxActive \in Nat \ {0} /\ HistoryMax \in Nat \ {0} /\ MaxFaults \in Nat
    /\ Configs # {}

(* Requests are numbered in the order in which they arrive.  Pipe object o  *)
(* is the one that request o created; Startup is registered at startup.     *)
(* copy.copy makes sink Startup + r for request r.                          *)
Requests == 1..MaxRequests
Startup  == MaxRequests + 1
Objs     == 1..Startup
Sinks    == 1..(Startup + MaxRequests)
Rows     == 1..NumRows
NoOne    == 0         \* no object, no bookmark, no connection

Strategies == {"dry_run", "shadow", "replace"}
Jobs  == {"run"} \cup Strategies
Admin == {"create", "delete", "reset", "secret"}

VARIABLES
    registry,   \* the pipe object registered
    config,     \* config[o]: of pipe object o
    secret,     \* value of the secret; 0: not in the store
    built,      \* built[o]: secret values in o's source and sink
    pc, job,    \* where each request stands, and what it is
    obj,        \* obj[r]: the pipe object that it runs
    bm,         \* bm[r]: the request that made the Bookmark object r uses
    val,        \* val[r]: value of the Bookmark object made by r
    rows,       \* rows in the source; keys grow
    pos, last,  \* r's cursor still has the rows from pos[r] + 1 to last[r]
    sourceConn, \* sourceConn[o]: whose connection the source of o keeps
    sinkConn,   \* sinkConn[s]: whose connection sink s keeps
    cursor,     \* cursor[r]: the connection that r reads from
    ok,         \* ok[r]: RunResult.success
    open,       \* connections that are open
    store,      \* bookmark store: the maker of the stored Bookmark
    points,     \* the replay store
    history,    \* run_history
    live,       \* live[o]: rows in the target table of o
    shadow,     \* shadow[o]: rows in its {table}_shadow
    faults,
    shared,     \* history: runs overlapped by one with the same pipe or Bookmark object
    leaked,     \* history: runs with a teardown that raised
    raced       \* history: creations overlapped by another, or by a new secret

reads   == <<rows, pos, last>>
pipes   == <<registry, config, secret, built, raced>>
conns   == <<sourceConn, sinkConn>>
links   == <<conns, open, cursor>>
results == <<store, points, history>>
tables  == <<live, shadow>>
traces  == <<faults, shared, leaked>>
vars == <<pipes, pc, job, obj, bm, val, reads, links, ok, results, tables, traces>>

-----------------------------------------------------------------------------
Phases == {"begun", "source", "sink", "reading", "closing", "halfclosed", "closed"}
PCs == Phases \cup {"new", "building", "built", "absent", "checked", "done"}

Active  == {r \in Requests : pc[r] \notin {"new", "done"}}
Running == {r \in Requests : pc[r] \in Phases}

Points == [run : Requests, config : Configs, value : 0..NumRows]

PipeTypes ==
    /\ registry \in {NoOne} \cup Objs /\ config \in [Objs -> Configs]
    /\ secret \in 0..MaxSecret /\ built \in [Objs -> (0..MaxSecret) \X (0..MaxSecret)]
    /\ raced \subseteq Requests

RunTypes ==
    /\ pc \in [Requests -> PCs] /\ job \in [Requests -> Jobs \cup Admin \cup {"none"}]
    /\ obj \in [Requests -> {NoOne} \cup Objs]
    /\ bm \in [Requests -> {NoOne} \cup Requests] /\ ok \in [Requests -> BOOLEAN]
    /\ shared \subseteq Requests /\ leaked \subseteq Requests /\ faults \in 0..MaxFaults

ReadTypes ==
    /\ val \in [Requests -> 0..NumRows] /\ rows \in 0..NumRows
    /\ pos \in [Requests -> 0..NumRows] /\ last \in [Requests -> 0..NumRows]

LinkTypes ==
    /\ sourceConn \in [Objs -> {NoOne} \cup Requests]
    /\ sinkConn \in [Sinks -> {NoOne} \cup Requests]
    /\ cursor \in [Requests -> {NoOne} \cup Requests]
    /\ open \subseteq {"source", "sink"} \X Requests

ResultTypes ==
    /\ store \in {NoOne} \cup Requests /\ points \subseteq Points
    /\ history \in Seq(Requests) /\ Len(history) <= HistoryMax

TableTypes == live \in [Objs -> SUBSET Rows] /\ shadow \in [Objs -> SUBSET Rows]

(* The type invariant.  A run that ends well has copied every row after its *)
(* bookmark.                                                                *)
TypeOK ==
    /\ PipeTypes /\ RunTypes /\ ReadTypes /\ LinkTypes /\ ResultTypes /\ TableTypes
    /\ Cardinality(Active) <= MaxActive
    /\ \A r \in Requests : ok[r] => pos[r] >= last[r]

Init ==
    /\ registry = Startup
    /\ config = [o \in Objs |-> CHOOSE c \in Configs : TRUE]
    /\ secret = MaxSecret /\ built = [o \in Objs |-> <<0, 0>>]
    /\ pc = [r \in Requests |-> "new"] /\ job = [r \in Requests |-> "none"]
    /\ obj = [r \in Requests |-> NoOne] /\ bm = [r \in Requests |-> NoOne]
    /\ val = [r \in Requests |-> 0] /\ rows = InitialRows
    /\ pos = [r \in Requests |-> 0] /\ last = [r \in Requests |-> 0]
    /\ sourceConn = [o \in Objs |-> NoOne] /\ sinkConn = [s \in Sinks |-> NoOne]
    /\ open = {} /\ cursor = [r \in Requests |-> NoOne]
    /\ ok = [r \in Requests |-> FALSE]
    /\ store = NoOne /\ points = {} /\ history = << >>
    /\ live = [o \in Objs |-> {}] /\ shadow = [o \in Objs |-> {}]
    /\ faults = 0 /\ shared = {} /\ leaked = {} /\ raced = {}

SetPC(r, p) == pc' = [pc EXCEPT ![r] = p]

(* Request r is the next to arrive, and a thread is free to serve it.       *)
Arrives(r) ==
    /\ pc[r] = "new" /\ \A q \in 1..(r - 1) : pc[q] # "new"
    /\ Cardinality(Active) < MaxActive

-----------------------------------------------------------------------------
(* Secrets (api/routes/secrets.py) and pipes made from a spec (api/routes/  *)
(* pipes.py create_pipe, delete_pipe; api/factory.py build_pipe).           *)

(* PUT or DELETE /secrets/<key>.                                            *)
PutSecret(r) ==
    /\ Arrives(r)
    /\ \E v \in 0..MaxSecret \ {secret} : secret' = v
    /\ raced' = raced \cup {q \in Requests : pc[q] = "building"}
    /\ job' = [job EXCEPT ![r] = "secret"] /\ SetPC(r, "done")
    /\ UNCHANGED <<registry, config, built, obj, bm, val, reads, links, ok, results, tables, traces>>

(* POST /pipes/: build_pipe resolves the secret for the source; 422 if it   *)
(* is absent ...                                                            *)
ResolveSource(r) ==
    /\ Arrives(r) /\ secret # 0
    /\ built' = [built EXCEPT ![r] = <<secret, 0>>]
    /\ \E c \in Configs : config' = [config EXCEPT ![r] = c]
    /\ LET others == {q \in Active : job[q] = "create"}
       IN  raced' = raced \cup others \cup {q \in {r} : others # {}}
    /\ job' = [job EXCEPT ![r] = "create"] /\ SetPC(r, "building")
    /\ UNCHANGED <<registry, secret, obj, bm, val, reads, links, ok, results, tables, traces>>

(* ... and again for the sink.                                              *)
ResolveSink(r) ==
    /\ pc[r] = "building"
    /\ IF secret = 0 THEN SetPC(r, "done") /\ UNCHANGED built
       ELSE SetPC(r, "built") /\ built' = [built EXCEPT ![r] = <<@[1], secret>>]
    /\ UNCHANGED <<registry, config, secret, raced, job, obj, bm, val, reads, links, ok,
                   results, tables, traces>>

(* Mutant: the id is not looked up, only the secrets are.                   *)
NoCheckAbsent(r) ==
    /\ pc[r] = "built"
    /\ SetPC(r, "absent")
    /\ UNCHANGED <<pipes, job, obj, bm, val, reads, links, ok, results, tables, traces>>

(* 409 if the id is in use ...                                              *)
CheckAbsent(r) ==
    /\ pc[r] = "built"
    /\ SetPC(r, IF registry = NoOne THEN "absent" ELSE "done")
    /\ UNCHANGED <<pipes, job, obj, bm, val, reads, links, ok, results, tables, traces>>

(* ... and PipeRegistry.register otherwise.                                 *)
Register(r) ==
    /\ pc[r] = "absent"
    /\ registry' = r
    /\ SetPC(r, "done")
    /\ UNCHANGED <<config, secret, built, raced, job, obj, bm, val, reads, links, ok,
                   results, tables, traces>>

(* DELETE /pipes/<id> and DELETE /pipes/<id>/bookmark look the pipe up ...  *)
LookUp(r) ==
    /\ Arrives(r) /\ registry # NoOne
    /\ \E j \in {"delete", "reset"} : job' = [job EXCEPT ![r] = j]
    /\ SetPC(r, "checked")
    /\ UNCHANGED <<pipes, obj, bm, val, reads, links, ok, results, tables, traces>>

(* ... and remove it from the registry; runs of it go on ...                *)
DeletePipe(r) ==
    /\ pc[r] = "checked" /\ job[r] = "delete"
    /\ registry' = NoOne
    /\ SetPC(r, "done")
    /\ UNCHANGED <<config, secret, built, raced, job, obj, bm, val, reads, links, ok,
                   results, tables, traces>>

(* ... or delete its bookmark.                                              *)
ResetBookmark(r) ==
    /\ pc[r] = "checked" /\ job[r] = "reset"
    /\ store' = NoOne
    /\ SetPC(r, "done")
    /\ UNCHANGED <<pipes, job, obj, bm, val, reads, links, ok, points, history, tables, traces>>

-----------------------------------------------------------------------------
(* Runs and replays up to LocalRunner.run.                                  *)

(* Request r runs pipe object o as j, with the Bookmark object made by b.   *)
Begin(r, j, o, b) ==
    /\ job' = [job EXCEPT ![r] = j] /\ SetPC(r, "begun")
    /\ obj' = [obj EXCEPT ![r] = o] /\ bm' = [bm EXCEPT ![r] = b]
    /\ LET others == {q \in Running : obj[q] = o \/ (b # NoOne /\ bm[q] = b)}
       IN  shared' = shared \cup others \cup {q \in {r} : others # {}}
    /\ UNCHANGED <<pipes, reads, cursor, open, ok, results, tables, faults, leaked>>

(* POST /pipes/<id>/run with a bookmark before row 1 in the body, or with   *)
(* the stored Bookmark object, which the in-memory store hands out itself.  *)
StartRun(r) ==
    /\ Arrives(r) /\ registry # NoOne
    /\ \E b \in {r, store} : Begin(r, "run", registry, b)
    /\ UNCHANGED <<val, conns>>

(* Mutant: a replay uses the stored Bookmark object.                        *)
StartReplayOnStored(r) ==
    /\ Arrives(r) /\ registry # NoOne /\ store # NoOne
    /\ \E p \in points, j \in Strategies, drift \in BOOLEAN :
          /\ drift \/ p.config = config[registry]
          /\ val' = [val EXCEPT ![store] = p.value]
          /\ Begin(r, j, registry, store)
          /\ sinkConn' = IF j # "shadow" THEN sinkConn
                         ELSE [sinkConn EXCEPT ![Startup + r] = sinkConn[registry]]
    /\ UNCHANGED sourceConn

(* POST /replay/run: ReplayRunner.run compares the digests, restores a      *)
(* Bookmark of its own, and redirects the output.  The shadow sink is a     *)
(* copy of the sink, its connection included.                               *)
StartReplay(r) ==
    /\ Arrives(r) /\ registry # NoOne
    /\ \E p \in points, j \in Strategies, drift \in BOOLEAN :
          /\ drift \/ p.config = config[registry]
          /\ val' = [val EXCEPT ![r] = p.value]
          /\ Begin(r, j, registry, r)
          /\ sinkConn' = IF j # "shadow" THEN sinkConn
                         ELSE [sinkConn EXCEPT ![Startup + r] = sinkConn[registry]]
    /\ UNCHANGED sourceConn

-----------------------------------------------------------------------------
(* LocalRunner.run.                                                         *)

(* The sink that r writes to; NoOne for the _DevNullSink of a dry run.      *)
SinkOf(r) == IF job[r] \in {"run", "replace"} THEN obj[r]
             ELSE IF job[r] = "shadow" THEN Startup + r ELSE NoOne

(* The other rows are appended to the source table, in one transaction.     *)
Insert ==
    /\ rows < NumRows /\ rows' = NumRows
    /\ UNCHANGED <<pipes, pc, job, obj, bm, val, pos, last, links, ok, results, tables, traces>>

runs == <<pipes, job, obj, bm, results, shared>>

(* source.setup().                                                          *)
OpenSource(r) ==
    /\ pc[r] = "begun"
    /\ sourceConn' = [sourceConn EXCEPT ![obj[r]] = r]
    /\ open' = open \cup {<<"source", r>>}
    /\ SetPC(r, "source")
    /\ UNCHANGED <<runs, val, reads, sinkConn, cursor, ok, tables, faults, leaked>>

(* sink.setup().                                                            *)
OpenSink(r) ==
    /\ pc[r] = "source"
    /\ IF SinkOf(r) = NoOne THEN UNCHANGED <<sinkConn, open>>
       ELSE /\ sinkConn' = [sinkConn EXCEPT ![SinkOf(r)] = r]
            /\ open' = open \cup {<<"sink", r>>}
    /\ SetPC(r, "sink")
    /\ UNCHANGED <<runs, val, reads, sourceConn, cursor, ok, tables, faults, leaked>>

(* source.read(bookmark): the query has a parameter for the value, so that  *)
(* it raises without a bookmark.                                            *)
OpenCursor(r) ==
    /\ pc[r] = "sink"
    /\ bm[r] # NoOne /\ <<"source", sourceConn[obj[r]]>> \in open
    /\ cursor' = [cursor EXCEPT ![r] = sourceConn[obj[r]]]
    /\ pos' = [pos EXCEPT ![r] = val[bm[r]]] /\ last' = [last EXCEPT ![r] = rows]
    /\ SetPC(r, "reading")
    /\ UNCHANGED <<runs, val, rows, conns, open, ok, tables, faults, leaked>>

CanWrite(r) == SinkOf(r) # NoOne => <<"sink", sinkConn[SinkOf(r)]>> \in open

(* Mutant: the bookmark of a run advances before the write, which may raise. *)
AdvanceFirst(r) ==
    /\ pc[r] = "reading" /\ pos[r] < last[r] /\ job[r] = "run"
    /\ <<"source", cursor[r]>> \in open /\ CanWrite(r)
    /\ \/ /\ val' = [val EXCEPT ![bm[r]] = pos[r] + 1]
          /\ val' # val /\ UNCHANGED <<pos, live>>
       \/ /\ val[bm[r]] = pos[r] + 1 /\ UNCHANGED val
          /\ pos' = [pos EXCEPT ![r] = @ + 1]
          /\ live' = [live EXCEPT ![obj[r]] = @ \cup {pos[r] + 1}]
    /\ UNCHANGED <<runs, pc, rows, last, links, ok, shadow, faults, leaked>>

(* The read loop and _flush: the next row is written, then the bookmark     *)
(* advances to it, unless it has no column, like that of a replay.          *)
CopyRow(r) ==
    /\ pc[r] = "reading" /\ pos[r] < last[r]
    /\ <<"source", cursor[r]>> \in open /\ CanWrite(r)
    /\ LET n == pos[r] + 1
       IN  /\ pos' = [pos EXCEPT ![r] = n]
           /\ live' = IF job[r] \in {"run", "replace"}
                      THEN [live EXCEPT ![obj[r]] = @ \cup {n}] ELSE live
           /\ shadow' = IF job[r] = "shadow"
                        THEN [shadow EXCEPT ![obj[r]] = @ \cup {n}] ELSE shadow
           /\ val' = IF job[r] = "run" THEN [val EXCEPT ![bm[r]] = n] ELSE val
    /\ UNCHANGED <<runs, pc, rows, last, links, ok, faults, leaked>>

(* Mutant: success is set although the read loop broke off.                 *)
EndCopyEarly(r) ==
    /\ pc[r] = "reading" /\ <<"source", cursor[r]>> \in open
    /\ ok' = [ok EXCEPT ![r] = TRUE]
    /\ SetPC(r, "closing")
    /\ UNCHANGED <<runs, val, reads, links, tables, faults, leaked>>

(* The cursor is exhausted.                                                 *)
EndCopy(r) ==
    /\ pc[r] = "reading" /\ pos[r] >= last[r] /\ <<"source", cursor[r]>> \in open
    /\ ok' = [ok EXCEPT ![r] = TRUE]
    /\ SetPC(r, "closing")
    /\ UNCHANGED <<runs, val, reads, links, tables, faults, leaked>>

(* r cannot go on, because a connection it needs is gone.                   *)
Lost(r) ==
    \/ pc[r] = "sink" /\ <<"source", sourceConn[obj[r]]>> \notin open
    \/ pc[r] = "reading" /\ <<"source", cursor[r]>> \notin open
    \/ pc[r] = "reading" /\ pos[r] < last[r] /\ ~CanWrite(r)

(* r may fail without a fault of the budget: it is lost, has no bookmark to *)
(* read with, or uses what another thread, hence another event loop, opened. *)
Fails(r) ==
    \/ Lost(r)
    \/ pc[r] = "sink" /\ bm[r] = NoOne
    \/ pc[r] = "reading" /\ cursor[r] # r
    \/ pc[r] = "reading" /\ SinkOf(r) # NoOne /\ sinkConn[SinkOf(r)] # r

(* An await raises, or the timeout of the request cancels it: finally.      *)
Raise(r) ==
    /\ pc[r] \in {"begun", "source", "sink", "reading"}
    /\ IF Fails(r) THEN UNCHANGED faults
       ELSE faults < MaxFaults /\ faults' = faults + 1
    /\ SetPC(r, "closing")
    /\ UNCHANGED <<runs, val, reads, links, ok, tables, leaked>>

(* Mutant: sink.teardown() is not called for a run that failed.             *)
CloseSinkOnSuccess(r) ==
    /\ pc[r] = "closing"
    /\ IF ~ok[r] \/ SinkOf(r) = NoOne THEN UNCHANGED <<sinkConn, open>>
       ELSE /\ open' = open \ {<<"sink", sinkConn[SinkOf(r)]>>}
            /\ sinkConn' = [sinkConn EXCEPT ![SinkOf(r)] = NoOne]
    /\ SetPC(r, "halfclosed")
    /\ UNCHANGED <<runs, val, reads, sourceConn, cursor, ok, tables, faults, leaked>>

(* sink.teardown() closes the connection that the sink keeps ...            *)
CloseSink(r) ==
    /\ pc[r] = "closing"
    /\ IF SinkOf(r) = NoOne THEN UNCHANGED <<sinkConn, open>>
       ELSE /\ open' = open \ {<<"sink", sinkConn[SinkOf(r)]>>}
            /\ sinkConn' = [sinkConn EXCEPT ![SinkOf(r)] = NoOne]
    /\ SetPC(r, "halfclosed")
    /\ UNCHANGED <<runs, val, reads, sourceConn, cursor, ok, tables, faults, leaked>>

(* ... and source.teardown() that of the source, whoever opened them.       *)
CloseSource(r) ==
    /\ pc[r] = "halfclosed"
    /\ open' = open \ {<<"source", sourceConn[obj[r]]>>}
    /\ sourceConn' = [sourceConn EXCEPT ![obj[r]] = NoOne]
    /\ SetPC(r, "closed")
    /\ UNCHANGED <<runs, val, reads, sinkConn, cursor, ok, tables, faults, leaked>>

(* A teardown raises: nothing after it is done.                             *)
TeardownRaises(r) ==
    /\ pc[r] \in {"closing", "halfclosed"}
    /\ faults < MaxFaults
    /\ faults' = faults + 1
    /\ leaked' = leaked \cup {r}
    /\ SetPC(r, "done")
    /\ UNCHANGED <<runs, val, reads, links, ok, tables>>

(* run_pipe and run_replay after the run: a run that raised leaves nothing; *)
(* one that succeeded saves its replay point and its Bookmark object, and   *)
(* both kinds go into the history.                                          *)
Finish(r) ==
    /\ pc[r] = "closed"
    /\ SetPC(r, "done")
    /\ IF ~ok[r] THEN UNCHANGED results
       ELSE /\ LET h == Append(history, r)
               IN  history' = IF Len(h) > HistoryMax THEN Tail(h) ELSE h
            /\ IF job[r] # "run" THEN UNCHANGED <<store, points>>
               ELSE /\ store' = bm[r]
                    /\ points' = points \cup
                         {[run |-> r, config |-> config[obj[r]], value |-> val[bm[r]]]}
    /\ UNCHANGED <<pipes, job, obj, bm, val, reads, links, ok, tables, traces>>

Next == Insert \/ \E r \in Requests :
            \/ PutSecret(r) \/ ResolveSource(r) \/ ResolveSink(r) \/ CheckAbsent(r)
            \/ Register(r) \/ LookUp(r) \/ DeletePipe(r) \/ ResetBookmark(r)
            \/ StartRun(r) \/ StartReplay(r) \/ OpenSource(r) \/ OpenSink(r)
            \/ OpenCursor(r) \/ CopyRow(r) \/ EndCopy(r) \/ Raise(r)
            \/ CloseSink(r) \/ CloseSource(r) \/ TeardownRaises(r) \/ Finish(r)

Spec == Init /\ [][Next]_vars

-----------------------------------------------------------------------------
(* Properties.                                                              *)

(* A connection outlives the run that opened it, or is gone while this run  *)
(* needs it, only if another run of the pipe has overlapped it (they share  *)
(* the connection of the source and of the sink, runner.py:112 and 191) or  *)
(* a teardown of its own raised.                                            *)
ConnectionsReleased ==
    /\ \A c \in open : pc[c[2]] = "done" => c[2] \in shared \cup leaked
    /\ \A r \in Requests : Lost(r) => r \in shared

(* Every row up to the stored bookmark, and up to the value of every replay *)
(* point, is in the table of a pipe that had the id: deletion, creation     *)
(* under the same id, replays and overlapping runs that advance the same    *)
(* Bookmark object in place never skip a row.                               *)
NothingSkipped ==
    LET copied == UNION {live[o] : o \in Objs}
    IN  /\ store # NoOne => 1..val[store] \subseteq copied
        /\ \A p \in points : 1..p.value \subseteq copied

(* What the next run starts from.  The value of the stored bookmark goes    *)
(* back only if a run saves another Bookmark object, or while runs overlap: *)
(* they advance one object in place, each to the last row of its own batch  *)
(* (runner.py:245).  A replay, from its start to its end, changes neither   *)
(* the bookmark nor the replay points, and the target table only if it      *)
(* replaces, although it shares the source object with the runs.            *)
StartIsGuarded ==
    [][/\ store # NoOne /\ store' = store /\ val'[store] < val[store] =>
              Running \cap shared # {}
       /\ \A r \in Requests : job'[r] \in Strategies /\ (pc'[r] # pc[r] \/ pos'[r] # pos[r]) =>
              /\ UNCHANGED <<store, points>>
              /\ store # NoOne => val'[store] = val[store]
              /\ job'[r] # "replace" => UNCHANGED live]_vars

(* A pipe is registered over none, and its source and its sink have the     *)
(* same secret, unless its creation overlapped another creation, or the     *)
(* secret was changed meanwhile.                                            *)
CreateIsAtomic ==
    [][registry' \notin {registry, NoOne} /\ registry' \notin raced =>
          registry = NoOne /\ built[registry'][1] = built[registry'][2]]_vars
=============================================================================
