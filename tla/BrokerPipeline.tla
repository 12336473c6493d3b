--------------------------- MODULE BrokerPipeline ---------------------------
(***************************************************************************)
(* BrokerPipeRunner (broker/runner.py) over its three brokers              *)
(* (broker/_base.py, kafka.py, rabbitmq.py): a reader publishes the rows   *)
(* of the source to the raw topic, processor workers forward them to the   *)
(* processed topic, sink writers write them in batches.  The roles run as  *)
(* separate processes, or in the one process of run(), one after another.  *)
(*                                                                         *)
(* consume() hands out one record at a time and acknowledges it when it is *)
(* asked for the next one.  What it has handed out and not acknowledged    *)
(* goes back to its topic when a worker of a durable broker dies; with the *)
(* in-memory broker the queues die with the process.                       *)
(***************************************************************************)
EXTENDS Naturals, Sequences, FiniteSets

CONSTANTS
    Records,      \* rows of the source
    Rejected,     \* rows the processors drop
    BatchSize,    \* batch_size
    Brokers,      \* the brokers to consider
    InProcess,    \* TRUE: run(); FALSE: each role in its own process
    Processors,   \* workers that call process_from_broker
    Writers,      \* workers that call write_from_broker
    MaxReads,     \* bound: calls of read_to_broker
    MaxFaults,    \* bound: exceptions of processors, sinks and publications
    MaxStops,     \* bound: workers that die or leave by an exception
    MaxRebalances \* bound: partitions that change hands with a record in hand

Workers == Processors \cup Writers

ASSUME BrokerAssumption ==
    /\ IsFiniteSet(Records) /\ Rejected \subseteq Records
    /\ BatchSize \in Nat \ {0}
    /\ Brokers \subseteq {"memory", "kafka", "rabbitmq"}
    /\ InProcess \in BOOLEAN
    /\ IsFiniteSet(Processors) /\ IsFiniteSet(Writers)
    /\ Processors \cap Writers = {}
    /\ MaxReads \in Nat /\ MaxFaults \in Nat /\ MaxStops \in Nat
    /\ MaxRebalances \in Nat

Topics == {"raw", "processed"}

VARIABLES
    broker,     \* the broker that is used; never changes
    stage,      \* of run(): the role whose turn it is; "any" without run()
    unread,     \* rows the read_to_broker call under way has yet to publish
    reads,      \* calls of read_to_broker so far
    queue,      \* queue[t]: the records waiting in topic t, head first
    pc,         \* where the call of each worker stands
    held,       \* the record consume() has handed to it, not acknowledged
    revoked,    \* workers whose record in hand is with the group again
    count,      \* records its consume() call has acknowledged
    batch,      \* batch of a sink writer
    ends,       \* ends[x]: how often x was written, dead-lettered, dropped
    published,  \* published[x]: how often the reader published x
    extra,      \* history: how often x was doubled by what took effect and
                \* raised, or by a partition that changed hands
    faults, stops, rebalances

vars == <<broker, stage, unread, reads, queue, pc, held, revoked, count, batch,
          ends, published, extra, faults, stops, rebalances>>

group == <<revoked, rebalances>>

InTopic(w)  == IF w \in Processors THEN "raw" ELSE "processed"
PCs == {"idle", "ask", "handle", "write", "ack", "tail"}
Stages == {"any", "start", "read", "process", "write", "success"}
Ways == {"written", "dlq", "dropped"}

PipeOK ==
    /\ broker \in Brokers /\ stage \in Stages
    /\ unread \subseteq Records /\ reads \in 0..MaxReads
    /\ queue \in [Topics -> Seq(Records)]
    /\ pc \in [Workers -> PCs]
    /\ held \in [Workers -> Seq(Records)]
    /\ count \in [Workers -> 0..BatchSize]
    /\ batch \in [Writers -> Seq(Records)]
    /\ \A w \in Workers : Len(held[w]) = IF pc[w] \in {"handle", "write", "ack"}
                                         THEN 1 ELSE 0
    /\ \A w \in Writers : Len(batch[w]) <= BatchSize
    /\ ends \in [Records -> [Ways -> Nat]]
    /\ published \in [Records -> Nat]
    /\ faults \in 0..MaxFaults /\ stops \in 0..MaxStops

GroupOK ==
    /\ revoked \subseteq {w \in Workers : pc[w] \in {"handle", "write", "ack"}}
    /\ extra \in [Records -> Nat] /\ rebalances \in 0..MaxRebalances

TypeOK == PipeOK /\ GroupOK

Init ==
    /\ broker \in Brokers
    /\ stage = IF InProcess THEN "start" ELSE "any"
    /\ unread = {} /\ reads = 0
    /\ queue = [t \in Topics |-> << >>]
    /\ pc = [w \in Workers |-> "idle"] /\ held = [w \in Workers |-> << >>]
    /\ revoked = {} /\ count = [w \in Workers |-> 0]
    /\ batch = [w \in Writers |-> << >>]
    /\ ends = [x \in Records |-> [y \in Ways |-> 0]]
    /\ published = [x \in Records |-> 0] /\ extra = [x \in Records |-> 0]
    /\ faults = 0 /\ stops = 0 /\ rebalances = 0

SetPC(w, p) == pc' = [pc EXCEPT ![w] = p]

Copies(s, x) == Cardinality({i \in DOMAIN s : s[i] = x})

(* All records of sequence s come to their end the way y.                   *)
AddEnds(e, s, y) == [x \in Records |-> [e[x] EXCEPT ![y] = @ + Copies(s, x)]]
EndAll(s, y) == ends' = AddEnds(ends, s, y)

(* History: the records of s are now twice where they were once.            *)
Doubled(s) == extra' = [x \in Records |-> extra[x] + Copies(s, x)]

-----------------------------------------------------------------------------
(* read_to_broker: every call reads the whole source again.                 *)

StartRead ==
    /\ stage \in {"any", "start", "success"} /\ unread = {} /\ reads < MaxReads
    /\ reads' = reads + 1 /\ unread' = Records
    /\ stage' = IF InProcess THEN "read" ELSE stage
    /\ UNCHANGED <<broker, queue, pc, held, count, batch, ends, published, extra,
                   faults, stops, group>>

(* publish puts the records of a batch one by one.                          *)
PublishRaw(x) ==
    /\ x \in unread
    /\ unread' = unread \ {x}
    /\ queue' = [queue EXCEPT !["raw"] = Append(@, x)]
    /\ published' = [published EXCEPT ![x] = @ + 1]
    /\ stage' = IF InProcess /\ unread' = {} THEN "process" ELSE stage
    /\ UNCHANGED <<broker, reads, pc, held, count, batch, ends, extra, faults,
                   stops, group>>

(* The source or the broker raises; what is published stays published.      *)
ReadFails ==
    /\ unread # {} /\ faults < MaxFaults /\ faults' = faults + 1
    /\ unread' = {}
    /\ stage' = IF InProcess THEN "start" ELSE stage
    /\ UNCHANGED <<broker, reads, queue, pc, held, count, batch, ends, published,
                   extra, stops, group>>

-----------------------------------------------------------------------------
(* consume(), for both roles.                                               *)

StartConsume(w) ==
    /\ pc[w] = "idle"
    /\ stage \in {"any", IF w \in Processors THEN "process" ELSE "write"}
    /\ SetPC(w, "ask") /\ count' = [count EXCEPT ![w] = 0]
    /\ UNCHANGED <<broker, stage, unread, reads, queue, held, batch, ends,
                   published, extra, faults, stops, group>>

(* KafkaBroker.consume joins the consumer group with a new consumer and     *)
(* leaves it at the end; either may take a partition from a worker w at any *)
(* later time.  The record in its hand is not committed and goes out again, *)
(* while w goes on with it; its commit no longer counts.                    *)
Rebalance(w) ==
    /\ broker = "kafka" /\ held[w] # << >> /\ w \notin revoked
    /\ rebalances < MaxRebalances /\ rebalances' = rebalances + 1
    /\ revoked' = revoked \cup {w}
    /\ queue' = [queue EXCEPT ![InTopic(w)] = held[w] \o @]
    /\ Doubled(held[w])
    /\ UNCHANGED <<broker, stage, unread, reads, pc, held, count, batch, ends,
                   published, faults, stops>>

(* The next record; a writer appends it to its batch at once.               *)
Deliver(w) ==
    /\ pc[w] = "ask" /\ queue[InTopic(w)] # << >>
    /\ LET x == Head(queue[InTopic(w)]) IN
       /\ held' = [held EXCEPT ![w] = <<x>>]
       /\ batch' = [v \in Writers |-> IF v = w THEN Append(batch[v], x) ELSE batch[v]]
    /\ queue' = [queue EXCEPT ![InTopic(w)] = Tail(@)]
    /\ SetPC(w, IF w \in Processors THEN "handle"
                ELSE IF Len(batch'[w]) >= BatchSize THEN "write" ELSE "ack")
    /\ UNCHANGED <<broker, stage, unread, reads, count, ends, published, extra,
                   faults, stops, group>>

(* What follows the loop over consume().                                    *)
AfterLoop(w) == IF w \in Writers /\ batch[w] # << >> THEN "tail" ELSE "idle"

(* The stage of run() that follows when worker w returns.                   *)
NextStage(w, p) == IF InProcess /\ p = "idle"
                   THEN IF w \in Processors THEN "write" ELSE "success"
                   ELSE stage

(* InMemoryBroker: an empty queue ends consume().  The other two wait.      *)
QueueEmpty(w) ==
    /\ pc[w] = "ask" /\ queue[InTopic(w)] = << >> /\ broker = "memory"
    /\ SetPC(w, AfterLoop(w)) /\ stage' = NextStage(w, AfterLoop(w))
    /\ UNCHANGED <<broker, unread, reads, queue, held, count, batch, ends,
                   published, extra, faults, stops, group>>

(* Mutant: the last record of the call is not acknowledged.                 *)
AcknowledgeNotLast(w) ==
    /\ pc[w] = "ack"
    /\ count' = [count EXCEPT ![w] = @ + 1]
    /\ LET p == IF count'[w] >= BatchSize THEN AfterLoop(w) ELSE "ask" IN
       /\ SetPC(w, p) /\ stage' = NextStage(w, p)
       /\ queue' = IF p = "ask" THEN queue
                   ELSE [queue EXCEPT ![InTopic(w)] = held[w] \o @]
    /\ held' = [held EXCEPT ![w] = << >>] /\ revoked' = revoked \ {w}
    /\ UNCHANGED <<broker, unread, reads, batch, ends, published, extra, faults,
                   stops, rebalances>>

(* The loop asks for the next record: the last one is acknowledged, and     *)
(* consume() stops at batch_size.                                           *)
Acknowledge(w) ==
    /\ pc[w] = "ack"
    /\ count' = [count EXCEPT ![w] = @ + 1]
    /\ held' = [held EXCEPT ![w] = << >>] /\ revoked' = revoked \ {w}
    /\ LET p == IF count'[w] >= BatchSize THEN AfterLoop(w) ELSE "ask" IN
       SetPC(w, p) /\ stage' = NextStage(w, p)
    /\ UNCHANGED <<broker, unread, reads, queue, batch, ends, published, extra,
                   faults, stops, rebalances>>

-----------------------------------------------------------------------------
(* Mutant: what is transformed goes back to the topic that it came from.    *)
ProcessSendsBack(w) ==
    /\ w \in Processors /\ pc[w] = "handle"
    /\ \/ /\ held[w][1] \in Rejected
          /\ EndAll(held[w], "dropped") /\ UNCHANGED queue
       \/ /\ held[w][1] \notin Rejected
          /\ queue' = [queue EXCEPT !["raw"] = @ \o held[w]]
          /\ UNCHANGED ends
    /\ SetPC(w, "ack")
    /\ UNCHANGED <<broker, stage, unread, reads, held, count, batch,
                   published, extra, faults, stops, group>>

(* process_from_broker: the record is dropped, forwarded, or dead-lettered  *)
(* when a processor or the publication raises.  A publication to a server   *)
(* may take effect and raise: then the record is both.  (Without processors *)
(* every record is forwarded, as if none were dropped or refused.)          *)
Process(w) ==
    /\ w \in Processors /\ pc[w] = "handle"
    /\ \/ /\ held[w][1] \in Rejected
          /\ EndAll(held[w], "dropped")
          /\ UNCHANGED <<queue, extra, faults>>
       \/ /\ held[w][1] \notin Rejected
          /\ queue' = [queue EXCEPT !["processed"] = @ \o held[w]]
          /\ UNCHANGED <<ends, extra, faults>>
       \/ /\ faults < MaxFaults /\ faults' = faults + 1
          /\ EndAll(held[w], "dlq")
          /\ UNCHANGED <<queue, extra>>
       \/ /\ held[w][1] \notin Rejected /\ broker # "memory"
          /\ faults < MaxFaults /\ faults' = faults + 1
          /\ queue' = [queue EXCEPT !["processed"] = @ \o held[w]]
          /\ EndAll(held[w], "dlq") /\ Doubled(held[w])
    /\ SetPC(w, "ack")
    /\ UNCHANGED <<broker, stage, unread, reads, held, count, batch,
                   published, stops, group>>

AfterWrite(w) ==
    /\ LET p == IF pc[w] = "write" THEN "ack" ELSE "idle" IN
       SetPC(w, p) /\ stage' = NextStage(w, p)
    /\ UNCHANGED <<broker, unread, reads, queue, held, count, published, stops,
                   group>>

(* Mutant: a batch that the sink refuses is dropped.                        *)
WriteNoDLQ(w) ==
    /\ w \in Writers /\ pc[w] \in {"write", "tail"}
    /\ \/ EndAll(batch[w], "written") /\ UNCHANGED faults
       \/ faults < MaxFaults /\ faults' = faults + 1 /\ UNCHANGED ends
    /\ batch' = [batch EXCEPT ![w] = << >>]
    /\ UNCHANGED extra /\ AfterWrite(w)

(* Mutant: the batch is not reset after the write.                          *)
WriteKeepsBatch(w) ==
    /\ w \in Writers /\ pc[w] \in {"write", "tail"}
    /\ EndAll(batch[w], "written")
    /\ UNCHANGED <<batch, extra, faults>> /\ AfterWrite(w)

(* write_from_broker: the sink takes the batch, or it is dead-lettered when *)
(* sink.write raises.  Even then the first n rows may stay: all, if the     *)
(* write took effect and raised, or those that SQLServerSink has sent and   *)
(* does not roll back, so that a later commit keeps them.                   *)
Write(w) ==
    /\ w \in Writers /\ pc[w] \in {"write", "tail"}
    /\ \/ EndAll(batch[w], "written") /\ UNCHANGED <<extra, faults>>
       \/ /\ faults < MaxFaults /\ faults' = faults + 1
          /\ \E n \in 0..Len(batch[w]) :
                LET kept == SubSeq(batch[w], 1, n) IN
                /\ ends' = AddEnds(AddEnds(ends, kept, "written"), batch[w], "dlq")
                /\ Doubled(kept)
    /\ batch' = [batch EXCEPT ![w] = << >>]
    /\ AfterWrite(w)

(* Mutant: the record in hand counts as acknowledged.                       *)
StopNoRequeue(w) ==
    /\ broker # "memory" /\ ~InProcess /\ pc[w] # "idle" /\ stops < MaxStops
    /\ stops' = stops + 1
    /\ SetPC(w, "idle")
    /\ held' = [held EXCEPT ![w] = << >>] /\ revoked' = revoked \ {w}
    /\ batch' = [v \in Writers |-> IF v = w THEN << >> ELSE batch[v]]
    /\ UNCHANGED <<broker, stage, unread, reads, queue, count, ends, published,
                   extra, faults, rebalances>>

(* A worker of a durable broker dies, or its call ends by an exception of   *)
(* the broker.  Its batch is gone; the record that it holds is redelivered  *)
(* unless it has been already, but RabbitMQ rejects it to the dead-letter   *)
(* queue when process() is left by an exception.                            *)
Stop(w) ==
    /\ broker # "memory" /\ ~InProcess /\ pc[w] # "idle" /\ stops < MaxStops
    /\ stops' = stops + 1
    /\ \/ /\ w \notin revoked
          /\ queue' = [queue EXCEPT ![InTopic(w)] = held[w] \o @]
          /\ UNCHANGED ends
       \/ w \in revoked /\ UNCHANGED <<queue, ends>>
       \/ /\ broker = "rabbitmq" /\ held[w] # << >>
          /\ EndAll(held[w], "dlq")
          /\ UNCHANGED queue
    /\ SetPC(w, "idle")
    /\ held' = [held EXCEPT ![w] = << >>] /\ revoked' = revoked \ {w}
    /\ batch' = [v \in Writers |-> IF v = w THEN << >> ELSE batch[v]]
    /\ UNCHANGED <<broker, stage, unread, reads, count, published, extra, faults,
                   rebalances>>

-----------------------------------------------------------------------------
WorkerStep(w) == \/ StartConsume(w) \/ Deliver(w) \/ QueueEmpty(w)
                 \/ Process(w) \/ Write(w) \/ Acknowledge(w)

ReaderStep == \E x \in Records : PublishRaw(x)

Next == \/ StartRead \/ ReaderStep \/ ReadFails
        \/ \E w \in Workers : WorkerStep(w) \/ Rebalance(w) \/ Stop(w)

Spec == Init /\ [][Next]_vars

(* Every role goes on, and its deployment calls it again when it returns.   *)
FairSpec == /\ Spec /\ WF_vars(ReaderStep)
            /\ \A w \in Workers : WF_vars(WorkerStep(w))

-----------------------------------------------------------------------------
(* Properties.                                                              *)

(* The workers among W that have x: in their hand and not yet passed on, or *)
(* in their batch.                                                          *)
Holding(x) ==
    Cardinality({w \in Processors : pc[w] = "handle" /\ held[w] = <<x>>})
BatchSlots(x) ==
    Cardinality(UNION {{<<w, i>> : i \in {j \in DOMAIN batch[w] : batch[w][j] = x}} :
                          w \in Writers})

Waiting(x) == Copies(queue["raw"], x) + Copies(queue["processed"], x)
                 + Holding(x) + BatchSlots(x)
Ended(x) == ends[x]["written"] + ends[x]["dlq"] + ends[x]["dropped"]

(* No record disappears and none appears from nowhere: each publication     *)
(* waits in one place, or has been written, dead-lettered or dropped, and   *)
(* each doubling once more.  As long as no worker dies, whatever the        *)
(* processors and the sink do, and whatever the number of workers that      *)
(* share a topic.                                                           *)
Accounted == stops = 0 =>
    \A x \in Records : published[x] + extra[x] = Waiting(x) + Ended(x)

(* A dying worker costs at most the records that it had acknowledged but    *)
(* not written: one less than a batch, because the last record of a full    *)
(* batch is acknowledged after the write; that one too at most if its       *)
(* partition changed hands before.                                          *)
LossBounded ==
    Cardinality({x \in Records : published[x] > 0 /\ Waiting(x) + Ended(x) = 0})
        <= stops * (BatchSize - 1) + rebalances

(* A record comes to an end again only if it was published again, or for a  *)
(* cause that can be counted: once per worker that stopped and per partition*)
(* that changed hands, and per exception of a publication or a write that   *)
(* took effect, as often as a batch may hold it.                            *)
RepeatsNeedRedelivery ==
    \A x \in Records :
        Ended(x) <= published[x] + stops + rebalances + BatchSize * faults

(* With the in-memory broker, workers that are called again and again       *)
(* settle every published record, also one that the previous call left      *)
(* behind when it reached batch_size.  Not with the other two: there a      *)
(* writer waits for a full batch with the records that it has taken.        *)
EventuallySettled ==
    broker = "memory" =>
        \A x \in Records :
            published[x] > 0 ~> published[x] + extra[x] = Ended(x)

(* broker/runner.py:87 "Execute the full pipeline in-process through the    *)
(* broker": when run() reports success, every row of the source has been    *)
(* written, dead-lettered or dropped.                                       *)
SuccessMeansDelivered ==
    stage = "success" => \A x \in Records : Ended(x) > 0
=============================================================================
