# A TLA+ verification project for gput

gput serves HTTP from compute shaders.  It has two servers:

* the **packet server** (`src/packet/`, `gput-packetd`) reads raw IPv4/TCP packets
  from a TUN device; a *packet engine*, on the GPU (`packet.wgsl`) or a CPU reference
  (`cpu.rs`), keeps the TCP connections and answers the requests;
* the **socket server** (`network.rs`, `batcher.rs`, `processor/`) accepts TCP
  connections from the operating system, collects their requests into batches and
  gives a batch to a *processor*, again a shader (`http.wgsl`) or a CPU reference.

This directory holds TLA+ modules translated from the source, configurations that
model-check them with TLC, and proofs checked by TLAPS.  `PROJECT.json` lists
components, runs, mutants, findings, hazards and theorems, and maps every definition
to the lines it models.  Paths below are relative to the crate's root.

## 1. Inventory

### Packet server

| component | state | operations | interacts with |
|---|---|---|---|
| GPU flow table (`src/packet/packet.wgsl` 105-193) | slots: atomic state (free, claimed, SYN received, established, tombstone), key, numbers | `flow_find`, `flow_claim`, publish, `flow_release` | probed at once by all invocations of a dispatch |
| GPU packet semantics (`packet.wgsl` 494-698) | a flow's sequence numbers and last response | `main`: SYN, RST, handshake, in-order and out-of-order data, FIN | finds its slot in the flow table |
| CPU packet engine (`src/packet/cpu.rs`) | `HashMap` of flows | `process_packet` | must answer as the shader does |
| Wave scheduler (`src/packet/mod.rs` 675-747, 838-917) | pending, deferred and wave queues, `FlowSet`, words used | `process_batch_to`, `fill_initial_wave`, `fill_next_wave`, `dispatch_wave`, `emit_wave_outputs` | decides what runs concurrently on the flow table |
| `FlowSet` (`mod.rs` 77-121) | open-addressed keys stamped with a generation | `begin`, `insert` | the scheduler's `seen` |
| Wire format (`src/packet/wire.rs`, `packet.wgsl` 195-345, 395-492) | none | parsing, building, checksums, request lines, on the CPU and again in the shader | both engines |
| Set-up and transfer (rest of `mod.rs`) | wgpu device, buffers, mappings | `new_async`, upload, dispatch, readback | the scheduler |
| Daemon (`src/bin/gput-packetd.rs`) | batch and spare packets | receive loop, engine selection | TUN device, packet engine |

What is hard here: the invocations of one dispatch race for slots with single atomic
operations and plain stores between them; slots are reused through tombstones, so a
probe sequence can be cut or a connection entered twice; TCP segments are duplicated,
reordered and lost, and numbers wrap; one batch is cut into several dispatches, by flow
and by buffer space, while every flow must see its packets in order; a sink may fail in
the middle of a wave; packet buffers are used again; two programs in two languages parse
the same malformed bytes.

What must hold: one connection per flow, always reachable, never served under another
flow's key; no slot leaks; every probe loop ends; the two engines send the same replies;
retransmissions change nothing; each packet is processed exactly once, in order within
its flow, and never concurrently with another of its flow; answers leave in that order;
what is sent is a valid packet; an error costs at most the batch at hand.

### Socket server

| component | state | operations | interacts with |
|---|---|---|---|
| Batcher (`src/batcher.rs`) | bounded queue, the worker's batch, one oneshot channel per request, metrics | `submit`, `collect_jobs`, `worker_loop`, `fail_batch` | connection tasks, processor |
| Connections (`src/network.rs`, `src/protocol.rs`) | buffered bytes, connection permits | accept loop, `handle_connection`, `read_raw_request`, read timeout, shutdown | peers; the batcher, through `submit` |
| HTTP processors (`src/processor/`) | backend, GPU buffers and which are mapped | choose, pack a batch, dispatch, map, decode | called by the worker |
| Router (`src/router.rs`) | compiled routes, string table, bytecode | builders, `compile`, `route_request` | both processors; the shader runs the bytecode |
| Configuration and start-up (`config.rs`, `server.rs`, `main.rs`) | none | parse, validate, wire up | everything |

What is hard here: the queue is full, the worker answers before the client awaits, a
client gives up while its request is queued and sends another, the processor fails or
panics with requests in hand, the last handle disappears while the worker waits; reads cut
the stream of pipelined requests anywhere and a timer runs over them; one response is
written by two programs, one of which moves words and knows the length in advance.

What must hold: a response goes to the request it answers; queue order is preserved; every
submit returns; the counters account for every request; responses leave in the order of
the requests and none follows a closing one; legal requests are served; slots and
connections come to an end; both processors answer as the router is declared, and no legal
request can fail a batch.

Programs that only measure or diagnose (`gput-bench`, `gput-packet-bench`,
`gput-packet-demo`, `gput-doctor`) and the scripts are not part of the servers and are
not modelled.

## 2. Modules

| module | models | state and actions |
|---|---|---|
| `FlowMap` | abstract: what the connection table promises | one atomic map from flows to connection states; `Serve` and its cases |
| `FlowTable` | the GPU flow table | one action per atomic operation of an invocation; `pc[k]` is where the invocation of flow `k` stands |
| `FlowTableProofs` | | proofs for any table, hash and number of flows: invariants, and the refinement of `FlowMap` |
| `TcpSegments` | segments, replies, modular sequence numbers | operators |
| `GpuFlow` | `main` of the shader for one flow | `GpuStep` and one operator per branch |
| `CpuFlow` | `process_packet` for one flow | `CpuStep` and one operator per branch |
| `PacketEngines` | both engines on the same segments | `BothReceive` |
| `FlowSession` | one GPU connection, a client and the network between them | `Serve` is the shader; `SendRequest`, `SendFin`, `Retransmit`, `Receive` the client, `Lose*` the network |
| `TcpProofs` | | proofs about both: any requests and responses of a session in which no number comes back; any number space, responses and segments |
| `WaveScheduler` | `process_batch_to` | `StartBatch`, the fill loop (`Push`, `DeferFull`, `DeferFlow`), `DispatchWave`, `DispatchFails`, `SinkFails` |
| `PacketDaemon` | `gput-packetd` and other callers, over `WaveScheduler` | `Receive`, `Collected`/`Serve`, the scheduler's actions with what they mean for the daemon, `ReceiveFails`, `ServingFails` |
| `WaveSchedulerProofs` | | proofs for both: batches of any length, any number of packets, any batch size |
| `KeySet` | abstract: a set that can be emptied | `Begin`, `Insert` |
| `FlowSet` | the scheduler's hash set | `Begin`, `Insert` on the generation-stamped table |
| `Checksum` | the Internet checksum of Rust and of WGSL | operators |
| `Wire` | IPv4/TCP bytes in Rust: parse, key, build, classify | operators |
| `PacketShader` | the same in the shader, with packing, response tables and decoding | operators |
| `PacketWire` | the path of a wave's bytes, over `FlowSet` | `Start`, `Schedule`, `Dispatch`, `Finish` |
| `PacketWireProofs` | | proofs for `FlowSet` and `PacketWire`: any hash, any packets |
| `SubmitService` | abstract: what `submit` promises its callers | `Open`, `Refuse`, `Answer`, `Lose`, `Stop`, `Return`, `Abandon` |
| `Batcher` | the batcher and its clients | `TrySend`, `CountAccepted`, `Resume`, `Abandon`; the worker's steps |
| `BatcherProofs` | | proofs for any number of clients, queue and batch size |
| `Connection` | `network.rs`, over `SubmitService` | `Accept`, `Read`, `Submit`, `Respond`, `TooLarge`, `EndOfFile`, `Timeout`, `WriteAnswer`, `IoError`, `Shutdown` |
| `ConnectionProofs` | | proofs for any number of peers and slots, any stream |
| `Router` | builders, compiler, lookup and rendering; `Promised` is what a router declares | operators |
| `HttpShader` | `http.wgsl`, word by word | operators |
| `HttpProcessor` | the processors around both | `Create`, `CpuBatch`, `GpuBatch`, `Invoke`, `ReadResponses`, `DirectRead` and their failures, `AbandonWait`, `Return`, `Die` |
| `HttpProcessorProofs` | | proofs for `Router` and `HttpProcessor`: any router, any requests |

`Inductions` holds what several proofs need of recursive functions, folds, sums, minima,
concatenations and the parts of sequences.
`MC*` modules give constants their values.  How they fit together:

* `WaveScheduler` promises `OnePacketPerFlow`, which `FlowTable` takes for granted by
  naming an invocation after its flow and by the guard of `Dispatch`.  `PacketWire`
  shows that the flow the scheduler sees is the one the shader serves (`OneOfAFlow`).
* `FlowTable` decides *which slot* a packet works on and leaves the segment checks open;
  `GpuFlow` decides *what happens* to that one slot; `FlowSession` closes the loop with
  the peer whose segments these are.
* `FlowSet` implements `KeySet`, the set that `WaveScheduler` calls `seen`.
* `PacketDaemon` takes the actions of `WaveScheduler` itself; `PacketWire` extends
  `FlowSet` in the same way.
* `Batcher` implements `SubmitService`; `Connection` is built on that service, so its
  properties hold over the batcher as well: a connection's call is answered whenever
  `SubmitReturns` of `Batcher` says so.

Correspondence worth knowing when reading the modules:

* In `FlowTable` a label of `pc` stands between two atomic operations.  `find`/`match` is
  `flow_find` (load the state, then compare the key: the slot may change in between),
  `claim`/`exchange`/`fill` is `flow_claim`, `publish` the store of `SYN_RECEIVED`,
  `syn`/`segment`/`established`/`release` the rest of `main`.  `oldKey` is the table's
  key contents before the dispatch, for the memory model (`StaleKeys`).
* A CPU flow absent from the map is a record with state `CLOSED`; a slot that is free,
  claimed or a tombstone is `CLOSED` in `GpuFlow`.
* In `FlowSession` only `Serve` is gput's code.  The client is an ordinary TCP peer: it
  repeats the oldest segment that is not acknowledged, acknowledges data, drops what is
  out of order.  `fifo` and `window` are chosen once: whether the network keeps the order,
  and how many requests the client sends ahead.
* In `WaveScheduler` the two fill functions are one loop: `fill_initial_wave` runs over
  the batch, `fill_next_wave` over the deferred packets, with the same tests in the same
  order.  Packet contents do not matter, only flow and length in words.
* In `PacketDaemon` a buffer is the number of the packet whose bytes it holds; `handled`
  lists the numbers the sink has been given.  `phase = "direct"` stands for a caller that
  is not the daemon and may hand over any batch.
* In `Wire` and `PacketShader` packets are real bytes and offsets those of the code; only
  the words of a request line (`GET`, paths, versions) are short stand-ins.  A shader word
  is the sequence of its four bytes in memory order.  The reply is one that uses all that
  was read; which reply TCP calls for is `PacketEngines`' matter.
* In `Connection` a stream is a sequence of tokens, a line's text or a line end, and a
  read ends anywhere between two tokens.  `served` and `sent` are histories.
* In `Router` and `HttpShader` strings are sequences of bytes, of which the fixed ones are
  short stand-ins; words have `WordBytes` bytes and the path hash `HashRange` values, both
  small in the instance so that strings straddle words and paths collide.  `Call`,
  `ResponseDeclaration` and `RouterDeclaration` say what can be declared: everything the
  builders accept, before `compile` decides.  `Sorted` is the result of the code's unstable
  sort: no two routes have the same path, so the order is total and there is only one.  What
  a response writes is a sequence of pushes, `ResponsePushes`, of one byte or a whole word
  each as in the shader's loops, and `PushAll` runs the writer over them.
* In `Batcher` time is a choice: `WaitOver` may happen as soon as the worker waits.
  `arrivals` and `lost` are history variables, read by properties only.

Every module with variables has a `TypeOK` that says what they range over; it holds in all
the instances below, and is proved where a proof rests on it.  The configurations name the
properties that say something about the code.

## 3. Runs

| run | properties | what could go wrong instead |
|---|---|---|
| `flow_table` | `UniqueFlow`, `Reachable`, `OwnFlow`, `ClaimsOwned`, refinement of `FlowMap`, `WaitFree` | races of invocations for slots, cut probe sequences |
| `flow_table_weakcas`, `flow_table_stale` | violations of `Reachable` and `OwnFlow` | section 6 |
| `packet_engines_agree` | `SameReplies`, `LastResponseEndsStream`, `StreamsMoveTogether` | the engines part, a replay moves a stream |
| `packet_engines_newisn` | a violation of `SameReplies` | section 6 |
| `flow_session` | `AnswersMatch`, `InStep`, `EveryRequestAnswered`, `SlotReleased` | an answer taken for another's, a request never answered |
| `packet_daemon` | `FlowOrder`, `OnePacketPerFlow`, `WaveFits`, `ExactlyOnce`, `OutputsFollowDispatch` of the scheduler; `AnswersInOrder`, `AtMostABatchLost`, `DaemonReturns` of the daemon | overtaking over waves and batches, stale buffers, lost packets, an endless loop |
| `wave_scheduler_reorder` | a violation of `OrderKept` | section 6 |
| `packet_wire` | `ProbeEnds`, refinement of `KeySet`, `SameReading`, `OneOfAFlow`, `RepliesOnTheWire` | the two parsers disagree, carries are lost, the hash set loops or forgets |
| `batcher` | `QueueOrder`, `MetricsBalance`, `SubmitReturns`, refinement of `SubmitService` | answers to the wrong request, calls left open |
| `connection` | `SlotsAccounted`, `PipelineOrder`, `ClosingAnswerLast`, `LegalRequestsServed`, `SubmittedWithinLimit`, `EveryConnectionEnds` | leaked slots, bytes of a request attributed to another, legal requests refused |
| `http_processor` | `AnswersAsDeclared`, `ContentLengthHolds`, `SlotSuffices`, `DiesOnlyAbandoned` | compiler, CPU and shader disagree, remains of earlier batches, a request that fails its batch, a failed mapping that stops the processor |

Every property of a passing run has a mutant: a plausible error in one mapped definition
(a search that stops at tombstones, a deferral that stacks instead of queueing, a slot
that is published too early, ...) under which that property fails.

### Bounds and why they are enough

* **`flow_table`**: three flows, two slots, hashes 1, 1, 0.  Three flows overflow the
  table (a refused claim), equal hashes collide, and a probe sequence starting at slot 1
  wraps.  A third invocation is needed for a slot to change owner twice while another
  invocation stands between its load and its comparison.  The number of dispatches is not
  bounded.  Flows of equal hash are symmetric.  The invariants, `WaitFree` and the
  refinement are also proved for all sizes.
* **`packet_engines_*`**: number space of 4, requests of 0-2 bytes, responses of 2 and 3
  bytes, so both streams wrap within two requests.  All flag combinations the code
  distinguishes, all sequence and acknowledgement numbers: segments from the past, the
  future and the right place.  Histories are not bounded.
* **`flow_session`**: two requests with different answers, in a number space of 12 in
  which both streams wrap; two segments in the network each way, so a retransmission is
  under way together with what it repeats, or an old segment with a newer one.  A full
  channel drops what is put into it.  Losses and retransmissions are not bounded.
* **`packet_daemon`**, **`wave_scheduler_reorder`**: batches of up to three packets, two
  flows and packets of none, one or two words, waves of two packets.  Three packets of
  one flow take three waves, so a packet is deferred twice.  The device binds a full wave
  (4 words), one packet (2 words) or something in between (3 words).  After a batch
  another follows, with the state the last one left.  The daemon reads four packets in
  batches of up to two, so two full batches or four short ones: buffers are used again
  and order is observed across batches.
* **`packet_wire`**: five kinds of traffic (`MCPacketWire`).  `flows`: three flows whose
  hashes collide in tables of two to eight slots, generations modulo 3, so the counter
  wraps after two waves.  `shapes`: 7680 packets, every combination of a few header
  lengths, versions, protocols, fragment flags, total lengths, TCP offsets, ports and
  numbers of bytes received, legal and not; `pairs` of these in one wave.  `lines`: request
  lines of up to four words, spaces, line ends, question marks in every order.
  `replies`: for each response, numbers that put the sum on either side of a carry.
* **`batcher`**: two clients with three submits each, queue and batch of two.  A client
  that gives up and submits again keeps the queue full behind a full batch, so refusal,
  late answers to abandoned requests and a panic with jobs on both sides all occur.
* **`connection`**: two peers and one slot, so a peer is turned away or gets a slot that
  another gave back.  Requests of three tokens or five, the limit, or seven, beyond it;
  reads of up to seven tokens bring two requests, or one that is too large, at once, and
  any smaller cut, also inside the header's end.  Five streams: nothing, a request and a
  closing one, a kept one and a half, one too large, a closing one and another.
* **`http_processor`**: three routers, with paths of equal hash, one that is not ASCII, a
  response made of every kind of call, and one whose response does not fit the slot; words
  of two bytes, so every string starts and ends inside words somewhere; twelve requests,
  malformed ones included, alone, in pairs and three in a batch; two batches, so the second
  finds the buffers, and what is still mapped, as the first left them; the invocations of a
  dispatch in every order, and a wait that fails before or after any of them.

### Fairness

* `PacketDaemon`: weak fairness of the fill loop, of the dispatch and of `Serve`.
  `process_batch_to` is a loop in one thread that only waits for the device;
  `dispatch_wave` polls the device until it is done.  `Serve` is always possible once a
  packet has come: the deadline passes.  Arrivals are not fair, nor are errors.
* `Batcher`: weak fairness of the worker thread as a whole and of every client's own
  step after `try_send` and after being woken.  The worker thread is never blocked except
  in `recv` (first job) and `recv_timeout` (bounded by `max_batch_wait`); tokio polls a
  woken task.  No fairness is assumed for submitting, for giving up, for dropping the
  handles, nor for the outcome of a batch: the processor may fail or panic every time.
  That a batch does come back is assumed.
* `Connection`: weak fairness of the listener, of a task's own steps, of its read timer,
  of the service's answer (which is `SubmitReturns`) and of writing.  The last is an
  assumption on the peer: it reads, or resets the connection (`IoError`, for which no
  fairness is assumed).  `write_all` has no time-out, so a peer that never reads keeps its
  slot; nothing in the code prevents that.  Peers need not send anything.
* `FlowSession`: weak fairness of the client (its timers run), and of each channel (a
  segment is delivered or lost); strong fairness of the delivery of a segment that is not
  acknowledged and of the reply the client waits for: what is sent again and again gets
  through in the end.  That is the usual assumption on a lossy network; the engine itself
  only answers.
* `FlowTable` needs none: `WaitFree` bounds the steps of an invocation instead of relying
  on a scheduler, which WGSL does not describe.  TLC's deadlock check adds that an
  invocation that is not finished can always take its step.
* `HttpProcessor` and `PacketWire` are checked for safety; their loops are functions.

Deadlock is checked except in `packet_daemon`, where the daemon ends with an error and the
device delivers a bounded number of packets, and in `http_processor`, where the number of
batches is bounded and the processor may be refused or die.  `Batcher` has an explicit
step for the state in which the server is gone, `Connection` one for the state in which all
connections have ended, `FlowSession` one for a closed client and for one whose request is
acknowledged and whose answer is lost, which `EveryRequestAnswered` excludes where it
should not happen.

## 4. Proofs

| theorem | states |
|---|---|
| `TypeCorrect`, `NoDuplicateFlow`, `FlowsReachable`, `NoCrossFlow`, `NoLeakedClaim`, `SearchesEnd` (`FlowTableProofs`) | `TypeOK`, `UniqueFlow`, `Reachable`, `OwnFlow`, `ClaimsOwned`, `WaitFree` of `FlowTable` |
| `RacesAreAtomic` (`FlowTableProofs`) | `ImplementsMap`: `FlowTable` implements `FlowMap` |
| `RepliesAgree`, `FlowsAgree`, `ResponseKeptEndsStream`, `StreamsMove` (`TcpProofs`) | `SameReplies`, `SameFlow`, `LastResponseEndsStream`, `StreamsMoveTogether` of `PacketEngines` |
| `SessionInvariance`, `AnswersAreTheirOwn`, `EndsInStep` (`TcpProofs`) | the inductive invariant, `AnswersMatch` and `InStep` of `FlowSession` |
| `TypeCorrect`, `OneInvocationPerFlow`, `FlowsInOrder`, `OutputsAfterDispatch`, `EachPacketOnce`, `WavesFit` (`WaveSchedulerProofs`) | `TypeOK`, `OnePacketPerFlow`, `FlowOrder`, `OutputsFollowDispatch`, `ExactlyOnce`, `WaveFits` of `WaveScheduler` |
| `DaemonSchedules` (`WaveSchedulerProofs`) | every behaviour of `PacketDaemon` is one of `WaveScheduler` |
| `FlowAnsweredInOrder`, `LossIsABatch` (`WaveSchedulerProofs`) | `AnswersInOrder`, `AtMostABatchLost` of `PacketDaemon` |
| `WireDrivesSet`, `ProbeLoopEnds`, `SeenIsASet` (`PacketWireProofs`) | the fill loops use `FlowSet` as it expects, `ProbeEnds`, `ImplementsSet`: `FlowSet` implements `KeySet` |
| `SameReadingAlways`, `OneOfAFlowAlways`, `RepliesAlways` (`PacketWireProofs`) | `SameReading`, `OneOfAFlow`, `RepliesOnTheWire` of `PacketWire` |
| `QueueKeepsOrder`, `MetricsAccount` (`BatcherProofs`) | `QueueOrder`, `MetricsBalance` of `Batcher` |
| `SubmitKeepsPromise` (`BatcherProofs`) | `ImplementsService`: `Batcher` implements `SubmitService` |
| `SlotsComeBack`, `NothingAfterClosing`, `NoLegalRequestRefused`, `BatchesWithinLimit`, `ResponsesInTurn`, `PipelineKept` (`ConnectionProofs`) | `SlotsAccounted`, `ClosingAnswerLast`, `LegalRequestsServed`, `SubmittedWithinLimit`, `AnsweredInTurn` and the whole of `PipelineOrder` of `Connection` |
| `CompiledRouterAnswers`, `CpuAnswersAsDeclared` (`HttpProcessorProofs`) | the compiled router answers as `Promised`, and so does the CPU processor |
| `DeviceHolds`, `EveryBackendAnswers`, `LengthsHold`, `SlotsSuffice`, `DirectReadsUnmap` (`HttpProcessorProofs`) | the inductive invariant of a GPU batch; `AnswersAsDeclared`, `ContentLengthHolds`, `SlotSuffices`, `DiesOnlyAbandoned` of `HttpProcessor` |

**`FlowTable`**, assuming `StrongDevice` (no spurious failure of the weak
compare-exchange, a published key is visible: the two findings below show that neither can
be dropped) and the constants' assumption (`ProbeLimit` between 1 and `Capacity`, any
hash).  None of the invariants is inductive alone: that an invocation does not enter a
flow twice depends on what it has *already probed*.  `IInv` adds, per invocation, `Walked`
(no passed slot holds my flow), `Matching` (a slot that still has my key is still live:
only I could have ended my connection), `Claiming` (my flow has no connection, and what I
passed is in use for good, because slots never become free again), `Exchanging` (a
tombstone I saw may have changed hands but is not free), `Filling`, `Owning`; and for the
table `Exclusive` and `Claimed`.  Steps that leave the table alone go through `LocalStep`,
steps that write one slot through `TableStep`; each action has a lemma of its own.
`SearchesEnd` follows from the same invariant: `StepsLeft`, at most
4 * `flow_probe_limit` + 5, decreases with every step.

`RacesAreAtomic` maps every atomic operation to a step of `FlowMap` or to none.  The
abstract state of a flow, `flowOf`, picks the slot that holds it; `FlowSeen` says the same
without a choice, which the uniqueness in `IInv` allows.  Three facts do the work: `Placed`,
what an invocation's place says about its packet; `Apart`, that a step changes nothing of
another flow, neither its invocation nor its connection, although it may write the slot that
flow is about to read; and, from `IInv`, that an invocation which gives up (`SearchedAll`)
has no connection anywhere.  Publishing a slot is the moment a connection begins for the
map, releasing it the moment it ends; claiming and filling are invisible.

**`PacketEngines`**, assuming `CommonGround`: no segment with SYN and RST, no handshake
restarted with another number (finding 3 and the first note of section 6).  The invariant relates the
connections through `FlowOf` and adds `ClosedIsClear`, that a closed slot carries nothing
over, without which a reopened slot could replay an old response.  One lemma per branch
shows that equal connections give equal replies and equal connections again.
`ResponseKeptEndsStream` and `StreamsMove` do without `CommonGround`: `LastResponseEndsStream`
is inductive with the type of the slot, and each branch moves both streams, answering the
request at hand, or neither (`Follows`).

**`FlowSession`**, assuming `ShortSession`: no two requests end at the same sequence number, and
no two responses do.  Without it the statement is false: numbers are compared for equality
modulo 2^32 and nothing bounds how long the network keeps a segment, so one that is delayed
for a whole turn of the space is taken for a new one, as in TCP without timestamps.
`AnswersMatch` says what the client has; what keeps it so is where everything else stands.
`At` says that the engine has served n requests, the response it keeps being the n-th;
`NetworkSound` that every segment under way carries a request the client has sent or nothing,
and every reply the response to one, at its place in the stream; `HandshakeSound` and
`OpenSound` that, until the client closes, the engine is neither behind the answers received
nor ahead of the requests sent.  One lemma per branch of the engine shows that its step is
`Progress`: it stands still, or it serves request n + 1.

**`WaveScheduler`**: `WaveInv` (`SeenFlows`: `seen` covers the wave) gives
`OneInvocationPerFlow` without any assumption on sizes.  `FlowsInOrder` rests on
`OrderInv`: the queues are increasing and what is deferred precedes what is still pending
(`Ordered`), no unprocessed packet is outside the queues (`Queued`), and whatever was
deferred was deferred because the wave is full of packets or its flow is already in it
(`DeferredWhy`).  The last one needs the buffer to hold `max_batch_size` packets of the
largest size (`RoomLeft`), which is the condition of `FlowOrder`; without it the order
does break (finding 4).  `OutputsAfterDispatch` needs nothing but the types: what remains
to show is that the elements of what is appended are those of the wave, or of a prefix of
it when the sink fails.  `EachPacketOnce` counts: the places a packet has in `pending` from
`next` on, in the wave, in `deferred` and in what was emitted are as many as the property
says, and every step moves an element from one to another.  `WavesFit` adds lengths: `used`
is the sum over the wave, which needs that appending a packet adds its words to the sum.

**`PacketDaemon`**: `DaemonSchedules` hands it the scheduler's theorems, so its own invariant,
`DInv`, says only how packets, batches and answers correspond: the buffer at position i of the
batch holds packet `base + i` (`Buffers`), what was answered before this batch settles the
packets up to `base` (`Settled`: each once, flows in order), and while the engine runs the
latest answers are those to what it has emitted (`Current`).  `EachPacketOnce` gives that a
wave repeats nothing (`OncePlaced`, `EmittedOnce`) and that the last wave completes the batch
(`Finished`); `FlowsInOrder` that no packet leaves before an earlier one of its flow
(`EmittedOrder`).  Neither theorem bounds the number of waves or of batches.

**`FlowSet`** and **`PacketWire`**, assuming what `TrafficAssumption`, `WireAssumption` and
`GarbageAssumption` say: packets are any sequences of bytes, a batch has at most as many as
the set is begun with, `None` is no flow key, there are five responses, each short enough for
a packet of 1536 bytes (`validate_config`), and the output holds any word of bytes.  `SetInv` is `Shape` (a power of two
of slots, at least twice the keys expected), `Room` (the keys to come have stale slots left)
and `Placed` (every slot a key's probe passes is fresh, with another key).  `Room` gives
`ProbeLoopEnds`, with the lemma that the probes of a key visit every slot (`ProbesAll`);
`Placed` that a search stops at the key or at a stale slot only if the key is not there
(`StopsAtKey`), which is the refinement of `KeySet`.  `SameReadingAlways` follows the bytes:
`PackedRead` finds byte o of packet i of a wave in the packed words, `HeaderReads` reads
fields of two and four bytes (which never straddle a word, since header lengths are
multiples of four), `VerdictsAlike` and `ViewsAlike` compare the two parsers, and
`ClassifyAlike` the two readings of a request line: the CPU splits it at its spaces, the
shader searches for the first two and leaves a third to the comparison of the version.
`OneOfAFlowAlways` adds `Apart` and `Held`: the keys of the wave are different and all in the
set.

`RepliesAlways` has three parts. *Sums* (`FoldedIs`, `BuiltValid`): a sum of a packet is
below 2^32, so two folds bring it to 16 bits (`TwoFolds`); what is left is the sum modulo
65535, zero only for zero; so a sum with the complement of its fold folds to all ones, whose
complement is the zero that `validate_ipv4_tcp_checksums` asks for. The sums of joined parts
of whole words add up (`WordsJoined`), which splits a packet into headers and payload; the
shader, which adds fields and a sum computed in advance, adds up the same number
(`ShaderSums`). *Bytes* (`Emitted`): `emit_packet` writes the headers without checksums, then
the payload at the tenth word, then the checksums into halves of words, and what the slot
holds after that is the reply (`Holds`, `SlotWritten`, `FieldStored`), with every word
outside of the slot as before. *Slots* (`WrittenFilled`): by induction over the packets of
the wave, the slots done hold their replies (`Filled`); they lie apart (`SlotsApart`), and
the widest response fits one (`StrideFits`). What `emit_wave_outputs` takes from a slot is
then the reply (`SlotOutput`), and the reply is what `build_ipv4_tcp_packet` makes of the
same fields (`SentAlike`).

**`Batcher`**, assuming finitely many clients and positive queue and batch sizes.  `Types`
and `AtWork` (what the worker's place says of its batch) carry everything else.  A lemma,
`HeldStep`, says what a step does to `held`, the jobs of the batch followed by those of the
queue: nothing, one more at the end, or some gone from the front.  `QueueKeepsOrder` follows
because `held` is always the end of the list of all jobs sent (`AtEnd`).  `MetricsAccount`
needs the number of clients between `try_send` and its counter (`Uncounted`), which is why
the property mentions them.  For `SubmitKeepsPromise` the invariant `Calls` adds that tickets
of held jobs are not from the future (`Tickets`), that no job is held twice (`Distinct`),
that a waiting client's job is held as long as it has no reply (`Waited`, `Silent`) and that
a reply is to the client's current call (`Own`): an answer to a call that was given up finds
nobody listening.  Every step of the worker settles the n oldest jobs held, for some n
(`Settles`), and that is one step of the service, or none if nobody listens.

**`Connection`**, assuming finitely many peers and positive limits.  `IInv` is a conjunction
over connections, and a step of one leaves the others as they are (`OneConnection`).
`Turn` relates requests cut, calls made and responses written by the task's place; `Kept`
says that all requests but the last keep the connection, and the last too when the task
reads again; `Whole` that a connection which decides to end has no legal request at the
front of its buffer.  That needs three lemmas about streams: `FirstEnd` (what
`complete_header_len` finds), `EndOfMore` (later bytes never move an end that was found) and
`ClosesExactly` (the first header that decides is the one that counts).  `SlotsComeBack` is
independent of streams: every step takes a slot, returns one, returns all, or none.
`PipelineKept` adds `Joined`: the requests served, laid one behind the other, what is pending
and what is unread are the stream; a step moves the cut between two of them.

**`Router`** and **`HttpProcessor`**, assuming what the types of the declarations say.
`CompiledRouterAnswers` compares two readings of a router that share nothing but the segments'
meaning: `RouteRequest` goes through merged bodies, ids in a string table, and routes
sorted by hash; `Promised` speaks the declared calls one by one for the route with
the request's path.  *Bodies* (`SayBody`): merging literals and dropping calls that say
nothing leaves what is said, by induction over the calls.  *Strings* (`TableSpeaks`): a
string that was interned is found under its id, whatever is interned later (`InternKeeps`),
and every string a response mentions is interned (`StringsOfMention`).  *Routes*
(`RouteFound`): the order of strings is strict and total (`LexicographicOrder`), so ranks
place each route once (`SortedIs`) with hashes that never fall; the routes of one hash are
therefore the ones behind the `partition_point` (`BelowIs`), and exactly one of them, or
none, has the path.  Equal hashes of different paths are covered: nothing is assumed of the
hash.  `Ground` is the invariant of the processor: the router stays the compiled one, only the
GPU maps buffers, none of those it maps directly stays mapped once it has waited for them
(`DirectUnmapsAll`: every branch unmaps what is mapped, and nothing else), a processor that
maps directly is dead only if it has abandoned a wait, and the CPU's result is what the
router renders.

`Device` adds what is true of a GPU batch: the buffers keep their sizes and hold words of
bytes; while a batch is dispatched, the input holds its requests where their metadata says,
whatever it held behind them before; the slot of every invocation that has run holds a
response the shader says for its request; what was read back are these responses; and no
failure is one of the shader.  An invocation is followed through the words of its buffers:

* *Reading*: bytes packed into words, and strings laid behind each other in the arena at
  unaligned offsets, are read back as they are (`RequestsPacked`, `StringSaid`).  `TakenAs`
  says what the shader takes a request for, and the target it parses is that
  (`ParseFinds`, `TargetSpoken`).
* *Finding*: the words of the program are a row for each route and a descriptor for each
  response, where the offsets say (`ProgramIs`); the binary search ends at the first route
  of a hash, by induction over the width of its range (`LowerIs`); so the shader finds the
  response that `FindRoute` finds (`OffsetFound`).
* *Writing*: after any pushes the slot holds their bytes, full words in the buffer and the
  rest pending, and no word outside of it changed (`PushAllHolds`, `FinishWrites`), which is
  why invocations may run in any order (`DeviceInvokes`).  The pushes of a response join to
  `SaysAll`, what the compiled response says (`ResponseSpeaks`), and the length counted
  before is that of the body that follows (`BodySpeaks`).
* *Fitting*: each segment says at most what the compiler counted for it, no number has more
  digits than a larger one, and the end of the header that is sent is no longer than the
  one that is reserved (`SaysFits`, `BodyFits`, `ResponseFits`, `SlotFits`).

`SlotsSuffice` is a part of `Device`.  For `EveryBackendAnswers` the shader's reading must be
the CPU's: where `ReadAlike` holds, the two spaces `parse_request` counts are the ones the
shader searches for (`TakenIsParsed`).  And a text must be the one that was declared: the
arena replaces the reserved end of the header by the one that is sent, which no printable
text equals (`PrintableSent`) but a body may; `Unreserved` in the property names that
exception (section 6), and the second router of the run has it.  `LengthsHold` needs neither:
reason and content type are printable, so the first header of the length in the bytes of a
response is its own (`HeadQuiet`), and the next end of a line ends the number
(`SectionsFramed`).  `MethodAssumption` says what `is_get_request` relies on, that the method
and its space fill the first word.

**Recursive functions and induction.**  The library's induction theorems take an operator as
a parameter, which the provers cannot instantiate.  `Inductions` goes another way: a set of
numbers that contains 0 and every successor contains all (`Induction`, from `WFMin` of the
library, which takes a set), and a recursively defined function is the one whose existence
`Iteration` constructs and whose values follow by the same argument.  `FoldLeft` is a CHOOSE
over such a function on sets of positions (`FoldsExist`), and functions that recur on a
smaller value rather than the next one, like `Digits`, have `Recursion`.  The sums of a
wave's words, powers of two, offsets of packed strings, folds of the router and
concatenations (`FlattenSeq`) are treated like this.

Only model-checked: liveness (`DaemonReturns`, `SubmitReturns`, `EveryConnectionEnds`,
`EveryRequestAnswered`, `SlotReleased`), which is beyond the proof system.  Every safety
property of a passing run is also proved.

## 5. What is left out

* In `PacketEngines` a segment is its flags, numbers, payload length and the response its
  request maps to; `PacketWire` says how these are read from bytes.  There is one flow,
  and a new flow finds room in both tables or in neither.  The real limits differ: the
  shader refuses a flow when its probe window is full, the CPU only when the whole map is.
* In `FlowTable` the segment checks are a choice, so a segment may take any branch
  that its flow's state and flags allow.
* Half-open connections stay until their slot is needed by nobody: the code has no timers
  for them, so there is nothing to model.
* Creating wgpu devices and pipelines is one choice that succeeds or fails.
* `Batcher` leaves out the counters of batches, nanoseconds and maxima, `PacketDaemon` and
  the engines their statistics.
* Configuration and start-up (`config.rs`, `server.rs`, `main.rs`) check parameters one by
  one; what they guarantee is in the modules' ASSUMEs.  Measurement programs, the demo,
  the doctor and the scripts are no part of the servers.
* The compiler's errors for more than 2^32 - 1 strings, words or bytes cannot be reached.

## 6. Disagreements found

1. `flow_table_weakcas`: `flow_claim` moves to the next slot when
   `atomicCompareExchangeWeak` does not exchange, also when the failure was spurious and
   the slot is still free.  The connection then lies behind a free slot, and
   `flow_find` stops there.  `docs/GPU_NETWORKING.md:143` promises the flow stays
   reachable.
2. `flow_table_stale`: the key of a claimed slot is written with plain stores, the slot
   published with a relaxed atomic.  WGSL orders neither for another invocation, which may
   match the *previous* owner's key on the published slot.  It takes a slot that is reused
   in the same dispatch that carries a packet of its former flow.
3. `packet_engines_newisn`: a SYN with a new number during the handshake resets the CPU
   flow and not the GPU slot.  `docs/PROOF.md:67` says both implement the same semantics.
4. `wave_scheduler_reorder`: a packet deferred for lack of room does not mark its flow as
   seen, so a shorter packet of the same flow overtakes it.  It needs a batch larger
   than the storage binding limit that `new_async` requests of the device
   (`Limits::downlevel_defaults`): fewer than `max_batch_size` packets of 1536 bytes fit.  `docs/GPU_NETWORKING.md:50` promises
   ordered waves.

Noted without a run of their own:

* A segment with both SYN and RST removes the flow on the CPU and is a SYN to the shader
  (`SynRst = TRUE` in `PacketEngines`).
* A request that carries the FIN releases the flow and with it the response that could be
  sent again: when the reply is lost the client's repeated request is never answered
  (`FinOnLast = TRUE` in `FlowSession`).  `docs/GPU_NETWORKING.md:42` promises
  retransmission of the last response for duplicate data.
* Without a send queue and timers, as the documents say, an answer is lost for good when
  its request has been acknowledged by a later reply.  That takes a client that sends
  requests ahead, or a network that lets the request overtake the handshake's last segment
  (`EveryRequestAnswered` is therefore stated for `fifo` and `window = 1`).
* A malformed request line that is not a GET is answered 400 by the CPU processor and 405
  by the shader; a line feed inside the target is 400 on the CPU and part of the path in
  the shader.  `AnswersAsDeclared` leaves these out (`ReadAlike`), `ContentLengthHolds`
  does not.  `docs/HTTP_HOT_PATH.md:42` says full responses are compared with the CPU
  reference.
* `read_responses` (`gpu.rs:540`) returns with the read-back buffer mapped when
  `get_mapped_range` fails, after which the next batch copies into a mapped buffer
  (`ReadbackFails`, `Die`).  The direct path unmaps on every branch behind the wait; the
  three returns before them (`gpu.rs:567`, `:570`, `:573`: the wait fails, or a callback is
  dropped) unmap nothing although both mappings have been requested, and so does the
  copying path there (`AbandonWait`).  `DiesOnlyAbandoned` says that nothing else stops a
  processor that maps directly.  `dispatch_wave` (`mod.rs:592`) has the same shape.
* A literal of the application that equals the interned end of the header is replaced by
  the one that is sent in the string arena, so the GPU's body differs from the CPU's
  (`Unreserved`); its length is counted after the replacement and stays right.
* Only the first `Connection` header decides about persistence (`network.rs:214`).
* `docs/HTTP_HOT_PATH.md:28` describes `--batch-wait-micros 0`, which `config.rs:146`
  rejects.
* `gput-packetd` accepts an MTU above 1536 bytes, and ends at the first packet that is
  longer (`ReceiveFails`).

## 7. Plan

Every part of the two servers has its module, and every safety property of a passing run its
theorem.

A model extension worth its cost: several flows with a shared capacity in `PacketEngines`,
to show where the two engines part near the limit.
