---------------------------- MODULE WaveScheduler ----------------------------
(***************************************************************************)
(* How the GPU packet engine serves one batch (process_batch_to in         *)
(* src/packet/mod.rs).  It packs the packets into waves, one compute       *)
(* dispatch each.  The packets of one flow depend on each other and the    *)
(* invocations of a dispatch do not wait for each other, so a wave takes   *)
(* one packet of a flow and defers the others; it also defers what the     *)
(* device buffers have no room for.  fill_initial_wave and fill_next_wave  *)
(* are the loop Push, DeferFull, DeferFlow over the pending packets.       *)
(*                                                                         *)
(* FlowTable and PacketEngines model what a dispatch does with its         *)
(* packets, FlowSet the table behind seen.                                 *)
(***************************************************************************)
EXTENDS Integers, Sequences, FiniteSets, SequencesExt

CONSTANTS
    Flows,       \* four-tuples
    NoFlow,      \* scheduling_flow_key of what is not an IPv4 TCP packet
    PacketWords, \* INPUT_PACKET_WORDS: words of the largest packet
    WordSizes,   \* lengths of packets in words
    MaxPackets,  \* bound on the batches callers submit
    MaxBatch,    \* config.max_batch_size: packets of a wave
    DeviceWords  \* storage binding limits to request of the device, in words

\* Every device can bind a buffer for the largest packet at least.
ASSUME SchedulerAssumption ==
    /\ NoFlow \notin Flows
    /\ MaxPackets \in Nat /\ MaxBatch \in Nat \ {0} /\ PacketWords \in Nat
    /\ WordSizes \subseteq 1 .. PacketWords
    /\ DeviceWords \subseteq Nat /\ \A d \in DeviceWords : PacketWords <= d

VARIABLES
    capacity,  \* input_word_capacity: words of a wave
    batch,     \* the packets of the batch
    pending,   \* indices of those still to be scheduled
    next,      \* position in pending of the fill loop
    wave,      \* indices of the packets of this wave
    deferred,  \* ... and of those left for a later one
    seen,      \* flows with a packet in this wave
    words,     \* input_words: words of this wave
    applied,   \* packets a dispatch has processed
    emitted,   \* packets whose output the sink has received, in that order
    busy       \* the caller is inside process_batch_to

vars == <<capacity, batch, pending, next, wave, deferred, seen, words, applied, emitted, busy>>

Packet == [flow : Flows \cup {NoFlow}, words : WordSizes]
Indices == DOMAIN batch

\* new_async asks for room for a full wave of the largest packets and takes
\* what may be bound on the device it requests.
RequestedWords == MaxBatch * PacketWords
Granted(limit) == IF RequestedWords < limit THEN RequestedWords ELSE limit

Init ==
    /\ \E limit \in DeviceWords : capacity = Granted(limit)
    /\ batch = <<>> /\ pending = <<>> /\ next = 1
    /\ wave = <<>> /\ deferred = <<>> /\ seen = {} /\ words = 0
    /\ applied = {} /\ emitted = <<>>
    /\ busy = FALSE

\* The loop starts a new wave.
BeginWave(indices) ==
    /\ pending' = indices
    /\ next' = 1
    /\ wave' = <<>> /\ deferred' = <<>> /\ seen' = {} /\ words' = 0

\* process_batch_to returns at once for an empty batch.
StartBatch ==
    /\ ~busy
    /\ \E n \in 1 .. MaxPackets : batch' \in [1 .. n -> Packet]
    /\ BeginWave([i \in DOMAIN batch' |-> i])
    /\ applied' = {} /\ emitted' = <<>>
    /\ busy' = TRUE
    /\ UNCHANGED capacity

-----------------------------------------------------------------------------
\* The fill loop at packet p, the next of the pending ones.
Filling == busy /\ next <= Len(pending)
index == pending[next]

\* Mutant: the packet itself is not counted.
NoRoomLeft(p) == Len(wave) = MaxBatch \/ words >= capacity

NoRoom(p) == Len(wave) = MaxBatch \/ words + p.words > capacity

\* Mutant: the deferred packets pile up, the last on top.
DeferOnTop == /\ deferred' = <<index>> \o deferred
              /\ next' = next + 1
              /\ UNCHANGED <<capacity, batch, pending, wave, seen, words, applied, emitted, busy>>

Defer == /\ deferred' = Append(deferred, index)
         /\ next' = next + 1
         /\ UNCHANGED <<capacity, batch, pending, wave, seen, words, applied, emitted, busy>>

\* Mutant: what does not fit is dropped.
DropFull == /\ Filling /\ NoRoom(batch[index])
            /\ next' = next + 1
            /\ UNCHANGED <<capacity, batch, pending, deferred, wave, seen, words, applied, emitted, busy>>

DeferFull == Filling /\ NoRoom(batch[index]) /\ Defer

\* seen.insert(key) finds the flow there.
DeferFlow == Filling /\ ~NoRoom(batch[index]) /\ batch[index].flow \in seen /\ Defer

\* Mutant: the flow of the packet is not noted.
PushUnseen ==
    /\ Filling
    /\ LET p == batch[index] IN
       /\ ~NoRoom(p)
       /\ p.flow \notin seen
       /\ words' = words + p.words
    /\ wave' = Append(wave, index)
    /\ next' = next + 1
    /\ UNCHANGED <<capacity, batch, pending, deferred, seen, applied, emitted, busy>>

Push ==
    /\ Filling
    /\ LET p == batch[index] IN
       /\ ~NoRoom(p)
       /\ p.flow \notin seen
       /\ seen' = IF p.flow = NoFlow THEN seen ELSE seen \cup {p.flow}
       /\ words' = words + p.words
    /\ wave' = Append(wave, index)
    /\ next' = next + 1
    /\ UNCHANGED <<capacity, batch, pending, deferred, applied, emitted, busy>>

-----------------------------------------------------------------------------
\* dispatch_wave: the device processes the wave, then emit_wave_outputs hands
\* the outputs to the sink in the order of the wave.  An empty wave dispatches
\* nothing.
Filled == busy /\ next > Len(pending)

\* Mutant: the outputs are attributed to the pending packets, not to the wave.
DispatchMisattributed ==
    /\ Filled
    /\ applied' = applied \cup ToSet(wave)
    /\ emitted' = emitted \o SubSeq(pending, 1, Len(wave))
    /\ IF deferred = <<>>
       THEN busy' = FALSE /\ UNCHANGED <<pending, next, wave, deferred, seen, words>>
       ELSE busy' = TRUE /\ BeginWave(deferred)
    /\ UNCHANGED <<capacity, batch>>

DispatchWave ==
    /\ Filled
    /\ applied' = applied \cup ToSet(wave)
    /\ emitted' = emitted \o wave
    /\ IF deferred = <<>>
       THEN busy' = FALSE /\ UNCHANGED <<pending, next, wave, deferred, seen, words>>
       ELSE busy' = TRUE /\ BeginWave(deferred)
    /\ UNCHANGED <<capacity, batch>>

\* The sink fails at some output: the rest of the wave is applied and not
\* answered, the deferred packets are dropped with the batch.
SinkFails ==
    /\ Filled /\ wave # <<>>
    /\ applied' = applied \cup ToSet(wave)
    /\ \E n \in 0 .. Len(wave) - 1 : emitted' = emitted \o SubSeq(wave, 1, n)
    /\ busy' = FALSE
    /\ UNCHANGED <<capacity, batch, pending, next, wave, deferred, seen, words>>

\* An upload, the device or the readback fails, before or after the device has
\* processed the wave: nothing of it is answered.
DispatchFails ==
    /\ Filled /\ wave # <<>>
    /\ applied' \in {applied, applied \cup ToSet(wave)}
    /\ busy' = FALSE
    /\ UNCHANGED <<capacity, batch, pending, next, wave, deferred, seen, words, emitted>>

Fill == DeferFull \/ DeferFlow \/ Push
Next == StartBatch \/ Fill \/ DispatchWave \/ SinkFails \/ DispatchFails
Spec == Init /\ [][Next]_vars

-----------------------------------------------------------------------------
TypeOK ==
    /\ capacity \in PacketWords .. RequestedWords
    /\ batch \in Seq(Packet)
    /\ pending \in Seq(Indices) /\ next \in 1 .. Len(pending) + 1
    /\ wave \in Seq(Indices) /\ deferred \in Seq(Indices)
    /\ seen \subseteq Flows /\ words \in Nat
    /\ applied \subseteq Indices /\ emitted \in Seq(Indices)
    /\ busy \in BOOLEAN

SameFlow(a, b) == batch[a].flow = batch[b].flow /\ batch[a].flow # NoFlow

\* "The ordering dependency within each flow remains explicit": when a packet
\* is given to a dispatch, every packet of its flow that arrived before it has
\* been processed by an earlier one.
OrderKept ==
    \A a, b \in Indices :
        a < b /\ SameFlow(a, b) /\ b \in applied \cup ToSet(wave) => a \in applied

\* ... which the code achieves when the device binds all it asks for.
FlowOrder == capacity = RequestedWords => OrderKept

\* Two invocations of one dispatch never work on the same flow, which the
\* flow table takes for granted.
OnePacketPerFlow ==
    \A i, j \in DOMAIN wave : SameFlow(wave[i], wave[j]) => i = j

\* Where the n-th packet of the wave ends in the input buffer.
WaveEnd[n \in 0 .. Len(wave)] == IF n = 0 THEN 0 ELSE WaveEnd[n - 1] + batch[wave[n]].words

\* The packets of a wave fit the device buffers, laid end to end.
WaveFits == Len(wave) <= MaxBatch /\ WaveEnd[Len(wave)] <= capacity

\* However often it is deferred, no packet is lost and none is processed twice:
\* while the engine runs each is in exactly one place.
ExactlyOnce ==
    busy =>
        \A i \in Indices :
            Cardinality({j \in next .. Len(pending) : pending[j] = i})
          + Cardinality({j \in DOMAIN wave : wave[j] = i})
          + Cardinality({j \in DOMAIN deferred : deferred[j] = i})
          + Cardinality({j \in DOMAIN emitted : emitted[j] = i}) = 1

\* The sink never receives an output of a packet no dispatch has processed, and
\* at most the outputs of one wave are lost when it fails.
OutputsFollowDispatch ==
    /\ ToSet(emitted) \subseteq applied
    /\ applied \subseteq ToSet(emitted) \cup ToSet(wave)
    /\ busy => applied = ToSet(emitted)

=============================================================================
