------------------------- MODULE WaveSchedulerProofs -------------------------
(***************************************************************************)
(* For batches of any length and any number of flows: a wave has one       *)
(* packet of a flow, no packet is lost or processed twice, the sink hears  *)
(* of processed packets only, and when the device grants the buffer that   *)
(* new_async asks for, the packets of a flow are processed in the order    *)
(* they arrived.                                                           *)
(***************************************************************************)
EXTENDS PacketDaemon, FiniteSetTheorems, Inductions

-----------------------------------------------------------------------------
(* The inductive invariant.                                                *)

Increasing(s) == \A i, j \in DOMAIN s : i < j => s[i] < s[j]

\* What is deferred comes before what is still to be looked at.
Ordered ==
    /\ Increasing(pending) /\ Increasing(deferred)
    /\ \A d \in DOMAIN deferred, i \in next .. Len(pending) : deferred[d] < pending[i]

\* While the batch runs, what has not been processed is still in the queues.
Queued ==
    busy => \A i \in Indices :
                \/ i \in applied
                \/ \E j \in next .. Len(pending) : pending[j] = i
                \/ \E j \in DOMAIN wave : wave[j] = i
                \/ \E j \in DOMAIN deferred : deferred[j] = i

\* seen holds the flows of the wave.
SeenFlows == \A j \in DOMAIN wave :
                batch[wave[j]].flow # NoFlow => batch[wave[j]].flow \in seen

\* A packet was deferred for one of two reasons, and both are still good.
DeferredWhy == \A d \in DOMAIN deferred :
                  Len(wave) = MaxBatch \/ batch[deferred[d]].flow \in seen

\* A wave's words are those of at most max_batch_size packets of at most the
\* largest size.
WordsBound == Len(wave) <= MaxBatch /\ words <= Len(wave) * PacketWords

QueueInv == TypeOK /\ Ordered /\ Queued
WaveInv == TypeOK /\ SeenFlows /\ OnePacketPerFlow
OrderInv == QueueInv /\ WaveInv /\ WordsBound /\ DeferredWhy /\ OrderKept

-----------------------------------------------------------------------------
\* The empty sequence is one of any set.
LEMMA EmptyIsSeq == \A S : <<>> \in Seq(S) /\ Len(<<>>) = 0
  OBVIOUS

\* The device grants at least one packet's words and at most what was asked for.
LEMMA GrantedRange ==
    /\ PacketWords \in Nat /\ RequestedWords \in Nat /\ PacketWords <= RequestedWords
    /\ \A limit \in DeviceWords : Granted(limit) \in PacketWords .. RequestedWords
<1>1. PacketWords \in Nat /\ MaxBatch \in Nat \ {0}
  BY SchedulerAssumption
<1>2. RequestedWords \in Nat /\ PacketWords <= RequestedWords
  <2>1. PICK d \in Nat : MaxBatch = 1 + d
    <3>1. MaxBatch - 1 \in Nat /\ MaxBatch = 1 + (MaxBatch - 1)
      BY <1>1
    <3> QED BY <3>1
  <2>2. MaxBatch * PacketWords = PacketWords + d * PacketWords /\ d * PacketWords \in Nat
    BY <1>1, <2>1
  <2> QED BY <1>1, <2>2 DEF RequestedWords
<1>3. ASSUME NEW limit \in DeviceWords
      PROVE  Granted(limit) \in PacketWords .. RequestedWords
  <2>1. limit \in Nat /\ PacketWords <= limit
    BY SchedulerAssumption
  <2> QED BY <1>1, <1>2, <2>1 DEF Granted
<1> QED BY <1>1, <1>2, <1>3

\* The type invariant holds in every reachable state.
LEMMA InitType == Init => TypeOK
<1> SUFFICES ASSUME Init PROVE TypeOK
  OBVIOUS
<1>1. batch \in Seq(Packet) /\ applied \subseteq Indices /\ seen \subseteq Flows
  BY EmptyIsSeq DEF Init
<1>2. /\ pending \in Seq(Indices) /\ wave \in Seq(Indices)
      /\ deferred \in Seq(Indices) /\ emitted \in Seq(Indices)
  BY EmptyIsSeq DEF Init
<1>3. next \in 1 .. Len(pending) + 1 /\ words \in Nat
  <2>1. pending = <<>> /\ next = 1 /\ words = 0
    BY DEF Init
  <2>2. Len(pending) = 0
    BY <2>1, EmptyIsSeq
  <2> QED BY <2>1, <2>2
<1>4. busy \in BOOLEAN
  BY DEF Init
<1>5. capacity \in PacketWords .. RequestedWords
  BY GrantedRange DEF Init
<1> QED BY <1>1, <1>2, <1>3, <1>4, <1>5 DEF TypeOK

\* The queues hold indices of the batch.
LEMMA QueueTypes ==
    ASSUME TypeOK
    PROVE  /\ batch \in Seq(Packet) /\ pending \in Seq(DOMAIN batch)
           /\ wave \in Seq(DOMAIN batch) /\ deferred \in Seq(DOMAIN batch)
           /\ next \in 1 .. Len(pending) + 1
           /\ DOMAIN batch \subseteq Nat
<1>1. /\ batch \in Seq(Packet) /\ pending \in Seq(DOMAIN batch)
      /\ wave \in Seq(DOMAIN batch) /\ deferred \in Seq(DOMAIN batch)
      /\ next \in 1 .. Len(pending) + 1
  BY Zenon DEF TypeOK, Indices
<1>2. DOMAIN batch \subseteq Nat
  BY <1>1
<1> QED BY <1>1, <1>2

\* What the fill loop needs to know of a packet.
LEMMA PacketFields ==
    ASSUME NEW p \in Packet
    PROVE  p.words \in WordSizes /\ p.words \in Nat /\ p.words <= PacketWords /\ p.flow \in Flows \cup {NoFlow}
<1>1. p.words \in WordSizes /\ p.flow \in Flows \cup {NoFlow}
  BY DEF Packet
<1>2. PacketWords \in Nat /\ WordSizes \subseteq 1 .. PacketWords
  BY SchedulerAssumption
<1>3. p.words \in 1 .. PacketWords
  BY <1>1, <1>2
<1> QED BY <1>1, <1>2, <1>3

LEMMA NextType == ASSUME TypeOK, [Next]_vars PROVE TypeOK'
<1> USE DEF Indices
<1>1. CASE StartBatch
  <2>1. PICK n \in 1 .. MaxPackets : batch' \in [1 .. n -> Packet]
    BY <1>1 DEF StartBatch
  <2>2. n \in Nat /\ batch' \in Seq(Packet) /\ DOMAIN batch' = 1 .. n
    BY <2>1, SchedulerAssumption
  <2>3. pending' \in Seq(DOMAIN batch') /\ Len(pending') \in Nat
    BY <1>1, <2>2 DEF StartBatch, BeginWave
  <2>4. wave' \in Seq(DOMAIN batch') /\ deferred' \in Seq(DOMAIN batch') /\ emitted' \in Seq(DOMAIN batch')
    BY <1>1 DEF StartBatch, BeginWave
  <2> QED BY <1>1, <2>2, <2>3, <2>4 DEF StartBatch, BeginWave, TypeOK
<1>2. CASE Filling /\ Defer
  <2>1. index \in DOMAIN batch /\ next + 1 \in 1 .. Len(pending) + 1
    BY <1>2 DEF TypeOK, Filling, index
  <2> QED BY <1>2, <2>1 DEF TypeOK, Defer
<1>3. CASE Push
  <2>1. index \in DOMAIN batch /\ next + 1 \in 1 .. Len(pending) + 1
    BY <1>3, SMTT(60) DEF Push, TypeOK, Filling, index
  <2>2. batch[index] \in Packet
    BY <2>1 DEF TypeOK
  <2>3. batch[index].words \in Nat /\ batch[index].flow \in Flows \cup {NoFlow}
    BY <2>2, PacketFields
  <2>4. seen' \subseteq Flows /\ words' \in Nat
    <3>1. seen' \subseteq Flows
      BY <1>3, <2>3 DEF Push, TypeOK
    <3>2. words' = words + batch[index].words /\ words \in Nat
      BY <1>3 DEF Push, TypeOK
    <3> QED BY <2>3, <3>1, <3>2
  <2>5. wave' \in Seq(DOMAIN batch)
    BY <1>3, <2>1 DEF Push, TypeOK
  <2> QED BY <1>3, <2>1, <2>4, <2>5 DEF Push, TypeOK
<1>4. CASE DispatchWave
  <2>1. ToSet(wave) \subseteq DOMAIN batch
    BY DEF TypeOK, ToSet
  <2>2. emitted' \in Seq(DOMAIN batch) /\ applied' \subseteq DOMAIN batch
    BY <1>4, <2>1 DEF DispatchWave, TypeOK
  <2>3. CASE deferred = <<>>
    BY <1>4, <2>2, <2>3 DEF DispatchWave, TypeOK
  <2>4. CASE deferred # <<>>
    <3>1. Len(deferred) \in Nat
      BY DEF TypeOK
    <3> QED BY <1>4, <2>2, <2>4, <3>1 DEF DispatchWave, BeginWave, TypeOK
  <2> QED BY <2>3, <2>4
<1>5. CASE SinkFails
  <2>1. ToSet(wave) \subseteq DOMAIN batch
    BY DEF TypeOK, ToSet
  <2>2. PICK n \in 0 .. Len(wave) - 1 : emitted' = emitted \o SubSeq(wave, 1, n)
    BY <1>5 DEF SinkFails
  <2>3. SubSeq(wave, 1, n) \in Seq(DOMAIN batch)
    BY <2>2 DEF TypeOK
  <2>4. emitted' \in Seq(DOMAIN batch)
    BY <2>2, <2>3 DEF TypeOK
  <2> QED BY <1>5, <2>1, <2>4 DEF SinkFails, TypeOK
<1>6. CASE DispatchFails
  <2>1. ToSet(wave) \subseteq DOMAIN batch
    BY DEF TypeOK, ToSet
  <2> QED BY <1>6, <2>1 DEF DispatchFails, TypeOK
<1>7. CASE UNCHANGED vars
  BY <1>7 DEF vars, TypeOK
<1> QED BY <1>1, <1>2, <1>3, <1>4, <1>5, <1>6, <1>7 DEF Next, Fill, DeferFull, DeferFlow

-----------------------------------------------------------------------------
\* A new wave starts with nothing seen and grows by packets of flows that it
\* has not seen.
LEMMA WaveStep == ASSUME WaveInv, TypeOK', [Next]_vars PROVE WaveInv'
<1> USE DEF Indices
<1>1. CASE wave' = <<>>
  BY <1>1, EmptyIsSeq DEF WaveInv, SeenFlows, OnePacketPerFlow
<1>2. CASE UNCHANGED <<batch, wave, seen>>
  BY <1>2 DEF WaveInv, SeenFlows, OnePacketPerFlow, SameFlow
<1>3. CASE Push
  <2> DEFINE p == batch[index]
  <2>1. wave' = Append(wave, index) /\ UNCHANGED batch /\ p.flow \notin seen
    BY <1>3 DEF Push
  <2>2. wave \in Seq(DOMAIN batch) /\ index \in DOMAIN batch
    BY <1>3 DEF WaveInv, TypeOK, Push, Filling, index
  <2>3. /\ DOMAIN wave' = 1 .. Len(wave) + 1 /\ DOMAIN wave = 1 .. Len(wave) /\ Len(wave) \in Nat
        /\ \A j \in 1 .. Len(wave) : wave'[j] = wave[j]
        /\ wave'[Len(wave) + 1] = index
    BY <2>1, <2>2
  <2>4. seen \subseteq seen' /\ (p.flow # NoFlow => p.flow \in seen')
    BY <1>3 DEF Push
  <2>5. SeenFlows'
    BY <2>1, <2>3, <2>4 DEF WaveInv, SeenFlows
  <2>6. ASSUME NEW i \in DOMAIN wave', NEW j \in DOMAIN wave',
               SameFlow(wave[i], wave[j])'
        PROVE  i = j
    <3>1. ASSUME NEW m \in 1 .. Len(wave) PROVE ~SameFlow(wave[m], index)
      BY <2>1, <2>3 DEF WaveInv, SeenFlows, SameFlow
    <3>2. CASE i = Len(wave) + 1 /\ j = Len(wave) + 1
      BY <3>2
    <3>3. CASE i \in 1 .. Len(wave) /\ j = Len(wave) + 1
      BY <2>1, <2>3, <2>6, <3>1, <3>3 DEF SameFlow
    <3>4. CASE i = Len(wave) + 1 /\ j \in 1 .. Len(wave)
      BY <2>1, <2>3, <2>6, <3>1, <3>4 DEF SameFlow
    <3>5. CASE i \in 1 .. Len(wave) /\ j \in 1 .. Len(wave)
      BY <2>1, <2>3, <2>6, <3>5 DEF WaveInv, OnePacketPerFlow, SameFlow
    <3> QED BY <2>3, <3>2, <3>3, <3>4, <3>5
  <2>7. OnePacketPerFlow'
    BY <2>6 DEF OnePacketPerFlow
  <2> QED BY <2>5, <2>7 DEF WaveInv
<1>4. StartBatch => wave' = <<>>
  BY DEF StartBatch, BeginWave
<1>5. DeferFull \/ DeferFlow => UNCHANGED <<batch, wave, seen>>
  BY DEF DeferFull, DeferFlow, Defer
<1>6. DispatchWave => wave' = <<>> \/ UNCHANGED <<batch, wave, seen>>
  BY DEF DispatchWave, BeginWave
<1>7. SinkFails \/ DispatchFails \/ UNCHANGED vars => UNCHANGED <<batch, wave, seen>>
  BY DEF SinkFails, DispatchFails, vars
<1> QED BY <1>1, <1>2, <1>3, <1>4, <1>5, <1>6, <1>7 DEF Next, Fill

\* The flow table may assume that the packets of a dispatch belong to different
\* flows.
THEOREM OneInvocationPerFlow == Spec => []OnePacketPerFlow
<1>1. Init => WaveInv
  BY InitType, EmptyIsSeq DEF Init, WaveInv, SeenFlows, OnePacketPerFlow
<1>2. WaveInv /\ [Next]_vars => WaveInv'
  BY NextType, WaveStep DEF WaveInv
<1>3. WaveInv => OnePacketPerFlow
  BY DEF WaveInv
<1> QED BY <1>1, <1>2, <1>3, PTL DEF Spec

-----------------------------------------------------------------------------
\* The queues stay in the order of arrival and no packet falls between them.
LEMMA QueueStep == ASSUME QueueInv, TypeOK', [Next]_vars PROVE QueueInv'
<1> USE DEF Indices
<1>0. /\ DOMAIN pending = 1 .. Len(pending) /\ Len(pending) \in Nat
      /\ DOMAIN deferred = 1 .. Len(deferred) /\ Len(deferred) \in Nat
      /\ DOMAIN wave = 1 .. Len(wave) /\ Len(wave) \in Nat
      /\ next \in Nat \ {0} /\ next <= Len(pending) + 1
      /\ \A j \in DOMAIN pending : pending[j] \in DOMAIN batch
      /\ \A j \in DOMAIN deferred : deferred[j] \in DOMAIN batch
      /\ DOMAIN batch \subseteq Nat
  <2>1. TypeOK
    BY DEF QueueInv
  <2>2. /\ pending \in Seq(DOMAIN batch) /\ wave \in Seq(DOMAIN batch)
        /\ deferred \in Seq(DOMAIN batch) /\ next \in 1 .. Len(pending) + 1
        /\ DOMAIN batch \subseteq Nat
    BY <2>1, QueueTypes
  <2> QED BY <2>2
<1>1. CASE StartBatch
  <2>1. batch' \in Seq(Packet) /\ pending' = [i \in DOMAIN batch' |-> i] /\ next' = 1
        /\ deferred' = <<>>
    BY <1>1 DEF StartBatch, BeginWave, TypeOK
  <2>2. DOMAIN batch' = 1 .. Len(batch') /\ Len(batch') \in Nat /\ Len(pending') = Len(batch')
    BY <2>1
  <2>3. Ordered'
    BY <2>1, <2>2, EmptyIsSeq DEF Ordered, Increasing
  <2>4. Queued'
    BY <2>1, <2>2 DEF Queued
  <2> QED BY <2>3, <2>4 DEF QueueInv
<1>2. CASE Filling /\ Defer
  <2>1. /\ deferred' = Append(deferred, index) /\ next' = next + 1
        /\ UNCHANGED <<batch, pending, wave, applied, busy>>
    BY <1>2 DEF Defer
  <2>2. next <= Len(pending) /\ index = pending[next] /\ busy
    BY <1>2 DEF Filling, index
  <2>3. /\ DOMAIN deferred' = 1 .. Len(deferred) + 1
        /\ \A j \in 1 .. Len(deferred) : deferred'[j] = deferred[j]
        /\ deferred'[Len(deferred) + 1] = index
    BY <1>0, <2>1 DEF QueueInv, TypeOK
  <2>4. /\ \A i, j \in 1 .. Len(pending) : i < j => pending[i] < pending[j]
        /\ \A i, j \in 1 .. Len(deferred) : i < j => deferred[i] < deferred[j]
        /\ \A d \in 1 .. Len(deferred), i \in next .. Len(pending) : deferred[d] < pending[i]
    BY <1>0 DEF QueueInv, Ordered, Increasing
  <2>5. Increasing(deferred')
    BY <1>0, <2>2, <2>3, <2>4 DEF Increasing
  <2>6. Increasing(pending)'
    BY <1>0, <2>1, <2>4 DEF Increasing
  <2>7. \A d \in DOMAIN deferred', i \in next + 1 .. Len(pending) : deferred'[d] < pending[i]
    BY <1>0, <2>2, <2>3, <2>4
  <2>8. Ordered'
    BY <2>1, <2>5, <2>6, <2>7 DEF Ordered
  <2>9. ASSUME NEW i \in DOMAIN batch
        PROVE  \/ i \in applied
               \/ \E j \in next + 1 .. Len(pending) : pending[j] = i
               \/ \E j \in DOMAIN wave : wave[j] = i
               \/ \E j \in DOMAIN deferred' : deferred'[j] = i
    <3>1. CASE i \in applied \/ \E j \in DOMAIN wave : wave[j] = i
      BY <3>1
    <3>2. CASE \E j \in DOMAIN deferred : deferred[j] = i
      BY <1>0, <2>3, <3>2
    <3>3. CASE \E j \in next .. Len(pending) : pending[j] = i
      BY <1>0, <2>2, <2>3, <3>3
    <3> QED BY <2>2, <3>1, <3>2, <3>3 DEF QueueInv, Queued
  <2>10. Queued'
    BY <2>1, <2>9 DEF Queued
  <2> QED BY <2>8, <2>10 DEF QueueInv
<1>3. CASE Push
  <2>1. /\ wave' = Append(wave, index) /\ next' = next + 1
        /\ UNCHANGED <<batch, pending, deferred, applied, busy>>
    BY <1>3 DEF Push
  <2>2. next <= Len(pending) /\ index = pending[next] /\ busy
    BY <1>3 DEF Push, Filling, index
  <2>3. /\ DOMAIN wave' = 1 .. Len(wave) + 1
        /\ \A j \in 1 .. Len(wave) : wave'[j] = wave[j]
        /\ wave'[Len(wave) + 1] = index
    BY <1>0, <2>1 DEF QueueInv, TypeOK
  <2>4. Ordered'
    BY <1>0, <2>1 DEF QueueInv, Ordered, Increasing
  <2>5. ASSUME NEW i \in DOMAIN batch
        PROVE  \/ i \in applied
               \/ \E j \in next + 1 .. Len(pending) : pending[j] = i
               \/ \E j \in DOMAIN wave' : wave'[j] = i
               \/ \E j \in DOMAIN deferred : deferred[j] = i
    <3>1. CASE i \in applied \/ \E j \in DOMAIN deferred : deferred[j] = i
      BY <3>1
    <3>2. CASE \E j \in DOMAIN wave : wave[j] = i
      BY <1>0, <2>3, <3>2
    <3>3. CASE \E j \in next .. Len(pending) : pending[j] = i
      BY <1>0, <2>2, <2>3, <3>3
    <3> QED BY <2>2, <3>1, <3>2, <3>3 DEF QueueInv, Queued
  <2>6. Queued'
    BY <2>1, <2>5 DEF Queued
  <2> QED BY <2>4, <2>6 DEF QueueInv
<1>4. CASE DispatchWave /\ deferred = <<>>
  <2>1. ~busy' /\ UNCHANGED <<batch, pending, next, deferred>>
    BY <1>4 DEF DispatchWave
  <2> QED BY <2>1 DEF QueueInv, Ordered, Increasing, Queued
<1>5. CASE DispatchWave /\ deferred # <<>>
  <2>1. /\ pending' = deferred /\ next' = 1 /\ deferred' = <<>>
        /\ applied' = applied \cup ToSet(wave)
        /\ next > Len(pending) /\ busy /\ UNCHANGED batch
    BY <1>5 DEF DispatchWave, BeginWave, Filled
  <2>2. Ordered'
    BY <1>0, <2>1, EmptyIsSeq DEF QueueInv, Ordered, Increasing
  <2>3. ASSUME NEW i \in DOMAIN batch
        PROVE  i \in applied' \/ \E j \in 1 .. Len(deferred) : deferred[j] = i
    <3>1. (\E j \in DOMAIN wave : wave[j] = i) => i \in ToSet(wave)
      BY DEF ToSet
    <3> QED BY <1>0, <2>1, <3>1 DEF QueueInv, Queued
  <2>4. Queued'
    BY <2>1, <2>3 DEF Queued
  <2> QED BY <2>2, <2>4 DEF QueueInv
<1>6. CASE SinkFails \/ DispatchFails
  <2>1. ~busy' /\ UNCHANGED <<batch, pending, next, deferred>>
    BY <1>6 DEF SinkFails, DispatchFails
  <2> QED BY <2>1 DEF QueueInv, Ordered, Increasing, Queued
<1>7. CASE UNCHANGED vars
  BY <1>7 DEF vars, QueueInv, Ordered, Increasing, Queued
<1> QED BY <1>1, <1>2, <1>3, <1>4, <1>5, <1>6, <1>7 DEF Next, Fill, DeferFull, DeferFlow

-----------------------------------------------------------------------------
\* A buffer for MaxBatch packets of the largest size has room for one more
\* until the wave has MaxBatch packets.
LEMMA RoomLeft ==
    ASSUME NEW n \in Nat, NEW sum \in Nat, NEW w \in Nat,
           sum <= n * PacketWords, w <= PacketWords
    PROVE  /\ sum + w <= (n + 1) * PacketWords
           /\ n < MaxBatch => sum + w <= RequestedWords
<1>0. /\ MaxBatch \in Nat /\ PacketWords \in Nat /\ RequestedWords \in Nat
      /\ n * PacketWords \in Nat
      /\ RequestedWords = MaxBatch * PacketWords
  BY GrantedRange, SchedulerAssumption DEF RequestedWords
<1>1. (n + 1) * PacketWords = n * PacketWords + PacketWords
  BY <1>0
<1>2. sum + w <= (n + 1) * PacketWords
  BY <1>0, <1>1
<1>3. ASSUME n < MaxBatch PROVE (n + 1) * PacketWords <= RequestedWords
  <2>1. PICK d \in Nat : MaxBatch = (n + 1) + d
    <3>1. MaxBatch - (n + 1) \in Nat /\ MaxBatch = (n + 1) + (MaxBatch - (n + 1))
      BY <1>0, <1>3
    <3> QED BY <3>1
  <2>2. /\ MaxBatch * PacketWords = (n + 1) * PacketWords + d * PacketWords
        /\ d * PacketWords \in Nat /\ (n + 1) * PacketWords \in Nat
    BY <1>0, <2>1
  <2> QED BY <1>0, <2>2
<1>4. ASSUME n < MaxBatch PROVE sum + w <= RequestedWords
  <2>1. (n + 1) * PacketWords \in Nat
    BY <1>0
  <2> QED BY <1>0, <1>2, <1>3, <1>4, <2>1
<1> QED BY <1>2, <1>4

\* Packets of one flow enter the waves in the order of arrival.
LEMMA OrderStep ==
    ASSUME capacity = RequestedWords, OrderInv, [Next]_vars
    PROVE  OrderInv'
<1> USE DEF Indices
<1>0. TypeOK /\ TypeOK' /\ QueueInv' /\ WaveInv'
  <2>1. TypeOK /\ TypeOK'
    BY NextType DEF OrderInv, QueueInv
  <2> QED BY <2>1, QueueStep, WaveStep DEF OrderInv
<1>a. /\ wave \in Seq(DOMAIN batch) /\ DOMAIN wave = 1 .. Len(wave)
      /\ deferred \in Seq(DOMAIN batch) /\ DOMAIN deferred = 1 .. Len(deferred)
  BY <1>0 DEF TypeOK
<1>b. /\ Len(wave) \in Nat /\ Len(deferred) \in Nat
      /\ words \in Nat /\ MaxBatch \in Nat /\ capacity \in Nat /\ MaxBatch > 0
  BY <1>0, SchedulerAssumption, GrantedRange, SMTT(60) DEF TypeOK
<1>1. ASSUME wave' = <<>>, deferred' = <<>>, words' = 0 PROVE WordsBound' /\ DeferredWhy'
  <2>1. Len(wave') = 0 /\ DOMAIN deferred' = {}
    BY <1>1, EmptyIsSeq
  <2>2. PacketWords \in Nat /\ 0 * PacketWords = 0
    BY SchedulerAssumption
  <2>3. WordsBound'
    BY <1>b, <1>1, <2>1, <2>2 DEF WordsBound
  <2>4. DeferredWhy'
    BY <2>1 DEF DeferredWhy
  <2> QED BY <2>3, <2>4
<1>2. CASE StartBatch
  <2>1. wave' = <<>> /\ deferred' = <<>> /\ words' = 0 /\ applied' = {}
    BY <1>2 DEF StartBatch, BeginWave
  <2>2. OrderKept'
    BY <2>1 DEF OrderKept, ToSet
  <2> QED BY <1>0, <1>1, <2>1, <2>2 DEF OrderInv
<1>3. CASE DeferFull \/ DeferFlow
  <2> DEFINE p == batch[index]
  <2>1. /\ deferred' = Append(deferred, index) /\ Filling
        /\ UNCHANGED <<batch, wave, seen, words, applied>>
    BY <1>3 DEF DeferFull, DeferFlow, Defer
  <2>2. index \in DOMAIN batch
    BY <1>0, <2>1 DEF TypeOK, Filling, index
  <2>3. p \in Packet
    BY <1>0, <2>2, SMTT(60) DEF TypeOK
  <2>4. p.words \in Nat /\ p.words <= PacketWords
    BY <2>3, PacketFields
  <2>5. /\ DOMAIN deferred' = 1 .. Len(deferred) + 1
        /\ \A j \in 1 .. Len(deferred) : deferred'[j] = deferred[j]
        /\ deferred'[Len(deferred) + 1] = index
    BY <1>a, <1>b, <2>1, <2>2
  <2>6. Len(wave) = MaxBatch \/ p.flow \in seen
    <3>1. CASE DeferFlow
      BY <3>1 DEF DeferFlow
    <3>2. CASE DeferFull
      <4>1. Len(wave) = MaxBatch \/ words + p.words > capacity
        BY <3>2 DEF DeferFull, NoRoom
      <4>2. Len(wave) < MaxBatch => words + p.words <= capacity
        BY <1>b, <2>4, RoomLeft DEF OrderInv, WordsBound
      <4>3. Len(wave) <= MaxBatch
        BY DEF OrderInv, WordsBound
      <4>4. Len(wave) # MaxBatch => Len(wave) < MaxBatch
        BY <1>b, <4>3
      <4>5. words + p.words > capacity => ~(words + p.words <= capacity)
        BY <1>b, <2>4
      <4> QED BY <4>1, <4>2, <4>4, <4>5
    <3> QED BY <1>3, <3>1, <3>2
  <2>7. DeferredWhy'
    <3>1. ASSUME NEW d \in 1 .. Len(deferred) + 1
          PROVE  Len(wave) = MaxBatch \/ batch[deferred'[d]].flow \in seen
      <4>1. CASE d \in 1 .. Len(deferred)
        BY <1>a, <2>5, <4>1 DEF OrderInv, DeferredWhy
      <4>2. CASE d = Len(deferred) + 1
        BY <2>5, <2>6, <4>2
      <4> QED BY <1>b, <3>1, <4>1, <4>2
    <3> QED BY <2>1, <2>5, <3>1 DEF DeferredWhy
  <2>8. WordsBound' /\ OrderKept'
    BY <2>1 DEF OrderInv, WordsBound, OrderKept, SameFlow
  <2> QED BY <1>0, <2>7, <2>8 DEF OrderInv
<1>4. CASE Push
  <2> DEFINE p == batch[index]
  <2>1. /\ wave' = Append(wave, index) /\ words' = words + p.words
        /\ UNCHANGED <<batch, pending, deferred, applied>> /\ seen \subseteq seen'
        /\ ~NoRoom(p) /\ p.flow \notin seen
        /\ busy /\ next <= Len(pending) /\ index = pending[next]
    BY <1>4 DEF Push, Filling, index
  <2>2. index \in DOMAIN batch
    BY <1>0, <2>1 DEF TypeOK
  <2>3. p \in Packet
    BY <1>0, <2>2, SMTT(60) DEF TypeOK
  <2>4. p.words \in Nat /\ p.words <= PacketWords
    BY <2>3, PacketFields
  <2>5. Len(wave') = Len(wave) + 1 /\ Len(wave) < MaxBatch
    <3>1. Len(wave') = Len(wave) + 1
      BY <1>a, <1>b, <2>1, <2>2
    <3>2. Len(wave) # MaxBatch
      BY <2>1 DEF NoRoom
    <3>3. Len(wave) <= MaxBatch
      BY DEF OrderInv, WordsBound
    <3> QED BY <1>b, <3>1, <3>2, <3>3
  <2>6. WordsBound'
    <3>1. words + p.words <= (Len(wave) + 1) * PacketWords
      BY <1>b, <2>4, RoomLeft DEF OrderInv, WordsBound
    <3> QED BY <1>b, <2>1, <2>5, <3>1 DEF WordsBound
  <2>7. \A d \in DOMAIN deferred : batch[deferred[d]].flow \in seen
    BY <1>b, <2>5 DEF OrderInv, DeferredWhy
  <2>8. DeferredWhy'
    BY <2>1, <2>7 DEF DeferredWhy
  <2>9. ToSet(wave') = ToSet(wave) \cup {index}
    <3>1. /\ DOMAIN wave' = 1 .. Len(wave) + 1
          /\ \A j \in 1 .. Len(wave) : wave'[j] = wave[j]
          /\ wave'[Len(wave) + 1] = index
      BY <1>a, <1>b, <2>1, <2>2
    <3> QED BY <1>a, <1>b, <3>1 DEF ToSet
  <2>10. ASSUME NEW a \in DOMAIN batch, a < index, SameFlow(a, index)
         PROVE  a \in applied
    <3>1. /\ next \in Nat /\ Len(pending) \in Nat /\ DOMAIN pending = 1 .. Len(pending)
          /\ next > 0 /\ \A j \in 1 .. Len(pending) : pending[j] \in Nat
          /\ a \in Nat /\ index \in Nat
      <4>1. pending \in Seq(DOMAIN batch) /\ DOMAIN batch \subseteq Nat
        BY <1>0, QueueTypes
      <4>2. next \in 1 .. Len(pending) + 1 /\ Len(pending) \in Nat
        BY <1>0, <4>1 DEF TypeOK
      <4>3. DOMAIN pending = 1 .. Len(pending)
            /\ \A j \in 1 .. Len(pending) : pending[j] \in Nat
        BY <4>1
      <4> QED BY <2>2, <4>1, <4>2, <4>3
    <3>2. ~ \E j \in next .. Len(pending) : pending[j] = a
      <4>1. \A j \in next .. Len(pending) : index <= pending[j]
        <5>1. Increasing(pending)
          BY DEF OrderInv, QueueInv, Ordered
        <5>2. ASSUME NEW j \in next .. Len(pending) PROVE index <= pending[j]
          <6>0. index = pending[next] /\ next <= Len(pending)
            BY <2>1
          <6>1. CASE j = next
            BY <3>1, <6>0, <6>1
          <6>2. CASE j > next
            <7>1. next \in DOMAIN pending /\ j \in DOMAIN pending
              BY <3>1, <5>2, <6>0
            <7>2. pending[next] < pending[j]
              BY <5>1, <6>2, <7>1 DEF Increasing
            <7>3. pending[next] \in Nat /\ pending[j] \in Nat
              BY <3>1, <7>1
            <7> QED BY <6>0, <7>2, <7>3
          <6> QED BY <3>1, <5>2, <6>1, <6>2
        <5> QED BY <5>2
      <4> QED BY <2>10, <3>1, <4>1
    <3>3. batch[a].flow = p.flow /\ p.flow # NoFlow
      BY <2>10 DEF SameFlow
    <3>4. ~ \E j \in DOMAIN wave : wave[j] = a
      BY <2>1, <3>3 DEF OrderInv, WaveInv, SeenFlows
    <3>5. ~ \E j \in DOMAIN deferred : deferred[j] = a
      BY <2>1, <2>7, <3>3
    <3> QED BY <2>1, <3>2, <3>4, <3>5 DEF OrderInv, QueueInv, Queued
  <2>11. OrderKept'
    BY <2>1, <2>9, <2>10 DEF OrderInv, OrderKept, SameFlow
  <2> QED BY <1>0, <2>6, <2>8, <2>11 DEF OrderInv
<1>5. CASE DispatchWave /\ deferred # <<>>
  <2>1. /\ wave' = <<>> /\ deferred' = <<>> /\ words' = 0 /\ UNCHANGED batch
        /\ applied' = applied \cup ToSet(wave)
    BY <1>5 DEF DispatchWave, BeginWave
  <2>2. ToSet(wave') = {}
    BY <2>1 DEF ToSet
  <2>3. OrderKept'
    BY <2>1, <2>2 DEF OrderInv, OrderKept, SameFlow
  <2> QED BY <1>0, <1>1, <2>1, <2>3 DEF OrderInv
<1>6. CASE (DispatchWave /\ deferred = <<>>) \/ SinkFails \/ DispatchFails
  <2>1. /\ UNCHANGED <<batch, wave, deferred, seen, words>>
        /\ applied' \in {applied, applied \cup ToSet(wave)}
    BY <1>6 DEF DispatchWave, SinkFails, DispatchFails
  <2>2. OrderKept' /\ WordsBound' /\ DeferredWhy'
    BY <2>1 DEF OrderInv, OrderKept, SameFlow, WordsBound, DeferredWhy
  <2> QED BY <1>0, <2>2 DEF OrderInv
<1>7. CASE UNCHANGED vars
  <2>1. OrderKept' /\ WordsBound' /\ DeferredWhy'
    BY <1>7 DEF vars, OrderInv, OrderKept, SameFlow, WordsBound, DeferredWhy
  <2> QED BY <1>0, <2>1 DEF OrderInv
<1> QED BY <1>2, <1>3, <1>4, <1>5, <1>6, <1>7 DEF Next, Fill

\* The buffer does not change size while the engine lives.
LEMMA CapacityFixed == ASSUME [Next]_vars PROVE capacity' = capacity /\ RequestedWords' = RequestedWords
<1>1. CASE UNCHANGED vars
  BY <1>1 DEF vars, RequestedWords
<1>2. CASE Next
  BY <1>2 DEF Next, StartBatch, Fill, DeferFull, DeferFlow, Defer, Push, DispatchWave,
              SinkFails, DispatchFails, RequestedWords
<1> QED BY <1>1, <1>2

\* The waves serve the packets of every flow in the order they arrived, if the
\* device grants the input buffer that new_async asks for.
THEOREM FlowsInOrder == Spec => []FlowOrder
<1> DEFINE Inv == capacity = RequestedWords => OrderInv
<1>1. Init => OrderInv
  <2> SUFFICES ASSUME Init PROVE OrderInv
    OBVIOUS
  <2>1. /\ TypeOK /\ pending = <<>> /\ wave = <<>> /\ deferred = <<>> /\ words = 0
        /\ next = 1 /\ ~busy /\ batch = <<>>
    BY InitType DEF Init
  <2>2. QueueInv /\ WaveInv
    BY <2>1, EmptyIsSeq DEF QueueInv, Ordered, Increasing, Queued, WaveInv,
       SeenFlows, OnePacketPerFlow
  <2>3. WordsBound
    BY <2>1, EmptyIsSeq, SchedulerAssumption DEF WordsBound
  <2>4. DeferredWhy /\ OrderKept
    BY <2>1, EmptyIsSeq DEF DeferredWhy, OrderKept, Indices
  <2> QED BY <2>2, <2>3, <2>4 DEF OrderInv
<1>2. Inv /\ [Next]_vars => Inv'
  BY CapacityFixed, OrderStep
<1>3. Inv => FlowOrder
  BY DEF OrderInv, FlowOrder
<1> HIDE DEF Inv
<1>4. Init => Inv
  BY <1>1 DEF Inv
<1> QED BY <1>2, <1>3, <1>4, PTL DEF Spec
-----------------------------------------------------------------------------
\* The state of the scheduler has its type, whatever the batches.
THEOREM TypeCorrect == Spec => []TypeOK
<1>1. TypeOK /\ [Next]_vars => TypeOK'
  BY NextType
<1> QED BY InitType, <1>1, PTL DEF Spec

\* The elements of two sequences, one after the other, and of a prefix.
LEMMA ElementsOfBoth ==
    ASSUME NEW S, NEW s \in Seq(S), NEW t \in Seq(S)
    PROVE  ToSet(s \o t) = ToSet(s) \cup ToSet(t)
<1>1. Len(s \o t) = Len(s) + Len(t)
  OBVIOUS
<1>2. ASSUME NEW i \in DOMAIN (s \o t)
      PROVE  (s \o t)[i] \in ToSet(s) \cup ToSet(t)
  <2>1. CASE i <= Len(s)
    BY <1>1, <2>1 DEF ToSet
  <2>2. CASE i > Len(s)
    <3>1. i - Len(s) \in DOMAIN t /\ (s \o t)[i] = t[i - Len(s)]
      BY <1>1, <2>2
    <3> QED BY <3>1 DEF ToSet
  <2> QED BY <1>1, <2>1, <2>2
<1>3. ASSUME NEW i \in DOMAIN s
      PROVE  s[i] \in ToSet(s \o t)
  <2>1. i \in DOMAIN (s \o t) /\ (s \o t)[i] = s[i]
    BY <1>1
  <2> QED BY <2>1 DEF ToSet
<1>4. ASSUME NEW i \in DOMAIN t
      PROVE  t[i] \in ToSet(s \o t)
  <2>1. Len(s) + i \in DOMAIN (s \o t) /\ (s \o t)[Len(s) + i] = t[i]
    BY <1>1
  <2> QED BY <2>1 DEF ToSet
<1> QED BY <1>2, <1>3, <1>4 DEF ToSet

LEMMA ElementsOfPrefix ==
    ASSUME NEW S, NEW s \in Seq(S), NEW n \in 0 .. Len(s)
    PROVE  SubSeq(s, 1, n) \in Seq(S) /\ ToSet(SubSeq(s, 1, n)) \subseteq ToSet(s)
<1>1. SubSeq(s, 1, n) \in Seq(S) /\ Len(SubSeq(s, 1, n)) = n
  OBVIOUS
<1>2. \A i \in 1 .. n : SubSeq(s, 1, n)[i] = s[i] /\ i \in DOMAIN s
  OBVIOUS
<1> QED BY <1>1, <1>2 DEF ToSet

\* The sink hears of processed packets only, and a failure hides the outputs
\* of one wave at most: no packet of an earlier wave stays unanswered.
THEOREM OutputsAfterDispatch == Spec => []OutputsFollowDispatch
<1> DEFINE Inv == TypeOK /\ OutputsFollowDispatch
<1>1. Init => Inv
  <2> SUFFICES ASSUME Init PROVE OutputsFollowDispatch
    BY InitType
  <2>1. emitted = <<>> /\ applied = {} /\ ToSet(<<>>) = {}
    BY EmptyIsSeq DEF Init, ToSet
  <2> QED BY <2>1 DEF OutputsFollowDispatch
<1>2. Inv /\ [Next]_vars => Inv'
  <2> SUFFICES ASSUME Inv, [Next]_vars PROVE OutputsFollowDispatch'
    BY NextType
  <2>1. wave \in Seq(DOMAIN batch) /\ emitted \in Seq(DOMAIN batch)
    BY QueueTypes, Zenon DEF TypeOK, Indices
  <2>2. CASE StartBatch
    <3>1. emitted' = <<>> /\ applied' = {} /\ ToSet(<<>>) = {}
      BY <2>2, EmptyIsSeq DEF StartBatch, ToSet
    <3> QED BY <3>1 DEF OutputsFollowDispatch
  <2>3. CASE Fill
    <3>1. busy /\ UNCHANGED <<applied, emitted, busy>>
      BY <2>3 DEF Fill, DeferFull, DeferFlow, Push, Defer, Filling
    <3> QED BY <3>1 DEF OutputsFollowDispatch
  <2>4. CASE DispatchWave
    <3>1. /\ busy /\ applied' = applied \cup ToSet(wave) /\ emitted' = emitted \o wave
      BY <2>4 DEF DispatchWave, Filled
    <3>2. applied' = ToSet(emitted')
      BY <2>1, <3>1, ElementsOfBoth DEF OutputsFollowDispatch
    <3> QED BY <3>2 DEF OutputsFollowDispatch
  <2>5. CASE SinkFails
    <3>1. PICK n \in 0 .. Len(wave) - 1 : emitted' = emitted \o SubSeq(wave, 1, n)
      BY <2>5 DEF SinkFails
    <3>2. busy /\ ~busy' /\ applied' = applied \cup ToSet(wave) /\ wave' = wave
      BY <2>5 DEF SinkFails, Filled
    <3>3. n \in 0 .. Len(wave)
      BY <2>1, <3>1
    <3> DEFINE S == DOMAIN batch
               sent == SubSeq(wave, 1, n)
    <3>4. wave \in Seq(S) /\ emitted \in Seq(S)
      BY <2>1
    <3> HIDE DEF S
    <3>5. sent \in Seq(S) /\ ToSet(sent) \subseteq ToSet(wave)
      BY <3>3, <3>4, ElementsOfPrefix, Zenon
    <3>6. emitted' = emitted \o sent
      BY <3>1
    <3> HIDE DEF sent
    <3>7. ToSet(emitted \o sent) = ToSet(emitted) \cup ToSet(sent)
      BY <3>4, <3>5, ElementsOfBoth, ZenonT(60)
    <3> QED BY <3>2, <3>5, <3>6, <3>7 DEF OutputsFollowDispatch
  <2>6. CASE DispatchFails
    <3>1. /\ busy /\ ~busy' /\ applied' \in {applied, applied \cup ToSet(wave)}
          /\ UNCHANGED <<wave, emitted>>
      BY <2>6 DEF DispatchFails, Filled
    <3> QED BY <3>1 DEF OutputsFollowDispatch
  <2>7. CASE UNCHANGED vars
    BY <2>7 DEF vars, OutputsFollowDispatch
  <2> QED BY <2>2, <2>3, <2>4, <2>5, <2>6, <2>7 DEF Next
<1>3. Inv => OutputsFollowDispatch
  OBVIOUS
<1> HIDE DEF Inv
<1> QED BY <1>1, <1>2, <1>3, PTL DEF Spec
-----------------------------------------------------------------------------
(* Counting the places of a packet.                                        *)

Places(s, i) == {j \in DOMAIN s : s[j] = i}
Waiting(i) == {j \in next .. Len(pending) : pending[j] = i}

\* While the engine runs, each packet is in one place.
Counted == busy => \A i \in DOMAIN batch :
              Cardinality(Waiting(i)) + Cardinality(Places(wave, i))
              + Cardinality(Places(deferred, i)) + Cardinality(Places(emitted, i)) = 1

LEMMA PlacesFinite ==
    ASSUME NEW S, NEW s \in Seq(S), NEW i
    PROVE  IsFiniteSet(Places(s, i)) /\ Cardinality(Places(s, i)) \in Nat
<1>1. IsFiniteSet(1 .. Len(s))
  BY FS_Interval
<1>2. Places(s, i) \in SUBSET (1 .. Len(s))
  BY DEF Places
<1> QED BY <1>1, <1>2, FS_Subset, FS_CardinalityType

LEMMA PlacesOfNone == \A i : Places(<<>>, i) = {} /\ Cardinality(Places(<<>>, i)) = 0
  BY FS_EmptySet DEF Places

\* One more at the end counts if it is the packet.
LEMMA PlacesAppend ==
    ASSUME NEW S, NEW s \in Seq(S), NEW x \in S, NEW i
    PROVE  Cardinality(Places(Append(s, x), i)) =
              Cardinality(Places(s, i)) + (IF x = i THEN 1 ELSE 0)
<1>1. /\ Len(s) \in Nat /\ DOMAIN s = 1 .. Len(s)
      /\ DOMAIN Append(s, x) = 1 .. Len(s) + 1
      /\ \A j \in 1 .. Len(s) : Append(s, x)[j] = s[j]
      /\ Append(s, x)[Len(s) + 1] = x
  OBVIOUS
<1>2. CASE x = i
  <2>1. Places(Append(s, x), i) = Places(s, i) \cup {Len(s) + 1}
    BY <1>1, <1>2 DEF Places
  <2>2. Len(s) + 1 \notin Places(s, i)
    BY <1>1 DEF Places
  <2> QED BY <1>2, <2>1, <2>2, PlacesFinite, FS_AddElement
<1>3. CASE x # i
  <2>1. Places(Append(s, x), i) = Places(s, i)
    BY <1>1, <1>3 DEF Places
  <2> QED BY <1>3, <2>1, PlacesFinite
<1> QED BY <1>2, <1>3

\* The places in two sequences, one after the other.
LEMMA PlacesOfBoth ==
    ASSUME NEW S, NEW s \in Seq(S), NEW t \in Seq(S), NEW i
    PROVE  Cardinality(Places(s \o t, i)) = Cardinality(Places(s, i)) + Cardinality(Places(t, i))
<1> DEFINE moved == {Len(s) + j : j \in Places(t, i)}
           move == [j \in Places(t, i) |-> Len(s) + j]
<1>1. /\ Len(s) \in Nat /\ Len(t) \in Nat
      /\ DOMAIN s = 1 .. Len(s) /\ DOMAIN t = 1 .. Len(t)
      /\ DOMAIN (s \o t) = 1 .. Len(s) + Len(t)
      /\ \A j \in 1 .. Len(s) : (s \o t)[j] = s[j]
      /\ \A j \in 1 .. Len(t) : (s \o t)[Len(s) + j] = t[j]
  OBVIOUS
<1>2. Places(t, i) \subseteq 1 .. Len(t) /\ Places(s, i) \subseteq 1 .. Len(s)
  BY <1>1 DEF Places
<1>3. Places(s \o t, i) = Places(s, i) \cup moved
  <2>1. ASSUME NEW j \in Places(s \o t, i) PROVE j \in Places(s, i) \cup moved
    <3>1. j \in 1 .. Len(s) + Len(t) /\ (s \o t)[j] = i
      BY <1>1 DEF Places
    <3>2. CASE j <= Len(s)
      BY <1>1, <3>1, <3>2 DEF Places
    <3>3. CASE j > Len(s)
      <4>1. j - Len(s) \in 1 .. Len(t) /\ Len(s) + (j - Len(s)) = j
        BY <1>1, <3>1, <3>3
      <4>2. j - Len(s) \in Places(t, i)
        BY <1>1, <3>1, <4>1 DEF Places
      <4> QED BY <4>1, <4>2
    <3> QED BY <1>1, <3>1, <3>2, <3>3
  <2>2. ASSUME NEW j \in Places(s, i) PROVE j \in Places(s \o t, i)
    BY <1>1 DEF Places
  <2>3. ASSUME NEW j \in Places(t, i) PROVE Len(s) + j \in Places(s \o t, i)
    BY <1>1 DEF Places
  <2> QED BY <2>1, <2>2, <2>3
<1>4. Places(s, i) \cap moved = {}
  BY <1>1, <1>2
<1>5. move \in Bijection(Places(t, i), moved)
  <2>1. move \in [Places(t, i) -> moved]
    OBVIOUS
  <2>2. \A j, k \in Places(t, i) : move[j] = move[k] => j = k
    BY <1>1, <1>2
  <2>3. \A m \in moved : \E j \in Places(t, i) : move[j] = m
    OBVIOUS
  <2> QED BY <2>1, <2>2, <2>3 DEF Bijection, Injection, Surjection, IsInjective
<1>6. IsFiniteSet(moved) /\ Cardinality(moved) = Cardinality(Places(t, i))
  <2> HIDE DEF moved, move
  <2> QED BY <1>5, PlacesFinite, FS_Bijection DEF ExistsBijection
<1>7. IsFiniteSet(Places(s, i)) /\ Cardinality(Places(s, i)) \in Nat /\ Cardinality(Places(t, i)) \in Nat
  BY PlacesFinite
<1> HIDE DEF moved, move
<1>8. Cardinality(Places(s, i) \cup moved) =
        Cardinality(Places(s, i)) + Cardinality(moved) - Cardinality(Places(s, i) \cap moved)
  BY <1>6, <1>7, FS_Union
<1>9. Cardinality(Places(s, i) \cap moved) = 0
  BY <1>4, FS_EmptySet
<1> QED BY <1>3, <1>6, <1>7, <1>8, <1>9

\* Looking at a packet takes it from those that wait.
LEMMA WaitingNext ==
    ASSUME TypeOK, Filling, next' = next + 1, UNCHANGED pending, NEW i
    PROVE  /\ IsFiniteSet(Waiting(i)) /\ Cardinality(Waiting(i)) \in Nat
           /\ Cardinality(Waiting(i)') = Cardinality(Waiting(i)) - (IF index = i THEN 1 ELSE 0)
<1>1. next \in Nat /\ Len(pending) \in Nat /\ next <= Len(pending)
  BY DEF TypeOK, Filling
<1>2. IsFiniteSet(Waiting(i)) /\ Cardinality(Waiting(i)) \in Nat
  <2>1. IsFiniteSet(next .. Len(pending)) /\ Waiting(i) \in SUBSET (next .. Len(pending))
    BY <1>1, FS_Interval DEF Waiting
  <2> QED BY <2>1, FS_Subset, FS_CardinalityType
<1>3. Waiting(i)' = Waiting(i) \ {next}
  BY <1>1 DEF Waiting
<1>4. next \in Waiting(i) <=> index = i
  BY <1>1 DEF Waiting, index
<1> QED BY <1>2, <1>3, <1>4, FS_RemoveElement

LEMMA CountedStep == ASSUME TypeOK, TypeOK', Counted, [Next]_vars PROVE Counted'
<1> DEFINE S == DOMAIN batch
<1>1. /\ pending \in Seq(S) /\ wave \in Seq(S) /\ deferred \in Seq(S) /\ emitted \in Seq(S)
      /\ next \in 1 .. Len(pending) + 1 /\ DOMAIN batch \subseteq Nat
  BY QueueTypes, Zenon DEF TypeOK, Indices
<1>2. CASE StartBatch
  <2> SUFFICES ASSUME NEW i \in DOMAIN batch'
               PROVE  /\ Cardinality(Waiting(i)') = 1
                      /\ Cardinality(Places(wave, i)') = 0
                      /\ Cardinality(Places(deferred, i)') = 0
                      /\ Cardinality(Places(emitted, i)') = 0
    BY DEF Counted
  <2>1. /\ pending' = [j \in DOMAIN batch' |-> j] /\ next' = 1
        /\ wave' = <<>> /\ deferred' = <<>> /\ emitted' = <<>>
    BY <1>2 DEF StartBatch, BeginWave
  <2>2. PICK n \in Nat : DOMAIN batch' = 1 .. n
    BY <1>2, SchedulerAssumption DEF StartBatch
  <2>3. Len(pending') = n /\ DOMAIN pending' = 1 .. n
    BY <2>1, <2>2
  <2>4. Waiting(i)' = {i}
    BY <2>1, <2>2, <2>3 DEF Waiting
  <2> QED BY <2>1, <2>4, PlacesOfNone, FS_Singleton
<1>3. CASE Filling /\ Defer
  <2>1. /\ deferred' = Append(deferred, index) /\ next' = next + 1
        /\ UNCHANGED <<pending, batch, wave, emitted, busy>>
    BY <1>3 DEF Defer
  <2>2. index \in S /\ busy
    BY <1>1, <1>3 DEF Filling, index
  <2> HIDE DEF S
  <2>3. ASSUME NEW i
        PROVE  /\ Cardinality(Places(deferred, i)') =
                    Cardinality(Places(deferred, i)) + (IF index = i THEN 1 ELSE 0)
               /\ Cardinality(Waiting(i)') = Cardinality(Waiting(i)) - (IF index = i THEN 1 ELSE 0)
               /\ Cardinality(Waiting(i)) \in Nat /\ Cardinality(Places(deferred, i)) \in Nat
               /\ Cardinality(Places(wave, i)) \in Nat /\ Cardinality(Places(emitted, i)) \in Nat
               /\ UNCHANGED <<Places(wave, i), Places(emitted, i)>>
    <3>1. Cardinality(Places(Append(deferred, index), i)) =
            Cardinality(Places(deferred, i)) + (IF index = i THEN 1 ELSE 0)
      BY <1>1, <2>2, PlacesAppend
    <3>2. /\ Cardinality(Places(deferred, i)) \in Nat /\ Cardinality(Places(wave, i)) \in Nat
          /\ Cardinality(Places(emitted, i)) \in Nat
      BY <1>1, PlacesFinite, Zenon
    <3>3. /\ Cardinality(Waiting(i)) \in Nat
          /\ Cardinality(Waiting(i)') = Cardinality(Waiting(i)) - (IF index = i THEN 1 ELSE 0)
      BY <1>3, <2>1, WaitingNext
    <3>4. /\ Places(deferred, i)' = Places(Append(deferred, index), i)
          /\ UNCHANGED <<Places(wave, i), Places(emitted, i)>>
      BY <2>1 DEF Places
    <3> QED BY <3>1, <3>2, <3>3, <3>4
  <2>4. ASSUME NEW i \in DOMAIN batch
        PROVE  (Cardinality(Waiting(i)) + Cardinality(Places(wave, i))
                + Cardinality(Places(deferred, i)) + Cardinality(Places(emitted, i)) = 1)'
    <3>1. Cardinality(Waiting(i)) + Cardinality(Places(wave, i))
            + Cardinality(Places(deferred, i)) + Cardinality(Places(emitted, i)) = 1
      BY <2>2 DEF Counted
    <3> QED BY <2>3, <3>1
  <2> QED BY <2>1, <2>4 DEF Counted
<1>4. CASE Push
  <2>1. /\ wave' = Append(wave, index) /\ next' = next + 1 /\ Filling
        /\ UNCHANGED <<pending, batch, deferred, emitted, busy>>
    BY <1>4 DEF Push
  <2>2. index \in S /\ busy
    BY <1>1, <2>1 DEF Filling, index
  <2> HIDE DEF S
  <2>3. ASSUME NEW i
        PROVE  /\ Cardinality(Places(wave, i)') =
                    Cardinality(Places(wave, i)) + (IF index = i THEN 1 ELSE 0)
               /\ Cardinality(Waiting(i)') = Cardinality(Waiting(i)) - (IF index = i THEN 1 ELSE 0)
               /\ Cardinality(Waiting(i)) \in Nat /\ Cardinality(Places(deferred, i)) \in Nat
               /\ Cardinality(Places(wave, i)) \in Nat /\ Cardinality(Places(emitted, i)) \in Nat
               /\ UNCHANGED <<Places(deferred, i), Places(emitted, i)>>
    <3>1. Cardinality(Places(Append(wave, index), i)) =
            Cardinality(Places(wave, i)) + (IF index = i THEN 1 ELSE 0)
      BY <1>1, <2>2, PlacesAppend
    <3>2. /\ Cardinality(Places(deferred, i)) \in Nat /\ Cardinality(Places(wave, i)) \in Nat
          /\ Cardinality(Places(emitted, i)) \in Nat
      BY <1>1, PlacesFinite, Zenon
    <3>3. /\ Cardinality(Waiting(i)) \in Nat
          /\ Cardinality(Waiting(i)') = Cardinality(Waiting(i)) - (IF index = i THEN 1 ELSE 0)
      BY <2>1, WaitingNext
    <3>4. /\ Places(wave, i)' = Places(Append(wave, index), i)
          /\ UNCHANGED <<Places(deferred, i), Places(emitted, i)>>
      BY <2>1 DEF Places
    <3> QED BY <3>1, <3>2, <3>3, <3>4
  <2>4. ASSUME NEW i \in DOMAIN batch
        PROVE  (Cardinality(Waiting(i)) + Cardinality(Places(wave, i))
                + Cardinality(Places(deferred, i)) + Cardinality(Places(emitted, i)) = 1)'
    <3>1. Cardinality(Waiting(i)) + Cardinality(Places(wave, i))
            + Cardinality(Places(deferred, i)) + Cardinality(Places(emitted, i)) = 1
      BY <2>2 DEF Counted
    <3> QED BY <2>3, <3>1
  <2> QED BY <2>1, <2>4 DEF Counted
<1>5. CASE DispatchWave /\ busy'
  <2>1. /\ busy /\ next > Len(pending) /\ UNCHANGED batch
        /\ emitted' = emitted \o wave
        /\ pending' = deferred /\ next' = 1 /\ wave' = <<>> /\ deferred' = <<>>
    BY <1>5 DEF DispatchWave, Filled, BeginWave
  <2> HIDE DEF S
  <2>2. ASSUME NEW i
        PROVE  /\ Cardinality(Waiting(i)) = 0
               /\ Cardinality(Places(wave, i)') = 0 /\ Cardinality(Places(deferred, i)') = 0
               /\ Cardinality(Waiting(i)') = Cardinality(Places(deferred, i))
               /\ Cardinality(Places(emitted, i)') =
                    Cardinality(Places(emitted, i)) + Cardinality(Places(wave, i))
               /\ Cardinality(Places(deferred, i)) \in Nat /\ Cardinality(Places(wave, i)) \in Nat
               /\ Cardinality(Places(emitted, i)) \in Nat
    <3>1. Waiting(i) = {} /\ Cardinality({}) = 0
      BY <1>1, <2>1, FS_EmptySet DEF Waiting
    <3>2. Waiting(i)' = Places(deferred, i)
      BY <1>1, <2>1 DEF Waiting, Places
    <3>3. Cardinality(Places(emitted \o wave, i)) =
            Cardinality(Places(emitted, i)) + Cardinality(Places(wave, i))
      BY <1>1, PlacesOfBoth, Zenon
    <3>4. /\ Cardinality(Places(deferred, i)) \in Nat /\ Cardinality(Places(wave, i)) \in Nat
          /\ Cardinality(Places(emitted, i)) \in Nat
      BY <1>1, PlacesFinite, Zenon
    <3>5. Places(emitted, i)' = Places(emitted \o wave, i)
          /\ Places(wave, i)' = Places(<<>>, i) /\ Places(deferred, i)' = Places(<<>>, i)
      BY <2>1 DEF Places
    <3> QED BY <3>1, <3>2, <3>3, <3>4, <3>5, PlacesOfNone
  <2> QED BY <2>1, <2>2 DEF Counted
<1>6. CASE ~busy'
  BY <1>6 DEF Counted
<1>7. CASE UNCHANGED vars
  BY <1>7 DEF vars, Counted, Waiting, Places
<1>8. CASE SinkFails \/ DispatchFails
  BY <1>6, <1>8 DEF SinkFails, DispatchFails
<1> QED BY <1>2, <1>3, <1>4, <1>5, <1>6, <1>7, <1>8 DEF Next, Fill, DeferFull, DeferFlow

\* No packet of a batch is lost and none is given to two dispatches, however
\* often it is deferred.
THEOREM EachPacketOnce == Spec => []ExactlyOnce
<1>1. Init => TypeOK /\ Counted
  BY InitType DEF Init, Counted
<1>2. (TypeOK /\ Counted) /\ [Next]_vars => (TypeOK /\ Counted)'
  BY NextType, CountedStep
<1>3. TypeOK /\ Counted => ExactlyOnce
  BY Zenon DEF Counted, ExactlyOnce, Waiting, Places, Indices
<1> QED BY <1>1, <1>2, <1>3, PTL DEF Spec

-----------------------------------------------------------------------------
(* The wave in the input buffer.                                           *)

\* The lengths of the packets with these indices.
LengthsOf(b, w) == [n \in 1 .. Len(w) |-> b[w[n]].words]

LEMMA LengthsTypes ==
    ASSUME NEW b \in Seq(Packet), NEW w \in Seq(DOMAIN b)
    PROVE  Len(w) \in Nat /\ LengthsOf(b, w) \in [1 .. Len(w) -> Nat]
<1>1. ASSUME NEW n \in 1 .. Len(w) PROVE b[w[n]].words \in Nat
  <2>1. b[w[n]] \in Packet
    OBVIOUS
  <2> QED BY <2>1, PacketFields
<1> QED BY <1>1 DEF LengthsOf

LEMMA EndsAreSums ==
    ASSUME NEW b \in Seq(Packet), NEW w \in Seq(DOMAIN b), NEW e,
           e = CHOOSE f : f = [n \in 0 .. Len(w) |-> IF n = 0 THEN 0 ELSE f[n - 1] + b[w[n]].words]
    PROVE  Sums(e, Len(w), LengthsOf(b, w))
<1>1. ASSUME NEW f PROVE [n \in 0 .. Len(w) |-> IF n = 0 THEN 0 ELSE f[n - 1] + b[w[n]].words]
                         = [n \in 0 .. Len(w) |-> IF n = 0 THEN 0 ELSE f[n - 1] + LengthsOf(b, w)[n]]
  <2> DEFINE h == [n \in 0 .. Len(w) |-> IF n = 0 THEN 0 ELSE f[n - 1] + b[w[n]].words]
             k == [n \in 0 .. Len(w) |-> IF n = 0 THEN 0 ELSE f[n - 1] + LengthsOf(b, w)[n]]
  <2>1. \A n \in 0 .. Len(w) : h[n] = k[n]
    BY DEF LengthsOf
  <2> QED BY <2>1
<1>2. PICK f : SumsUp(f, Len(w), LengthsOf(b, w))
  BY LengthsTypes, SumsExist
<1>3. f = [n \in 0 .. Len(w) |-> IF n = 0 THEN 0 ELSE f[n - 1] + b[w[n]].words]
  BY <1>1, <1>2, Zenon DEF SumsUp
<1>4. e = [n \in 0 .. Len(w) |-> IF n = 0 THEN 0 ELSE e[n - 1] + b[w[n]].words]
  BY <1>3
<1>5. [n \in 0 .. Len(w) |-> IF n = 0 THEN 0 ELSE e[n - 1] + b[w[n]].words]
      = [n \in 0 .. Len(w) |-> IF n = 0 THEN 0 ELSE e[n - 1] + LengthsOf(b, w)[n]]
  BY <1>1
<1>6. e = [n \in 0 .. Len(w) |-> IF n = 0 THEN 0 ELSE e[n - 1] + LengthsOf(b, w)[n]]
  <2> DEFINE k == [n \in 0 .. Len(w) |-> IF n = 0 THEN 0 ELSE e[n - 1] + LengthsOf(b, w)[n]]
             h == [n \in 0 .. Len(w) |-> IF n = 0 THEN 0 ELSE e[n - 1] + b[w[n]].words]
  <2>1. e = h /\ h = k
    BY <1>4, <1>5
  <2> HIDE DEF h, k
  <2>2. e = k
    BY <2>1
  <2> QED BY <2>2 DEF k
<1> QED BY <1>6, LengthsTypes DEF Sums, SumsUp

\* A packet that joins the wave ends its length behind the one before it.
LEMMA EndsAppend ==
    ASSUME NEW b \in Seq(Packet), NEW w \in Seq(DOMAIN b), NEW i \in DOMAIN b, NEW f, NEW g,
           Sums(f, Len(w), LengthsOf(b, w)),
           Sums(g, Len(Append(w, i)), LengthsOf(b, Append(w, i)))
    PROVE  g[Len(Append(w, i))] = f[Len(w)] + b[i].words
<1> DEFINE v == Append(w, i)
           M == Len(w)
           few == LengthsOf(b, w)
           more == LengthsOf(b, v)
<1>1. v \in Seq(DOMAIN b) /\ M \in Nat /\ Len(v) = M + 1 /\ v[M + 1] = i
      /\ \A n \in 1 .. M : v[n] = w[n]
  OBVIOUS
<1>2. few \in [1 .. M -> Nat] /\ more \in [1 .. M + 1 -> Nat]
  BY <1>1, LengthsTypes
<1>3. more[M + 1] = b[i].words /\ \A n \in 1 .. M : few[n] = more[n]
  <2>1. M + 1 \in 1 .. M + 1 /\ \A n \in 1 .. M : n \in 1 .. M + 1
    BY <1>1
  <2>2. more = [n \in 1 .. M + 1 |-> b[v[n]].words]
    BY <1>1 DEF LengthsOf
  <2>3. few = [n \in 1 .. M |-> b[w[n]].words]
    BY DEF LengthsOf
  <2> HIDE DEF v, M, few, more
  <2>4. \A n \in 1 .. M + 1 : more[n] = b[v[n]].words
    BY <2>2
  <2>5. \A n \in 1 .. M : few[n] = b[w[n]].words
    BY <2>3
  <2> QED BY <1>1, <2>1, <2>4, <2>5
<1>4. Sums(f, M, few) /\ Sums(g, M + 1, more)
  <2>1. Sums(f, M, few) /\ Sums(g, Len(v), more)
    OBVIOUS
  <2> HIDE DEF v, M, few, more
  <2> QED BY <1>1, <2>1
<1> HIDE DEF v, M, few, more
<1>5. FirstOf(M, few, more)
  BY <1>3 DEF FirstOf
<1>6. g[M + 1] = f[M] + more[M + 1]
  BY <1>4, <1>5, SumsNext
<1>7. g[Len(v)] = f[M] + b[i].words
  BY <1>1, <1>3, <1>6
<1> QED BY <1>7 DEF v, M

\* input_words is where the wave ends, and that is within the buffer.
Laid == words = WaveEnd[Len(wave)] /\ words <= capacity /\ Len(wave) <= MaxBatch

LEMMA LaidStep == ASSUME TypeOK, TypeOK', Laid, [Next]_vars PROVE Laid'
<1> USE DEF Indices
<1>1. Sums(WaveEnd, Len(wave), LengthsOf(batch, wave))
  <2>1. batch \in Seq(Packet) /\ wave \in Seq(DOMAIN batch)
    BY DEF TypeOK
  <2>2. WaveEnd = CHOOSE f : f = [n \in 0 .. Len(wave) |->
                                     IF n = 0 THEN 0 ELSE f[n - 1] + batch[wave[n]].words]
    BY DEF WaveEnd
  <2> QED BY <2>1, <2>2, EndsAreSums
<1>2. Sums(WaveEnd', Len(wave'), LengthsOf(batch', wave'))
  <2>1. batch' \in Seq(Packet) /\ wave' \in Seq(DOMAIN batch')
    BY DEF TypeOK
  <2>2. WaveEnd' = CHOOSE f : f = [n \in 0 .. Len(wave') |->
                                     IF n = 0 THEN 0 ELSE f[n - 1] + batch'[wave'[n]].words]
    BY DEF WaveEnd
  <2> QED BY <2>1, <2>2, EndsAreSums
<1>3. /\ batch' \in Seq(Packet) /\ wave' \in Seq(DOMAIN batch')
      /\ Len(wave') \in Nat /\ LengthsOf(batch', wave') \in [1 .. Len(wave') -> Nat]
  <2>1. batch' \in Seq(Packet) /\ wave' \in Seq(DOMAIN batch')
    BY DEF TypeOK
  <2> QED BY <2>1, LengthsTypes
<1>4. CASE wave' = <<>> /\ words' = 0
  <2>1. Len(wave') = 0
    BY <1>4
  <2>2. WaveEnd'[0] = 0
    BY <1>2, <1>3, SumsTypes
  <2>3. capacity' >= 0
    BY SchedulerAssumption DEF TypeOK
  <2> QED BY <1>4, <2>1, <2>2, <2>3, SchedulerAssumption DEF Laid
<1>5. CASE UNCHANGED <<batch, wave, words, capacity>>
  <2>1. WaveEnd' = WaveEnd
    BY <1>5 DEF WaveEnd
  <2> QED BY <1>5, <2>1 DEF Laid
<1>6. CASE Push
  <2> DEFINE p == batch[index]
  <2>1. /\ wave' = Append(wave, index) /\ UNCHANGED <<batch, capacity>> /\ words' = words + p.words
        /\ ~NoRoom(p)
    BY <1>6 DEF Push
  <2>2. batch \in Seq(Packet) /\ wave \in Seq(DOMAIN batch) /\ index \in DOMAIN batch
    BY <1>6 DEF TypeOK, Push, Filling, index
  <2>3. WaveEnd'[Len(Append(wave, index))] = WaveEnd[Len(wave)] + p.words
    <3> DEFINE f == WaveEnd
               g == WaveEnd'
               i == index
    <3>1. Sums(f, Len(wave), LengthsOf(batch, wave))
          /\ Sums(g, Len(Append(wave, i)), LengthsOf(batch, Append(wave, i)))
      BY <1>1, <1>2, <2>1
    <3>2. i \in DOMAIN batch
      BY <2>2
    <3> HIDE DEF f, g, i
    <3>3. g[Len(Append(wave, i))] = f[Len(wave)] + batch[i].words
      BY <2>2, <3>1, <3>2, EndsAppend
    <3> QED BY <3>3 DEF f, g, i
  <2>4. Len(Append(wave, index)) = Len(wave) + 1 /\ Len(wave) \in Nat
    BY <2>2
  <2>5. words' <= capacity' /\ Len(wave') <= MaxBatch
    <3>1. p.words \in Nat /\ words \in Nat /\ capacity \in Nat /\ MaxBatch \in Nat
      <4>1. p.words \in Nat
        BY <2>2, PacketFields
      <4>2. words \in Nat /\ capacity \in PacketWords .. RequestedWords
        BY DEF TypeOK
      <4>3. MaxBatch \in Nat /\ PacketWords \in Nat
        BY SchedulerAssumption
      <4> QED BY <4>1, <4>2, <4>3 DEF RequestedWords
    <3> QED BY <2>1, <2>4, <3>1 DEF NoRoom, Laid
  <2> QED BY <2>1, <2>3, <2>5 DEF Laid
<1>7. StartBatch => wave' = <<>> /\ words' = 0
  BY DEF StartBatch, BeginWave
<1>8. DeferFull \/ DeferFlow => UNCHANGED <<batch, wave, words, capacity>>
  BY DEF DeferFull, DeferFlow, Defer
<1>9. DispatchWave => (wave' = <<>> /\ words' = 0) \/ UNCHANGED <<batch, wave, words, capacity>>
  BY DEF DispatchWave, BeginWave
<1>10. SinkFails \/ DispatchFails \/ UNCHANGED vars => UNCHANGED <<batch, wave, words, capacity>>
  BY DEF SinkFails, DispatchFails, vars
<1> QED BY <1>4, <1>5, <1>6, <1>7, <1>8, <1>9, <1>10 DEF Next, Fill

\* The packets of a wave, laid end to end by pack_wave_bytes, fit the buffer the
\* device has granted, for batches of any length and packets of any sizes.
THEOREM WavesFit == Spec => []WaveFits
<1>1. Init => Laid
  <2>1. SUFFICES ASSUME Init PROVE Laid
    OBVIOUS
  <2>2. TypeOK
    BY <2>1, InitType
  <2>3. batch \in Seq(Packet) /\ wave \in Seq(DOMAIN batch) /\ wave = <<>> /\ words = 0
    BY <2>1, <2>2 DEF Init, TypeOK, Indices
  <2>4. WaveEnd = CHOOSE f : f = [n \in 0 .. Len(wave) |->
                                     IF n = 0 THEN 0 ELSE f[n - 1] + batch[wave[n]].words]
    BY DEF WaveEnd
  <2>5. Sums(WaveEnd, Len(wave), LengthsOf(batch, wave))
    BY <2>3, <2>4, EndsAreSums
  <2>6. Len(wave) \in Nat /\ LengthsOf(batch, wave) \in [1 .. Len(wave) -> Nat]
    BY <2>3, LengthsTypes
  <2>7. WaveEnd[0] = 0
    BY <2>5, <2>6, SumsTypes
  <2>8. capacity >= 0 /\ Len(wave) = 0 /\ MaxBatch \in Nat
    BY <2>2, <2>3, SchedulerAssumption DEF TypeOK
  <2> QED BY <2>3, <2>7, <2>8 DEF Laid
<1>2. TypeOK /\ Laid /\ [Next]_vars => Laid'
  BY NextType, LaidStep
<1>3. Laid => WaveFits
  BY DEF Laid, WaveFits
<1> QED BY <1>1, <1>2, <1>3, TypeCorrect, PTL DEF Spec

-----------------------------------------------------------------------------
(* The daemon over the scheduler, for any number of packets and any batch  *)
(* size: each packet is answered at most once, for what it says itself,    *)
(* the packets of a flow in the order they came, over all batches and      *)
(* waves, and an error costs the batch at hand at most.  What the          *)
(* scheduler does within a batch is taken from its own theorems: the       *)
(* daemon's steps are steps of the scheduler, or none.                     *)

-----------------------------------------------------------------------------
(* The scheduler in the daemon.                                            *)

\* Whatever the scheduler keeps it keeps in the daemon.
THEOREM DaemonSchedules == DaemonSpec => Spec
<1>1. DaemonInit => Init
  BY DEF DaemonInit
<1>2. [DaemonNext]_allVars => [Next]_vars
  BY DEF DaemonNext, allVars, Direct, Receive, ReceiveFails, Serve, FillForDaemon,
         DispatchForDaemon, ServingFails, Next
<1> QED BY <1>1, <1>2, PTL DEF DaemonSpec, Spec

Scheduled == TypeOK /\ ExactlyOnce /\ OnePacketPerFlow /\ FlowOrder /\ OutputsFollowDispatch

LEMMA DaemonScheduled == DaemonSpec => []Scheduled
<1>1. TypeOK /\ ExactlyOnce /\ OnePacketPerFlow /\ FlowOrder /\ OutputsFollowDispatch => Scheduled
  BY DEF Scheduled
<1> QED BY <1>1, DaemonSchedules, TypeCorrect, EachPacketOnce, OneInvocationPerFlow, FlowsInOrder,
           OutputsAfterDispatch, PTL

-----------------------------------------------------------------------------
(* The inductive invariant.                                                *)

\* Packets of earlier batches.
base == Len(arrived) - Len(received)

\* A buffer of the batch holds the packet that was received into it.
Buffers ==
    /\ arrived \in Seq(Packet) /\ received \in Seq(Nat) /\ handled \in Seq(Nat)
    /\ Len(received) <= Len(arrived) /\ Len(received) <= MaxBatch
    /\ \A i \in 1 .. Len(received) : received[i] = base + i

Distinct(s, n) == \A j, k \in 1 .. n : s[j] = s[k] => j = k
InOrder(s, n) ==
    capacity = RequestedWords =>
        \A j, k \in 1 .. n :
            j < k /\ arrived[s[j]].flow = arrived[s[k]].flow /\ arrived[s[j]].flow # NoFlow
            => s[j] < s[k]

\* The first n answers are those to the first b packets.
Settled(s, n, b) ==
    /\ \A k \in 1 .. n : s[k] \in 1 .. b
    /\ \A p \in 1 .. b : \E k \in 1 .. n : s[k] = p
    /\ Distinct(s, n) /\ InOrder(s, n)

\* Earlier batches are settled, and of this one what the engine has emitted.
Current(s, out) ==
    /\ s \in Seq(Nat) /\ out \in Seq(1 .. Len(received)) /\ Len(out) <= Len(s)
    /\ Settled(s, Len(s) - Len(out), base)
    /\ \A k \in 1 .. Len(out) : s[Len(s) - Len(out) + k] = base + out[k]
    /\ Distinct(out, Len(out))
    /\ capacity = RequestedWords =>
        \A j, k \in 1 .. Len(out) : j < k /\ SameFlow(out[j], out[k]) => out[j] < out[k]

Batched == /\ Len(batch) = Len(received)
           /\ \A i \in 1 .. Len(received) : batch[i] = arrived[base + i]

DInv ==
    /\ Buffers
    /\ phase \in {"direct", "receiving", "batching", "serving", "ended"}
    /\ phase \in {"direct", "receiving", "batching"} => Settled(handled, Len(handled), base)
    /\ phase \in {"direct", "receiving"} => received = <<>>
    /\ phase = "serving" => busy /\ Batched /\ Current(handled, emitted)
    /\ phase = "ended" => AnswersInOrder /\ AtMostABatchLost

-----------------------------------------------------------------------------
(* What a packet's only place says of the sequences.                       *)

LEMMA OnePlace ==
    ASSUME NEW S, NEW s \in Seq(S), NEW i, Cardinality(Places(s, i)) <= 1
    PROVE  \A j, k \in 1 .. Len(s) : s[j] = i /\ s[k] = i => j = k
<1> SUFFICES ASSUME NEW j \in 1 .. Len(s), NEW k \in 1 .. Len(s), s[j] = i, s[k] = i, j # k
             PROVE  FALSE
  OBVIOUS
<1>1. IsFiniteSet(Places(s, i)) /\ Cardinality(Places(s, i)) \in Nat
  BY PlacesFinite
<1>2. {j, k} \subseteq Places(s, i)
  BY DEF Places
<1> DEFINE one == {j}
<1>3. Cardinality(one) = 1 /\ IsFiniteSet(one) /\ k \notin one
  BY FS_Singleton
<1>4. one \cup {k} \in SUBSET Places(s, i)
  BY <1>2
<1> HIDE DEF one
<1>5. Cardinality(one \cup {k}) = 2
  <2>1. Cardinality(one \cup {k}) = Cardinality(one) + 1
    BY <1>3, FS_AddElement
  <2> QED BY <1>3, <2>1
<1>6. Cardinality(one \cup {k}) <= Cardinality(Places(s, i))
  BY <1>1, <1>4, FS_Subset, Zenon
<1> QED BY <1>1, <1>5, <1>6

LEMMA HasPlace ==
    ASSUME NEW S, NEW s \in Seq(S), NEW i
    PROVE  Cardinality(Places(s, i)) > 0 <=> \E k \in 1 .. Len(s) : s[k] = i
<1>1. IsFiniteSet(Places(s, i)) /\ Cardinality(Places(s, i)) \in Nat
  BY PlacesFinite
<1>2. Places(s, i) = {} <=> ~\E k \in 1 .. Len(s) : s[k] = i
  BY DEF Places
<1>3. Cardinality(Places(s, i)) = 0 <=> Places(s, i) = {}
  BY <1>1, FS_EmptySet
<1> QED BY <1>1, <1>2, <1>3

LEMMA OncePlaced ==
    ASSUME TypeOK, ExactlyOnce, busy
    PROVE  /\ Distinct(emitted, Len(emitted)) /\ Distinct(wave, Len(wave))
           /\ \A k \in 1 .. Len(emitted), l \in 1 .. Len(wave) : emitted[k] # wave[l]
           /\ next > Len(pending) /\ deferred = <<>> =>
                \A i \in Indices : \/ \E k \in 1 .. Len(emitted) : emitted[k] = i
                                   \/ \E l \in 1 .. Len(wave) : wave[l] = i
<1>1. /\ wave \in Seq(Indices) /\ deferred \in Seq(Indices) /\ emitted \in Seq(Indices)
      /\ next \in Nat /\ Len(pending) \in Nat
  BY DEF TypeOK
<1>2. ASSUME NEW i \in Indices
      PROVE  /\ Cardinality(Waiting(i)) \in Nat
             /\ Cardinality(Places(wave, i)) \in Nat /\ Cardinality(Places(deferred, i)) \in Nat
             /\ Cardinality(Places(emitted, i)) \in Nat
             /\ Cardinality(Waiting(i)) + Cardinality(Places(wave, i))
                + Cardinality(Places(deferred, i)) + Cardinality(Places(emitted, i)) = 1
  <2>0. next \in Int /\ Len(pending) \in Int
    BY <1>1
  <2>1. IsFiniteSet(next .. Len(pending)) /\ Waiting(i) \in SUBSET (next .. Len(pending))
    BY <2>0, FS_Interval DEF Waiting
  <2>2. Cardinality(Waiting(i)) \in Nat
    BY <2>1, FS_Subset, FS_CardinalityType
  <2>3. Cardinality(Waiting(i)) + Cardinality(Places(wave, i))
        + Cardinality(Places(deferred, i)) + Cardinality(Places(emitted, i)) = 1
    BY Zenon DEF ExactlyOnce, Waiting, Places
  <2> QED BY <1>1, <2>2, <2>3, PlacesFinite
<1>3. \A i \in Indices : Cardinality(Places(wave, i)) <= 1 /\ Cardinality(Places(emitted, i)) <= 1
  BY <1>2
<1>4. Distinct(emitted, Len(emitted)) /\ Distinct(wave, Len(wave))
  <2>1. \A k \in 1 .. Len(emitted) : emitted[k] \in Indices
    BY <1>1
  <2>2. \A k \in 1 .. Len(wave) : wave[k] \in Indices
    BY <1>1
  <2> QED BY <1>1, <1>3, <2>1, <2>2, OnePlace DEF Distinct
<1>5. ASSUME NEW k \in 1 .. Len(emitted), NEW l \in 1 .. Len(wave), emitted[k] = wave[l]
      PROVE  FALSE
  <2> DEFINE i == emitted[k]
  <2>1. i \in Indices
    BY <1>1
  <2>2. Cardinality(Places(emitted, i)) > 0 /\ Cardinality(Places(wave, i)) > 0
    BY <1>1, <1>5, HasPlace
  <2> HIDE DEF i
  <2> QED BY <1>2, <2>1, <2>2
<1>6. ASSUME next > Len(pending), deferred = <<>>, NEW i \in Indices
      PROVE  \/ \E k \in 1 .. Len(emitted) : emitted[k] = i
             \/ \E l \in 1 .. Len(wave) : wave[l] = i
  <2>1. Cardinality(Waiting(i)) = 0
    <3>1. Waiting(i) = {}
      BY <1>1, <1>6 DEF Waiting
    <3> QED BY <3>1, FS_EmptySet
  <2>2. Cardinality(Places(deferred, i)) = 0
    BY <1>6, PlacesOfNone
  <2>3. Cardinality(Places(wave, i)) > 0 \/ Cardinality(Places(emitted, i)) > 0
    BY <1>2, <2>1, <2>2
  <2> QED BY <1>1, <2>3, HasPlace
<1> QED BY <1>4, <1>5, <1>6

-----------------------------------------------------------------------------
(* Answers.                                                                *)

\* What settles earlier batches and follows the engine's order in this one is
\* in order, and settles this one too when the engine has emitted all of it.
LEMMA Extended ==
    ASSUME Buffers, Batched, NEW s, NEW out, Current(s, out)
    PROVE  /\ \A p \in 1 .. base : \E k \in 1 .. Len(s) : s[k] = p
           /\ Distinct(s, Len(s)) /\ InOrder(s, Len(s))
           /\ (\A i \in 1 .. Len(received) : \E k \in 1 .. Len(out) : out[k] = i)
              => Settled(s, Len(s), Len(arrived))
<1> DEFINE m == Len(s) - Len(out)
<1>1. /\ Len(s) \in Nat /\ Len(out) \in Nat /\ Len(arrived) \in Nat /\ Len(received) \in Nat
      /\ Len(out) <= Len(s) /\ Len(received) <= Len(arrived)
      /\ base \in Nat /\ Len(arrived) = base + Len(received) /\ m \in 0 .. Len(s)
  BY DEF Buffers, Current, base
<1>2. Settled(s, m, base)
  BY DEF Current
<1>3. ASSUME NEW k \in 1 .. Len(s), k > m
      PROVE  /\ k - m \in 1 .. Len(out) /\ s[k] = base + out[k - m]
             /\ out[k - m] \in 1 .. Len(received)
  <2>1. k - m \in 1 .. Len(out) /\ m + (k - m) = k
    BY <1>1, <1>3
  <2>2. s[m + (k - m)] = base + out[k - m] /\ out[k - m] \in 1 .. Len(received)
    BY <2>1, SMTT(60) DEF Current
  <2> QED BY <2>1, <2>2
<1>4. ASSUME NEW k \in 1 .. Len(s), k <= m PROVE s[k] \in 1 .. base
  BY <1>1, <1>2, <1>4 DEF Settled
<1> HIDE DEF m
<1>5. \A k \in 1 .. Len(s) : k > m => s[k] \in Nat /\ s[k] > base
  BY <1>1, <1>3, SMTT(60)
<1>6. \A k \in 1 .. Len(s) : k <= m => s[k] \in Nat /\ s[k] <= base
  BY <1>1, <1>4
<1>7. \A p \in 1 .. base : \E k \in 1 .. Len(s) : s[k] = p
  BY <1>1, <1>2, SMTT(60) DEF Settled
<1>8. \A k \in 1 .. Len(s) : s[k] \in 1 .. Len(arrived)
  BY <1>1, <1>3, <1>4
<1>9. Distinct(s, Len(s))
  <2> SUFFICES ASSUME NEW j \in 1 .. Len(s), NEW k \in 1 .. Len(s), s[j] = s[k]
               PROVE  j = k
    BY DEF Distinct
  <2>1. CASE j <= m /\ k <= m
    BY <1>1, <1>2, <2>1 DEF Settled, Distinct
  <2>2. CASE j > m /\ k > m
    <3>0. /\ s[j] = base + out[j - m] /\ out[j - m] \in 1 .. Len(received)
          /\ s[k] = base + out[k - m] /\ out[k - m] \in 1 .. Len(received)
      BY <1>3, <2>2
    <3>1. out[j - m] = out[k - m]
      <4>1. base + out[j - m] = base + out[k - m]
        BY <3>0, Zenon
      <4>2. out[j - m] \in Nat /\ out[k - m] \in Nat /\ base \in Nat
        <5>1. \A x \in 1 .. Len(received) : x \in Nat
          BY <1>1
        <5> QED BY <1>1, <3>0, <5>1, Zenon
      <4>3. \A a, b, c \in Nat : a + b = a + c => b = c
        OBVIOUS
      <4> QED BY <4>1, <4>2, <4>3, Zenon
    <3>2. j - m = k - m
      BY <1>3, <2>2, <3>1 DEF Current, Distinct
    <3> QED BY <1>1, <3>2
  <2>3. CASE (j <= m /\ k > m) \/ (j > m /\ k <= m)
    BY <1>1, <1>5, <1>6, <2>3
  <2> QED BY <1>1, <2>1, <2>2, <2>3
<1>10. InOrder(s, Len(s))
  <2> SUFFICES ASSUME capacity = RequestedWords,
                      NEW j \in 1 .. Len(s), NEW k \in 1 .. Len(s), j < k,
                      arrived[s[j]].flow = arrived[s[k]].flow, arrived[s[j]].flow # NoFlow
               PROVE  s[j] < s[k]
    BY DEF InOrder
  <2>1. CASE k <= m
    BY <1>1, <1>2, <2>1 DEF Settled, InOrder
  <2>2. CASE j > m
    <3>1. /\ j - m \in 1 .. Len(out) /\ s[j] = base + out[j - m] /\ out[j - m] \in 1 .. Len(received)
          /\ k - m \in 1 .. Len(out) /\ s[k] = base + out[k - m] /\ out[k - m] \in 1 .. Len(received)
          /\ j - m < k - m
      BY <1>1, <1>3, <2>2
    <3>2. batch[out[j - m]] = arrived[s[j]] /\ batch[out[k - m]] = arrived[s[k]]
      BY <3>1 DEF Batched
    <3>3. out[j - m] < out[k - m]
      BY <3>1, <3>2 DEF Current, SameFlow
    <3> QED BY <1>1, <3>1, <3>3, SMTT(60)
  <2>3. CASE j <= m /\ k > m
    BY <1>1, <1>5, <1>6, <2>3
  <2> QED BY <1>1, <2>1, <2>2, <2>3
<1>11. ASSUME \A i \in 1 .. Len(received) : \E k \in 1 .. Len(out) : out[k] = i
      PROVE  Settled(s, Len(s), Len(arrived))
  <2>1. ASSUME NEW p \in 1 .. Len(arrived) PROVE \E k \in 1 .. Len(s) : s[k] = p
    <3>1. CASE p <= base
      BY <1>1, <1>7, <3>1
    <3>2. CASE p > base
      <4>1. p - base \in 1 .. Len(received) /\ base + (p - base) = p
        BY <1>1, <3>2
      <4>2. PICK k \in 1 .. Len(out) : out[k] = p - base
        BY <1>11, <4>1
      <4>3. s[m + k] = base + out[k] /\ m + k \in 1 .. Len(s)
        BY <1>1 DEF Current, m
      <4> QED BY <4>1, <4>2, <4>3
    <3> QED BY <1>1, <3>1, <3>2
  <2> QED BY <1>8, <1>9, <1>10, <2>1 DEF Settled
<1> QED BY <1>7, <1>9, <1>10, <1>11

\* ... which is what the two properties say of the answers.
LEMMA Delivered ==
    ASSUME Buffers, NEW s \in Seq(Nat), Distinct(s, Len(s)), InOrder(s, Len(s)),
           \A p \in 1 .. base : \E k \in 1 .. Len(s) : s[k] = p
    PROVE  /\ capacity = RequestedWords =>
                \A i, j \in DOMAIN s :
                    i < j /\ arrived[s[i]].flow = arrived[s[j]].flow
                    /\ arrived[s[i]].flow # NoFlow => s[i] < s[j]
           /\ IsInjective(s)
           /\ DOMAIN arrived \subseteq ToSet(s) \cup ToSet(received)
           /\ Len(received) <= BatchCapacity
<1>1. /\ DOMAIN s = 1 .. Len(s) /\ DOMAIN arrived = 1 .. Len(arrived)
      /\ DOMAIN received = 1 .. Len(received)
      /\ base \in Nat /\ Len(arrived) = base + Len(received) /\ Len(received) \in Nat
  BY DEF Buffers, base
<1>2. IsInjective(s)
  BY <1>1 DEF Distinct, IsInjective
<1>3. ASSUME NEW p \in DOMAIN arrived PROVE p \in ToSet(s) \cup ToSet(received)
  <2>1. CASE p <= base
    <3>1. p \in 1 .. base
      BY <1>1, <2>1
    <3>2. PICK k \in 1 .. Len(s) : s[k] = p
      BY <3>1
    <3> QED BY <1>1, <3>2 DEF ToSet
  <2>2. CASE p > base
    <3>1. p - base \in 1 .. Len(received) /\ base + (p - base) = p
      BY <1>1, <2>2
    <3>2. received[p - base] = p
      BY <3>1 DEF Buffers
    <3> QED BY <1>1, <3>1, <3>2 DEF ToSet
  <2> QED BY <1>1, <2>1, <2>2
<1> QED BY <1>1, <1>2, <1>3 DEF Buffers, BatchCapacity, InOrder

LEMMA Joined ==
    ASSUME NEW S, NEW s \in Seq(S), NEW t \in Seq(S)
    PROVE  /\ Len(s) \in Nat /\ Len(t) \in Nat
           /\ s \o t \in Seq(S) /\ Len(s \o t) = Len(s) + Len(t)
           /\ \A k \in 1 .. Len(s) : (s \o t)[k] = s[k]
           /\ \A k \in 1 .. Len(t) : (s \o t)[Len(s) + k] = t[k]
  OBVIOUS

\* The outputs of a wave come after those of earlier waves.
LEMMA EmittedThen ==
    ASSUME Scheduled, NEW out \in Seq(Indices), NEW all, all = emitted \o out
    PROVE  /\ Len(emitted) \in Nat /\ Len(out) \in Nat /\ Len(all) = Len(emitted) + Len(out)
           /\ all \in Seq(Indices)
           /\ \A k \in 1 .. Len(emitted) : all[k] = emitted[k]
           /\ \A k \in 1 .. Len(out) : all[Len(emitted) + k] = out[k]
<1>1. emitted \in Seq(Indices)
  BY DEF Scheduled, TypeOK
<1> QED BY <1>1, Joined

\* None of them is emitted again ...
LEMMA EmittedOnce ==
    ASSUME Scheduled, busy, NEW out \in Seq(Indices), Len(out) <= Len(wave),
           \A k \in 1 .. Len(out) : out[k] = wave[k], NEW all, all = emitted \o out
    PROVE  /\ Distinct(all, Len(all))
           /\ \A j \in 1 .. Len(emitted), k \in 1 .. Len(out) : emitted[j] # out[k]
<1>1. emitted \in Seq(Indices) /\ wave \in Seq(Indices) /\ Len(wave) \in Nat
  BY DEF Scheduled, TypeOK
<1>2. /\ Len(emitted) \in Nat /\ Len(out) \in Nat /\ Len(all) = Len(emitted) + Len(out)
      /\ \A k \in 1 .. Len(emitted) : all[k] = emitted[k]
      /\ \A k \in 1 .. Len(out) : all[Len(emitted) + k] = out[k]
  BY <1>1, Joined
<1>3. /\ Distinct(emitted, Len(emitted)) /\ Distinct(wave, Len(wave))
      /\ \A k \in 1 .. Len(emitted), l \in 1 .. Len(wave) : emitted[k] # wave[l]
  BY OncePlaced DEF Scheduled
<1>4. \A j \in 1 .. Len(emitted), k \in 1 .. Len(out) : emitted[j] # out[k]
  BY <1>1, <1>2, <1>3
<1>5. ASSUME NEW j \in 1 .. Len(all), NEW k \in 1 .. Len(all), all[j] = all[k], j < k
      PROVE  FALSE
  <2>1. CASE k <= Len(emitted)
    BY <1>2, <1>3, <1>5, <2>1 DEF Distinct
  <2>2. CASE j > Len(emitted)
    <3> DEFINE a == j - Len(emitted)
               b == k - Len(emitted)
    <3>1. /\ a \in 1 .. Len(out) /\ Len(emitted) + a = j
          /\ b \in 1 .. Len(out) /\ Len(emitted) + b = k /\ a # b
      BY <1>2, <1>5, <2>2
    <3> HIDE DEF a, b
    <3>2. out[a] = out[b]
      <4>1. all[Len(emitted) + a] = out[a] /\ all[Len(emitted) + b] = out[b]
        BY <1>2, <3>1
      <4> QED BY <1>5, <3>1, <4>1
    <3>3. Distinct(out, Len(out))
      <4>1. \A i \in 1 .. Len(out) : i \in 1 .. Len(wave)
        BY <1>1, <1>2
      <4> QED BY <1>3, <4>1, Zenon DEF Distinct
    <3> QED BY <3>1, <3>2, <3>3 DEF Distinct
  <2>3. CASE j <= Len(emitted) /\ k > Len(emitted)
    <3>1. k - Len(emitted) \in 1 .. Len(out) /\ Len(emitted) + (k - Len(emitted)) = k
      BY <1>2, <1>5, <2>3
    <3>2. all[j] = emitted[j] /\ all[k] = out[k - Len(emitted)] /\ j \in 1 .. Len(emitted)
      BY <1>2, <2>3, <3>1
    <3> QED BY <1>4, <1>5, <3>1, <3>2
  <2> QED BY <1>2, <1>5, <2>1, <2>2, <2>3
<1>6. Distinct(all, Len(all))
  <2>1. ASSUME NEW j \in 1 .. Len(all), NEW k \in 1 .. Len(all), all[k] = all[j], k < j
        PROVE  FALSE
    BY <1>5, <2>1, Zenon
  <2> QED BY <1>2, <1>5, <2>1 DEF Distinct
<1> QED BY <1>4, <1>6

\* ... and keeps the order of every flow.
LEMMA EmittedOrder ==
    ASSUME Scheduled, busy, capacity = RequestedWords,
           NEW out \in Seq(Indices), Len(out) <= Len(wave),
           \A k \in 1 .. Len(out) : out[k] = wave[k], NEW all, all = emitted \o out,
           \A j, k \in 1 .. Len(emitted) :
               j < k /\ SameFlow(emitted[j], emitted[k]) => emitted[j] < emitted[k]
    PROVE  \A j, k \in 1 .. Len(all) : j < k /\ SameFlow(all[j], all[k]) => all[j] < all[k]
<1>1. /\ emitted \in Seq(Indices) /\ wave \in Seq(Indices) /\ Len(wave) \in Nat /\ batch \in Seq(Packet)
      /\ DOMAIN wave = 1 .. Len(wave) /\ DOMAIN emitted = 1 .. Len(emitted) /\ Indices \subseteq Nat
  BY DEF Scheduled, TypeOK, Indices
<1>2. /\ Len(emitted) \in Nat /\ Len(out) \in Nat /\ Len(all) = Len(emitted) + Len(out)
      /\ \A k \in 1 .. Len(emitted) : all[k] = emitted[k] /\ emitted[k] \in Indices
      /\ \A k \in 1 .. Len(out) : all[Len(emitted) + k] = out[k] /\ out[k] \in Indices
  BY <1>1, Joined
<1> SUFFICES ASSUME NEW j \in 1 .. Len(all), NEW k \in 1 .. Len(all), j < k, SameFlow(all[j], all[k])
             PROVE  all[j] < all[k]
  OBVIOUS
<1>3. CASE k <= Len(emitted)
  BY <1>2, <1>3
<1>4. CASE k > Len(emitted)
  <2> DEFINE l == k - Len(emitted)
  <2>1. l \in 1 .. Len(out) /\ all[k] = out[l] /\ out[l] = wave[l] /\ l \in DOMAIN wave
        /\ all[k] \in Indices
    BY <1>1, <1>2, <1>4
  <2> HIDE DEF l
  <2>2. CASE j <= Len(emitted)
    <3>1. all[j] = emitted[j] /\ all[j] \in Indices /\ all[j] # all[k] /\ all[j] \in ToSet(emitted)
      <4>1. j \in 1 .. Len(emitted)
        BY <1>2, <2>2
      <4>2. emitted[j] # out[l]
        BY <2>1, <4>1, EmittedOnce
      <4> QED BY <1>1, <1>2, <2>1, <4>1, <4>2 DEF ToSet
    <3>2. applied = ToSet(emitted) /\ OrderKept
      BY DEF Scheduled, OutputsFollowDispatch, FlowOrder
    <3>3. all[k] \notin ToSet(emitted)
      <4>1. \A i \in 1 .. Len(emitted) : emitted[i] # out[l]
        BY <2>1, EmittedOnce
      <4> QED BY <1>1, <2>1, <4>1 DEF ToSet
    <3>4. ASSUME all[k] < all[j] PROVE FALSE
      <4>1. SameFlow(all[k], all[j]) /\ all[j] \in applied \cup ToSet(wave)
        BY <3>1, <3>2 DEF SameFlow
      <4>2. all[k] \in applied
        BY <2>1, <3>1, <3>2, <3>4, <4>1, Zenon DEF OrderKept
      <4> QED BY <3>2, <3>3, <4>2
    <3>5. all[j] \in Nat /\ all[k] \in Nat /\ all[j] # all[k] /\ ~(all[k] < all[j])
      BY <1>1, <2>1, <3>1, <3>4, Zenon
    <3>6. \A x, y \in Nat : x # y /\ ~(y < x) => x < y
      OBVIOUS
    <3> QED BY <3>5, <3>6, Zenon
  <2>3. CASE j > Len(emitted)
    <3> DEFINE i == j - Len(emitted)
    <3>1. i \in 1 .. Len(out) /\ Len(emitted) + i = j /\ i # l
      BY <1>2, <2>3 DEF l
    <3> HIDE DEF i
    <3>2. all[j] = out[i] /\ out[i] = wave[i] /\ i \in DOMAIN wave
      BY <1>1, <1>2, <3>1
    <3> QED BY <2>1, <3>1, <3>2 DEF Scheduled, OnePacketPerFlow
  <2> QED BY <1>2, <2>2, <2>3
<1> QED BY <1>2, <1>3, <1>4

\* The daemon answers what the engine emits.
LEMMA Progress ==
    ASSUME Scheduled, Buffers, Batched, busy, Current(handled, emitted),
           NEW out \in Seq(Indices), Len(out) <= Len(wave), \A k \in 1 .. Len(out) : out[k] = wave[k],
           NEW all, all = emitted \o out,
           NEW s, s = handled \o [k \in 1 .. Len(out) |-> received[out[k]]]
    PROVE  Current(s, all)
<1> DEFINE more == [k \in 1 .. Len(out) |-> received[out[k]]]
           m == Len(handled) - Len(emitted)
<1>1. /\ Indices = 1 .. Len(received) /\ Len(received) \in Nat /\ base \in Nat
      /\ received \in Seq(Nat)
      /\ emitted \in Seq(Indices) /\ wave \in Seq(Indices) /\ handled \in Seq(Nat)
      /\ Len(arrived) = base + Len(received)
  <2>1. /\ emitted \in Seq(Indices) /\ wave \in Seq(Indices) /\ batch \in Seq(Packet)
    BY DEF Scheduled, TypeOK
  <2>2. Indices = 1 .. Len(received)
    BY <2>1 DEF Batched, Indices
  <2>3. /\ arrived \in Seq(Packet) /\ received \in Seq(Nat) /\ handled \in Seq(Nat)
        /\ Len(received) <= Len(arrived)
    BY DEF Buffers
  <2>4. base \in Nat /\ Len(received) \in Nat /\ Len(arrived) = base + Len(received)
    <3>1. Len(arrived) \in Nat /\ Len(received) \in Nat
      BY <2>3
    <3> QED BY <2>3, <3>1 DEF base
  <2> QED BY <2>1, <2>2, <2>3, <2>4
<1>2. \A k \in 1 .. Len(out) : out[k] \in 1 .. Len(received) /\ received[out[k]] = base + out[k]
  <2>0. \A k \in 1 .. Len(out) : out[k] \in Indices
    OBVIOUS
  <2>1. \A k \in 1 .. Len(out) : out[k] \in 1 .. Len(received)
    BY <1>1, <2>0, Zenon
  <2>2. \A i \in 1 .. Len(received) : received[i] = base + i
    BY DEF Buffers
  <2> QED BY <2>1, <2>2
<1>3. more \in Seq(Nat) /\ Len(more) = Len(out) /\ \A k \in 1 .. Len(out) : more[k] = base + out[k]
  <2>1. Len(out) \in Nat
    OBVIOUS
  <2>2. \A k \in 1 .. Len(out) : received[out[k]] \in Nat
    <3>1. \A i \in 1 .. Len(received) : received[i] \in Nat
      BY <1>1
    <3> QED BY <1>2, <3>1
  <2> QED BY <1>2, <2>1, <2>2
<1> HIDE DEF more
<1>4. /\ Len(emitted) \in Nat /\ Len(out) \in Nat /\ Len(all) = Len(emitted) + Len(out)
      /\ all \in Seq(Indices)
      /\ \A k \in 1 .. Len(emitted) : all[k] = emitted[k]
      /\ \A k \in 1 .. Len(out) : all[Len(emitted) + k] = out[k]
  BY EmittedThen
<1>5. /\ Len(handled) \in Nat /\ Len(s) = Len(handled) + Len(out) /\ s \in Seq(Nat)
      /\ \A k \in 1 .. Len(handled) : s[k] = handled[k]
      /\ \A k \in 1 .. Len(out) : s[Len(handled) + k] = base + out[k]
  <2>1. s = handled \o more
    BY DEF more
  <2>2. /\ Len(handled) \in Nat /\ Len(more) \in Nat
        /\ handled \o more \in Seq(Nat) /\ Len(handled \o more) = Len(handled) + Len(more)
        /\ \A k \in 1 .. Len(handled) : (handled \o more)[k] = handled[k]
        /\ \A k \in 1 .. Len(more) : (handled \o more)[Len(handled) + k] = more[k]
    <3>1. handled \in Seq(Nat) /\ more \in Seq(Nat)
      BY <1>1, <1>3
    <3> QED BY <3>1, Joined
  <2> QED BY <1>3, <2>1, <2>2
<1>6. Len(emitted) <= Len(handled) /\ m \in 0 .. Len(handled) /\ Len(s) - Len(all) = m
  BY <1>4, <1>5 DEF Current
<1>7. Settled(s, m, base)
  <2>1. Settled(handled, m, base)
    BY DEF Current
  <2>2. \A k \in 1 .. m : s[k] = handled[k]
    BY <1>5, <1>6
  <2> QED BY <2>1, <2>2, SMTT(60) DEF Settled, Distinct, InOrder
<1>8. ASSUME NEW k \in 1 .. Len(all) PROVE s[m + k] = base + all[k]
  <2>1. CASE k <= Len(emitted)
    <3>1. handled[m + k] = base + emitted[k]
      BY <1>4, <2>1 DEF Current
    <3> QED BY <1>4, <1>5, <1>6, <2>1, <3>1
  <2>2. CASE k > Len(emitted)
    <3>1. /\ k - Len(emitted) \in 1 .. Len(out) /\ Len(emitted) + (k - Len(emitted)) = k
          /\ Len(handled) + (k - Len(emitted)) = m + k
      BY <1>4, <1>5, <2>2
    <3>2. s[Len(handled) + (k - Len(emitted))] = base + out[k - Len(emitted)]
      BY <1>5, <3>1
    <3>3. all[Len(emitted) + (k - Len(emitted))] = out[k - Len(emitted)]
      BY <1>4, <3>1
    <3> HIDE DEF m
    <3>4. s[m + k] = base + out[k - Len(emitted)] /\ all[k] = out[k - Len(emitted)]
      BY <3>1, <3>2, <3>3, Zenon
    <3> QED BY <3>4
  <2>3. k <= Len(emitted) \/ k > Len(emitted)
    BY <1>4
  <2> QED BY <2>1, <2>2, <2>3, Zenon
<1>9. Distinct(all, Len(all))
  BY EmittedOnce
<1>10. capacity = RequestedWords =>
        \A j, k \in 1 .. Len(all) : j < k /\ SameFlow(all[j], all[k]) => all[j] < all[k]
  <2> SUFFICES ASSUME capacity = RequestedWords
               PROVE  \A j, k \in 1 .. Len(all) : j < k /\ SameFlow(all[j], all[k]) => all[j] < all[k]
    OBVIOUS
  <2>1. \A j, k \in 1 .. Len(emitted) :
            j < k /\ SameFlow(emitted[j], emitted[k]) => emitted[j] < emitted[k]
    BY DEF Current
  <2> QED BY <2>1, EmittedOrder
<1>11. Current(s, all)
  <2>1. Len(all) <= Len(s) /\ all \in Seq(1 .. Len(received))
    BY <1>1, <1>4, <1>5, <1>6
  <2>2. \A k \in 1 .. Len(all) : s[Len(s) - Len(all) + k] = base + all[k]
    BY <1>6, <1>8
  <2>3. Settled(s, Len(s) - Len(all), base)
    BY <1>6, <1>7
  <2> HIDE DEF m
  <2> QED BY <1>5, <1>9, <1>10, <2>1, <2>2, <2>3 DEF Current
<1> QED BY <1>11

\* With its last wave the engine has emitted all of the batch.
LEMMA Finished ==
    ASSUME Scheduled, Buffers, Batched, busy, next > Len(pending), deferred = <<>>,
           NEW all, all = emitted \o wave, NEW i \in 1 .. Len(received)
    PROVE  \E k \in 1 .. Len(all) : all[k] = i
<1>1. emitted \in Seq(Indices) /\ wave \in Seq(Indices) /\ batch \in Seq(Packet)
  BY DEF Scheduled, TypeOK
<1>2. /\ Len(emitted) \in Nat /\ Len(wave) \in Nat /\ Len(all) = Len(emitted) + Len(wave)
      /\ \A k \in 1 .. Len(emitted) : all[k] = emitted[k]
      /\ \A k \in 1 .. Len(wave) : all[Len(emitted) + k] = wave[k]
  BY <1>1, Joined
<1>3. i \in Indices
  BY <1>1 DEF Batched, Indices
<1>4. \/ \E k \in 1 .. Len(emitted) : emitted[k] = i
      \/ \E k \in 1 .. Len(wave) : wave[k] = i
  BY <1>3, OncePlaced DEF Scheduled
<1>5. CASE \E k \in 1 .. Len(emitted) : emitted[k] = i
  BY <1>2, <1>5
<1>6. CASE \E k \in 1 .. Len(wave) : wave[k] = i
  <2>1. PICK k \in 1 .. Len(wave) : wave[k] = i
    BY <1>6
  <2>2. Len(emitted) + k \in 1 .. Len(all) /\ all[Len(emitted) + k] = i
    BY <1>2, <2>1
  <2> QED BY <2>2
<1> QED BY <1>4, <1>5, <1>6

-----------------------------------------------------------------------------
(* The steps of the daemon.                                                *)

\* What the sink was given in a step, as the packets that it answers.
LEMMA AnswersOf ==
    ASSUME Scheduled, NEW out \in Seq(Indices), emitted' = emitted \o out, Answers
    PROVE  handled' = handled \o [k \in 1 .. Len(out) |-> received[out[k]]]
<1>1. emitted \in Seq(Indices)
  BY DEF Scheduled, TypeOK
<1>2. /\ Len(emitted) \in Nat /\ Len(out) \in Nat /\ Len(emitted') = Len(emitted) + Len(out)
      /\ \A k \in 1 .. Len(out) : emitted'[Len(emitted) + k] = out[k]
  BY <1>1, Joined
<1>3. Len(emitted') - Len(emitted) = Len(out)
  BY <1>2
<1>4. [k \in 1 .. Len(emitted') - Len(emitted) |-> received[emitted'[Len(emitted) + k]]]
        = [k \in 1 .. Len(out) |-> received[out[k]]]
  BY <1>2, <1>3
<1> QED BY <1>4 DEF Answers

\* The state of the answers depends on these variables only.
LEMMA Unmoved ==
    ASSUME UNCHANGED <<capacity, arrived, received, handled>>
    PROVE  /\ Buffers => Buffers'
           /\ Settled(handled, Len(handled), base) => Settled(handled, Len(handled), base)'
           /\ AnswersInOrder /\ AtMostABatchLost => (AnswersInOrder /\ AtMostABatchLost)'
<1>1. base' = base
  BY DEF base
<1>2. Buffers => Buffers'
  BY <1>1 DEF Buffers
<1>3. Settled(handled, Len(handled), base) => Settled(handled, Len(handled), base)'
  BY <1>1 DEF Settled, Distinct, InOrder, RequestedWords
<1>4. AnswersInOrder /\ AtMostABatchLost => (AnswersInOrder /\ AtMostABatchLost)'
  BY DEF AnswersInOrder, AtMostABatchLost, RequestedWords, BatchCapacity
<1> QED BY <1>2, <1>3, <1>4

LEMMA CapacityKept == [DaemonNext]_allVars => UNCHANGED capacity
<1>1. [Next]_vars => UNCHANGED capacity
  BY DEF Next, Fill, StartBatch, DeferFull, DeferFlow, Defer, Push, DispatchWave, SinkFails,
         DispatchFails, vars
<1>2. [DaemonNext]_allVars => [Next]_vars
  BY DEF DaemonNext, allVars, Direct, Receive, ReceiveFails, Serve, FillForDaemon,
         DispatchForDaemon, ServingFails, Next
<1> QED BY <1>1, <1>2

\* What the engine was given has been answered in order, and so far.
LEMMA ServedStep ==
    ASSUME DInv, Scheduled, phase = "serving", Answers,
           NEW out \in Seq(Indices), Len(out) <= Len(wave), \A k \in 1 .. Len(out) : out[k] = wave[k],
           emitted' = emitted \o out, NEW all, all = emitted', NEW s, s = handled'
    PROVE  /\ s \in Seq(Nat) /\ Current(s, all)
           /\ Distinct(s, Len(s)) /\ InOrder(s, Len(s))
           /\ \A p \in 1 .. base : \E k \in 1 .. Len(s) : s[k] = p
           /\ next > Len(pending) /\ deferred = <<>> /\ out = wave => Settled(s, Len(s), Len(arrived))
<1>1. Buffers /\ Batched /\ busy /\ Current(handled, emitted)
  BY DEF DInv
<1>2. s = handled \o [k \in 1 .. Len(out) |-> received[out[k]]] /\ all = emitted \o out
  BY AnswersOf
<1>3. Current(s, all)
  BY <1>1, <1>2, Progress
<1>4. \A p \in 1 .. base : \E k \in 1 .. Len(s) : s[k] = p
  BY <1>1, <1>3, Extended
<1>5. Distinct(s, Len(s)) /\ InOrder(s, Len(s))
  BY <1>1, <1>3, Extended
<1>6. ASSUME next > Len(pending), deferred = <<>>, out = wave
      PROVE  Settled(s, Len(s), Len(arrived))
  <2>1. \A i \in 1 .. Len(received) : \E k \in 1 .. Len(all) : all[k] = i
    <3>1. all = emitted \o wave
      BY <1>2, <1>6
    <3> QED BY <1>1, <1>6, <3>1, Finished
  <2> QED BY <1>1, <1>3, <2>1, Extended, ZenonT(60)
<1>7. s \in Seq(Nat)
  BY <1>3 DEF Current
<1> QED BY <1>3, <1>4, <1>5, <1>6, <1>7

LEMMA DaemonStart == DaemonInit => DInv
<1> SUFFICES ASSUME DaemonInit PROVE DInv
  OBVIOUS
<1>1. /\ arrived = <<>> /\ received = <<>> /\ handled = <<>> /\ phase \in {"direct", "receiving"}
      /\ MaxBatch \in Nat
  BY SchedulerAssumption DEF DaemonInit
<1>2. Buffers /\ base = 0
  BY <1>1, EmptyIsSeq DEF Buffers, base
<1>3. Settled(handled, Len(handled), base)
  BY <1>1, <1>2, EmptyIsSeq DEF Settled, Distinct, InOrder
<1> QED BY <1>1, <1>2, <1>3 DEF DInv

\* A packet that is received joins the batch and leaves the answers alone.
LEMMA ReceiveStep ==
    ASSUME DInv, Receive, UNCHANGED capacity
    PROVE  Buffers' /\ Settled(handled, Len(handled), base)'
<1>1. PICK packet \in Packet : PushReceived(packet)
  BY DEF Receive
<1>2. /\ arrived \in Seq(Packet) /\ received \in Seq(Nat) /\ handled \in Seq(Nat)
      /\ Len(received) <= Len(arrived) /\ Len(received) <= MaxBatch
      /\ \A i \in 1 .. Len(received) : received[i] = base + i
      /\ Settled(handled, Len(handled), base) /\ handled' = handled
  BY DEF DInv, Buffers, Receive
<1>3. MaxBatch \in Nat \ {0} /\ Len(received) < MaxBatch
  <2>1. CASE received = <<>>
    BY <2>1, SchedulerAssumption
  <2>2. CASE received # <<>>
    BY <2>2, SchedulerAssumption DEF DInv, Receive, MoreFits, BatchCapacity
  <2> QED BY <2>1, <2>2
<1>4. arrived' = Append(arrived, packet) /\ received' = Append(received, Len(arrived) + 1)
  BY <1>1 DEF PushReceived
<1>5. /\ Len(arrived) \in Nat /\ Len(received) \in Nat
      /\ Len(arrived') = Len(arrived) + 1 /\ Len(received') = Len(received) + 1
      /\ \A i \in 1 .. Len(arrived) : arrived'[i] = arrived[i]
      /\ \A i \in 1 .. Len(received) : received'[i] = received[i]
      /\ received'[Len(received) + 1] = Len(arrived) + 1
      /\ arrived' \in Seq(Packet) /\ received' \in Seq(Nat)
  BY <1>2, <1>4
<1>6. base' = base /\ base \in Nat /\ Len(arrived) = base + Len(received)
  BY <1>2, <1>5 DEF base
<1>7. Buffers'
  <2>1. ASSUME NEW i \in 1 .. Len(received') PROVE received'[i] = base + i
    <3>1. CASE i <= Len(received)
      BY <1>2, <1>5, <3>1
    <3>2. CASE i = Len(received) + 1
      BY <1>5, <1>6, <3>2
    <3> QED BY <1>5, <3>1, <3>2
  <2> QED BY <1>2, <1>3, <1>5, <1>6, <2>1 DEF Buffers
<1>8. \A k \in 1 .. Len(handled) : handled[k] \in 1 .. Len(arrived)
  BY <1>2, <1>5, <1>6, SMTT(60) DEF Settled
<1>9. InOrder(handled, Len(handled))'
  <2>1. InOrder(handled, Len(handled)) /\ RequestedWords' = RequestedWords
    BY <1>2 DEF Settled, RequestedWords
  <2>2. \A k \in 1 .. Len(handled) : arrived'[handled[k]] = arrived[handled[k]]
    BY <1>5, <1>8
  <2> QED BY <1>2, <2>1, <2>2, ZenonT(60) DEF InOrder
<1>10. Settled(handled, Len(handled), base)'
  BY <1>2, <1>6, <1>9 DEF Settled, Distinct
<1> QED BY <1>7, <1>10

\* The batch goes to the engine as it was received.
LEMMA ServeStep ==
    ASSUME DInv, Serve, UNCHANGED capacity
    PROVE  Buffers' /\ busy' /\ Batched' /\ Current(handled, emitted)'
<1>1. /\ Buffers /\ Settled(handled, Len(handled), base)
      /\ UNCHANGED <<arrived, received, handled>>
      /\ batch' = [i \in DOMAIN received |-> arrived[received[i]]]
      /\ emitted' = <<>> /\ busy'
  BY DEF DInv, Serve, Collected, StartBatch
<1>2. Buffers' /\ Settled(handled, Len(handled), base)'
  BY <1>1, Unmoved
<1>3. /\ received \in Seq(Nat) /\ Len(received) \in Nat /\ DOMAIN received = 1 .. Len(received)
      /\ \A i \in 1 .. Len(received) : received[i] = base + i
  BY <1>1 DEF Buffers
<1>4. Len(batch') = Len(received) /\ \A i \in 1 .. Len(received) : batch'[i] = arrived[base + i]
  BY <1>1, <1>3
<1>5. base' = base
  BY <1>1 DEF base
<1>6. Batched'
  BY <1>1, <1>4, <1>5 DEF Batched
<1>7. handled' \in Seq(Nat) /\ Len(handled') \in Nat /\ Len(emitted') = 0
      /\ emitted' \in Seq(1 .. Len(received'))
  <2>1. handled \in Seq(Nat)
    BY <1>1 DEF Buffers
  <2> QED BY <1>1, <2>1, EmptyIsSeq
<1>8. Len(handled') - Len(emitted') = Len(handled')
  BY <1>7
<1>9. Current(handled, emitted)'
  BY <1>2, <1>7, <1>8 DEF Current, Distinct
<1> QED BY <1>1, <1>2, <1>6, <1>9

\* A wave is answered; with the last one the batch is.
LEMMA DispatchStep ==
    ASSUME DInv, Scheduled, DispatchForDaemon, UNCHANGED capacity
    PROVE  DInv'
<1>1. /\ phase = "serving" /\ DispatchWave /\ Answers
      /\ UNCHANGED <<arrived, batch>> /\ emitted' = emitted \o wave /\ next > Len(pending)
  BY DEF DispatchForDaemon, DispatchWave, Filled
<1>2. wave \in Seq(Indices) /\ Len(wave) \in Nat
  BY DEF Scheduled, TypeOK
<1>3. PICK e, h : e = emitted' /\ h = handled'
  OBVIOUS
<1>4. PICK out \in Seq(Indices) : out = wave
  BY <1>2
<1>5. /\ Len(out) <= Len(wave) /\ \A k \in 1 .. Len(out) : out[k] = wave[k]
      /\ emitted' = emitted \o out
  BY <1>1, <1>2, <1>4
<1>6. h \in Seq(Nat) /\ Current(h, e)
  <2>1. h \in Seq(Nat)
    BY <1>1, <1>3, <1>5, ServedStep
  <2>2. Current(h, e)
    BY <1>1, <1>3, <1>5, ServedStep
  <2> QED BY <2>1, <2>2
<1>7. ASSUME deferred = <<>> PROVE Settled(h, Len(h), Len(arrived))
  BY <1>1, <1>3, <1>4, <1>5, <1>7, ServedStep
<1>8. Buffers /\ Batched
  BY <1>1 DEF DInv
<1>9. CASE busy'
  <2>1. phase' = "serving" /\ received' = received
    BY <1>1, <1>9 DEF DispatchForDaemon
  <2>2. base' = base
    BY <1>1, <2>1 DEF base
  <2>3. Buffers' /\ Batched'
    BY <1>1, <1>3, <1>6, <1>8, <2>1, <2>2 DEF Buffers, Batched
  <2>4. Settled(handled, Len(handled) - Len(emitted), base)'
    <3>1. Settled(h, Len(h) - Len(e), base)
      BY <1>6 DEF Current
    <3> QED BY <1>1, <1>3, <2>1, <2>2, <3>1 DEF Settled, Distinct, InOrder, RequestedWords
  <2>5. /\ h \in Seq(Nat) /\ e \in Seq(1 .. Len(received)) /\ Len(e) <= Len(h)
        /\ \A k \in 1 .. Len(e) : h[Len(h) - Len(e) + k] = base + e[k]
        /\ Distinct(e, Len(e))
    BY <1>6 DEF Current
  <2>6. (capacity = RequestedWords =>
            \A j, k \in 1 .. Len(emitted) :
                j < k /\ SameFlow(emitted[j], emitted[k]) => emitted[j] < emitted[k])'
    BY <1>1, <1>3, <1>6 DEF Current, SameFlow, RequestedWords
  <2>7. Current(handled, emitted)'
    BY <1>3, <2>1, <2>2, <2>4, <2>5, <2>6 DEF Current, Distinct
  <2> QED BY <1>9, <2>1, <2>3, <2>7 DEF DInv
<1>10. CASE ~busy'
  <2>1. phase' = "receiving" /\ received' = <<>> /\ deferred = <<>>
    BY <1>1, <1>10 DEF DispatchForDaemon, DispatchWave, Recycle
  <2>2. /\ Len(arrived) \in Nat /\ base' = Len(arrived) /\ arrived \in Seq(Packet)
    BY <1>1, <1>8, <2>1 DEF base, Buffers
  <2>3. Buffers'
    BY <1>1, <1>3, <1>6, <2>1, <2>2, SchedulerAssumption DEF Buffers
  <2>4. Settled(handled, Len(handled), base)'
    BY <1>1, <1>3, <1>7, <2>1, <2>2 DEF Settled, Distinct, InOrder, RequestedWords
  <2> QED BY <2>1, <2>3, <2>4 DEF DInv
<1> QED BY <1>9, <1>10

\* An error ends the daemon: what it has answered by then is in order, and what
\* it has not is in its batch.
LEMMA FailStep ==
    ASSUME DInv, Scheduled, ServingFails, UNCHANGED capacity
    PROVE  DInv'
<1>1. /\ phase = "serving" /\ (SinkFails \/ DispatchFails) /\ Answers /\ phase' = "ended"
      /\ UNCHANGED <<arrived, received>>
  BY DEF ServingFails
<1>2. wave \in Seq(Indices) /\ emitted \in Seq(Indices) /\ Len(wave) \in Nat
  BY DEF Scheduled, TypeOK
<1>3. \E out \in Seq(Indices) :
         /\ Len(out) <= Len(wave) /\ \A k \in 1 .. Len(out) : out[k] = wave[k]
         /\ emitted' = emitted \o out
  <2>1. CASE SinkFails
    <3>1. PICK n \in 0 .. Len(wave) - 1 : emitted' = emitted \o SubSeq(wave, 1, n)
      BY <2>1 DEF SinkFails
    <3> DEFINE sent == SubSeq(wave, 1, n)
    <3>2. /\ sent \in Seq(Indices) /\ Len(sent) <= Len(wave)
          /\ \A k \in 1 .. Len(sent) : sent[k] = wave[k]
      BY <1>2
    <3>3. emitted' = emitted \o sent
      BY <3>1
    <3> HIDE DEF sent
    <3> QED BY <3>2, <3>3
  <2>2. CASE DispatchFails
    <3> DEFINE none == <<>>
    <3>1. none \in Seq(Indices) /\ Len(none) = 0
      BY EmptyIsSeq
    <3>2. emitted' = emitted \o none
      BY <1>2, <2>2 DEF DispatchFails
    <3> HIDE DEF none
    <3>3. Len(none) <= Len(wave) /\ \A k \in 1 .. Len(none) : none[k] = wave[k]
      BY <1>2, <3>1
    <3> QED BY <3>1, <3>2, <3>3
  <2> QED BY <1>1, <2>1, <2>2
<1>4. PICK e, h : e = emitted' /\ h = handled'
  OBVIOUS
<1>5. /\ h \in Seq(Nat) /\ Distinct(h, Len(h)) /\ InOrder(h, Len(h))
      /\ \A p \in 1 .. base : \E k \in 1 .. Len(h) : h[k] = p
  <2>1. PICK out \in Seq(Indices) :
            /\ Len(out) <= Len(wave) /\ \A k \in 1 .. Len(out) : out[k] = wave[k]
            /\ emitted' = emitted \o out
    BY <1>3
  <2>2. h \in Seq(Nat)
    BY <1>1, <1>4, <2>1, ServedStep
  <2>3. Distinct(h, Len(h)) /\ InOrder(h, Len(h))
    BY <1>1, <1>4, <2>1, ServedStep
  <2>4. \A p \in 1 .. base : \E k \in 1 .. Len(h) : h[k] = p
    BY <1>1, <1>4, <2>1, ServedStep
  <2> QED BY <2>2, <2>3, <2>4
<1>6. Buffers
  BY DEF DInv
<1>7. /\ capacity = RequestedWords =>
            \A i, j \in DOMAIN h :
                i < j /\ arrived[h[i]].flow = arrived[h[j]].flow
                /\ arrived[h[i]].flow # NoFlow => h[i] < h[j]
      /\ IsInjective(h)
      /\ DOMAIN arrived \subseteq ToSet(h) \cup ToSet(received)
      /\ Len(received) <= BatchCapacity
  BY <1>5, <1>6, Delivered
<1>8. AnswersInOrder' /\ AtMostABatchLost'
  BY <1>1, <1>4, <1>7 DEF AnswersInOrder, AtMostABatchLost, RequestedWords, BatchCapacity
<1>9. Buffers'
  <2>1. base' = base
    BY <1>1 DEF base
  <2> QED BY <1>1, <1>4, <1>5, <1>6, <2>1 DEF Buffers
<1> QED BY <1>1, <1>8, <1>9 DEF DInv

\* In every state the invariant gives the two properties.
LEMMA DInvDelivers == DInv => AnswersInOrder /\ AtMostABatchLost
<1> SUFFICES ASSUME DInv PROVE AnswersInOrder /\ AtMostABatchLost
  OBVIOUS
<1>1. Buffers /\ handled \in Seq(Nat)
  BY DEF DInv, Buffers
<1>2. CASE phase \in {"direct", "receiving", "batching"}
  <2>1. /\ Distinct(handled, Len(handled)) /\ InOrder(handled, Len(handled))
        /\ \A p \in 1 .. base : \E k \in 1 .. Len(handled) : handled[k] = p
    BY <1>2 DEF DInv, Settled
  <2> QED BY <1>1, <2>1, Delivered DEF AnswersInOrder, AtMostABatchLost
<1>3. CASE phase = "serving"
  <2>1. Batched /\ Current(handled, emitted)
    BY <1>3 DEF DInv
  <2>2. Distinct(handled, Len(handled)) /\ InOrder(handled, Len(handled))
    BY <1>1, <2>1, Extended
  <2>3. \A p \in 1 .. base : \E k \in 1 .. Len(handled) : handled[k] = p
    BY <1>1, <2>1, Extended
  <2> QED BY <1>1, <2>2, <2>3, Delivered DEF AnswersInOrder, AtMostABatchLost
<1>4. CASE phase = "ended"
  BY <1>4 DEF DInv
<1> QED BY <1>2, <1>3, <1>4 DEF DInv

LEMMA DaemonStep == ASSUME DInv, Scheduled, [DaemonNext]_allVars PROVE DInv'
<1>0. UNCHANGED capacity
  BY CapacityKept
<1>1. CASE Direct
  <2>1. UNCHANGED <<phase, arrived, received, handled>> /\ phase = "direct"
    BY <1>1 DEF Direct, daemonVars
  <2> QED BY <1>0, <2>1, Unmoved DEF DInv
<1>2. CASE Receive
  <2>1. phase' = "batching"
    BY <1>2 DEF Receive
  <2> QED BY <1>0, <1>2, <2>1, ReceiveStep DEF DInv
<1>3. CASE ReceiveFails
  <2>1. phase' = "ended" /\ UNCHANGED <<arrived, received, handled>>
    BY <1>3 DEF ReceiveFails
  <2>2. Buffers' /\ (AnswersInOrder /\ AtMostABatchLost)'
    BY <1>0, <2>1, DInvDelivers, Unmoved DEF DInv
  <2> QED BY <2>1, <2>2 DEF DInv
<1>4. CASE Serve
  <2>1. phase' = "serving"
    BY <1>4 DEF Serve
  <2> QED BY <1>0, <1>4, <2>1, ServeStep DEF DInv
<1>5. CASE FillForDaemon
  <2>1. /\ phase = "serving" /\ phase' = phase
        /\ UNCHANGED <<arrived, received, handled, batch, emitted, busy>>
    BY <1>5 DEF FillForDaemon, Fill, DeferFull, DeferFlow, Defer, Push, daemonVars
  <2>2. base' = base
    BY <2>1 DEF base
  <2>3. Buffers'
    BY <1>0, <2>1, Unmoved DEF DInv
  <2>4. busy' /\ Batched'
    BY <2>1, <2>2 DEF DInv, Batched
  <2>5. Current(handled, emitted)'
    BY <1>0, <2>1, <2>2 DEF DInv, Current, Settled, Distinct, InOrder, SameFlow, RequestedWords
  <2> QED BY <2>1, <2>3, <2>4, <2>5 DEF DInv
<1>6. CASE DispatchForDaemon
  BY <1>0, <1>6, DispatchStep
<1>7. CASE ServingFails
  BY <1>0, <1>7, FailStep
<1>8. CASE UNCHANGED allVars
  <2>1. UNCHANGED <<phase, arrived, received, handled, batch, emitted, busy, capacity>>
    BY <1>8 DEF allVars, vars, daemonVars
  <2>2. base' = base
    BY <2>1 DEF base
  <2>3. /\ Buffers' /\ (Settled(handled, Len(handled), base) => Settled(handled, Len(handled), base)')
        /\ (AnswersInOrder /\ AtMostABatchLost)'
    BY <2>1, DInvDelivers, Unmoved DEF DInv
  <2>4. phase = "serving" => busy' /\ Batched' /\ Current(handled, emitted)'
    BY <2>1, <2>2 DEF DInv, Batched, Current, Settled, Distinct, InOrder, SameFlow, RequestedWords
  <2> QED BY <2>1, <2>3, <2>4 DEF DInv
<1> QED BY <1>1, <1>2, <1>3, <1>4, <1>5, <1>6, <1>7, <1>8 DEF DaemonNext

-----------------------------------------------------------------------------
LEMMA DaemonInvariant == DaemonSpec => []DInv
<1>1. DaemonInit => DInv
  BY DaemonStart
<1>2. DInv /\ Scheduled /\ [DaemonNext]_allVars => DInv'
  BY DaemonStep
<1> QED BY <1>1, <1>2, DaemonScheduled, PTL DEF DaemonSpec

\* The answers to the packets of a flow leave in the order in which these came
\* from the device, whatever the batches, the waves and the buffers that are used
\* again, on a device that grants the buffers asked for.
THEOREM FlowAnsweredInOrder == DaemonSpec => []AnswersInOrder
  BY DaemonInvariant, DInvDelivers, PTL

\* No packet is answered twice, and an error of the device, the engine or the
\* sink leaves at most the batch at hand without answers.
THEOREM LossIsABatch == DaemonSpec => []AtMostABatchLost
  BY DaemonInvariant, DInvDelivers, PTL
=============================================================================
