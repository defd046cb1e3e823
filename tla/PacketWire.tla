------------------------------ MODULE PacketWire ------------------------------
(***************************************************************************)
(* The path of a wave's packets as bytes: the scheduler reads a flow key   *)
(* from each and asks its FlowSet whether the wave has a packet of that    *)
(* flow; the wave is packed into words, the shader reads it and writes     *)
(* replies, the host hands their bytes to the sink.                        *)
(*                                                                         *)
(* A packet whose flow is already in the wave waits for a later one, which *)
(* WaveScheduler models.  The reply is not that of the TCP state machine,  *)
(* which PacketEngines models, but one that uses all that was read.        *)
(***************************************************************************)
EXTENDS PacketShader, FlowSet

CONSTANTS
    Traffic,   \* by name, the batches that may arrive in a behaviour
    Garbage    \* a word an earlier wave left in the output

\* Whatever arrives is a batch of packets, with flow keys of the set's.
ASSUME TrafficAssumption ==
    \A name \in DOMAIN Traffic : \A packets \in Traffic[name] :
        /\ packets \in Seq(Seq(0 .. 255)) /\ Len(packets) <= MaxExpected
        /\ \A i \in DOMAIN packets : SchedulingFlowKey(packets[i]) \in Keys \cup {NoFlow}

ASSUME GarbageAssumption == Garbage \in [1 .. 4 -> 0 .. 255]

VARIABLES
    kind,      \* the name of this behaviour's traffic
    batch,     \* the packets to schedule
    wave,      \* ... taken into the wave
    reads,     \* what the shader has read of each
    outputs,   \* what the sink has received for each
    phase      \* "idle" | "filling" | "done"

vars == <<setVars, kind, batch, wave, reads, outputs, phase>>

Init ==
    /\ SetInit
    /\ kind \in DOMAIN Traffic
    /\ batch = <<>> /\ wave = <<>> /\ reads = <<>> /\ outputs = <<>>
    /\ phase = "idle"

Start ==
    /\ phase = "idle"
    /\ batch' \in Traffic[kind] /\ Begin(Len(batch'))
    /\ phase' = "filling" /\ wave' = <<>>
    /\ UNCHANGED <<kind, reads, outputs>>

\* fill_initial_wave, as far as the keys go.
Schedule ==
    /\ phase = "filling" /\ left > 0
    /\ LET packet == batch[Len(batch) - left + 1] IN
       \E key \in {SchedulingFlowKey(packet)} :
          \/ key = NoFlow /\ Pass /\ wave' = Append(wave, packet)
          \/ /\ key # NoFlow /\ Insert(key)
             /\ wave' = IF inserted' THEN Append(wave, packet) ELSE wave
    /\ UNCHANGED <<kind, batch, reads, outputs, phase>>

\* A reply to what was read.
Replied(read) ==
    LET view == read.view IN
    [key |-> [src |-> view.key.dst, dst |-> view.key.src,
              sport |-> view.key.dport, dport |-> view.key.sport],
     seq |-> view.ack, ack |-> view.seq, flags |-> view.flags, response |-> read.response]

\* dispatch_wave, with one invocation of the shader for each packet.
Dispatch ==
    /\ phase = "filling" /\ left = 0
    /\ LET input == Packed(wave)
           metadata == WaveMetadata(wave)
           stale == [words |-> [w \in 1 .. Len(wave) * Stride |-> Garbage],
                     lens |-> [i \in DOMAIN wave |-> 0]]
           after[i \in 0 .. Len(wave)] ==
               IF i = 0 THEN stale
               ELSE IF reads'[i].view.ok THEN EmitPacket(after[i - 1], i, Replied(reads'[i]))
               ELSE after[i - 1]
       IN /\ reads' = [i \in DOMAIN wave |-> ShaderReads(input, metadata[i])]
          /\ outputs' = WaveOutputs(after[Len(wave)])
    /\ phase' = "done"
    /\ UNCHANGED <<setVars, kind, batch, wave>>

Finish ==
    /\ phase = "done"
    /\ phase' = "idle"
    /\ batch' = <<>> /\ wave' = <<>> /\ reads' = <<>> /\ outputs' = <<>>
    /\ UNCHANGED <<setVars, kind>>

Next == Start \/ Schedule \/ Dispatch \/ Finish

Spec == Init /\ [][Next]_vars

-----------------------------------------------------------------------------
\* What the CPU engine makes of a packet.
CpuReads(packet) ==
    LET view == ParseIpv4Tcp(packet) IN
    IF ~view.ok \/ view.key.dport # ListenPort THEN NotServed
    ELSE [view |-> view,
          response |-> IF view.payload = <<>> THEN NoResponse ELSE ClassifyHttpRequest(view.payload)]

\* "Both backends receive the same generated raw packets and implement the same
\* deliberately narrow TCP/HTTP semantics": whatever its neighbours in the wave,
\* the shader accepts a packet, reads its fields and classifies its request
\* exactly as the CPU engine, malformed packets and request lines included.
SameReading == phase = "done" => \A i \in DOMAIN wave : reads[i] = CpuReads(wave[i])

\* The scheduler looks at less of a packet than the shader and yet no two
\* packets of a wave reach the same connection: a packet the shader serves is
\* scheduled under the flow it belongs to.
OneOfAFlow ==
    phase = "done" =>
        \A i, j \in DOMAIN wave :
            /\ reads[i].view.ok => SchedulingFlowKey(wave[i]) = reads[i].view.key
            /\ reads[i].view.ok /\ reads[i].view.key = reads[j].view.key => i = j

\* The bytes the sink gets are those of a packet built by the CPU for the same
\* reply, with checksums a receiver accepts: no matter what the output held,
\* how carries fall and that the sums of the responses are precomputed.
RepliesOnTheWire ==
    phase = "done" =>
        \A i \in DOMAIN wave :
            LET reply == Replied(reads[i])
                payload == IF reads[i].response = NoResponse THEN <<>> ELSE Responses[reads[i].response + 1]
                sent == [key |-> reply.key, seq |-> reply.seq, ack |-> reply.ack,
                         flags |-> reply.flags, payload |-> payload]
            IN IF reads[i].view.ok
               THEN outputs[i] = BuildIpv4TcpPacket(sent) /\ ChecksumsValid(outputs[i])
               ELSE outputs[i] = <<>>
=============================================================================
