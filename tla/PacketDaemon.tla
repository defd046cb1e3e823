----------------------------- MODULE PacketDaemon -----------------------------
(***************************************************************************)
(* The callers of the GPU packet engine.  gput-packetd                     *)
(* (src/bin/gput-packetd.rs) reads packets from a TUN device, collects a   *)
(* batch until it is full or a deadline passes, and has the engine serve   *)
(* it; what the sink receives goes back into the device.  The buffers of a *)
(* served batch are used again.  Other callers (the benchmark, the demo,   *)
(* the tests) hand batches of any size to process_batch_to.                *)
(*                                                                         *)
(* What the engine does with a batch is WaveScheduler, whose actions are   *)
(* taken here with what they mean for the daemon.                          *)
(***************************************************************************)
EXTENDS WaveScheduler

CONSTANT MaxArrivals   \* bound on the packets the device delivers

ASSUME DaemonAssumption == MaxArrivals \in Nat /\ MaxPackets >= MaxBatch

VARIABLES
    phase,      \* "direct": another caller | "receiving" | "batching" | "serving" | "ended"
    arrived,    \* history: the packets read from the device
    received,   \* the daemon's batch: each buffer as the number of the packet it holds
    spare,      \* spare_packets: ... of the one it has held
    handled     \* history: the numbers of the packets answered, in order

daemonVars == <<phase, arrived, received, spare, handled>>
allVars == <<vars, daemonVars>>

DaemonInit ==
    /\ Init
    /\ phase \in {"direct", "receiving"}
    /\ arrived = <<>> /\ received = <<>> /\ spare = <<>> /\ handled = <<>>

\* batch_capacity, which is also the max_batch_size of the engine.
BatchCapacity == MaxBatch

-----------------------------------------------------------------------------
\* Mutant: a buffer that is used again keeps its bytes.
PushReceivedStale(packet) ==
    /\ arrived' = Append(arrived, packet)
    /\ received' = Append(received, IF spare = <<>> THEN Len(arrived) + 1 ELSE Last(spare))
    /\ spare' = IF spare = <<>> THEN <<>> ELSE Front(spare)

\* push_received_packet
PushReceived(packet) ==
    /\ arrived' = Append(arrived, packet)
    /\ received' = Append(received, Len(arrived) + 1)
    /\ spare' = IF spare = <<>> THEN <<>> ELSE Front(spare)

MoreFits == Len(received) < BatchCapacity

\* recv waits for the first packet, recv_timeout for the others.  An empty read
\* of the first one changes nothing.
Receive ==
    /\ Len(arrived) < MaxArrivals
    /\ phase = "receiving" \/ (phase = "batching" /\ MoreFits)
    /\ \E packet \in Packet : PushReceived(packet)
    /\ phase' = "batching"
    /\ UNCHANGED <<vars, handled>>

\* The device fails, or a packet is longer than MAX_RAW_PACKET_BYTES: the daemon
\* returns the error, with the packets it has collected.
ReceiveFails ==
    /\ phase \in {"receiving", "batching"}
    /\ phase' = "ended"
    /\ UNCHANGED <<vars, arrived, received, spare, handled>>

\* Mutant: the daemon waits for a full batch.
CollectedWhenFull == phase = "batching" /\ ~MoreFits

\* The batch is full; or the deadline has passed, the device has timed out or
\* answered with an empty read, which may be at any time.
Collected == phase = "batching"

Serve ==
    /\ Collected
    /\ batch' = [i \in DOMAIN received |-> arrived[received[i]]] /\ StartBatch
    /\ phase' = "serving"
    /\ UNCHANGED <<arrived, received, spare, handled>>

\* Mutant: the batch is recycled and not emptied.
RecycleKept == spare' = spare \o received /\ UNCHANGED received

\* spare_packets.append(&mut batch)
Recycle == spare' = spare \o received /\ received' = <<>>

\* What the sink has been given in this step.
Answers ==
    handled' = handled \o [i \in 1 .. Len(emitted') - Len(emitted) |-> received[emitted'[Len(emitted) + i]]]

FillForDaemon == phase = "serving" /\ Fill /\ UNCHANGED daemonVars

DispatchForDaemon ==
    /\ phase = "serving"
    /\ DispatchWave /\ Answers
    /\ IF busy' THEN UNCHANGED <<phase, received, spare>>
       ELSE phase' = "receiving" /\ Recycle
    /\ UNCHANGED arrived

\* An error of the engine, or of the device that takes the answers, ends the
\* daemon.
ServingFails ==
    /\ phase = "serving"
    /\ SinkFails \/ DispatchFails
    /\ Answers
    /\ phase' = "ended"
    /\ UNCHANGED <<arrived, received, spare>>

\* A caller that is not the daemon; after an error it may call again.
Direct == phase = "direct" /\ Next /\ UNCHANGED daemonVars

DaemonNext ==
    Direct \/ Receive \/ ReceiveFails \/ Serve \/ FillForDaemon \/ DispatchForDaemon \/ ServingFails

DaemonSpec == DaemonInit /\ [][DaemonNext]_allVars

\* process_batch_to never waits for its caller, and the deadline passes.
DaemonFairSpec ==
    /\ DaemonSpec
    /\ WF_allVars(FillForDaemon)
    /\ WF_allVars(DispatchForDaemon)
    /\ WF_allVars(Serve)

-----------------------------------------------------------------------------
\* The answers to the packets of one flow leave in the order in which these came
\* from the device, over all batches and waves, each packet is answered for
\* what it says itself and not for what its buffer held before; where the
\* device binds the buffers asked for.
AnswersInOrder ==
    capacity = RequestedWords =>
        \A i, j \in DOMAIN handled :
            i < j /\ arrived[handled[i]].flow = arrived[handled[j]].flow
            /\ arrived[handled[i]].flow # NoFlow => handled[i] < handled[j]

\* No packet is answered twice, and whatever error ends the daemon, only packets
\* of the last batch go without an answer, which is never larger than asked for.
AtMostABatchLost ==
    /\ IsInjective(handled)
    /\ DOMAIN arrived \subseteq ToSet(handled) \cup ToSet(received)
    /\ Len(received) <= BatchCapacity

\* A packet never waits for the next one: once the daemon has read one it is
\* served, and the daemon reads again or reports an error.
DaemonReturns == phase = "batching" ~> phase \in {"receiving", "ended"}
=============================================================================
