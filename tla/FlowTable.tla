------------------------------ MODULE FlowTable ------------------------------
(***************************************************************************)
(* The GPU packet engine's connection table (src/packet/packet.wgsl): an   *)
(* open-addressed table of flow slots in storage memory, probed by the     *)
(* invocations of one compute dispatch at the same time.  A step of this   *)
(* specification is one atomic operation of one invocation on a slot's     *)
(* state, or the plain reads or writes of a slot's key between two of      *)
(* them.  The wave scheduler gives a dispatch at most one packet per flow, *)
(* so an invocation is named by the flow (key) of its packet.              *)
(*                                                                         *)
(* Sequence numbers, payloads and reply contents belong to module GpuFlow: *)
(* here a segment's acknowledgement and sequence checks are a choice.      *)
(***************************************************************************)
EXTENDS Integers, FiniteSets

CONSTANTS
    Keys,         \* four-tuples
    NoKey,        \* contents of a slot never claimed
    Capacity,     \* params.flow_capacity
    ProbeLimit,   \* params.flow_probe_limit
    Hash,         \* flow_hash of every four-tuple
    WeakCas,      \* TRUE: the weak compare-exchange may fail spuriously
    StaleKeys     \* TRUE: plain writes of another invocation of the same
                  \* dispatch may not be visible yet (relaxed atomics)

\* PacketServerConfig::validate_config, and what the hash is.
ASSUME FlowTableAssumption ==
    /\ NoKey \notin Keys
    /\ Capacity \in Nat \ {0}
    /\ ProbeLimit \in 1 .. Capacity
    /\ Hash \in [Keys -> Nat]
    /\ WeakCas \in BOOLEAN
    /\ StaleKeys \in BOOLEAN

VARIABLES
    state,    \* flows[s].state
    key,      \* flows[s].key_hash, src_ip, dst_ip, ports
    oldKey,   \* flows[s]'s key when the dispatch began
    pc,       \* where the invocation of flow k is
    packet,   \* the packet it processes, "none" once it has finished
    probe,    \* loop counter of flow_find and flow_claim
    base,     \* the slot flow_find or flow_claim returned
    seen,     \* the slot state it loaded last
    emitted   \* output_data[packet_index] # 0

table == <<state, key, oldKey>>
vars == <<state, key, oldKey, pc, packet, probe, base, seen, emitted>>

Slots == 0 .. Capacity - 1
NoSlot == Capacity
SlotStates == {"FREE", "CLAIMED", "SYN_RECEIVED", "ESTABLISHED", "TOMBSTONE"}
Live == {"SYN_RECEIVED", "ESTABLISHED"}
Packets == {"SYN", "RST", "ACK", "DATA", "FIN"}
Labels == {"done", "find", "match", "claim", "exchange", "fill", "publish",
           "syn", "segment", "established", "release"}

Limit == IF ProbeLimit < Capacity THEN ProbeLimit ELSE Capacity

\* (key_hash + probe) & (flow_capacity - 1), the capacity a power of two.
ProbeSlot(k, i) == (Hash[k] + i) % Capacity

Init ==
    /\ state = [s \in Slots |-> "FREE"]
    /\ key = [s \in Slots |-> NoKey]
    /\ oldKey = [s \in Slots |-> NoKey]
    /\ pc = [k \in Keys |-> "done"]
    /\ packet = [k \in Keys |-> "none"]
    /\ probe = [k \in Keys |-> 0]
    /\ base = [k \in Keys |-> NoSlot]
    /\ seen = [k \in Keys |-> "FREE"]
    /\ emitted = [k \in Keys |-> FALSE]

\* The host uploads a wave, at most one packet per flow, and dispatches it.
\* It waits for the previous dispatch first, and a dispatch makes all writes
\* of the one before visible.
Dispatch ==
    /\ \A k \in Keys : pc[k] = "done"
    /\ \E wave \in [Keys -> Packets \cup {"none"}] :
          /\ \E k \in Keys : wave[k] # "none"
          /\ packet' = wave
          /\ pc' = [k \in Keys |-> IF wave[k] = "none" THEN "done" ELSE "find"]
    /\ oldKey' = key
    /\ emitted' = [k \in Keys |-> FALSE]
    /\ UNCHANGED <<state, key, probe, base, seen>>

-----------------------------------------------------------------------------
\* Control of one invocation.

Goto(k, label) == pc' = [pc EXCEPT ![k] = label]

Finish(k, reply) ==
    /\ Goto(k, "done")
    /\ packet' = [packet EXCEPT ![k] = "none"]
    /\ probe' = [probe EXCEPT ![k] = 0]
    /\ base' = [base EXCEPT ![k] = NoSlot]
    /\ seen' = [seen EXCEPT ![k] = "FREE"]
    /\ emitted' = [emitted EXCEPT ![k] = reply]

\* flow_find returned INVALID_INDEX: a SYN goes on to claim a slot, any other
\* packet is ignored.
Miss(k) ==
    IF packet[k] = "SYN"
    THEN /\ Goto(k, "claim")
         /\ probe' = [probe EXCEPT ![k] = 0]
         /\ seen' = [seen EXCEPT ![k] = "FREE"]
         /\ UNCHANGED <<packet, base, emitted>>
    ELSE Finish(k, FALSE)

\* flow_find returned slot s.
Hit(k, s) ==
    /\ Goto(k, CASE packet[k] = "SYN" -> "syn"
                 [] packet[k] = "RST" -> "release"
                 [] OTHER -> "segment")
    /\ base' = [base EXCEPT ![k] = s]
    /\ UNCHANGED <<packet, probe, seen, emitted>>

\* Mutant: the loop does not move on.
NextProbeStays(k, label) ==
    /\ Goto(k, label)
    /\ seen' = [seen EXCEPT ![k] = "FREE"]
    /\ UNCHANGED <<packet, probe, base, emitted>>

NextProbe(k, label) ==
    /\ Goto(k, label)
    /\ probe' = [probe EXCEPT ![k] = @ + 1]
    /\ seen' = [seen EXCEPT ![k] = "FREE"]
    /\ UNCHANGED <<packet, base, emitted>>

-----------------------------------------------------------------------------
\* Mutant: the search ends at a released slot.
FindLoadToTombstone(k) ==
    /\ pc[k] = "find"
    /\ UNCHANGED table
    /\ IF probe[k] = Limit
       THEN Miss(k)
       ELSE LET st == state[ProbeSlot(k, probe[k])] IN
            CASE st \in {"FREE", "TOMBSTONE"} -> Miss(k)
              [] st \in Live -> /\ Goto(k, "match")
                                /\ seen' = [seen EXCEPT ![k] = st]
                                /\ UNCHANGED <<packet, probe, base, emitted>>
              [] OTHER -> NextProbe(k, "find")

\* flow_find: load the state of the next slot of the probe sequence ...
FindLoad(k) ==
    /\ pc[k] = "find"
    /\ UNCHANGED table
    /\ IF probe[k] = Limit
       THEN Miss(k)
       ELSE LET st == state[ProbeSlot(k, probe[k])] IN
            CASE st = "FREE" -> Miss(k)
              [] st \in Live -> /\ Goto(k, "match")
                                /\ seen' = [seen EXCEPT ![k] = st]
                                /\ UNCHANGED <<packet, probe, base, emitted>>
              [] OTHER -> NextProbe(k, "find")

\* The keys an invocation may read in slot s, which it has not written.
ReadKey(s) == IF StaleKeys THEN {key[s], oldKey[s]} ELSE {key[s]}

\* Mutant: flows with the same hash are taken for one.
MatchesHash(k, read) == read \in Keys /\ Hash[read] = Hash[k]

\* flow_matches
Matches(k, read) == read = k

\* ... and compare its key, if it was live.
FindMatch(k) ==
    /\ pc[k] = "match"
    /\ UNCHANGED table
    /\ LET s == ProbeSlot(k, probe[k]) IN
       \E read \in ReadKey(s) :
          IF Matches(k, read) THEN Hit(k, s) ELSE NextProbe(k, "find")

\* flow_claim: look for a slot that holds no flow ...
ClaimLoad(k) ==
    /\ pc[k] = "claim"
    /\ UNCHANGED table
    /\ IF probe[k] = Limit
       THEN Finish(k, FALSE)
       ELSE LET st == state[ProbeSlot(k, probe[k])] IN
            IF st \in {"FREE", "TOMBSTONE"}
            THEN /\ Goto(k, "exchange")
                 /\ seen' = [seen EXCEPT ![k] = st]
                 /\ UNCHANGED <<packet, probe, base, emitted>>
            ELSE NextProbe(k, "claim")

\* Mutant: the slot is published as it is taken, before it is filled.
ExchangePublishes(k) ==
    /\ pc[k] = "exchange"
    /\ LET s == ProbeSlot(k, probe[k]) IN
       \/ /\ state[s] = seen[k]
          /\ state' = [state EXCEPT ![s] = "SYN_RECEIVED"]
          /\ base' = [base EXCEPT ![k] = s]
          /\ Goto(k, "fill")
          /\ UNCHANGED <<key, oldKey, packet, probe, seen, emitted>>
       \/ /\ state[s] # seen[k] \/ WeakCas
          /\ NextProbe(k, "claim")
          /\ UNCHANGED table

\* ... and take it with an atomic compare-exchange; who loses goes on to the
\* next slot.
Exchange(k) ==
    /\ pc[k] = "exchange"
    /\ LET s == ProbeSlot(k, probe[k]) IN
       \/ /\ state[s] = seen[k]
          /\ state' = [state EXCEPT ![s] = "CLAIMED"]
          /\ base' = [base EXCEPT ![k] = s]
          /\ Goto(k, "fill")
          /\ UNCHANGED <<key, oldKey, packet, probe, seen, emitted>>
       \/ /\ state[s] # seen[k] \/ WeakCas
          /\ NextProbe(k, "claim")
          /\ UNCHANGED table

\* The claimed slot's key is written with plain stores ...
Fill(k) ==
    /\ pc[k] = "fill"
    /\ key' = [key EXCEPT ![base[k]] = k]
    /\ Goto(k, "publish")
    /\ UNCHANGED <<state, oldKey, packet, probe, base, seen, emitted>>

\* Mutant: the claimed slot is never published.
PublishForgotten(k) ==
    /\ pc[k] = "publish"
    /\ Goto(k, "syn")
    /\ UNCHANGED <<state, key, oldKey, packet, probe, base, seen, emitted>>

\* ... and the connection published with an atomic store.
Publish(k) ==
    /\ pc[k] = "publish"
    /\ state' = [state EXCEPT ![base[k]] = "SYN_RECEIVED"]
    /\ Goto(k, "syn")
    /\ UNCHANGED <<key, oldKey, packet, probe, base, seen, emitted>>

-----------------------------------------------------------------------------
\* main, once the slot is known: a SYN is answered in either live state.
Syn(k) ==
    /\ pc[k] = "syn"
    /\ Finish(k, state[base[k]] \in Live)
    /\ UNCHANGED table

\* The first segment with the right numbers completes the handshake.
Segment(k) ==
    /\ pc[k] = "segment"
    /\ UNCHANGED <<key, oldKey>>
    /\ \/ /\ state[base[k]] = "SYN_RECEIVED"
          /\ state' = [state EXCEPT ![base[k]] = "ESTABLISHED"]
          /\ Goto(k, "established")
          /\ UNCHANGED <<packet, probe, base, seen, emitted>>
       \/ /\ state[base[k]] = "ESTABLISHED"
          /\ Goto(k, "established")
          /\ UNCHANGED <<state, packet, probe, base, seen, emitted>>
       \/ /\ state[base[k]] # "ESTABLISHED"
          /\ Finish(k, FALSE)
          /\ UNCHANGED state

\* An out-of-order segment is answered and the flow kept; an in-order empty
\* ACK needs no answer; an in-order FIN is answered and the flow released.
Established(k) ==
    /\ pc[k] = "established"
    /\ UNCHANGED table
    /\ \/ Finish(k, TRUE)
       \/ packet[k] = "ACK" /\ Finish(k, FALSE)
       \/ /\ packet[k] = "FIN"
          /\ Goto(k, "release")
          /\ UNCHANGED <<packet, probe, base, seen, emitted>>

\* Mutant: a released slot is free again, in the middle of probe sequences.
ReleaseFrees(k) ==
    /\ pc[k] = "release"
    /\ state' = [state EXCEPT ![base[k]] = "FREE"]
    /\ Finish(k, packet[k] # "RST")
    /\ UNCHANGED <<key, oldKey>>

\* flow_release
Release(k) ==
    /\ pc[k] = "release"
    /\ state' = [state EXCEPT ![base[k]] = "TOMBSTONE"]
    /\ Finish(k, packet[k] # "RST")
    /\ UNCHANGED <<key, oldKey>>

Invocation(k) ==
    \/ FindLoad(k) \/ FindMatch(k) \/ ClaimLoad(k) \/ Exchange(k) \/ Fill(k)
    \/ Publish(k) \/ Syn(k) \/ Segment(k) \/ Established(k) \/ Release(k)

Next == Dispatch \/ \E k \in Keys : Invocation(k)

Spec == Init /\ [][Next]_vars

-----------------------------------------------------------------------------
TypeOK ==
    /\ state \in [Slots -> SlotStates]
    /\ key \in [Slots -> Keys \cup {NoKey}]
    /\ oldKey \in [Slots -> Keys \cup {NoKey}]
    /\ pc \in [Keys -> Labels]
    /\ packet \in [Keys -> Packets \cup {"none"}]
    /\ probe \in [Keys -> 0 .. Limit]
    /\ base \in [Keys -> 0 .. Capacity]
    /\ seen \in [Keys -> SlotStates]
    /\ emitted \in [Keys -> BOOLEAN]

\* Slot s holds the connection of flow k.
Holds(s, k) == state[s] \in Live /\ key[s] = k

\* "Bounded linear probing and exact four-tuple comparison decide identity":
\* a flow never has two connections in the table, however the invocations of a
\* dispatch race for its slots.
UniqueFlow ==
    \A s, t \in Slots, k \in Keys : Holds(s, k) /\ Holds(t, k) => s = t

\* "Released entries become tombstones so deleting one connection cannot make a
\* later colliding flow unreachable": every connection lies on the probe
\* sequence of its flow, within the probe limit, and no free slot, where
\* flow_find gives up, comes before it.
Reachable ==
    \A s \in Slots, k \in Keys :
        Holds(s, k) => \E i \in 0 .. Limit - 1 :
                          /\ s = ProbeSlot(k, i)
                          /\ \A j \in 0 .. i : state[ProbeSlot(k, j)] # "FREE"

\* An invocation that works on a connection works on that of its own flow, and
\* nobody ends the connection under it.
OwnFlow ==
    \A k \in Keys :
        pc[k] \in {"syn", "segment", "established", "release"} => Holds(base[k], k)

\* A slot is claimed only while one invocation, and no second one, fills it: a
\* dispatch never ends with a claimed slot, which nobody could ever use again.
ClaimsOwned ==
    \A s \in Slots :
        state[s] = "CLAIMED" <=>
            \E k \in Keys : /\ pc[k] \in {"fill", "publish"} /\ base[k] = s
                            /\ \A l \in Keys \ {k} :
                                  ~(pc[l] \in {"fill", "publish"} /\ base[l] = s)

\* The connection state of every flow, as a client could observe it.
flowOf ==
    [k \in Keys |-> IF \E s \in Slots : Holds(s, k)
                    THEN state[CHOOSE s \in Slots : Holds(s, k)]
                    ELSE "CLOSED"]

\* The concurrent table behaves as one atomic map from flows to connections.
Map == INSTANCE FlowMap WITH flow <- flowOf
ImplementsMap == Map!Spec

\* The slots an invocation may still look at, two steps each, and the steps it
\* then has to its end.
ProbesLeft(k) ==
    IF pc[k] \in {"find", "match"} THEN 2 * Limit - probe[k]
    ELSE IF pc[k] \in {"claim", "exchange"} THEN Limit - probe[k]
    ELSE 0

StepsAfter ==
    [find |-> 5, match |-> 4, claim |-> 4, exchange |-> 3, fill |-> 3, segment |-> 3,
     publish |-> 2, established |-> 2, syn |-> 1, release |-> 1, done |-> 0]

StepsLeft(k) == 2 * ProbesLeft(k) + StepsAfter[pc[k]]

\* Every packet of a dispatch is decided within a bounded number of steps of
\* its own invocation, whatever the others do to the slots it probes: no step
\* waits, retries or looks at a slot a second time in the same search.
WaitFree == [][\A k \in Keys : Invocation(k) => StepsLeft(k)' < StepsLeft(k)]_vars
=============================================================================
