--------------------------- MODULE FlowTableProofs ---------------------------
(***************************************************************************)
(* For every table size, probe limit, hash function and set of flows, and  *)
(* any number of invocations: the table's safety invariants, on devices    *)
(* whose compare-exchange does not fail spuriously and where a published   *)
(* slot's key is visible to the other invocations (StrongDevice).          *)
(***************************************************************************)
EXTENDS FlowTable, TLAPS

StrongDevice == WeakCas = FALSE /\ StaleKeys = FALSE

-----------------------------------------------------------------------------
(* The inductive invariant: what holds of one invocation k ...             *)

\* An invocation that still searches has not passed a slot of its own flow.
Walked(k) ==
    pc[k] \in {"find", "match"} =>
        \A j \in 0 .. probe[k] - 1 : ~Holds(ProbeSlot(k, j), k)

\* Between the load of a live state and the comparison of the key the slot can
\* change hands, but not if it was the invocation's own.
Matching(k) ==
    pc[k] = "match" =>
        /\ probe[k] < Limit
        /\ key[ProbeSlot(k, probe[k])] = k => state[ProbeSlot(k, probe[k])] \in Live

\* An invocation that claims a slot has no connection yet, and every slot it
\* has passed is in use for good: slots never become free again.
Claiming(k) ==
    pc[k] \in {"claim", "exchange", "fill", "publish"} =>
        /\ \A s \in Slots : ~Holds(s, k)
        /\ \A j \in 0 .. probe[k] - 1 : state[ProbeSlot(k, j)] # "FREE"

\* The state it wants to exchange was free or a tombstone when it was loaded.
Exchanging(k) ==
    pc[k] = "exchange" =>
        /\ probe[k] < Limit
        /\ seen[k] \in {"FREE", "TOMBSTONE"}
        /\ seen[k] = "TOMBSTONE" => state[ProbeSlot(k, probe[k])] # "FREE"

\* The slot it won is claimed and lies on its probe sequence.
Filling(k) ==
    pc[k] \in {"fill", "publish"} =>
        /\ probe[k] < Limit
        /\ base[k] = ProbeSlot(k, probe[k])
        /\ state[base[k]] = "CLAIMED"
        /\ pc[k] = "publish" => key[base[k]] = k

\* The connection it works on is that of its own flow.
Owning(k) ==
    pc[k] \in {"syn", "segment", "established", "release"} =>
        base[k] \in Slots /\ Holds(base[k], k)

\* It starts at the head of its probe sequence.
Idle(k) == pc[k] = "done" => probe[k] = 0

Local(k) == /\ Walked(k) /\ Matching(k) /\ Claiming(k)
            /\ Exchanging(k) /\ Filling(k) /\ Owning(k) /\ Idle(k)

(* ... and of the table as a whole.                                        *)

\* Two invocations never fill the same slot.
Exclusive ==
    \A k, l \in Keys : /\ k # l
                       /\ pc[k] \in {"fill", "publish"}
                       /\ pc[l] \in {"fill", "publish"}
                       => base[k] # base[l]

\* Every claimed slot is being filled.
Claimed ==
    \A s \in Slots : state[s] = "CLAIMED" =>
        \E k \in Keys : pc[k] \in {"fill", "publish"} /\ base[k] = s

IInv == /\ TypeOK
        /\ \A k \in Keys : Local(k)
        /\ Exclusive /\ Claimed /\ Reachable /\ UniqueFlow

-----------------------------------------------------------------------------
\* The probe sequence stays inside the table, and the loop bound is the
\* configured probe limit (flow_find and flow_claim index the flow buffer).
LEMMA ProbeSlotInTable ==
    /\ Limit = ProbeLimit
    /\ Limit \in 1 .. Capacity
    /\ \A k \in Keys, i \in Nat : ProbeSlot(k, i) \in Slots
<1>1. Limit = ProbeLimit /\ Limit \in 1 .. Capacity
  BY FlowTableAssumption DEF Limit
<1>2. ASSUME NEW k \in Keys, NEW i \in Nat
      PROVE  ProbeSlot(k, i) \in Slots
  <2>1. Hash[k] + i \in Nat /\ Capacity \in Nat \ {0}
    BY FlowTableAssumption
  <2> QED BY <2>1 DEF ProbeSlot, Slots
<1> QED BY <1>1, <1>2

\* The table starts empty and no invocation runs.
LEMMA InitIInv == Init => IInv
  BY FlowTableAssumption, ProbeSlotInTable
  DEF Init, IInv, TypeOK, Local, Walked, Matching, Claiming, Exchanging, Filling,
      Owning, Idle, Exclusive, Claimed, Reachable, UniqueFlow, Holds, Live, SlotStates,
      Labels, Packets, NoSlot, Slots

-----------------------------------------------------------------------------
\* The other invocations' local variables do not change.
Frozen(k) == \A l \in Keys \ {k} : /\ pc'[l] = pc[l] /\ probe'[l] = probe[l]
                                   /\ base'[l] = base[l] /\ seen'[l] = seen[l]

\* A step that leaves the table alone preserves the invariant when it preserves
\* what holds of its own invocation.
LEMMA LocalStep ==
    ASSUME IInv, NEW k \in Keys, UNCHANGED table, Frozen(k), TypeOK', Local(k)',
           pc[k] \notin {"fill", "publish"}, pc'[k] \notin {"fill", "publish"}
    PROVE  IInv'
<1>1. state' = state /\ key' = key
  BY DEF table
<1>2. ASSUME NEW l \in Keys PROVE Local(l)'
  <2>1. CASE l = k
    BY <2>1
  <2>2. CASE l # k
    <3>1. pc'[l] = pc[l] /\ probe'[l] = probe[l] /\ base'[l] = base[l] /\ seen'[l] = seen[l]
      BY <2>2 DEF Frozen
    <3>2. Local(l)
      BY DEF IInv
    <3> QED
      BY <1>1, <3>1, <3>2
      DEF Local, Walked, Matching, Claiming, Exchanging, Filling, Owning, Idle, Holds
  <2> QED BY <2>1, <2>2
<1>3. Exclusive'
  BY DEF IInv, Exclusive, Frozen
<1>4. Claimed'
  BY <1>1 DEF IInv, Claimed, Frozen
<1>5. Reachable' /\ UniqueFlow'
  BY <1>1 DEF IInv, Reachable, UniqueFlow, Holds
<1> QED BY <1>2, <1>3, <1>4, <1>5 DEF IInv

\* Types of the control steps.
LEMMA FinishType ==
    ASSUME TypeOK, NEW k \in Keys, NEW reply \in BOOLEAN, Finish(k, reply),
           state' \in [Slots -> SlotStates], key' \in [Slots -> Keys \cup {NoKey}],
           oldKey' \in [Slots -> Keys \cup {NoKey}]
    PROVE  TypeOK' /\ Frozen(k) /\ pc'[k] = "done" /\ probe'[k] = 0
<1>1. 0 \in 0 .. Limit /\ NoSlot \in 0 .. Capacity
  BY ProbeSlotInTable, FlowTableAssumption DEF NoSlot
<1>2. pc' \in [Keys -> Labels] /\ packet' \in [Keys -> Packets \cup {"none"}]
  BY DEF TypeOK, Finish, Goto, Labels, Packets
<1>3. probe' \in [Keys -> 0 .. Limit] /\ base' \in [Keys -> 0 .. Capacity]
  BY <1>1 DEF TypeOK, Finish
<1>4. seen' \in [Keys -> SlotStates]
  BY DEF TypeOK, Finish, SlotStates
<1>5. emitted' \in [Keys -> BOOLEAN]
  BY DEF TypeOK, Finish
<1>6. Frozen(k) /\ pc'[k] = "done" /\ probe'[k] = 0
  BY DEF TypeOK, Finish, Goto, Frozen
<1> QED BY <1>2, <1>3, <1>4, <1>5, <1>6 DEF TypeOK

\* An invocation that has finished owes nothing.
LEMMA DoneLocal ==
    ASSUME NEW k \in Keys, pc'[k] = "done", probe'[k] = 0
    PROVE  Local(k)'
  BY DEF Local, Walked, Matching, Claiming, Exchanging, Filling, Owning, Idle

\* flow_find's miss: no slot of the table holds the flow.
LEMMA MissIInv ==
    ASSUME IInv, NEW k \in Keys, UNCHANGED table, pc[k] = "find", Miss(k),
           \/ probe[k] = Limit
           \/ probe[k] < Limit /\ state[ProbeSlot(k, probe[k])] = "FREE"
    PROVE  IInv'
<1>1. TypeOK /\ Walked(k) /\ Reachable
  BY DEF IInv, Local
<1>2. CASE packet[k] = "SYN"
  <2>1. /\ pc' = [pc EXCEPT ![k] = "claim"]
        /\ probe' = [probe EXCEPT ![k] = 0]
        /\ seen' = [seen EXCEPT ![k] = "FREE"]
        /\ UNCHANGED <<packet, base, emitted>>
    BY <1>2 DEF Miss, Goto
  <2>2. TypeOK' /\ Frozen(k) /\ pc'[k] = "claim" /\ probe'[k] = 0
    BY <1>1, <2>1, ProbeSlotInTable DEF TypeOK, Labels, SlotStates, Frozen, table
  <2>3. ASSUME NEW s \in Slots, Holds(s, k) PROVE FALSE
    <3>1. PICK i \in 0 .. Limit - 1 : /\ s = ProbeSlot(k, i)
                                      /\ \A j \in 0 .. i : state[ProbeSlot(k, j)] # "FREE"
      BY <1>1, <2>3 DEF Reachable
    <3>2. probe[k] \in 0 .. Limit /\ Limit \in Nat
      BY <1>1, ProbeSlotInTable DEF TypeOK
    <3>3. i < probe[k]
      BY <3>1, <3>2
    <3>4. i \in 0 .. probe[k] - 1
      BY <3>2, <3>3
    <3> QED BY <1>1, <2>3, <3>1, <3>4 DEF Walked
  <2>4. Local(k)'
    BY <2>2, <2>3
    DEF Local, Walked, Matching, Claiming, Exchanging, Filling, Owning, Idle, Holds, table
  <2> QED BY <2>2, <2>4, LocalStep
<1>3. CASE packet[k] # "SYN"
  <2>1. Finish(k, FALSE)
    BY <1>3 DEF Miss
  <2>2. TypeOK' /\ Frozen(k) /\ pc'[k] = "done" /\ probe'[k] = 0
    BY <1>1, <2>1, FinishType DEF TypeOK, table
  <2> QED BY <2>2, DoneLocal, LocalStep
<1> QED BY <1>2, <1>3

\* A search or a claim goes on to the next slot.
LEMMA NextProbeType ==
    ASSUME TypeOK, NEW k \in Keys, UNCHANGED table, NEW label \in {"find", "claim"},
           NextProbe(k, label), probe[k] < Limit
    PROVE  /\ TypeOK' /\ Frozen(k) /\ pc'[k] = label /\ probe'[k] = probe[k] + 1
<1>1. probe[k] + 1 \in 0 .. Limit
  BY ProbeSlotInTable DEF TypeOK
<1>2. probe' \in [Keys -> 0 .. Limit]
  BY <1>1 DEF TypeOK, NextProbe
<1>3. pc' \in [Keys -> Labels] /\ seen' \in [Keys -> SlotStates]
  BY DEF TypeOK, NextProbe, Goto, Labels, SlotStates
<1>4. Frozen(k) /\ pc'[k] = label /\ probe'[k] = probe[k] + 1
  BY DEF TypeOK, NextProbe, Goto, Frozen
<1> QED BY <1>2, <1>3, <1>4 DEF TypeOK, NextProbe, table

\* flow_find passes a slot that does not hold its flow.
LEMMA FindNextIInv ==
    ASSUME IInv, NEW k \in Keys, UNCHANGED table, pc[k] \in {"find", "match"},
           probe[k] < Limit, NextProbe(k, "find"), ~Holds(ProbeSlot(k, probe[k]), k)
    PROVE  IInv'
<1>1. TypeOK /\ Walked(k) /\ probe[k] \in Nat
  BY ProbeSlotInTable DEF IInv, Local, TypeOK
<1>2. TypeOK' /\ Frozen(k) /\ pc'[k] = "find" /\ probe'[k] = probe[k] + 1
  BY <1>1, NextProbeType
<1>3. \A j \in 0 .. probe[k] : ~Holds(ProbeSlot(k, j), k)
  BY <1>1 DEF Walked
<1>4. \A j \in 0 .. probe'[k] - 1 : ~Holds(ProbeSlot(k, j), k)'
  BY <1>1, <1>2, <1>3 DEF Holds, table
<1>5. Local(k)'
  BY <1>2, <1>4 DEF Local, Walked, Matching, Claiming, Exchanging, Filling, Owning, Idle
<1> QED BY <1>2, <1>5, LocalStep

\* flow_find, the load of a slot's state.
LEMMA FindLoadIInv ==
    ASSUME IInv, NEW k \in Keys, FindLoad(k)
    PROVE  IInv'
<1>1. TypeOK /\ pc[k] = "find" /\ probe[k] \in 0 .. Limit /\ UNCHANGED table
  BY DEF IInv, TypeOK, FindLoad
<1> DEFINE s == ProbeSlot(k, probe[k])
<1>2. CASE probe[k] = Limit
  BY <1>1, <1>2, MissIInv DEF FindLoad
<1>3. CASE probe[k] # Limit
  <2>1. probe[k] < Limit /\ s \in Slots
    BY <1>1, <1>3, ProbeSlotInTable
  <2>2. CASE state[s] = "FREE"
    <3>1. Miss(k)
      BY <1>3, <2>2 DEF FindLoad, Live
    <3> QED BY <1>1, <2>1, <2>2, <3>1, MissIInv
  <2>3. CASE state[s] \in Live
    <3>1. /\ pc' = [pc EXCEPT ![k] = "match"]
          /\ seen' = [seen EXCEPT ![k] = state[s]]
          /\ UNCHANGED <<packet, probe, base, emitted>>
      BY <1>1, <1>3, <2>3 DEF FindLoad, Goto, Live
    <3>2. TypeOK' /\ Frozen(k) /\ pc'[k] = "match" /\ probe'[k] = probe[k]
      BY <1>1, <2>1, <3>1 DEF TypeOK, Labels, SlotStates, Frozen, table
    <3>3. Local(k)'
      BY <1>1, <2>1, <2>3, <3>2
      DEF IInv, Local, Walked, Matching, Claiming, Exchanging, Filling, Owning, Idle, Holds, table
    <3> QED BY <1>1, <3>2, <3>3, LocalStep
  <2>4. CASE state[s] \notin Live /\ state[s] # "FREE"
    <3>1. NextProbe(k, "find")
      BY <1>1, <1>3, <2>4 DEF FindLoad
    <3> QED BY <1>1, <2>1, <2>4, <3>1, FindNextIInv DEF Holds
  <2> QED BY <2>2, <2>3, <2>4
<1> QED BY <1>2, <1>3

\* flow_find, the comparison of the key.
LEMMA FindMatchIInv ==
    ASSUME StrongDevice, IInv, NEW k \in Keys, FindMatch(k)
    PROVE  IInv'
<1>1. /\ TypeOK /\ pc[k] = "match" /\ UNCHANGED table /\ Matching(k)
      /\ probe[k] \in 0 .. Limit /\ probe[k] < Limit
  BY DEF IInv, Local, TypeOK, FindMatch, Matching
<1> DEFINE s == ProbeSlot(k, probe[k])
<1>2. s \in Slots
  BY <1>1, ProbeSlotInTable
<1>3. IF key[s] = k THEN Hit(k, s) ELSE NextProbe(k, "find")
  BY DEF FindMatch, ReadKey, StrongDevice, Matches
<1>4. CASE key[s] = k
  <2>1. Holds(s, k)
    BY <1>1, <1>4 DEF Matching, Holds
  <2> DEFINE label == CASE packet[k] = "SYN" -> "syn"
                        [] packet[k] = "RST" -> "release"
                        [] OTHER -> "segment"
  <2>2. /\ pc' = [pc EXCEPT ![k] = label]
        /\ base' = [base EXCEPT ![k] = s]
        /\ UNCHANGED <<packet, probe, seen, emitted>>
    BY <1>3, <1>4 DEF Hit, Goto
  <2>3. label \in {"syn", "release", "segment"}
    OBVIOUS
  <2> HIDE DEF label
  <2>4. s \in 0 .. Capacity
    BY <1>2, FlowTableAssumption DEF Slots
  <2>5. TypeOK' /\ Frozen(k) /\ pc'[k] = label /\ base'[k] = s
    BY <1>1, <2>2, <2>3, <2>4 DEF TypeOK, Labels, Frozen, table
  <2>6. Local(k)'
    BY <1>1, <1>2, <2>1, <2>3, <2>5
    DEF Local, Walked, Matching, Claiming, Exchanging, Filling, Owning, Idle, Holds, table
  <2> QED BY <1>1, <2>3, <2>5, <2>6, LocalStep
<1>5. CASE key[s] # k
  BY <1>1, <1>3, <1>5, FindNextIInv DEF Holds
<1> QED BY <1>4, <1>5

\* flow_claim passes a slot that is not free.
LEMMA ClaimNextIInv ==
    ASSUME IInv, NEW k \in Keys, UNCHANGED table, pc[k] \in {"claim", "exchange"},
           probe[k] < Limit, NextProbe(k, "claim"), state[ProbeSlot(k, probe[k])] # "FREE"
    PROVE  IInv'
<1>1. TypeOK /\ Claiming(k) /\ probe[k] \in Nat
  BY ProbeSlotInTable DEF IInv, Local, TypeOK
<1>2. TypeOK' /\ Frozen(k) /\ pc'[k] = "claim" /\ probe'[k] = probe[k] + 1
  BY <1>1, NextProbeType
<1>3. \A j \in 0 .. probe[k] : state[ProbeSlot(k, j)] # "FREE"
  BY <1>1 DEF Claiming
<1>4. \A j \in 0 .. probe'[k] - 1 : state'[ProbeSlot(k, j)] # "FREE"
  BY <1>1, <1>2, <1>3 DEF table
<1>5. \A s \in Slots : ~Holds(s, k)'
  BY <1>1 DEF Claiming, Holds, table
<1>6. Local(k)'
  BY <1>2, <1>4, <1>5 DEF Local, Walked, Matching, Claiming, Exchanging, Filling, Owning, Idle
<1> QED BY <1>2, <1>6, LocalStep

\* flow_claim, the load of a slot's state.
LEMMA ClaimLoadIInv ==
    ASSUME IInv, NEW k \in Keys, ClaimLoad(k)
    PROVE  IInv'
<1>1. TypeOK /\ pc[k] = "claim" /\ probe[k] \in 0 .. Limit /\ UNCHANGED table
  BY DEF IInv, TypeOK, ClaimLoad
<1> DEFINE s == ProbeSlot(k, probe[k])
<1>2. CASE probe[k] = Limit
  <2>1. Finish(k, FALSE)
    BY <1>2 DEF ClaimLoad
  <2>2. TypeOK' /\ Frozen(k) /\ pc'[k] = "done" /\ probe'[k] = 0
    BY <1>1, <2>1, FinishType DEF TypeOK, table
  <2> QED BY <1>1, <2>2, DoneLocal, LocalStep
<1>3. CASE probe[k] # Limit
  <2>1. probe[k] < Limit /\ s \in Slots
    BY <1>1, <1>3, ProbeSlotInTable
  <2>2. CASE state[s] \in {"FREE", "TOMBSTONE"}
    <3>1. /\ pc' = [pc EXCEPT ![k] = "exchange"]
          /\ seen' = [seen EXCEPT ![k] = state[s]]
          /\ UNCHANGED <<packet, probe, base, emitted>>
      BY <1>1, <1>3, <2>2 DEF ClaimLoad, Goto
    <3>2. /\ TypeOK' /\ Frozen(k) /\ pc'[k] = "exchange" /\ probe'[k] = probe[k]
          /\ seen'[k] = state[s]
      BY <1>1, <2>1, <3>1 DEF TypeOK, Labels, SlotStates, Frozen, table
    <3>3. Local(k)'
      BY <1>1, <2>1, <2>2, <3>2
      DEF IInv, Local, Walked, Matching, Claiming, Exchanging, Filling, Owning, Idle, Holds, table
    <3> QED BY <1>1, <3>2, <3>3, LocalStep
  <2>3. CASE state[s] \notin {"FREE", "TOMBSTONE"}
    <3>1. NextProbe(k, "claim")
      BY <1>1, <1>3, <2>3 DEF ClaimLoad
    <3> QED BY <1>1, <2>1, <2>3, <3>1, ClaimNextIInv
  <2> QED BY <2>2, <2>3
<1> QED BY <1>2, <1>3

-----------------------------------------------------------------------------
\* What a step of invocation k that changes slots leaves alone: no slot becomes
\* free, no other flow gains or loses a slot, no other claim is touched.
OthersKept(k) ==
    /\ \A t \in Slots : state[t] # "FREE" => state'[t] # "FREE"
    /\ \A t \in Slots, l \in Keys \ {k} : /\ Holds(t, l)' <=> Holds(t, l)
                                          /\ key'[t] = l => key[t] = l
    /\ \A l \in Keys \ {k} : pc[l] \in {"fill", "publish"} =>
          state'[base[l]] = "CLAIMED" /\ key'[base[l]] = key[base[l]]

\* Connections stay reachable and unique: only flow k needs an argument.
KReachable(k) ==
    \A s \in Slots : Holds(s, k) =>
        \E i \in 0 .. Limit - 1 : /\ s = ProbeSlot(k, i)
                                  /\ \A j \in 0 .. i : state[ProbeSlot(k, j)] # "FREE"
KUnique(k) == \A s, t \in Slots : Holds(s, k) /\ Holds(t, k) => s = t

LEMMA TableStep ==
    ASSUME IInv, NEW k \in Keys, Frozen(k), OthersKept(k), TypeOK', Local(k)',
           Exclusive', Claimed', KReachable(k)', KUnique(k)'
    PROVE  IInv'
<1>1. ASSUME NEW l \in Keys \ {k} PROVE Local(l)'
  <2>1. pc'[l] = pc[l] /\ probe'[l] = probe[l] /\ base'[l] = base[l] /\ seen'[l] = seen[l]
    BY DEF Frozen
  <2>2. Local(l) /\ probe[l] \in 0 .. Limit /\ Limit \in Nat
    BY ProbeSlotInTable DEF IInv, TypeOK
  <2>3. \A j \in Nat : ProbeSlot(l, j) \in Slots
    BY ProbeSlotInTable
  <2>4. Walked(l)'
    BY <2>1, <2>2, <2>3 DEF Local, Walked, OthersKept
  <2>5. Matching(l)'
    BY <2>1, <2>2, <2>3 DEF Local, Matching, OthersKept, Holds
  <2>6. Claiming(l)'
    BY <2>1, <2>2, <2>3 DEF Local, Claiming, OthersKept
  <2>7. Exchanging(l)'
    BY <2>1, <2>2, <2>3 DEF Local, Exchanging, OthersKept
  <2>8. Filling(l)'
    BY <2>1, <2>2 DEF Local, Filling, OthersKept
  <2>9. Owning(l)' /\ Idle(l)'
    BY <2>1, <2>2 DEF Local, Owning, OthersKept, Idle
  <2> QED BY <2>4, <2>5, <2>6, <2>7, <2>8, <2>9 DEF Local
<1>2. ASSUME NEW s \in Slots, NEW l \in Keys, Holds(s, l)'
      PROVE  \E i \in 0 .. Limit - 1 : /\ s = ProbeSlot(l, i)
                                       /\ \A j \in 0 .. i : state'[ProbeSlot(l, j)] # "FREE"
  <2>1. CASE l = k
    BY <1>2, <2>1 DEF KReachable
  <2>2. CASE l # k
    <3>1. Holds(s, l)
      BY <1>2, <2>2 DEF OthersKept
    <3>2. PICK i \in 0 .. Limit - 1 : /\ s = ProbeSlot(l, i)
                                      /\ \A j \in 0 .. i : state[ProbeSlot(l, j)] # "FREE"
      BY <3>1 DEF IInv, Reachable
    <3>3. \A j \in 0 .. i : state'[ProbeSlot(l, j)] # "FREE"
      BY <3>2, ProbeSlotInTable DEF OthersKept
    <3> QED BY <3>2, <3>3
  <2> QED BY <2>1, <2>2
<1>3. Reachable'
  BY <1>2 DEF Reachable
<1>4. UniqueFlow'
  BY DEF IInv, UniqueFlow, KUnique, OthersKept
<1>5. \A l \in Keys : Local(l)'
  BY <1>1
<1> QED BY <1>3, <1>4, <1>5 DEF IInv

\* The compare-exchange gives one free slot or tombstone to one invocation.
LEMMA ExchangeIInv ==
    ASSUME StrongDevice, IInv, NEW k \in Keys, Exchange(k)
    PROVE  IInv'
<1>1. /\ TypeOK /\ pc[k] = "exchange" /\ Exchanging(k) /\ Claiming(k)
      /\ probe[k] \in 0 .. Limit /\ probe[k] < Limit
      /\ seen[k] \in {"FREE", "TOMBSTONE"}
  BY DEF IInv, Local, TypeOK, Exchange, Exchanging
<1> DEFINE s == ProbeSlot(k, probe[k])
<1>2. s \in Slots /\ s \in 0 .. Capacity
  BY <1>1, ProbeSlotInTable, FlowTableAssumption DEF Slots
<1>3. CASE state[s] = seen[k]
  <2>1. /\ state' = [state EXCEPT ![s] = "CLAIMED"]
        /\ base' = [base EXCEPT ![k] = s]
        /\ pc' = [pc EXCEPT ![k] = "fill"]
        /\ UNCHANGED <<key, oldKey, packet, probe, seen, emitted>>
    BY <1>3 DEF Exchange, Goto, StrongDevice
  <2>2. /\ TypeOK' /\ Frozen(k) /\ pc'[k] = "fill" /\ base'[k] = s /\ probe'[k] = probe[k]
        /\ state'[s] = "CLAIMED" /\ \A t \in Slots \ {s} : state'[t] = state[t]
        /\ key' = key
    BY <1>1, <1>2, <2>1 DEF TypeOK, Labels, SlotStates, Frozen
  <2>3. state[s] \notin Live /\ state[s] # "CLAIMED"
    BY <1>1, <1>3 DEF Live
  <2>4. \A t \in Slots, l \in Keys : Holds(t, l)' <=> Holds(t, l)
    BY <2>2, <2>3 DEF Holds, Live
  <2>5. \A l \in Keys : pc[l] \in {"fill", "publish"} =>
            state[base[l]] = "CLAIMED" /\ base[l] \in Slots
    BY ProbeSlotInTable DEF IInv, Local, Filling, TypeOK
  <2>6. OthersKept(k)
    BY <2>2, <2>3, <2>4, <2>5 DEF OthersKept
  <2>7. Local(k)'
    <3>1. \A j \in 0 .. probe[k] - 1 : state'[ProbeSlot(k, j)] # "FREE"
      BY <1>1, <2>2, ProbeSlotInTable DEF Claiming
    <3>2. \A t \in Slots : ~Holds(t, k)'
      BY <1>1, <2>4 DEF Claiming
    <3> QED
      BY <1>1, <2>2, <3>1, <3>2
      DEF Local, Walked, Matching, Claiming, Exchanging, Filling, Owning, Idle
  <2>8. Exclusive'
    BY <2>2, <2>3, <2>5 DEF IInv, Exclusive, Frozen
  <2>9. Claimed'
    <3>1. ASSUME NEW t \in Slots, state'[t] = "CLAIMED"
          PROVE  \E l \in Keys : pc'[l] \in {"fill", "publish"} /\ base'[l] = t
      <4>1. CASE t = s
        BY <2>2, <4>1
      <4>2. CASE t # s
        <5>1. PICK l \in Keys : pc[l] \in {"fill", "publish"} /\ base[l] = t
          BY <2>2, <3>1, <4>2 DEF IInv, Claimed
        <5>2. l # k
          BY <1>1, <5>1
        <5> QED BY <5>1, <5>2, <2>2 DEF Frozen
      <4> QED BY <4>1, <4>2
    <3> QED BY <3>1 DEF Claimed
  <2>10. KReachable(k)' /\ KUnique(k)'
    BY <1>1, <2>4 DEF Claiming, KReachable, KUnique
  <2> QED BY <2>2, <2>6, <2>7, <2>8, <2>9, <2>10, TableStep
<1>4. CASE state[s] # seen[k]
  <2>1. NextProbe(k, "claim") /\ UNCHANGED table
    BY <1>4 DEF Exchange
  <2>2. state[s] # "FREE"
    BY <1>1, <1>4 DEF Exchanging
  <2> QED BY <1>1, <2>1, <2>2, ClaimNextIInv
<1> QED BY <1>3, <1>4

\* Facts about the slot an invocation fills.
LEMMA FillFacts ==
    ASSUME IInv, NEW k \in Keys, pc[k] \in {"fill", "publish"}
    PROVE  /\ TypeOK /\ Claiming(k) /\ Filling(k) /\ probe[k] \in 0 .. Limit
           /\ base[k] \in Slots /\ base[k] = ProbeSlot(k, probe[k]) /\ probe[k] < Limit
           /\ state[base[k]] = "CLAIMED"
           /\ \A l \in Keys \ {k} : pc[l] \in {"fill", "publish"} =>
                 base[l] # base[k] /\ state[base[l]] = "CLAIMED" /\ base[l] \in Slots
<1>1. TypeOK /\ Claiming(k) /\ Filling(k) /\ probe[k] \in 0 .. Limit
  BY DEF IInv, Local, TypeOK
<1>2. \A l \in Keys : pc[l] \in {"fill", "publish"} =>
          /\ state[base[l]] = "CLAIMED" /\ base[l] \in Slots
          /\ base[l] = ProbeSlot(l, probe[l]) /\ probe[l] < Limit
  BY ProbeSlotInTable DEF IInv, Local, Filling, TypeOK
<1>3. \A l \in Keys \ {k} : pc[l] \in {"fill", "publish"} => base[l] # base[k]
  BY DEF IInv, Exclusive
<1> QED BY <1>1, <1>2, <1>3

\* Writing the key of a claimed slot shows to nobody else.
LEMMA FillIInv ==
    ASSUME IInv, NEW k \in Keys, Fill(k)
    PROVE  IInv'
<1>1. pc[k] = "fill"
  BY DEF Fill
<1> DEFINE s == base[k]
<1>2. /\ TypeOK /\ Claiming(k) /\ probe[k] \in 0 .. Limit /\ s \in Slots
      /\ s = ProbeSlot(k, probe[k]) /\ probe[k] < Limit /\ state[s] = "CLAIMED"
      /\ \A l \in Keys \ {k} : pc[l] \in {"fill", "publish"} =>
            base[l] # s /\ state[base[l]] = "CLAIMED" /\ base[l] \in Slots
  BY <1>1, FillFacts
<1>3. /\ TypeOK' /\ Frozen(k) /\ pc'[k] = "publish" /\ base'[k] = s /\ probe'[k] = probe[k]
      /\ key'[s] = k /\ \A t \in Slots \ {s} : key'[t] = key[t]
      /\ state' = state
  BY <1>2 DEF Fill, Goto, TypeOK, Labels, Frozen
<1>4. \A t \in Slots, l \in Keys : Holds(t, l)' <=> Holds(t, l)
  BY <1>2, <1>3 DEF Holds, Live
<1>5. OthersKept(k)
  BY <1>2, <1>3, <1>4 DEF OthersKept
<1>6. Local(k)'
  BY <1>1, <1>2, <1>3, <1>4
  DEF Local, Walked, Matching, Claiming, Exchanging, Filling, Owning, Idle
<1>7. Exclusive'
  BY <1>1, <1>2, <1>3 DEF IInv, Exclusive, Frozen
<1>8. Claimed'
  BY <1>2, <1>3 DEF IInv, Claimed, Frozen
<1>9. KReachable(k)' /\ KUnique(k)'
  BY <1>1, <1>2, <1>4 DEF Claiming, KReachable, KUnique
<1> QED BY <1>3, <1>5, <1>6, <1>7, <1>8, <1>9, TableStep

\* Publishing makes the flow's only connection, behind slots that are in use.
LEMMA PublishIInv ==
    ASSUME IInv, NEW k \in Keys, Publish(k)
    PROVE  IInv'
<1>1. pc[k] = "publish"
  BY DEF Publish
<1> DEFINE s == base[k]
<1>2. /\ TypeOK /\ Claiming(k) /\ Filling(k) /\ probe[k] \in 0 .. Limit /\ s \in Slots
      /\ s = ProbeSlot(k, probe[k]) /\ probe[k] < Limit /\ state[s] = "CLAIMED"
      /\ \A l \in Keys \ {k} : pc[l] \in {"fill", "publish"} =>
            base[l] # s /\ state[base[l]] = "CLAIMED" /\ base[l] \in Slots
  BY <1>1, FillFacts
<1>3. key[s] = k
  BY <1>1, <1>2 DEF Filling
<1>4. /\ TypeOK' /\ Frozen(k) /\ pc'[k] = "syn" /\ base'[k] = s
      /\ state'[s] = "SYN_RECEIVED" /\ \A t \in Slots \ {s} : state'[t] = state[t]
      /\ key' = key
  BY <1>2 DEF Publish, Goto, TypeOK, Labels, SlotStates, Frozen
<1>5. \A t \in Slots, l \in Keys \ {k} : Holds(t, l)' <=> Holds(t, l)
  BY <1>2, <1>3, <1>4 DEF Holds, Live
<1>6. \A t \in Slots : Holds(t, k)' <=> t = s
  BY <1>1, <1>2, <1>3, <1>4 DEF Claiming, Holds, Live
<1>7. OthersKept(k)
  BY <1>2, <1>4, <1>5 DEF OthersKept
<1>8. Local(k)'
  BY <1>2, <1>4, <1>6
  DEF Local, Walked, Matching, Claiming, Exchanging, Filling, Owning, Idle
<1>9. Exclusive'
  BY <1>4 DEF IInv, Exclusive, Frozen
<1>10. Claimed'
  <2>1. ASSUME NEW t \in Slots, state'[t] = "CLAIMED"
        PROVE  \E l \in Keys : pc'[l] \in {"fill", "publish"} /\ base'[l] = t
    <3>1. t # s /\ state[t] = "CLAIMED"
      BY <1>4, <2>1
    <3>2. PICK l \in Keys : pc[l] \in {"fill", "publish"} /\ base[l] = t
      BY <3>1 DEF IInv, Claimed
    <3>3. l # k
      BY <3>1, <3>2
    <3> QED BY <3>2, <3>3, <1>4 DEF Frozen
  <2> QED BY <2>1 DEF Claimed
<1>11. KReachable(k)'
  <2>1. probe[k] \in 0 .. Limit - 1
    BY <1>2, ProbeSlotInTable
  <2>2. \A j \in 0 .. probe[k] : state'[ProbeSlot(k, j)] # "FREE"
    BY <1>1, <1>2, <1>4, ProbeSlotInTable DEF Claiming
  <2> QED BY <1>2, <1>6, <2>1, <2>2 DEF KReachable
<1>12. KUnique(k)'
  BY <1>6 DEF KUnique
<1> QED BY <1>4, <1>7, <1>8, <1>9, <1>10, <1>11, <1>12, TableStep

-----------------------------------------------------------------------------
\* Facts about the connection an invocation works on.
LEMMA OwnFacts ==
    ASSUME IInv, NEW k \in Keys, pc[k] \in {"syn", "segment", "established", "release"}
    PROVE  /\ TypeOK /\ base[k] \in Slots /\ Holds(base[k], k)
           /\ \A t \in Slots : Holds(t, k) => t = base[k]
           /\ \A l \in Keys \ {k} : pc[l] \in {"fill", "publish"} =>
                 base[l] # base[k] /\ state[base[l]] = "CLAIMED" /\ base[l] \in Slots
<1>1. TypeOK /\ base[k] \in Slots /\ Holds(base[k], k)
  BY DEF IInv, Local, Owning
<1>2. \A t \in Slots : Holds(t, k) => t = base[k]
  BY <1>1 DEF IInv, UniqueFlow
<1>3. \A l \in Keys : pc[l] \in {"fill", "publish"} =>
          state[base[l]] = "CLAIMED" /\ base[l] \in Slots
  BY ProbeSlotInTable DEF IInv, Local, Filling, TypeOK
<1>4. state[base[k]] # "CLAIMED"
  BY <1>1 DEF Holds, Live
<1> QED BY <1>1, <1>2, <1>3, <1>4

\* A step that ends the invocation and leaves the table alone.
LEMMA FinishIInv ==
    ASSUME IInv, NEW k \in Keys, NEW reply \in BOOLEAN, Finish(k, reply),
           UNCHANGED table, pc[k] \notin {"fill", "publish"}
    PROVE  IInv'
<1>1. TypeOK' /\ Frozen(k) /\ pc'[k] = "done" /\ probe'[k] = 0
  BY FinishType DEF IInv, TypeOK, table
<1> QED BY <1>1, DoneLocal, LocalStep

\* Answering a SYN changes no slot.
LEMMA SynIInv ==
    ASSUME IInv, NEW k \in Keys, Syn(k)
    PROVE  IInv'
<1>1. pc[k] = "syn" /\ UNCHANGED table
  BY DEF Syn
<1>2. (state[base[k]] \in Live) \in BOOLEAN
  OBVIOUS
<1>3. PICK reply \in BOOLEAN : Finish(k, reply)
  BY <1>2 DEF Syn
<1> QED BY <1>1, <1>3, FinishIInv

\* Moving to a later point of the same connection changes no slot.
LEMMA KeepOwnIInv ==
    ASSUME IInv, NEW k \in Keys, UNCHANGED table, NEW label \in {"established", "release"},
           Goto(k, label), UNCHANGED <<packet, probe, base, seen, emitted>>,
           pc[k] \in {"segment", "established"}
    PROVE  IInv'
<1>1. TypeOK /\ base[k] \in Slots /\ Holds(base[k], k)
  BY OwnFacts
<1>2. TypeOK' /\ Frozen(k) /\ pc'[k] = label
  BY <1>1 DEF Goto, TypeOK, Labels, Frozen, table
<1>3. Local(k)'
  BY <1>1, <1>2
  DEF Local, Walked, Matching, Claiming, Exchanging, Filling, Owning, Idle, Holds, table
<1> QED BY <1>2, <1>3, LocalStep

\* Completing the handshake keeps the connection where it is.
LEMMA SegmentIInv ==
    ASSUME IInv, NEW k \in Keys, Segment(k)
    PROVE  IInv'
<1>1. pc[k] = "segment"
  BY DEF Segment
<1> DEFINE s == base[k]
<1>2. /\ TypeOK /\ s \in Slots /\ Holds(s, k)
      /\ \A t \in Slots : Holds(t, k) => t = s
      /\ \A l \in Keys \ {k} : pc[l] \in {"fill", "publish"} =>
            base[l] # s /\ state[base[l]] = "CLAIMED" /\ base[l] \in Slots
  BY <1>1, OwnFacts
<1>3. CASE /\ state[s] = "SYN_RECEIVED"
           /\ state' = [state EXCEPT ![s] = "ESTABLISHED"]
           /\ Goto(k, "established")
           /\ UNCHANGED <<key, oldKey, packet, probe, base, seen, emitted>>
  <2>1. /\ TypeOK' /\ Frozen(k) /\ pc'[k] = "established" /\ base'[k] = s
        /\ state'[s] = "ESTABLISHED" /\ \A t \in Slots \ {s} : state'[t] = state[t]
        /\ key' = key
    BY <1>2, <1>3 DEF Goto, TypeOK, Labels, SlotStates, Frozen
  <2>2. \A t \in Slots, l \in Keys : Holds(t, l)' <=> Holds(t, l)
    BY <1>2, <2>1 DEF Holds, Live
  <2>3. OthersKept(k)
    BY <1>2, <2>1, <2>2 DEF OthersKept
  <2>4. Local(k)'
    BY <1>2, <2>1, <2>2
    DEF Local, Walked, Matching, Claiming, Exchanging, Filling, Owning, Idle
  <2>5. Exclusive'
    BY <2>1 DEF IInv, Exclusive, Frozen
  <2>6. Claimed'
    BY <1>1, <2>1 DEF IInv, Claimed, Frozen
  <2>7. KReachable(k)'
    <3>1. PICK i \in 0 .. Limit - 1 : /\ s = ProbeSlot(k, i)
                                      /\ \A j \in 0 .. i : state[ProbeSlot(k, j)] # "FREE"
      BY <1>2 DEF IInv, Reachable
    <3>2. \A j \in 0 .. i : state'[ProbeSlot(k, j)] # "FREE"
      BY <2>1, <3>1, ProbeSlotInTable
    <3> QED BY <1>2, <2>2, <3>1, <3>2 DEF KReachable
  <2>8. KUnique(k)'
    BY <1>2, <2>2 DEF KUnique
  <2> QED BY <2>1, <2>3, <2>4, <2>5, <2>6, <2>7, <2>8, TableStep
<1>4. CASE /\ Goto(k, "established")
           /\ UNCHANGED <<state, key, oldKey, packet, probe, base, seen, emitted>>
  <2>1. UNCHANGED table /\ UNCHANGED <<packet, probe, base, seen, emitted>>
    BY <1>4 DEF table
  <2> QED BY <1>1, <1>4, <2>1, KeepOwnIInv
<1>5. CASE Finish(k, FALSE) /\ UNCHANGED <<state, key, oldKey>>
  BY <1>1, <1>5, FinishIInv DEF table
<1> QED BY <1>3, <1>4, <1>5 DEF Segment

\* Serving a segment of an established flow changes no slot.
LEMMA EstablishedIInv ==
    ASSUME IInv, NEW k \in Keys, Established(k)
    PROVE  IInv'
<1>1. pc[k] = "established" /\ UNCHANGED table
  BY DEF Established
<1>2. CASE Finish(k, TRUE) \/ Finish(k, FALSE)
  BY <1>1, <1>2, FinishIInv
<1>3. CASE /\ Goto(k, "release")
           /\ UNCHANGED <<packet, probe, base, seen, emitted>>
  BY <1>1, <1>3, KeepOwnIInv
<1> QED BY <1>2, <1>3 DEF Established

\* flow_release leaves a tombstone, so no other flow is cut off.
LEMMA ReleaseIInv ==
    ASSUME IInv, NEW k \in Keys, Release(k)
    PROVE  IInv'
<1>1. pc[k] = "release"
  BY DEF Release
<1> DEFINE s == base[k]
<1>2. /\ TypeOK /\ s \in Slots /\ Holds(s, k)
      /\ \A t \in Slots : Holds(t, k) => t = s
      /\ \A l \in Keys \ {k} : pc[l] \in {"fill", "publish"} =>
            base[l] # s /\ state[base[l]] = "CLAIMED" /\ base[l] \in Slots
  BY <1>1, OwnFacts
<1>3. /\ state' = [state EXCEPT ![s] = "TOMBSTONE"] /\ key' = key /\ oldKey' = oldKey
      /\ \E reply \in BOOLEAN : Finish(k, reply)
  <2>1. (packet[k] # "RST") \in BOOLEAN
    OBVIOUS
  <2> QED BY <2>1 DEF Release
<1>4. state' \in [Slots -> SlotStates] /\ key' \in [Slots -> Keys \cup {NoKey}]
      /\ oldKey' \in [Slots -> Keys \cup {NoKey}]
  BY <1>2, <1>3 DEF TypeOK, SlotStates
<1>5. TypeOK' /\ Frozen(k) /\ pc'[k] = "done" /\ probe'[k] = 0
  BY <1>2, <1>3, <1>4, FinishType
<1>6. state'[s] = "TOMBSTONE" /\ \A t \in Slots \ {s} : state'[t] = state[t]
  BY <1>2, <1>3 DEF TypeOK
<1>7. \A t \in Slots, l \in Keys \ {k} : Holds(t, l)' <=> Holds(t, l)
  BY <1>2, <1>3, <1>6 DEF Holds, Live
<1>8. \A t \in Slots : ~Holds(t, k)'
  BY <1>2, <1>3, <1>6 DEF Holds, Live
<1>9. OthersKept(k)
  BY <1>2, <1>3, <1>6, <1>7 DEF OthersKept
<1>10. Local(k)'
  BY <1>5, DoneLocal
<1>11. Exclusive'
  BY <1>5 DEF IInv, Exclusive, Frozen
<1>12. Claimed'
  BY <1>1, <1>5, <1>6 DEF IInv, Claimed, Frozen
<1>13. KReachable(k)' /\ KUnique(k)'
  BY <1>8 DEF KReachable, KUnique
<1> QED BY <1>5, <1>9, <1>10, <1>11, <1>12, <1>13, TableStep

\* A new dispatch starts its invocations at the head of their probe sequences.
LEMMA DispatchIInv ==
    ASSUME IInv, Dispatch
    PROVE  IInv'
<1>1. PICK wave \in [Keys -> Packets \cup {"none"}] :
          /\ packet' = wave
          /\ pc' = [k \in Keys |-> IF wave[k] = "none" THEN "done" ELSE "find"]
  BY DEF Dispatch
<1>2. /\ \A k \in Keys : pc[k] = "done"
      /\ oldKey' = key /\ emitted' = [k \in Keys |-> FALSE]
      /\ UNCHANGED <<state, key, probe, base, seen>>
  BY DEF Dispatch
<1>3. TypeOK
  BY DEF IInv
<1>4. TypeOK'
  BY <1>1, <1>2, <1>3 DEF TypeOK, Labels
<1>5. \A k \in Keys : pc'[k] \in {"done", "find"}
  BY <1>1
<1>6. ASSUME NEW k \in Keys PROVE Local(k)'
  <2>1. pc'[k] \in {"done", "find"} /\ probe'[k] = 0
    BY <1>2, <1>5 DEF IInv, Local, Idle
  <2> QED BY <2>1
    DEF Local, Walked, Matching, Claiming, Exchanging, Filling, Owning, Idle
<1>7. Exclusive' /\ Claimed'
  BY <1>2, <1>5 DEF IInv, Exclusive, Claimed
<1>8. Reachable' /\ UniqueFlow'
  BY <1>2 DEF IInv, Reachable, UniqueFlow, Holds
<1> QED BY <1>4, <1>6, <1>7, <1>8 DEF IInv

-----------------------------------------------------------------------------
\* IInv is an invariant of the table.
THEOREM Invariance == ASSUME StrongDevice PROVE Spec => []IInv
<1>1. ASSUME IInv, [Next]_vars PROVE IInv'
  <2>1. CASE Dispatch
    BY <1>1, <2>1, DispatchIInv
  <2>2. ASSUME NEW k \in Keys, Invocation(k) PROVE IInv'
    BY <1>1, <2>2, FindLoadIInv, FindMatchIInv, ClaimLoadIInv, ExchangeIInv,
       FillIInv, PublishIInv, SynIInv, SegmentIInv, EstablishedIInv, ReleaseIInv
    DEF Invocation
  <2>3. CASE UNCHANGED vars
    BY <1>1, <2>3
    DEF vars, IInv, TypeOK, Local, Walked, Matching, Claiming, Exchanging, Filling,
        Owning, Idle, Exclusive, Claimed, Reachable, UniqueFlow, Holds
  <2> QED BY <1>1, <2>1, <2>2, <2>3 DEF Next
<1> QED BY <1>1, InitIInv, PTL DEF Spec

\* Every variable of the table and of its invocations keeps its type.
THEOREM TypeCorrect == ASSUME StrongDevice PROVE Spec => []TypeOK
<1>1. IInv => TypeOK
  BY DEF IInv
<1> QED BY <1>1, Invariance, PTL

\* A flow never has two connections, whatever the number of flows, the size of
\* the table and the hash function (flow_find and flow_claim racing).
THEOREM NoDuplicateFlow == ASSUME StrongDevice PROVE Spec => []UniqueFlow
<1>1. IInv => UniqueFlow
  BY DEF IInv
<1> QED BY <1>1, Invariance, PTL

\* No connection is ever hidden from flow_find by a free slot or by the probe
\* limit: deleting a flow leaves a tombstone, and a claim skips used slots only.
THEOREM FlowsReachable == ASSUME StrongDevice PROVE Spec => []Reachable
<1>1. IInv => Reachable
  BY DEF IInv
<1> QED BY <1>1, Invariance, PTL

\* An invocation only ever touches the connection of its own four-tuple.
THEOREM NoCrossFlow == ASSUME StrongDevice PROVE Spec => []OwnFlow
<1>1. IInv => OwnFlow
  BY DEF IInv, Local, Owning, OwnFlow
<1> QED BY <1>1, Invariance, PTL

\* Every claimed slot has exactly one invocation filling it, so no dispatch
\* leaks one.
THEOREM NoLeakedClaim == ASSUME StrongDevice PROVE Spec => []ClaimsOwned
<1>1. ASSUME IInv PROVE ClaimsOwned
  <2>1. \A k \in Keys : pc[k] \in {"fill", "publish"} => state[base[k]] = "CLAIMED"
    BY <1>1 DEF IInv, Local, Filling
  <2>2. Exclusive /\ Claimed
    BY <1>1 DEF IInv
  <2> QED BY <2>1, <2>2 DEF ClaimsOwned, Exclusive, Claimed
<1> QED BY <1>1, Invariance, PTL

-----------------------------------------------------------------------------
\* A step of an invocation leaves it fewer steps.
LEMMA StepsDecrease ==
    ASSUME IInv, NEW k \in Keys, Invocation(k)
    PROVE  StepsLeft(k)' < StepsLeft(k)
<1>1. /\ Limit \in Nat /\ Limit > 0 /\ probe[k] \in 0 .. Limit /\ Limit' = Limit
      /\ pc \in [Keys -> Labels] /\ probe \in [Keys -> 0 .. Limit]
  BY ProbeSlotInTable, FlowTableAssumption DEF IInv, TypeOK, Limit
<1>2. ASSUME NEW reply, Finish(k, reply) PROVE StepsLeft(k)' = 0
  BY <1>1, <1>2 DEF Finish, Goto, StepsLeft, ProbesLeft, StepsAfter
<1>3. pc[k] # "done" => StepsLeft(k) >= 1
  BY <1>1 DEF StepsLeft, ProbesLeft, StepsAfter, Labels
<1>4. ASSUME NEW reply, Finish(k, reply), pc[k] # "done" PROVE StepsLeft(k)' < StepsLeft(k)
  <2>1. StepsLeft(k)' = 0
    BY <1>2, <1>4
  <2>2. StepsLeft(k) \in Int
    BY <1>1 DEF StepsLeft, ProbesLeft, StepsAfter, Labels
  <2> QED BY <1>3, <1>4, <2>1, <2>2
<1>5. ASSUME Miss(k), pc[k] = "find" PROVE StepsLeft(k)' < StepsLeft(k)
  <2>1. CASE packet[k] = "SYN"
    <3>1. pc'[k] = "claim" /\ probe'[k] = 0
      BY <1>1, <1>5, <2>1 DEF Miss, Goto
    <3> QED BY <1>1, <1>5, <3>1 DEF StepsLeft, ProbesLeft, StepsAfter
  <2>2. CASE packet[k] # "SYN"
    BY <1>4, <1>5, <2>2 DEF Miss
  <2> QED BY <2>1, <2>2
<1>6. CASE FindLoad(k)
  <2>1. CASE Miss(k)
    BY <1>5, <1>6, <2>1 DEF FindLoad
  <2>2. CASE Goto(k, "match") /\ UNCHANGED probe
    BY <1>1, <1>6, <2>2 DEF FindLoad, Goto, StepsLeft, ProbesLeft, StepsAfter
  <2>3. CASE NextProbe(k, "find")
    BY <1>1, <1>6, <2>3 DEF FindLoad, NextProbe, Goto, StepsLeft, ProbesLeft, StepsAfter
  <2> QED BY <1>6, <2>1, <2>2, <2>3 DEF FindLoad
<1>7. CASE FindMatch(k)
  <2>1. CASE NextProbe(k, "find")
    BY <1>1, <1>7, <2>1 DEF FindMatch, NextProbe, Goto, StepsLeft, ProbesLeft, StepsAfter
  <2>2. CASE \E s : Hit(k, s)
    <3>1. pc'[k] \in {"syn", "release", "segment"} /\ probe'[k] = probe[k]
      BY <1>1, <2>2 DEF Hit, Goto
    <3>2. StepsLeft(k)' <= 3 /\ StepsLeft(k)' \in Int
      BY <3>1 DEF StepsLeft, ProbesLeft, StepsAfter
    <3>3. StepsLeft(k) > 3 /\ StepsLeft(k) \in Int
      BY <1>1, <1>7 DEF FindMatch, StepsLeft, ProbesLeft, StepsAfter
    <3> QED BY <3>2, <3>3
  <2> QED BY <1>7, <2>1, <2>2 DEF FindMatch
<1>8. CASE ClaimLoad(k)
  <2>1. CASE Finish(k, FALSE)
    BY <1>4, <1>8, <2>1 DEF ClaimLoad
  <2>2. CASE Goto(k, "exchange") /\ UNCHANGED probe
    BY <1>1, <1>8, <2>2 DEF ClaimLoad, Goto, StepsLeft, ProbesLeft, StepsAfter
  <2>3. CASE NextProbe(k, "claim")
    BY <1>1, <1>8, <2>3 DEF ClaimLoad, NextProbe, Goto, StepsLeft, ProbesLeft, StepsAfter
  <2> QED BY <1>8, <2>1, <2>2, <2>3 DEF ClaimLoad
<1>9. CASE Exchange(k)
  <2>0. pc[k] = "exchange" /\ probe[k] < Limit
    BY <1>9 DEF Exchange, IInv, Local, Exchanging
  <2>1. CASE Goto(k, "fill")
    BY <1>1, <2>0, <2>1 DEF Goto, StepsLeft, ProbesLeft, StepsAfter
  <2>2. CASE NextProbe(k, "claim")
    BY <1>1, <2>0, <2>2 DEF NextProbe, Goto, StepsLeft, ProbesLeft, StepsAfter
  <2> QED BY <1>9, <2>1, <2>2 DEF Exchange
<1>10. CASE Fill(k) \/ Publish(k)
  BY <1>1, <1>10 DEF Fill, Publish, Goto, StepsLeft, ProbesLeft, StepsAfter
<1>11. CASE Syn(k) \/ Release(k)
  BY <1>4, <1>11 DEF Syn, Release
<1>12. CASE Segment(k)
  <2>1. CASE Goto(k, "established")
    BY <1>1, <1>12, <2>1 DEF Segment, Goto, StepsLeft, ProbesLeft, StepsAfter
  <2>2. CASE Finish(k, FALSE)
    BY <1>4, <1>12, <2>2 DEF Segment
  <2> QED BY <1>12, <2>1, <2>2 DEF Segment
<1>13. CASE Established(k)
  <2>1. CASE Goto(k, "release")
    BY <1>1, <1>13, <2>1 DEF Established, Goto, StepsLeft, ProbesLeft, StepsAfter
  <2>2. CASE Finish(k, TRUE) \/ Finish(k, FALSE)
    BY <1>4, <1>13, <2>2 DEF Established
  <2> QED BY <1>13, <2>1, <2>2 DEF Established
<1> QED BY <1>6, <1>7, <1>8, <1>9, <1>10, <1>11, <1>12, <1>13 DEF Invocation

\* flow_find, flow_claim and main end within 4 * flow_probe_limit + 5 steps of
\* the invocation, whatever the other invocations of the dispatch do.
THEOREM SearchesEnd == ASSUME StrongDevice PROVE Spec => WaitFree
<1>1. IInv /\ [Next]_vars
        => [\A k \in Keys : Invocation(k) => StepsLeft(k)' < StepsLeft(k)]_vars
  BY StepsDecrease
<1> QED BY <1>1, Invariance, PTL DEF Spec, WaitFree

-----------------------------------------------------------------------------
(* FlowTable implements FlowMap, for every table size, probe limit, hash   *)
(* function and set of flows: what the invocations of a dispatch do to the *)
(* slots they race for is what an atomic map from flows to connections     *)
(* does.  The proof adds to the table's invariant what an invocation's     *)
(* place says about its packet and its connection.                         *)

-----------------------------------------------------------------------------
(* Places and packets.                                                     *)

SegmentPackets == {"ACK", "DATA", "FIN"}

Serving(k) ==
    /\ pc[k] = "done" <=> packet[k] = "none"
    /\ pc[k] \in {"claim", "exchange", "fill", "publish", "syn"} => packet[k] = "SYN"
    /\ pc[k] \in {"segment", "established"} => packet[k] \in SegmentPackets
    /\ pc[k] = "established" => state[base[k]] = "ESTABLISHED"
    /\ pc[k] = "release" => \/ packet[k] = "RST"
                            \/ packet[k] = "FIN" /\ state[base[k]] = "ESTABLISHED"

Placed == \A k \in Keys : Serving(k)

\* What the invocation of flow k leaves to the others: their places, packets
\* and connections.
Apart(k) ==
    /\ \A l \in Keys \ {k} : pc'[l] = pc[l] /\ packet'[l] = packet[l] /\ base'[l] = base[l]
                             /\ emitted'[l] = emitted[l]
    /\ \A t \in Slots, l \in Keys \ {k} : /\ Holds(t, l)' <=> Holds(t, l)
                                          /\ Holds(t, l) => state'[t] = state[t]

LEMMA ApartStep ==
    ASSUME IInv, NEW k \in Keys, Invocation(k)
    PROVE  Apart(k)
<1>1. TypeOK /\ Local(k)
  BY DEF IInv
<1>2. \A l \in Keys \ {k} : pc'[l] = pc[l] /\ packet'[l] = packet[l] /\ base'[l] = base[l]
                            /\ emitted'[l] = emitted[l]
  <2>1. ASSUME NEW reply, Finish(k, reply)
        PROVE  \A l \in Keys \ {k} : pc'[l] = pc[l] /\ packet'[l] = packet[l] /\ base'[l] = base[l]
                                     /\ emitted'[l] = emitted[l]
    BY <1>1, <2>1 DEF TypeOK, Finish, Goto
  <2>2. ASSUME \/ Miss(k) /\ packet[k] = "SYN"
               \/ \E s : Hit(k, s)
               \/ \E label : NextProbe(k, label)
               \/ \E label : Goto(k, label) /\ UNCHANGED <<packet, base, emitted>>
               \/ \E label, s : Goto(k, label) /\ base' = [base EXCEPT ![k] = s] /\ UNCHANGED <<packet, emitted>>
        PROVE  \A l \in Keys \ {k} : pc'[l] = pc[l] /\ packet'[l] = packet[l] /\ base'[l] = base[l]
                                     /\ emitted'[l] = emitted[l]
    BY <1>1, <2>2 DEF TypeOK, Miss, Hit, NextProbe, Goto
  <2>3. CASE FindLoad(k) \/ FindMatch(k)
    BY <2>1, <2>2, <2>3 DEF FindLoad, FindMatch, Miss
  <2>4. CASE ClaimLoad(k) \/ Exchange(k)
    BY <2>1, <2>2, <2>4 DEF ClaimLoad, Exchange
  <2>5. CASE Fill(k) \/ Publish(k)
    BY <2>2, <2>5 DEF Fill, Publish
  <2>6. CASE Syn(k) \/ Segment(k) \/ Established(k) \/ Release(k)
    BY <2>1, <2>2, <2>6 DEF Syn, Segment, Established, Release
  <2> QED BY <2>3, <2>4, <2>5, <2>6 DEF Invocation
<1>3. ASSUME UNCHANGED table
      PROVE  \A t \in Slots, l \in Keys \ {k} : (Holds(t, l)' <=> Holds(t, l)) /\ (Holds(t, l) => state'[t] = state[t])
  BY <1>3 DEF table, Holds
<1>4. CASE FindLoad(k) \/ FindMatch(k) \/ ClaimLoad(k) \/ Syn(k) \/ Established(k)
  BY <1>2, <1>3, <1>4 DEF FindLoad, FindMatch, ClaimLoad, Syn, Established, Apart
<1>5. ASSUME NEW s \in Slots, key' = key, \A t \in Slots \ {s} : state'[t] = state[t],
             (state[s] \notin Live /\ state'[s] \notin Live) \/ key[s] = k
      PROVE  Apart(k)
  BY <1>2, <1>5 DEF Holds, Apart
<1>6. CASE Exchange(k)
  <2>1. CASE UNCHANGED table
    BY <1>2, <1>3, <2>1 DEF Apart
  <2>2. CASE /\ state[ProbeSlot(k, probe[k])] = seen[k]
             /\ state' = [state EXCEPT ![ProbeSlot(k, probe[k])] = "CLAIMED"]
             /\ key' = key
    <3>1. ProbeSlot(k, probe[k]) \in Slots /\ seen[k] \in {"FREE", "TOMBSTONE"}
      BY <1>1, <1>6, ProbeSlotInTable DEF Local, Exchanging, Exchange, TypeOK
    <3> QED BY <1>1, <1>5, <2>2, <3>1 DEF TypeOK, Live
  <2> QED BY <1>6, <2>1, <2>2 DEF Exchange
<1>7. CASE Fill(k)
  <2>1. /\ base[k] \in Slots /\ state[base[k]] = "CLAIMED" /\ state' = state
        /\ key' = [key EXCEPT ![base[k]] = k]
    BY <1>1, <1>7, ProbeSlotInTable DEF Local, Filling, Fill, TypeOK
  <2> QED BY <1>1, <1>2, <2>1 DEF TypeOK, Holds, Live, Apart
<1>8. CASE Publish(k)
  <2>1. /\ base[k] \in Slots /\ key[base[k]] = k /\ key' = key
        /\ state' = [state EXCEPT ![base[k]] = "SYN_RECEIVED"]
    BY <1>1, <1>8, ProbeSlotInTable DEF Local, Filling, Publish, TypeOK
  <2> QED BY <1>1, <1>5, <2>1 DEF TypeOK
<1>9. CASE Segment(k) \/ Release(k)
  <2>1. /\ base[k] \in Slots /\ key[base[k]] = k /\ key' = key
        /\ \/ state' = [state EXCEPT ![base[k]] = "ESTABLISHED"]
           \/ state' = state
           \/ state' = [state EXCEPT ![base[k]] = "TOMBSTONE"]
    BY <1>1, <1>9 DEF Local, Owning, Holds, Segment, Release
  <2> QED BY <1>1, <1>5, <2>1 DEF TypeOK
<1> QED BY <1>4, <1>6, <1>7, <1>8, <1>9 DEF Invocation

LEMMA PlacedStep == ASSUME IInv, Placed, [Next]_vars PROVE Placed'
<1>1. TypeOK /\ \A k \in Keys : Local(k) /\ Serving(k)
  BY DEF IInv, Placed
<1>2. CASE Dispatch
  BY <1>2 DEF Dispatch, Placed, Serving, Packets
<1>3. ASSUME NEW k \in Keys, Invocation(k) PROVE Placed'
  <2>1. Apart(k)
    BY <1>3, ApartStep
  <2>2. ASSUME NEW l \in Keys \ {k} PROVE Serving(l)'
    <3>1. pc'[l] = pc[l] /\ packet'[l] = packet[l] /\ base'[l] = base[l] /\ Serving(l)
      BY <1>1, <2>1 DEF Apart
    <3>2. pc[l] \in {"established", "release"} => state'[base[l]] = state[base[l]]
      BY <1>1, <2>1 DEF Apart, Local, Owning
    <3> QED BY <3>1, <3>2 DEF Serving
  <2>3. ASSUME NEW reply, Finish(k, reply) PROVE Serving(k)'
    BY <1>1, <2>3 DEF TypeOK, Finish, Goto, Serving
  <2>4. ASSUME NEW label \in {"find", "match", "claim", "exchange", "fill", "publish", "syn", "segment"},
               Goto(k, label), UNCHANGED packet, packet[k] # "none",
               label \in {"claim", "exchange", "fill", "publish", "syn"} => packet[k] = "SYN",
               label = "segment" => packet[k] \in SegmentPackets
        PROVE  Serving(k)'
    BY <1>1, <2>4 DEF TypeOK, Goto, Serving
  <2>5. ASSUME FindLoad(k) PROVE Serving(k)'
    BY <1>1, <2>3, <2>4, <2>5 DEF FindLoad, Miss, NextProbe, Serving
  <2>6. ASSUME FindMatch(k) PROVE Serving(k)'
    <3>1. packet[k] \in Packets /\ packet[k] # "none"
      BY <1>1, <2>6 DEF FindMatch, Serving, TypeOK
    <3>2. CASE NextProbe(k, "find")
      BY <2>4, <3>1, <3>2 DEF NextProbe
    <3>3. CASE \E s : Hit(k, s)
      <4>1. CASE packet[k] = "SYN"
        BY <2>4, <3>1, <3>3, <4>1 DEF Hit
      <4>2. CASE packet[k] = "RST"
        BY <1>1, <3>3, <4>2 DEF Hit, Goto, TypeOK, Serving
      <4>3. CASE packet[k] \in SegmentPackets
        BY <2>4, <3>1, <3>3, <4>3 DEF Hit, SegmentPackets
      <4> QED BY <3>1, <4>1, <4>2, <4>3 DEF Packets, SegmentPackets
    <3> QED BY <2>6, <3>2, <3>3 DEF FindMatch
  <2>7. ASSUME ClaimLoad(k) \/ Exchange(k) PROVE Serving(k)'
    BY <1>1, <2>3, <2>4, <2>7 DEF ClaimLoad, Exchange, NextProbe, Serving
  <2>8. ASSUME Fill(k) \/ Publish(k) PROVE Serving(k)'
    BY <1>1, <2>4, <2>8 DEF Fill, Publish, Serving
  <2>9. ASSUME Syn(k) \/ Release(k) PROVE Serving(k)'
    BY <2>3, <2>9 DEF Syn, Release
  <2>10. ASSUME Segment(k) PROVE Serving(k)'
    <3>1. CASE Finish(k, FALSE)
      BY <2>3, <3>1
    <3>2. CASE Goto(k, "established") /\ state'[base[k]] = "ESTABLISHED" /\ UNCHANGED <<packet, base>>
      BY <1>1, <2>10, <3>2 DEF Goto, Segment, Serving, TypeOK
    <3>3. base[k] \in Slots
      BY <1>1, <2>10 DEF Segment, Local, Owning
    <3> QED BY <1>1, <2>10, <3>1, <3>2, <3>3 DEF Segment, TypeOK
  <2>11. ASSUME Established(k) PROVE Serving(k)'
    <3>1. CASE Goto(k, "release") /\ packet[k] = "FIN" /\ UNCHANGED <<state, packet, base>>
      BY <1>1, <2>11, <3>1 DEF Goto, Established, Serving, TypeOK
    <3> QED BY <2>3, <2>11, <3>1 DEF Established, table
  <2>12. Serving(k)'
    BY <1>3, <2>5, <2>6, <2>7, <2>8, <2>9, <2>10, <2>11 DEF Invocation
  <2> QED BY <2>2, <2>12 DEF Placed
<1>4. CASE UNCHANGED vars
  BY <1>4 DEF vars, Placed, Serving
<1> QED BY <1>2, <1>3, <1>4 DEF Next

-----------------------------------------------------------------------------
(* The connection of a flow.                                               *)

\* What flowOf says, without its choice of a slot.
FlowSeen ==
    /\ flowOf = [k \in Keys |-> flowOf[k]]
    /\ \A k \in Keys, s \in Slots : Holds(s, k) => flowOf[k] = state[s]
    /\ \A k \in Keys : (\A s \in Slots : ~Holds(s, k)) => flowOf[k] = "CLOSED"

LEMMA FlowIsSeen == UniqueFlow => FlowSeen
<1> SUFFICES ASSUME UniqueFlow PROVE FlowSeen
  OBVIOUS
<1>1. flowOf = [k \in Keys |-> flowOf[k]]
  BY DEF flowOf
<1>2. ASSUME NEW k \in Keys, NEW s \in Slots, Holds(s, k) PROVE flowOf[k] = state[s]
  <2>1. (CHOOSE t \in Slots : Holds(t, k)) = s
    BY <1>2 DEF UniqueFlow
  <2> QED BY <1>2, <2>1 DEF flowOf
<1>3. ASSUME NEW k \in Keys, \A s \in Slots : ~Holds(s, k) PROVE flowOf[k] = "CLOSED"
  BY <1>3 DEF flowOf
<1> QED BY <1>1, <1>2, <1>3 DEF FlowSeen

\* A flow whose slot stays as it is keeps its connection.
LEMMA SameConnection ==
    ASSUME FlowSeen, FlowSeen', NEW l \in Keys,
           \A t \in Slots : Holds(t, l)' <=> Holds(t, l),
           \A t \in Slots : Holds(t, l) => state'[t] = state[t]
    PROVE  flowOf'[l] = flowOf[l]
<1>1. CASE \E t \in Slots : Holds(t, l)
  BY <1>1 DEF FlowSeen
<1>2. CASE \A t \in Slots : ~Holds(t, l)
  BY <1>2 DEF FlowSeen
<1> QED BY <1>1, <1>2

\* Only the flow of the step's invocation can change, ...
LEMMA OneFlow ==
    ASSUME FlowSeen, FlowSeen', NEW k \in Keys, Apart(k), NEW st, flowOf'[k] = st
    PROVE  flowOf' = [flowOf EXCEPT ![k] = st]
<1>1. \A l \in Keys \ {k} : flowOf'[l] = flowOf[l]
  BY SameConnection DEF Apart
<1> QED BY <1>1 DEF FlowSeen

\* ... and when the invocation ends, its packet has been served.
LEMMA Served ==
    ASSUME TypeOK, FlowSeen, FlowSeen', NEW k \in Keys, Apart(k), NEW reply, Finish(k, reply),
           NEW st, flowOf'[k] = st
    PROVE  Map!Serve(k, st, reply)
  BY OneFlow DEF Finish, Map!Serve

\* A step that neither ends the invocation nor touches its connection.
LEMMA Unseen ==
    ASSUME FlowSeen, FlowSeen', NEW k \in Keys, Apart(k), UNCHANGED <<packet, emitted>>,
           \A t \in Slots : Holds(t, k)' <=> Holds(t, k),
           \A t \in Slots : Holds(t, k) => state'[t] = state[t]
    PROVE  UNCHANGED <<flowOf, packet, emitted>>
<1>1. flowOf'[k] = flowOf[k]
  BY SameConnection
<1>2. flowOf' = [flowOf EXCEPT ![k] = flowOf[k]]
  BY <1>1, OneFlow
<1> QED BY <1>2 DEF FlowSeen

\* A search that ends without a match: the table does not hold the flow.
LEMMA SearchedAll ==
    ASSUME IInv, NEW k \in Keys, pc[k] = "find",
           \/ probe[k] = Limit
           \/ probe[k] < Limit /\ state[ProbeSlot(k, probe[k])] = "FREE"
    PROVE  \A s \in Slots : ~Holds(s, k)
<1> SUFFICES ASSUME NEW s \in Slots, Holds(s, k) PROVE FALSE
  OBVIOUS
<1>1. PICK i \in 0 .. Limit - 1 : /\ s = ProbeSlot(k, i)
                                  /\ \A j \in 0 .. i : state[ProbeSlot(k, j)] # "FREE"
  BY DEF IInv, Reachable
<1>2. probe[k] \in 0 .. Limit /\ Limit \in Nat
  BY ProbeSlotInTable DEF IInv, TypeOK
<1>3. i < probe[k]
  BY <1>1, <1>2
<1>4. i \in 0 .. probe[k] - 1
  BY <1>2, <1>3
<1> QED BY <1>1, <1>4 DEF IInv, Local, Walked

-----------------------------------------------------------------------------
(* Every step is a step of the map, or none.                               *)

MapStep == Map!Next \/ UNCHANGED <<flowOf, packet, emitted>>

\* A packet without a connection gets no answer.
LEMMA Unanswered ==
    ASSUME IInv, Placed, FlowSeen, FlowSeen', NEW k \in Keys, Apart(k), UNCHANGED table,
           \A s \in Slots : ~Holds(s, k), Finish(k, FALSE), packet[k] \in Packets
    PROVE  Map!Next
<1>1. flowOf[k] = "CLOSED" /\ flowOf'[k] = "CLOSED"
  BY DEF FlowSeen, table, Holds
<1>2. Map!Serve(k, "CLOSED", FALSE)
  BY <1>1, Served DEF IInv
<1>3. CASE packet[k] = "SYN"
  BY <1>1, <1>2, <1>3 DEF Map!Syn, Map!Next
<1>4. CASE packet[k] = "RST"
  BY <1>2, <1>4 DEF Map!Rst, Map!Next
<1>5. CASE packet[k] \in SegmentPackets
  BY <1>1, <1>2, <1>5 DEF Map!Segment, Map!Next, SegmentPackets
<1> QED BY <1>3, <1>4, <1>5 DEF Packets, SegmentPackets

LEMMA SearchMaps ==
    ASSUME IInv, Placed, FlowSeen, FlowSeen', NEW k \in Keys, Apart(k),
           FindLoad(k) \/ FindMatch(k) \/ ClaimLoad(k)
    PROVE  MapStep
<1>1. UNCHANGED table /\ packet[k] \in Packets
  BY DEF FindLoad, FindMatch, ClaimLoad, IInv, TypeOK, Placed, Serving
<1>2. ASSUME UNCHANGED <<packet, emitted>> PROVE MapStep
  BY <1>1, <1>2, Unseen DEF table, Holds, MapStep
<1>3. ASSUME Miss(k), \A s \in Slots : ~Holds(s, k) PROVE MapStep
  <2>1. CASE packet[k] = "SYN"
    BY <1>2, <1>3, <2>1 DEF Miss
  <2>2. CASE packet[k] # "SYN"
    BY <1>1, <1>3, <2>2, Unanswered DEF Miss, MapStep
  <2> QED BY <2>1, <2>2
<1>4. CASE FindLoad(k)
  <2>1. CASE Miss(k) /\ (probe[k] = Limit \/ state[ProbeSlot(k, probe[k])] = "FREE")
    <3>1. probe[k] \in 0 .. Limit /\ Limit \in Nat
      BY ProbeSlotInTable DEF IInv, TypeOK
    <3>2. probe[k] = Limit \/ (probe[k] < Limit /\ state[ProbeSlot(k, probe[k])] = "FREE")
      BY <2>1, <3>1
    <3>3. pc[k] = "find"
      BY <1>4 DEF FindLoad
    <3> QED BY <1>3, <2>1, <3>2, <3>3, SearchedAll
  <2>2. CASE UNCHANGED <<packet, emitted>>
    BY <1>2, <2>2
  <2> QED BY <1>4, <2>1, <2>2 DEF FindLoad, NextProbe
<1>5. CASE FindMatch(k)
  BY <1>2, <1>5 DEF FindMatch, Hit, NextProbe
<1>6. CASE ClaimLoad(k)
  <2>1. CASE Finish(k, FALSE)
    <3>1. \A s \in Slots : ~Holds(s, k)
      BY <1>6 DEF ClaimLoad, IInv, Local, Claiming
    <3> QED BY <1>1, <2>1, <3>1, Unanswered DEF MapStep
  <2>2. CASE UNCHANGED <<packet, emitted>>
    BY <1>2, <2>2
  <2> QED BY <1>6, <2>1, <2>2 DEF ClaimLoad, NextProbe
<1> QED BY <1>4, <1>5, <1>6

LEMMA ClaimMaps ==
    ASSUME IInv, Placed, FlowSeen, FlowSeen', NEW k \in Keys, Apart(k),
           Exchange(k) \/ Fill(k) \/ Publish(k)
    PROVE  MapStep
<1>1. TypeOK /\ Local(k) /\ \A s \in Slots : ~Holds(s, k)
  BY DEF IInv, Local, Claiming, Exchange, Fill, Publish
<1>2. UNCHANGED <<packet, emitted>>
  BY DEF Exchange, Fill, Publish, NextProbe
<1>3. CASE Exchange(k)
  <2>1. CASE UNCHANGED table
    BY <1>2, <2>1, Unseen DEF table, Holds, MapStep
  <2>2. CASE /\ state' = [state EXCEPT ![ProbeSlot(k, probe[k])] = "CLAIMED"]
             /\ key' = key
    <3>1. \A s \in Slots : ~Holds(s, k)'
      BY <1>1, <2>2 DEF TypeOK, Holds, Live
    <3> QED BY <1>1, <1>2, <3>1, Unseen DEF MapStep
  <2> QED BY <1>3, <2>1, <2>2 DEF Exchange
<1>4. CASE Fill(k)
  <2>1. /\ base[k] \in Slots /\ state[base[k]] = "CLAIMED" /\ state' = state
        /\ key' = [key EXCEPT ![base[k]] = k]
    BY <1>1, <1>4, ProbeSlotInTable DEF Local, Filling, Fill, TypeOK
  <2>2. \A s \in Slots : ~Holds(s, k)'
    BY <1>1, <2>1 DEF TypeOK, Holds, Live
  <2> QED BY <1>1, <1>2, <2>2, Unseen DEF MapStep
<1>5. CASE Publish(k)
  <2>0. /\ base[k] \in Slots /\ key[base[k]] = k /\ key' = key
        /\ state' = [state EXCEPT ![base[k]] = "SYN_RECEIVED"]
    BY <1>1, <1>5, ProbeSlotInTable DEF Local, Filling, Publish, TypeOK
  <2>1. PICK s \in Slots : /\ key[s] = k /\ key' = key
                           /\ state' = [state EXCEPT ![s] = "SYN_RECEIVED"]
    BY <2>0
  <2>2. Holds(s, k)' /\ state'[s] = "SYN_RECEIVED"
    BY <1>1, <2>1 DEF TypeOK, Holds, Live
  <2>3. flowOf[k] = "CLOSED" /\ flowOf'[k] = "SYN_RECEIVED"
    <3>1. \A t \in Slots : Holds(t, k)' => flowOf'[k] = state'[t]
      BY DEF FlowSeen
    <3> QED BY <1>1, <2>2, <3>1 DEF FlowSeen
  <2>4. packet[k] = "SYN"
    BY <1>5 DEF Publish, Placed, Serving
  <2>5. flowOf' = [flowOf EXCEPT ![k] = "SYN_RECEIVED"]
    BY <2>3, OneFlow
  <2> QED BY <1>2, <2>3, <2>4, <2>5 DEF Map!Open, Map!Next, MapStep
<1> QED BY <1>3, <1>4, <1>5

LEMMA ConnectionMaps ==
    ASSUME IInv, Placed, FlowSeen, FlowSeen', NEW k \in Keys, Apart(k),
           Syn(k) \/ Segment(k) \/ Established(k) \/ Release(k)
    PROVE  MapStep
<1>0. base[k] \in Slots /\ Holds(base[k], k)
  BY DEF IInv, Local, Owning, Syn, Segment, Established, Release
<1> PICK s \in Slots : s = base[k]
  BY <1>0
<1>1. /\ TypeOK /\ s = base[k] /\ Holds(s, k) /\ \A t \in Slots : Holds(t, k) => t = s
      /\ key[s] = k /\ key' = key /\ state[s] \in Live
  BY <1>0 DEF IInv, UniqueFlow, Syn, Segment, Established, Release, Holds, table
<1>2. flowOf[k] = state[s]
  BY <1>1 DEF FlowSeen
<1>3. CASE state' = state
  <2>1. flowOf'[k] = state[s]
    BY <1>1, <1>3 DEF FlowSeen, Holds
  <2>2. ASSUME UNCHANGED <<packet, emitted>> PROVE MapStep
    BY <1>1, <1>3, <2>2, Unseen DEF Holds, MapStep
  <2>3. ASSUME NEW reply, Finish(k, reply) PROVE Map!Serve(k, flowOf[k], reply)
    BY <1>1, <1>2, <2>1, <2>3, Served
  <2>4. CASE Syn(k)
    <3>1. packet[k] = "SYN" /\ flowOf[k] # "CLOSED"
      BY <1>1, <1>2, <2>4 DEF Syn, Placed, Serving, Live
    <3>2. Finish(k, TRUE)
      BY <1>1, <2>4 DEF Syn
    <3> QED BY <2>3, <3>1, <3>2 DEF Map!Syn, Map!Next, MapStep
  <2>5. CASE Segment(k)
    <3>1. packet[k] \in SegmentPackets
      BY <2>5 DEF Segment, Placed, Serving
    <3>2. CASE Finish(k, FALSE) /\ state[s] # "ESTABLISHED"
      BY <1>2, <2>3, <3>1, <3>2 DEF Map!Segment, Map!Next, MapStep, SegmentPackets
    <3>3. CASE UNCHANGED <<packet, emitted>>
      BY <2>2, <3>3
    <3> QED BY <1>1, <2>5, <3>2, <3>3 DEF Segment
  <2>6. CASE Established(k)
    <3>1. packet[k] \in SegmentPackets /\ flowOf[k] = "ESTABLISHED"
      BY <1>1, <1>2, <2>6 DEF Established, Placed, Serving
    <3>2. CASE Finish(k, TRUE)
      BY <2>3, <3>1, <3>2 DEF Map!Segment, Map!Next, MapStep, SegmentPackets
    <3>3. CASE packet[k] = "ACK" /\ Finish(k, FALSE)
      BY <2>3, <3>1, <3>3 DEF Map!Segment, Map!Next, MapStep, SegmentPackets
    <3>4. CASE UNCHANGED <<packet, emitted>>
      BY <2>2, <3>4
    <3> QED BY <2>6, <3>2, <3>3, <3>4 DEF Established
  <2>7. CASE Release(k)
    <3>1. state'[s] = "TOMBSTONE"
      BY <1>1, <2>7 DEF Release, TypeOK
    <3> QED BY <1>1, <1>3, <3>1 DEF Live
  <2> QED BY <2>4, <2>5, <2>6, <2>7
<1>4. CASE Segment(k) /\ state[s] = "SYN_RECEIVED" /\ state' = [state EXCEPT ![s] = "ESTABLISHED"]
                      /\ UNCHANGED <<packet, emitted>>
  <2>1. Holds(s, k)' /\ state'[s] = "ESTABLISHED"
    BY <1>1, <1>4 DEF Holds, Live, TypeOK, Segment
  <2>2. flowOf'[k] = "ESTABLISHED"
    <3>1. \A t \in Slots : Holds(t, k)' => flowOf'[k] = state'[t]
      BY DEF FlowSeen
    <3> QED BY <2>1, <3>1
  <2>3. packet[k] \in SegmentPackets
    BY <1>4 DEF Segment, Placed, Serving
  <2>4. flowOf' = [flowOf EXCEPT ![k] = "ESTABLISHED"]
    BY <2>2, OneFlow
  <2> QED BY <1>2, <1>4, <2>3, <2>4 DEF Map!Establish, Map!Next, MapStep, SegmentPackets
<1>5. CASE Release(k)
  <2>1. state'[s] = "TOMBSTONE" /\ \A t \in Slots \ {s} : state'[t] = state[t]
    BY <1>1, <1>5 DEF Release, TypeOK
  <2>2. \A t \in Slots : ~Holds(t, k)'
    BY <1>1, <2>1 DEF Holds, Live
  <2>3. flowOf'[k] = "CLOSED"
    BY <2>2 DEF FlowSeen
  <2>4. Finish(k, packet[k] # "RST")
    BY <1>5 DEF Release
  <2>5. Map!Serve(k, "CLOSED", packet[k] # "RST")
    BY <1>1, <2>3, <2>4, Served
  <2>6. packet[k] = "RST" \/ (packet[k] = "FIN" /\ flowOf[k] = "ESTABLISHED")
    BY <1>1, <1>2, <1>5 DEF Release, Placed, Serving
  <2>7. CASE packet[k] = "RST"
    <3>1. Map!Serve(k, "CLOSED", FALSE)
      BY <2>4, <2>7, <2>3, <1>1, Served
    <3> QED BY <2>7, <3>1 DEF Map!Rst, Map!Next, MapStep
  <2>8. CASE packet[k] = "FIN" /\ flowOf[k] = "ESTABLISHED"
    <3>1. Map!Serve(k, "CLOSED", TRUE)
      BY <2>4, <2>8, <2>3, <1>1, Served
    <3> QED BY <2>8, <3>1 DEF Map!Segment, Map!Next, MapStep
  <2> QED BY <2>6, <2>7, <2>8
<1> QED BY <1>1, <1>3, <1>4, <1>5 DEF Syn, Segment, Established, Release, table

\* The invocations of a dispatch, racing for slots, are as good as one atomic
\* map from flows to connections, for every table, hash and set of flows.
THEOREM RacesAreAtomic == ASSUME StrongDevice PROVE Spec => ImplementsMap
<1>1. IInv => FlowSeen
  BY FlowIsSeen DEF IInv
<1>2. Init => Placed /\ Map!Init
  <2> SUFFICES ASSUME Init PROVE Placed /\ Map!Init
    OBVIOUS
  <2>1. FlowSeen
    BY <1>1, InitIInv
  <2>2. Placed
    BY DEF Init, Placed, Serving
  <2>3. \A k \in Keys : flowOf[k] = "CLOSED"
    BY <2>1 DEF Init, FlowSeen, Holds, Live
  <2>4. flowOf = [k \in Keys |-> "CLOSED"]
    BY <2>1, <2>3 DEF FlowSeen
  <2> QED BY <2>2, <2>4 DEF Init, Map!Init
<1>3. IInv /\ Placed /\ [Next]_vars => Placed'
  BY PlacedStep
<1>4. IInv /\ IInv' /\ Placed /\ FlowSeen /\ FlowSeen' /\ [Next]_vars => [Map!Next]_(Map!vars)
  <2> SUFFICES ASSUME IInv, IInv', Placed, FlowSeen, FlowSeen', [Next]_vars PROVE MapStep
    BY DEF MapStep, Map!vars
  <2>1. ASSUME NEW k \in Keys, Invocation(k) PROVE MapStep
    BY <2>1, ApartStep, SearchMaps, ClaimMaps, ConnectionMaps DEF Invocation
  <2>2. CASE Dispatch
    <3>1. state' = state /\ key' = key /\ \A k \in Keys : packet[k] = "none"
      BY <2>2 DEF Dispatch, Placed, Serving
    <3>2. \A k \in Keys : flowOf'[k] = flowOf[k]
      BY <3>1, SameConnection DEF Holds
    <3>3. flowOf' = flowOf
      BY <3>2 DEF FlowSeen
    <3>4. packet' \in [Keys -> Packets \cup {"none"}] /\ emitted' = [k \in Keys |-> FALSE]
      BY <2>2 DEF Dispatch
    <3> QED BY <3>1, <3>3, <3>4 DEF Map!Dispatch, Map!Next, Map!Packets, Packets, MapStep
  <2>3. CASE UNCHANGED vars
    <3>1. UNCHANGED <<state, key, packet, emitted>>
      BY <2>3 DEF vars
    <3>2. \A k \in Keys : flowOf'[k] = flowOf[k]
      BY <3>1, SameConnection DEF Holds
    <3> QED BY <3>1, <3>2 DEF FlowSeen, MapStep
  <2> QED BY <2>1, <2>2, <2>3 DEF Next
<1> QED BY <1>1, <1>2, <1>3, <1>4, Invariance, PTL DEF Spec, ImplementsMap, Map!Spec
=============================================================================
