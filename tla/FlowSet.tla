------------------------------- MODULE FlowSet -------------------------------
(***************************************************************************)
(* FlowSet of src/packet/mod.rs: the scheduler's set of the flows of a     *)
(* wave.  Emptying it is counting up a generation: a slot whose generation *)
(* is another one is empty.  The table only grows, so a later wave probes  *)
(* a table larger than it needs; the counter wraps around.  PacketWire     *)
(* drives it with the waves of the scheduler.                              *)
(***************************************************************************)
EXTENDS Integers, FiniteSets

CONSTANTS
    Keys,         \* flow keys
    NoKey,        \* the zeroed key of a new slot
    Hash,         \* wire::flow_hash
    GenMod,       \* generations are numbers modulo GenMod (2^32)
    MaxExpected   \* bound on the packets a wave is filled from

ASSUME FlowSetAssumption ==
    /\ Hash \in [Keys -> Nat]
    /\ GenMod \in Nat /\ GenMod > 1
    /\ MaxExpected \in Nat

VARIABLES
    keys,         \* keys[i], a vector indexed from 0
    generations,  \* the generation that wrote keys[i]
    generation,   \* the current one
    left,         \* packets the caller of begin still has to insert
    asked,        \* history: the key of the last insert, NoKey after begin
    inserted      \* what it returned

setVars == <<keys, generations, generation, left, asked, inserted>>

Indices == DOMAIN keys
Size == Cardinality(Indices)

PowerOfTwo(n) ==
    LET power[e \in 0 .. n] == IF e = 0 THEN 1 ELSE 2 * power[e - 1]
    IN \E e \in 0 .. n : n = power[e]
NextPowerOfTwo(n) == CHOOSE p \in n .. 2 * n :
                        PowerOfTwo(p) /\ \A q \in n .. p - 1 : ~PowerOfTwo(q)

SetInit ==
    /\ keys = [i \in {} |-> NoKey] /\ generations = [i \in {} |-> 0]
    /\ generation = 0
    /\ left = 0 /\ asked = NoKey /\ inserted = FALSE

\* resize
Grown(vector, capacity, value) ==
    [i \in 0 .. capacity - 1 |-> IF i \in Indices THEN vector[i] ELSE value]

\* Mutant: the slots are not reset when the counter wraps.
AdvancedUnfilled(grown) ==
    LET gen == (generation + 1) % GenMod
    IN  /\ generation' = IF gen = 0 THEN 1 ELSE gen
        /\ generations' = grown

\* The next generation; when the counter wraps all slots are marked stale and
\* generation 0 is skipped.
Advanced(grown) ==
    LET gen == (generation + 1) % GenMod
    IN  /\ generation' = IF gen = 0 THEN 1 ELSE gen
        /\ generations' = IF gen = 0 THEN [i \in DOMAIN grown |-> 0] ELSE grown

\* begin: the fill loops call it with the number of pending packets and insert
\* the key of each at most once.
Begin(expected) ==
    /\ LET wanted == 2 * (IF expected > 1 THEN expected ELSE 1)
           rounded == NextPowerOfTwo(wanted)
           capacity == IF Size < rounded THEN rounded ELSE Size
       IN  /\ keys' = Grown(keys, capacity, NoKey)
           /\ Advanced(Grown(generations, capacity, 0))
    /\ left' = expected
    /\ asked' = NoKey /\ inserted' = FALSE

\* The scheduler does not ask for a packet that has no flow key or no room.
Pass ==
    /\ left > 0
    /\ left' = left - 1
    /\ UNCHANGED <<keys, generations, generation, asked, inserted>>

ProbeIndex(key, i) == (Hash[key] + i) % Size

Stale(i) == generations[i] # generation

\* Mutant: the first slot that is not stale decides.
InsertOneProbe(key) ==
    /\ left > 0
    /\ left' = left - 1 /\ asked' = key
    /\ LET i == ProbeIndex(key, 0) IN
       /\ inserted' = Stale(i)
       /\ keys' = IF Stale(i) THEN [keys EXCEPT ![i] = key] ELSE keys
       /\ generations' = [generations EXCEPT ![i] = generation]
    /\ UNCHANGED generation

\* insert: the first slot of the probe sequence that is stale or holds the key.
Insert(key) ==
    /\ left > 0
    /\ left' = left - 1 /\ asked' = key
    /\ \E n \in 0 .. Size - 1 :
          LET i == ProbeIndex(key, n) IN
          /\ Stale(i) \/ keys[i] = key
          /\ \A m \in 0 .. n - 1 : LET j == ProbeIndex(key, m)
                                   IN  ~Stale(j) /\ keys[j] # key
          /\ inserted' = Stale(i)
          /\ keys' = [keys EXCEPT ![i] = key]
          /\ generations' = [generations EXCEPT ![i] = generation]
    /\ UNCHANGED generation

\* What the scheduler does with its set.
SetNext ==
    \/ \E expected \in 0 .. MaxExpected : Begin(expected)
    \/ Pass
    \/ \E key \in Keys : Insert(key)

SetSpec == SetInit /\ [][SetNext]_setVars

-----------------------------------------------------------------------------
TypeOK ==
    /\ keys \in [Indices -> Keys \cup {NoKey}]
    /\ generations \in [Indices -> 0 .. GenMod - 1]
    /\ generation \in 0 .. GenMod - 1
    /\ Size = 0 \/ PowerOfTwo(Size)
    /\ left \in 0 .. MaxExpected /\ asked \in Keys \cup {NoKey} /\ inserted \in BOOLEAN

\* The probe loop of insert has no bound of its own: it ends because the table
\* is never full, whatever earlier waves have left in it.
ProbeEnds == left > 0 => \E i \in Indices : Stale(i)

\* The table is a set of keys: no key of an earlier wave comes back when the
\* table grows or the generation wraps around, and no collision hides one.
Set == INSTANCE KeySet WITH members <- {keys[i] : i \in {j \in Indices : ~Stale(j)}}
ImplementsSet == Set!Spec
=============================================================================
