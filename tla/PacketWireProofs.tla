--------------------------- MODULE PacketWireProofs ---------------------------
(***************************************************************************)
(* For every table of the scheduler's FlowSet, hash function and number of *)
(* generations: the probe loop ends and the table is a set of keys.  For   *)
(* every batch of packets: the shader reads each as the CPU does, no two   *)
(* of a wave are of one flow.  For every table of responses: what the sink *)
(* gets for a packet is what the CPU builds for its reply, and its         *)
(* checksums are accepted.                                                 *)
(***************************************************************************)
EXTENDS PacketWire, FiniteSetTheorems, Inductions

-----------------------------------------------------------------------------
(* Powers of two.                                                          *)

Doubles(f, N) == f = [e \in 0 .. N |-> IF e = 0 THEN 1 ELSE 2 * f[e - 1]]

LEMMA DoublesExist == ASSUME NEW N \in Nat PROVE \E f : Doubles(f, N)
<1> DEFINE double == [x \in Nat |-> 2 * x]
           steps == [n \in 1 .. N |-> double]
<1>1. double \in [Nat -> Nat]
  OBVIOUS
<1>2. steps \in [1 .. N -> [Nat -> Nat]]
  <2> HIDE DEF double
  <2> QED BY <1>1
<1>3. PICK g : Iterates(g, N, Nat, 1, steps)
  <2> HIDE DEF steps
  <2> QED BY <1>2, Iteration
<1>4. g \in [0 .. N -> Nat] /\ g[0] = 1
  BY <1>3 DEF Iterates
<1> DEFINE h == [e \in 0 .. N |-> IF e = 0 THEN 1 ELSE 2 * g[e - 1]]
<1>5. ASSUME NEW n \in 0 .. N PROVE g[n] = h[n]
  <2>1. CASE n = 0
    BY <1>4, <2>1
  <2>2. CASE n # 0
    <3>1. n - 1 \in 0 .. N - 1 /\ n - 1 \in 0 .. N /\ (n - 1) + 1 = n /\ n \in 1 .. N
      BY <2>2
    <3>2. g[(n - 1) + 1] = steps[(n - 1) + 1][g[n - 1]]
      <4> HIDE DEF steps
      <4> QED BY <1>3, <3>1 DEF Iterates
    <3>3. g[n - 1] \in Nat
      BY <1>4, <3>1
    <3>4. steps[n] = double
      <4> HIDE DEF double
      <4> QED BY <3>1
    <3>5. double[g[n - 1]] = 2 * g[n - 1]
      BY <3>3
    <3> HIDE DEF steps, double
    <3> QED BY <2>2, <3>1, <3>2, <3>4, <3>5
  <2> QED BY <2>1, <2>2
<1>6. g = h
  <2> HIDE DEF steps
  <2> QED BY <1>4, <1>5
<1> QED BY <1>6 DEF Doubles

LEMMA DoublesValues ==
    ASSUME NEW N \in Nat, NEW f, Doubles(f, N)
    PROVE  /\ f[0] = 1
           /\ \A e \in 0 .. N - 1 : f[e + 1] = 2 * f[e]
           /\ \A e \in 0 .. N : f[e] \in Nat /\ f[e] > e
<1>1. \A e \in 0 .. N : f[e] = IF e = 0 THEN 1 ELSE 2 * f[e - 1]
  BY ZenonT(20) DEF Doubles
<1>2. f[0] = 1
  BY <1>1
<1>3. ASSUME NEW e \in 0 .. N - 1 PROVE f[e + 1] = 2 * f[e]
  <2>1. e + 1 \in 0 .. N /\ e + 1 # 0 /\ (e + 1) - 1 = e
    OBVIOUS
  <2>2. f[e + 1] = 2 * f[(e + 1) - 1]
    BY <1>1, <2>1
  <2> QED BY <2>1, <2>2
<1> DEFINE S == {e \in Nat : e <= N => f[e] \in Nat /\ f[e] > e}
<1>4. 0 \in S
  BY <1>2
<1>5. ASSUME NEW e \in Nat, e \in S PROVE e + 1 \in S
  <2> SUFFICES ASSUME e + 1 <= N PROVE f[e + 1] \in Nat /\ f[e + 1] > e + 1
    OBVIOUS
  <2>1. f[e] \in Nat /\ f[e] > e
    BY <1>5
  <2>2. f[e + 1] = 2 * f[e]
    BY <1>3
  <2> QED BY <2>1, <2>2
<1> HIDE DEF S
<1>6. Nat \subseteq S
  BY <1>4, <1>5, Induction
<1>7. ASSUME NEW e \in 0 .. N PROVE f[e] \in Nat /\ f[e] > e
  <2>1. e \in S
    BY <1>6
  <2> QED BY <2>1 DEF S
<1> QED BY <1>2, <1>3, <1>7

LEMMA DoublesAgree ==
    ASSUME NEW N \in Nat, NEW f, Doubles(f, N), NEW M \in Nat, NEW g, Doubles(g, M),
           NEW e \in Nat, e <= N, e <= M
    PROVE  f[e] = g[e]
<1>1. f[0] = 1 /\ \A n \in 0 .. N - 1 : f[n + 1] = 2 * f[n]
  BY DoublesValues
<1>2. g[0] = 1 /\ \A n \in 0 .. M - 1 : g[n + 1] = 2 * g[n]
  BY DoublesValues
<1> DEFINE S == {n \in Nat : n <= N /\ n <= M => f[n] = g[n]}
<1>3. 0 \in S
  BY <1>1, <1>2
<1>4. ASSUME NEW n \in Nat, n \in S PROVE n + 1 \in S
  BY <1>1, <1>2, <1>4
<1> HIDE DEF S
<1>5. Nat \subseteq S
  BY <1>3, <1>4, Induction
<1> QED BY <1>5 DEF S

LEMMA IsPower ==
    ASSUME NEW N \in Nat, NEW f, Doubles(f, N), NEW e \in 0 .. N
    PROVE  PowerOfTwo(f[e])
<1> DEFINE p == f[e]
           power == CHOOSE g : g = [d \in 0 .. p |-> IF d = 0 THEN 1 ELSE 2 * g[d - 1]]
<1>1. p \in Nat /\ e <= p
  BY DoublesValues
<1>2. Doubles(power, p)
  <2> HIDE DEF p
  <2>1. PICK g : Doubles(g, p)
    BY <1>1, DoublesExist
  <2> QED BY <2>1 DEF Doubles
<1>3. power[e] = p
  <2>1. f[e] = power[e]
    <3> HIDE DEF p, power
    <3> QED BY <1>1, <1>2, DoublesAgree
  <2> QED BY <2>1
<1>4. e \in 0 .. p
  BY <1>1
<1>5. PowerOfTwo(p)
  <2> HIDE DEF p
  <2> QED BY <1>3, <1>4, Zenon DEF PowerOfTwo
<1> QED BY <1>5

\* next_power_of_two: there is one between a number and its double.
LEMMA NextPower ==
    ASSUME NEW n \in Nat, n > 0
    PROVE  NextPowerOfTwo(n) \in n .. 2 * n /\ PowerOfTwo(NextPowerOfTwo(n))
<1>1. PICK f : Doubles(f, n)
  BY DoublesExist
<1>2. /\ f[0] = 1
      /\ \A e \in 0 .. n - 1 : f[e + 1] = 2 * f[e]
      /\ \A e \in 0 .. n : f[e] \in Nat /\ f[e] > e
  BY <1>1, DoublesValues
<1> DEFINE T == {e \in 0 .. n : f[e] >= n}
<1>3. T \subseteq Nat /\ n \in T
  BY <1>2
<1>4. PICK e \in T : \A d \in T : e <= d
  <2> HIDE DEF T
  <2> QED BY <1>3, Least
<1>5. f[e] \in n .. 2 * n
  <2>1. CASE e = 0
    BY <1>2, <1>4, <2>1
  <2>2. CASE e # 0
    <3>1. e - 1 \in 0 .. n - 1 /\ e - 1 \in 0 .. n /\ (e - 1) + 1 = e /\ f[e] >= n
      BY <1>4, <2>2
    <3>2. e - 1 \notin T
      BY <1>4, <3>1
    <3>3. f[e - 1] < n /\ f[e - 1] \in Nat
      BY <1>2, <3>1, <3>2
    <3>4. f[(e - 1) + 1] = 2 * f[e - 1]
      BY <1>2, <3>1
    <3> QED BY <3>1, <3>3, <3>4
  <2> QED BY <2>1, <2>2
<1>6. PowerOfTwo(f[e])
  BY <1>1, <1>4, IsPower
<1> DEFINE P == {p \in n .. 2 * n : PowerOfTwo(p)}
<1>7. P \subseteq Nat /\ P # {}
  BY <1>5, <1>6
<1>8. PICK p \in P : \A q \in P : p <= q
  <2> HIDE DEF P
  <2> QED BY <1>7, Least
<1>9. p \in n .. 2 * n /\ PowerOfTwo(p) /\ \A q \in n .. p - 1 : ~PowerOfTwo(q)
  <2>1. ASSUME NEW q \in n .. p - 1, PowerOfTwo(q) PROVE FALSE
    <3>1. p \in n .. 2 * n
      BY <1>8
    <3>2. q \in n .. 2 * n /\ q < p
      BY <3>1
    <3> QED BY <1>8, <2>1, <3>2
  <2> QED BY <1>8, <2>1
<1> QED BY <1>9 DEF NextPowerOfTwo

-----------------------------------------------------------------------------
(* The set of the scheduler.                                               *)

Fresh == {i \in Indices : ~Stale(i)}
Members == {keys[i] : i \in Fresh}

\* The vectors have the same length and no generation is ahead of the current
\* one: counting up makes every slot stale.
Shape ==
    /\ Size \in Nat /\ Indices = 0 .. Size - 1 /\ DOMAIN generations = Indices
    /\ generation \in 0 .. GenMod - 1
    /\ \A i \in Indices : generations[i] \in 0 .. generation

\* What is still to be inserted has room.
Room == left \in Nat /\ left + Cardinality(Fresh) <= Size

\* A key lies on its probe sequence behind fresh slots with other keys.
Probe(key, n, size) == (Hash[key] + n) % size
Leads(ks, fresh, size, key, n) ==
    \A m \in 0 .. n - 1 : Probe(key, m, size) \in fresh /\ ks[Probe(key, m, size)] # key
Chained(ks, fresh, size) ==
    \A i \in fresh : \E n \in 0 .. size - 1 :
        i = Probe(ks[i], n, size) /\ Leads(ks, fresh, size, ks[i], n)

Placed == Chained(keys, Fresh, Size)

SetInv == Shape /\ Room /\ Placed

LEMMA SizeOf == \A N \in Nat : IsFiniteSet(0 .. N - 1) /\ Cardinality(0 .. N - 1) = N
<1>1. ASSUME NEW N \in Nat PROVE IsFiniteSet(0 .. N - 1) /\ Cardinality(0 .. N - 1) = N
  <2>1. 0 \in Int /\ N - 1 \in Int
    OBVIOUS
  <2>2. IsFiniteSet(0 .. N - 1) /\ Cardinality(0 .. N - 1) = IF 0 > N - 1 THEN 0 ELSE (N - 1) - 0 + 1
    BY <2>1, FS_Interval
  <2> QED BY <2>2
<1> QED BY <1>1

LEMMA FreshFinite == ASSUME Shape PROVE IsFiniteSet(Fresh) /\ Cardinality(Fresh) \in Nat
<1>1. Fresh \subseteq 0 .. Size - 1 /\ Size \in Nat
  BY DEF Shape, Fresh
<1>2. IsFiniteSet(Fresh)
  BY <1>1, SizeOf, FS_Subset
<1> QED BY <1>2, FS_CardinalityType

LEMMA SetStart == SetInit => SetInv
<1> SUFFICES ASSUME SetInit PROVE SetInv
  OBVIOUS
<1>1. Indices = {} /\ DOMAIN generations = {}
  BY DEF SetInit, Indices
<1>2. Size = 0 /\ Fresh = {} /\ Cardinality(Fresh) = 0
  BY <1>1, FS_EmptySet DEF Size, Fresh
<1>3. GenMod > 1 /\ GenMod \in Nat
  BY FlowSetAssumption
<1>4. 0 .. Size - 1 = {}
  BY <1>2
<1> QED BY <1>1, <1>2, <1>3, <1>4 DEF SetInit, SetInv, Shape, Room, Placed, Chained

\* A slot is stale after begin, be it new, of an earlier wave or from before the
\* generations started again; and there is room for all that is expected.
LEMMA BeginStep ==
    ASSUME SetInv, NEW expected \in 0 .. MaxExpected, Begin(expected)
    PROVE  SetInv' /\ Fresh' = {}
<1> DEFINE wanted == 2 * (IF expected > 1 THEN expected ELSE 1)
           rounded == NextPowerOfTwo(wanted)
           capacity == IF Size < rounded THEN rounded ELSE Size
           grown == Grown(generations, capacity, 0)
           next == (generation + 1) % GenMod
<1>1. expected \in Nat /\ wanted \in Nat /\ wanted > 0 /\ wanted >= expected
  BY FlowSetAssumption
<1>2. rounded \in wanted .. 2 * wanted
  <2> HIDE DEF wanted
  <2> QED BY <1>1, NextPower
<1>3. Size \in Nat /\ capacity \in Nat /\ capacity >= expected /\ capacity >= Size /\ capacity > 0
  <2> HIDE DEF wanted, rounded
  <2> QED BY <1>1, <1>2 DEF SetInv, Shape
<1>4. keys' = Grown(keys, capacity, NoKey) /\ Advanced(grown) /\ left' = expected
  BY DEF Begin
<1> HIDE DEF wanted, rounded, capacity
<1>5. Indices' = 0 .. capacity - 1 /\ Size' = capacity
  <2>1. DOMAIN keys' = 0 .. capacity - 1
    BY <1>4 DEF Grown
  <2> QED BY <1>3, <2>1, SizeOf DEF Indices, Size
<1>6. DOMAIN grown = 0 .. capacity - 1
      /\ \A i \in 0 .. capacity - 1 : grown[i] \in 0 .. generation
  <2>1. \A i \in 0 .. capacity - 1 : grown[i] = IF i \in Indices THEN generations[i] ELSE 0
    BY DEF Grown
  <2>2. generation \in Nat /\ \A i \in Indices : generations[i] \in 0 .. generation
    BY FlowSetAssumption DEF SetInv, Shape
  <2> QED BY <2>1, <2>2 DEF Grown
<1>7. /\ GenMod \in Nat /\ GenMod > 1 /\ generation \in 0 .. GenMod - 1
      /\ next = IF generation = GenMod - 1 THEN 0 ELSE generation + 1
  <2>1. GenMod \in Nat /\ GenMod > 1 /\ generation \in 0 .. GenMod - 1
    BY FlowSetAssumption DEF SetInv, Shape
  <2>2. CASE generation = GenMod - 1
    <3>1. generation + 1 = GenMod /\ GenMod % GenMod = 0
      BY <2>1, <2>2
    <3> QED BY <2>1, <2>2, <3>1
  <2>3. CASE generation # GenMod - 1
    BY <2>1, <2>3
  <2> QED BY <2>1, <2>2, <2>3
<1> HIDE DEF grown, next
<1>8. generation' = (IF next = 0 THEN 1 ELSE next)
      /\ generations' = IF next = 0 THEN [i \in DOMAIN grown |-> 0] ELSE grown
  BY <1>4 DEF Advanced, next
<1>9. /\ generation' \in 0 .. GenMod - 1
      /\ DOMAIN generations' = 0 .. capacity - 1
      /\ \A i \in 0 .. capacity - 1 : generations'[i] \in 0 .. generation' /\ generations'[i] # generation'
  <2>1. CASE next = 0
    BY <1>6, <1>7, <1>8, <2>1
  <2>2. CASE next # 0
    BY <1>6, <1>7, <1>8, <2>2
  <2> QED BY <2>1, <2>2
<1>10. Fresh' = {}
  BY <1>5, <1>9 DEF Fresh, Stale
<1>11. Shape'
  BY <1>3, <1>5, <1>9 DEF Shape
<1>12. Room'
  <2>1. Cardinality(Fresh') = 0
    BY <1>10, FS_EmptySet
  <2> QED BY <1>1, <1>3, <1>4, <1>5, <2>1 DEF Room
<1> QED BY <1>10, <1>11, <1>12 DEF SetInv, Placed, Chained

LEMMA ProbeType ==
    ASSUME Shape, NEW key \in Keys, NEW n \in 0 .. Size - 1
    PROVE  ProbeIndex(key, n) \in Indices /\ ProbeIndex(key, n) = Probe(key, n, Size)
<1>1. Size \in Nat /\ Size > 0 /\ Hash[key] + n \in Nat /\ Indices = 0 .. Size - 1
  BY FlowSetAssumption DEF Shape
<1> QED BY <1>1 DEF ProbeIndex, Probe

\* A key that is written to the first slot that is not in use, or has it, is
\* where a search for it ends, and no other search ends earlier or later.
LEMMA StillChained ==
    ASSUME NEW ks, NEW ls, NEW fresh, NEW size \in Nat, Chained(ks, fresh, size),
           NEW key, NEW n \in 0 .. size - 1, NEW i, i = Probe(key, n, size),
           i \in fresh => ks[i] = key, Leads(ks, fresh, size, key, n),
           ls[i] = key, \A j \in fresh : j # i => ls[j] = ks[j]
    PROVE  Chained(ls, fresh \cup {i}, size)
<1>1. ASSUME NEW j \in fresh, j # i
      PROVE  \E m \in 0 .. size - 1 : j = Probe(ls[j], m, size) /\ Leads(ls, fresh \cup {i}, size, ls[j], m)
  <2>1. PICK m \in 0 .. size - 1 : j = Probe(ks[j], m, size) /\ Leads(ks, fresh, size, ks[j], m)
    BY DEF Chained
  <2>2. ls[j] = ks[j]
    BY <1>1
  <2>3. ASSUME NEW d \in 0 .. m - 1
        PROVE  Probe(ks[j], d, size) \in fresh \cup {i} /\ ls[Probe(ks[j], d, size)] # ks[j]
    <3> DEFINE at == Probe(ks[j], d, size)
    <3>1. at \in fresh /\ ks[at] # ks[j]
      BY <2>1 DEF Leads
    <3> HIDE DEF at
    <3>2. at = i => ls[at] = key /\ ks[at] = key
      BY <3>1
    <3>3. at # i => ls[at] = ks[at]
      BY <3>1
    <3>4. at \in fresh \cup {i} /\ ls[at] # ks[j]
      BY <3>1, <3>2, <3>3
    <3> QED BY <3>4 DEF at
  <2> QED BY <2>1, <2>2, <2>3 DEF Leads
<1>2. i = Probe(ls[i], n, size) /\ Leads(ls, fresh \cup {i}, size, ls[i], n)
  <2>1. ASSUME NEW d \in 0 .. n - 1
        PROVE  Probe(key, d, size) \in fresh \cup {i} /\ ls[Probe(key, d, size)] # key
    <3> DEFINE at == Probe(key, d, size)
    <3>1. at \in fresh /\ ks[at] # key
      BY DEF Leads
    <3> HIDE DEF at
    <3>2. at # i
      BY <3>1
    <3> QED BY <3>1, <3>2 DEF at
  <2> QED BY <2>1 DEF Leads
<1> QED BY <1>1, <1>2 DEF Chained

\* The slot at which insert stops is fresh exactly when the key is there.
LEMMA StopsAtKey ==
    ASSUME NEW ks, NEW fresh, NEW size \in Nat, Chained(ks, fresh, size),
           NEW key, NEW n \in 0 .. size - 1, NEW i, i = Probe(key, n, size),
           i \in fresh => ks[i] = key, Leads(ks, fresh, size, key, n)
    PROVE  i \in fresh <=> \E j \in fresh : ks[j] = key
<1>1. ASSUME NEW j \in fresh, ks[j] = key, i \notin fresh PROVE FALSE
  <2>1. PICK m \in 0 .. size - 1 : j = Probe(ks[j], m, size) /\ Leads(ks, fresh, size, ks[j], m)
    BY DEF Chained
  <2>2. j = Probe(key, m, size) /\ Leads(ks, fresh, size, key, m)
    BY <1>1, <2>1
  <2>3. CASE m < n
    <3>1. m \in 0 .. n - 1
      BY <2>3
    <3> QED BY <1>1, <2>2, <3>1 DEF Leads
  <2>4. CASE m = n
    BY <1>1, <2>2, <2>4
  <2>5. CASE m > n
    <3>1. n \in 0 .. m - 1
      BY <2>5
    <3> QED BY <1>1, <2>2, <3>1 DEF Leads
  <2> QED BY <2>3, <2>4, <2>5
<1> QED BY <1>1

\* insert changes one slot, which was stale or had the key.
LEMMA InsertStep ==
    ASSUME SetInv, NEW key \in Keys, Insert(key)
    PROVE  /\ SetInv'
           /\ Members' = Members \cup {key}
           /\ inserted' = (key \notin Members)
<1>1. PICK n \in 0 .. Size - 1 :
          LET i == ProbeIndex(key, n) IN
          /\ Stale(i) \/ keys[i] = key
          /\ \A m \in 0 .. n - 1 : LET j == ProbeIndex(key, m)
                                   IN  ~Stale(j) /\ keys[j] # key
          /\ inserted' = Stale(i)
          /\ keys' = [keys EXCEPT ![i] = key]
          /\ generations' = [generations EXCEPT ![i] = generation]
  BY DEF Insert
<1> DEFINE i == ProbeIndex(key, n)
<1>2. /\ Stale(i) \/ keys[i] = key
      /\ \A m \in 0 .. n - 1 : ~Stale(ProbeIndex(key, m)) /\ keys[ProbeIndex(key, m)] # key
      /\ inserted' = Stale(i)
      /\ keys' = [keys EXCEPT ![i] = key]
      /\ generations' = [generations EXCEPT ![i] = generation]
      /\ left > 0 /\ left' = left - 1 /\ generation' = generation
  BY <1>1 DEF Insert
<1>3. Size \in Nat /\ Shape /\ i \in Indices /\ i = Probe(key, n, Size)
  BY ProbeType DEF SetInv, Shape
<1>4. Leads(keys, Fresh, Size, key, n)
  <2>1. ASSUME NEW m \in 0 .. n - 1 PROVE Probe(key, m, Size) \in Fresh /\ keys[Probe(key, m, Size)] # key
    <3>1. m \in 0 .. Size - 1
      BY <1>3
    <3>2. ProbeIndex(key, m) \in Indices /\ ProbeIndex(key, m) = Probe(key, m, Size)
      BY <1>3, <3>1, ProbeType
    <3> QED BY <1>2, <3>2 DEF Fresh
  <2> QED BY <2>1 DEF Leads
<1>5. i \in Fresh <=> ~Stale(i)
  BY <1>3 DEF Fresh
<1> HIDE DEF i
<1>6. Indices' = Indices /\ Size' = Size /\ DOMAIN generations' = DOMAIN generations
  BY <1>2 DEF Indices, Size
<1>7. Fresh' = Fresh \cup {i}
  <2>1. generation \in Nat /\ DOMAIN generations = Indices
    BY FlowSetAssumption DEF SetInv, Shape
  <2>2. ASSUME NEW j \in Indices PROVE Stale(j)' = (j # i /\ Stale(j))
    <3>1. generations'[j] = IF j = i THEN generation ELSE generations[j]
      BY <1>2, <2>1
    <3> QED BY <1>2, <3>1 DEF Stale
  <2>3. \A j : j \in Fresh' <=> j \in Indices /\ ~Stale(j)'
    BY <1>6 DEF Fresh
  <2>4. \A j : j \in Fresh <=> j \in Indices /\ ~Stale(j)
    BY DEF Fresh
  <2> QED BY <1>3, <2>2, <2>3, <2>4
<1>8. keys'[i] = key /\ \A j \in Indices : j # i => keys'[j] = keys[j]
  BY <1>2, <1>3 DEF Indices
<1>9. Chained(keys', Fresh', Size')
  <2>1. Chained(keys, Fresh, Size)
    BY DEF SetInv, Placed
  <2>2. \A j \in Fresh : j # i => keys'[j] = keys[j]
    BY <1>8 DEF Fresh
  <2>3. i \in Fresh => keys[i] = key
    BY <1>2, <1>5
  <2>4. Chained(keys', Fresh \cup {i}, Size)
    BY <1>3, <1>4, <1>8, <2>1, <2>2, <2>3, StillChained
  <2> QED BY <1>6, <1>7, <2>4
<1>10. i \in Fresh <=> key \in Members
  <2>1. Chained(keys, Fresh, Size)
    BY DEF SetInv, Placed
  <2>2. i \in Fresh => keys[i] = key
    BY <1>2, <1>5
  <2>3. i \in Fresh <=> \E j \in Fresh : keys[j] = key
    BY <1>3, <1>4, <2>1, <2>2, StopsAtKey
  <2> QED BY <2>3 DEF Members
<1>11. Members' = Members \cup {key}
  <2>1. \A k : k \in Members' <=> \E j \in Fresh \cup {i} : keys'[j] = k
    BY <1>7 DEF Members
  <2>2. \A k : k \in Members <=> \E j \in Fresh : keys[j] = k
    BY DEF Members
  <2>3. \A j \in Fresh : j # i => keys'[j] = keys[j]
    BY <1>8 DEF Fresh
  <2>4. i \in Fresh => keys[i] = key
    BY <1>2, <1>5
  <2> QED BY <1>8, <2>1, <2>2, <2>3, <2>4
<1>12. Shape'
  <2>1. /\ Size \in Nat /\ Indices = 0 .. Size - 1 /\ DOMAIN generations = Indices
        /\ generation \in 0 .. GenMod - 1
        /\ \A j \in Indices : generations[j] \in 0 .. generation
    BY DEF SetInv, Shape
  <2>2. \A j \in Indices : generations'[j] = IF j = i THEN generation ELSE generations[j]
    BY <1>2, <2>1
  <2> QED BY <1>2, <1>6, <2>1, <2>2, FlowSetAssumption DEF Shape
<1>13. Room'
  <2>1. IsFiniteSet(Fresh)
    BY FreshFinite DEF SetInv
  <2>2. Cardinality(Fresh) \in Nat /\ Cardinality(Fresh \cup {i}) <= Cardinality(Fresh) + 1
        /\ Cardinality(Fresh \cup {i}) \in Nat
    <3>1. IsFiniteSet(Fresh \cup {i})
      BY <2>1, FS_AddElement
    <3>2. Cardinality(Fresh \cup {i}) = IF i \in Fresh THEN Cardinality(Fresh) ELSE Cardinality(Fresh) + 1
      BY <2>1, FS_AddElement
    <3> QED BY <2>1, <3>1, <3>2, FS_CardinalityType
  <2>3. left \in Nat /\ left + Cardinality(Fresh) <= Size
    BY DEF SetInv, Room
  <2>4. Cardinality(Fresh') = Cardinality(Fresh \cup {i})
    BY <1>7
  <2>5. left' = left - 1 /\ left > 0 /\ Size' = Size
    BY <1>2, <1>6
  <2> DEFINE c == Cardinality(Fresh)
             d == Cardinality(Fresh')
  <2>6. c \in Nat /\ d \in Nat /\ d <= c + 1 /\ left + c <= Size
    BY <2>2, <2>3, <2>4
  <2>7. left' \in Nat /\ left' + d <= Size'
    <3> HIDE DEF c, d
    <3> QED BY <1>3, <2>3, <2>5, <2>6
  <2> QED BY <2>7 DEF Room
<1>14. inserted' = (key \notin Members)
  <2>1. Stale(i) <=> key \notin Members
    BY <1>5, <1>10
  <2>2. Stale(i) = (key \notin Members)
    BY <2>1 DEF Stale
  <2> QED BY <1>2, <2>2
<1>15. SetInv'
  BY <1>9, <1>12, <1>13 DEF SetInv, Placed
<1> QED BY <1>11, <1>14, <1>15

LEMMA SetStep == ASSUME SetInv, [SetNext]_setVars PROVE SetInv' /\ [Set!Next]_(Set!vars)
<1>1. CASE \E expected \in 0 .. MaxExpected : Begin(expected)
  <2>1. SetInv' /\ Members' = {}
    BY <1>1, BeginStep DEF Members
  <2>2. Set!Begin
    BY <1>1, <2>1 DEF Begin, Set!Begin, Members, Fresh
  <2> QED BY <2>1, <2>2 DEF Set!Next
<1>2. CASE Pass
  <2>1. Fresh' = Fresh /\ Members' = Members /\ UNCHANGED <<asked, inserted>>
    BY <1>2 DEF Pass, Fresh, Members, Stale, Indices
  <2>2. Shape' /\ Placed' /\ Size' = Size
    <3>1. keys' = keys /\ Size' = Size /\ Indices' = Indices
      BY <1>2 DEF Pass, Size, Indices
    <3>2. Placed'
      BY <2>1, <3>1 DEF SetInv, Placed
    <3>3. Shape'
      BY <1>2, <3>1 DEF SetInv, Shape, Pass
    <3> QED BY <3>1, <3>2, <3>3
  <2>3. Room'
    <3>1. Cardinality(Fresh) \in Nat /\ Size \in Nat /\ left \in Nat /\ left + Cardinality(Fresh) <= Size
      BY FreshFinite DEF SetInv, Shape, Room
    <3>2. left' = left - 1 /\ left > 0 /\ Cardinality(Fresh') = Cardinality(Fresh)
      BY <1>2, <2>1 DEF Pass
    <3> QED BY <2>2, <3>1, <3>2 DEF Room
  <2> QED BY <2>1, <2>2, <2>3 DEF SetInv, Set!vars, Members, Fresh
<1>3. CASE \E key \in Keys : Insert(key)
  <2>1. PICK key \in Keys : Insert(key)
    BY <1>3
  <2>2. SetInv' /\ Members' = Members \cup {key} /\ inserted' = (key \notin Members) /\ asked' = key
    BY <2>1, InsertStep DEF Insert
  <2>3. Set!Insert(key)
    BY <2>2 DEF Set!Insert, Members, Fresh
  <2> QED BY <2>2, <2>3 DEF Set!Next
<1>4. CASE UNCHANGED setVars
  <2>1. Fresh' = Fresh /\ Members' = Members /\ UNCHANGED <<asked, inserted>>
    BY <1>4 DEF setVars, Fresh, Members, Stale, Indices
  <2>2. Shape' /\ Placed' /\ Size' = Size
    <3>1. keys' = keys /\ Size' = Size /\ Indices' = Indices
      BY <1>4 DEF setVars, Size, Indices
    <3>2. Placed'
      BY <2>1, <3>1 DEF SetInv, Placed
    <3>3. Shape'
      BY <1>4, <3>1 DEF SetInv, Shape, setVars
    <3> QED BY <3>1, <3>2, <3>3
  <2>3. Room'
    BY <1>4, <2>1, <2>2 DEF SetInv, setVars, Room
  <2> QED BY <2>1, <2>2, <2>3 DEF SetInv, Set!vars, Members, Fresh
<1> QED BY <1>1, <1>2, <1>3, <1>4 DEF SetNext

\* There is a stale slot when one is asked for.
LEMMA RoomIsStale == SetInv => ProbeEnds
<1> SUFFICES ASSUME SetInv, left > 0, \A i \in Indices : ~Stale(i) PROVE FALSE
  BY DEF ProbeEnds
<1>1. Fresh = Indices
  BY DEF Fresh
<1>2. left \in Nat /\ left + Size <= Size /\ Size \in Nat
  BY <1>1 DEF SetInv, Room, Shape, Size
<1> QED BY <1>2

LEMMA ModTurn ==
    ASSUME NEW a \in Nat, NEW size \in Nat, size > 0
    PROVE  (a + size) % size = a % size
<1> DEFINE q == a \div size
           r == a % size
           p == (a + size) \div size
           t == (a + size) % size
<1>1. q \in Int /\ r \in 0 .. size - 1 /\ a = size * q + r
  OBVIOUS
<1>2. p \in Int /\ t \in 0 .. size - 1 /\ a + size = size * p + t
  OBVIOUS
<1> HIDE DEF q, r, p, t
<1>3. size * p + t = size * (q + 1) + r
  BY <1>1, <1>2
<1>4. CASE p > q + 1
  <2>1. size * (p - (q + 1)) >= size
    BY <1>1, <1>2, <1>4
  <2> QED BY <1>1, <1>2, <1>3, <2>1
<1>5. CASE p < q + 1
  <2>1. size * ((q + 1) - p) >= size
    BY <1>1, <1>2, <1>5
  <2> QED BY <1>1, <1>2, <1>3, <2>1
<1>6. CASE p = q + 1
  BY <1>1, <1>2, <1>3, <1>6
<1>7. t = r
  BY <1>1, <1>2, <1>4, <1>5, <1>6
<1> QED BY <1>7 DEF t, r

\* A probe sequence comes to every slot of the table.
LEMMA ProbesAll ==
    ASSUME NEW size \in Nat, NEW i \in 0 .. size - 1, NEW hash \in Nat
    PROVE  \E n \in 0 .. size - 1 : (hash + n) % size = i
<1> DEFINE S == {h \in Nat : \E n \in 0 .. size - 1 : (h + n) % size = i}
<1>1. 0 \in S
  <2>1. (0 + i) % size = i
    OBVIOUS
  <2> QED BY <2>1
<1>2. ASSUME NEW h \in Nat, h \in S PROVE h + 1 \in S
  <2>1. PICK n \in 0 .. size - 1 : (h + n) % size = i
    BY <1>2
  <2>2. CASE n > 0
    <3>1. n - 1 \in 0 .. size - 1 /\ (h + 1) + (n - 1) = h + n
      BY <2>2
    <3>2. ((h + 1) + (n - 1)) % size = i
      BY <2>1, <3>1
    <3>3. \E m \in 0 .. size - 1 : ((h + 1) + m) % size = i
      BY <3>1, <3>2, Zenon
    <3> QED BY <3>3
  <2>3. CASE n = 0
    <3>1. size - 1 \in 0 .. size - 1 /\ (h + 1) + (size - 1) = h + size /\ size > 0 /\ h + n = h
      BY <2>3
    <3>2. (h + size) % size = h % size
      BY <3>1, ModTurn
    <3>3. ((h + 1) + (size - 1)) % size = i
      BY <2>1, <3>1, <3>2
    <3>4. \E m \in 0 .. size - 1 : ((h + 1) + m) % size = i
      BY <3>1, <3>3, Zenon
    <3> QED BY <3>4
  <2> QED BY <2>2, <2>3
<1> HIDE DEF S
<1>3. Nat \subseteq S
  BY <1>1, <1>2, Induction
<1>4. hash \in S
  BY <1>3
<1> QED BY <1>4 DEF S

\* ... and so the loop of insert ends, whatever key it is given: it stops at a
\* slot of the probe sequence behind slots with other keys of the wave.
LEMMA ProbeFinds ==
    ASSUME SetInv, left > 0, NEW key \in Keys
    PROVE  \E n \in 0 .. Size - 1 :
              /\ Stale(ProbeIndex(key, n)) \/ keys[ProbeIndex(key, n)] = key
              /\ \A m \in 0 .. n - 1 : ~Stale(ProbeIndex(key, m)) /\ keys[ProbeIndex(key, m)] # key
<1> DEFINE T == {n \in 0 .. Size - 1 : Stale(ProbeIndex(key, n)) \/ keys[ProbeIndex(key, n)] = key}
<1>1. PICK i \in Indices : Stale(i)
  BY RoomIsStale DEF ProbeEnds
<1>2. Size \in Nat /\ i \in 0 .. Size - 1 /\ Hash[key] \in Nat
  BY FlowSetAssumption DEF SetInv, Shape
<1>3. PICK n \in 0 .. Size - 1 : (Hash[key] + n) % Size = i
  BY <1>2, ProbesAll
<1>4. ProbeIndex(key, n) = i
  BY <1>3 DEF ProbeIndex
<1>5. n \in T
  BY <1>1, <1>4
<1>6. T \subseteq Nat
  BY <1>2
<1>7. PICK first \in T : \A m \in T : first <= m
  <2> HIDE DEF T
  <2> QED BY <1>5, <1>6, Least
<1>8. ASSUME NEW m \in 0 .. first - 1 PROVE m \notin T /\ m \in 0 .. Size - 1
  <2>1. first \in 0 .. Size - 1
    BY <1>7
  <2>2. m < first /\ m \in Nat
    BY <2>1
  <2> HIDE DEF T
  <2> QED BY <1>2, <1>7, <2>1, <2>2
<1> QED BY <1>7, <1>8

\* The probe loop of insert ends and the table is a set of keys, as long as
\* begin is told how many keys may be inserted.
THEOREM SetInvariance == SetSpec => []SetInv
<1>1. SetInv /\ [SetNext]_setVars => SetInv'
  BY SetStep
<1> QED BY <1>1, SetStart, PTL DEF SetSpec

LEMMA SetIsSet == SetSpec => ImplementsSet
<1>1. SetInit => Set!Init
  BY DEF SetInit, Set!Init, Indices, Stale
<1>2. SetInv /\ [SetNext]_setVars => [Set!Next]_(Set!vars)
  BY SetStep
<1> QED BY <1>1, <1>2, SetInvariance, PTL DEF SetSpec, ImplementsSet, Set!Spec

-----------------------------------------------------------------------------
(* The scheduler that drives it.                                           *)

Legal(packets) ==
    /\ packets \in Seq(Seq(0 .. 255)) /\ Len(packets) <= MaxExpected
    /\ \A i \in DOMAIN packets : SchedulingFlowKey(packets[i]) \in Keys \cup {NoFlow}

WireInv ==
    /\ kind \in DOMAIN Traffic
    /\ phase = "filling" => Legal(batch) /\ left \in 0 .. Len(batch)

\* The packet that is looked at.
LEMMA LegalNext ==
    ASSUME WireInv, phase = "filling", left > 0
    PROVE  /\ Len(batch) - left + 1 \in DOMAIN batch
           /\ SchedulingFlowKey(batch[Len(batch) - left + 1]) \in Keys \cup {NoFlow}
<1>1. Len(batch) \in Nat /\ left \in 0 .. Len(batch) /\ DOMAIN batch = 1 .. Len(batch)
  BY DEF WireInv, Legal
<1>2. Len(batch) - left + 1 \in DOMAIN batch
  BY <1>1
<1> QED BY <1>2 DEF WireInv, Legal

LEMMA ScheduleDrives == ASSUME WireInv, Schedule PROVE Pass \/ \E key \in Keys : Insert(key)
<1> DEFINE key == SchedulingFlowKey(batch[Len(batch) - left + 1])
<1>1. key \in Keys \cup {NoFlow}
  BY LegalNext DEF Schedule
<1>2. (key = NoFlow /\ Pass) \/ (key # NoFlow /\ Insert(key))
  BY DEF Schedule
<1> HIDE DEF key
<1> QED BY <1>1, <1>2

LEMMA WireStep == ASSUME WireInv, [Next]_vars PROVE WireInv' /\ [SetNext]_setVars
<1>1. CASE Start
  <2>1. batch' \in Traffic[kind] /\ kind \in DOMAIN Traffic /\ kind' = kind /\ Begin(Len(batch'))
    BY <1>1 DEF Start, WireInv
  <2>2. Legal(batch')
    BY <2>1, TrafficAssumption DEF Legal
  <2>3. Len(batch') \in 0 .. MaxExpected /\ left' = Len(batch')
    BY <2>1, <2>2, FlowSetAssumption DEF Legal, Begin
  <2> QED BY <2>1, <2>2, <2>3, FlowSetAssumption DEF WireInv, SetNext
<1>2. CASE Schedule
  <2>1. Pass \/ \E key \in Keys : Insert(key)
    BY <1>2, ScheduleDrives
  <2>2. left > 0 /\ left' = left - 1
    BY <2>1 DEF Pass, Insert
  <2>3. UNCHANGED <<kind, batch, phase>> /\ phase = "filling"
    BY <1>2 DEF Schedule
  <2>4. Legal(batch) /\ left \in 0 .. Len(batch) /\ Len(batch) \in Nat
    BY <2>3 DEF WireInv, Legal
  <2>5. left - 1 \in 0 .. Len(batch)
    BY <2>2, <2>4
  <2> QED BY <2>1, <2>2, <2>3, <2>4, <2>5 DEF WireInv, SetNext
<1>3. CASE Dispatch \/ Finish \/ UNCHANGED vars
  <2>1. UNCHANGED setVars /\ kind' = kind
    BY <1>3 DEF Dispatch, Finish, vars
  <2>2. UNCHANGED left
    BY <2>1 DEF setVars
  <2>3. phase' = "filling" => UNCHANGED <<batch, phase>>
    BY <1>3 DEF Dispatch, Finish, vars
  <2> QED BY <2>1, <2>2, <2>3 DEF WireInv
<1> QED BY <1>1, <1>2, <1>3 DEF Next

\* The fill loops keep to what FlowSet asks of its caller: begin with the number
\* of pending packets, then at most one insert for each.
THEOREM WireDrivesSet == Spec => SetSpec
<1>1. Init => WireInv /\ SetInit
  BY DEF Init, WireInv
<1>2. WireInv /\ [Next]_vars => WireInv' /\ [SetNext]_setVars
  BY WireStep
<1> QED BY <1>1, <1>2, PTL DEF Spec, SetSpec

\* insert of FlowSet always finds a slot to stop at, for every hash function,
\* any sequence of wave sizes and however often the generations start again.
THEOREM ProbeLoopEnds == Spec => []ProbeEnds
<1> QED BY WireDrivesSet, SetInvariance, RoomIsStale, PTL

\* No key of an earlier wave comes back and no collision hides or doubles one:
\* seen of the fill loops is a set of flow keys.
THEOREM SeenIsASet == Spec => ImplementsSet
<1> QED BY WireDrivesSet, SetIsSet

-----------------------------------------------------------------------------
(* A wave as words.                                                        *)

Byte8 == 0 .. 255
Word == [1 .. 4 -> Byte8]
Packets == Seq(Seq(Byte8))

LEMMA PackTypes ==
    ASSUME NEW bytes \in Seq(Byte8)
    PROVE  /\ WordsFor(Len(bytes)) \in Nat
           /\ PackBytes(bytes) \in Seq(Word) /\ Len(PackBytes(bytes)) = WordsFor(Len(bytes))
           /\ \A o \in 0 .. Len(bytes) - 1 :
                 /\ (o \div 4) + 1 \in 1 .. WordsFor(Len(bytes))
                 /\ PackBytes(bytes)[(o \div 4) + 1][(o % 4) + 1] = bytes[o + 1]
<1> DEFINE n == Len(bytes)
           m == WordsFor(n)
           packed == PackBytes(bytes)
           word(w) == [k \in 1 .. 4 |-> LET at == 4 * (w - 1) + k IN IF at <= n THEN bytes[at] ELSE 0]
<1>1. n \in Nat /\ m \in Nat /\ m = (n + 3) \div 4 /\ \A at \in 1 .. n : bytes[at] \in Byte8
  BY DEF WordsFor
<1>2. packed = [w \in 1 .. m |-> word(w)]
  BY DEF PackBytes
<1>3. ASSUME NEW w \in 1 .. m PROVE word(w) \in Word
  <2>1. ASSUME NEW k \in 1 .. 4
        PROVE  (IF 4 * (w - 1) + k <= n THEN bytes[4 * (w - 1) + k] ELSE 0) \in Byte8
    BY <1>1 DEF Byte8
  <2> QED BY <2>1 DEF Word
<1>4. packed \in Seq(Word) /\ Len(packed) = m
  <2> HIDE DEF m, word, packed
  <2>1. packed \in [1 .. m -> Word]
    BY <1>2, <1>3
  <2> QED BY <1>1, <2>1
<1>5. ASSUME NEW o \in 0 .. n - 1
      PROVE  (o \div 4) + 1 \in 1 .. m /\ packed[(o \div 4) + 1][(o % 4) + 1] = bytes[o + 1]
  <2> DEFINE w == (o \div 4) + 1
             k == (o % 4) + 1
  <2> HIDE DEF n
  <2>1. w \in 1 .. m /\ k \in 1 .. 4 /\ 4 * (w - 1) + k = o + 1 /\ o + 1 <= n
    BY <1>1
  <2>2. packed[w] = word(w)
    <3> HIDE DEF w, m, word, packed
    <3> QED BY <1>2, <2>1
  <2>3. word(w)[k] = bytes[o + 1]
    <3> HIDE DEF w, k
    <3> QED BY <2>1
  <2> QED BY <2>1, <2>2, <2>3
<1> HIDE DEF m, packed, word
<1> QED BY <1>1, <1>4, <1>5 DEF m, packed

\* Offsets adds up the lengths of the packed strings.
LEMMA OffsetsBegin ==
    ASSUME NEW strings \in Packets
    PROVE  \E b : /\ Begins(b, [i \in DOMAIN strings |-> PackBytes(strings[i])])
                  /\ \A i \in DOMAIN strings : Offsets(strings)[i] = b[i] /\ b[i] \in Nat
<1> DEFINE n == Len(strings)
           numbers == [i \in 1 .. n |-> WordsFor(Len(strings[i]))]
           eq(f) == f = [i \in 1 .. n + 1 |->
                            IF i = 1 THEN 0 ELSE f[i - 1] + WordsFor(Len(strings[i - 1]))]
           before == CHOOSE f : eq(f)
<1>1. n \in Nat /\ DOMAIN strings = 1 .. n /\ \A i \in 1 .. n : strings[i] \in Seq(Byte8)
  BY DEF Packets
<1>2. \A i \in 1 .. n : WordsFor(Len(strings[i])) \in Nat /\ Len(PackBytes(strings[i])) = WordsFor(Len(strings[i]))
  BY <1>1, PackTypes
<1>3. numbers \in [1 .. n -> Nat]
  BY <1>2
<1>4. PICK g : Sums(g, n, numbers)
  <2> HIDE DEF numbers, n
  <2>1. \E g : SumsUp(g, n, numbers)
    BY <1>1, <1>3, SumsExist
  <2> QED BY <1>1, <1>3, <2>1 DEF Sums
<1>5. /\ g[0] = 0 /\ \A i \in 0 .. n : g[i] \in Nat
      /\ \A i \in 1 .. n : g[i] = g[i - 1] + numbers[i]
  <2> HIDE DEF numbers, n
  <2> QED BY <1>4, SumsTypes
<1> DEFINE f == [i \in 1 .. n + 1 |-> g[i - 1]]
           h == [i \in 1 .. n + 1 |-> IF i = 1 THEN 0 ELSE f[i - 1] + WordsFor(Len(strings[i - 1]))]
<1>6. ASSUME NEW i \in 1 .. n + 1 PROVE f[i] = h[i]
  <2>1. CASE i = 1
    BY <1>5, <2>1
  <2>2. CASE i # 1
    <3>1. i - 1 \in 1 .. n /\ i - 1 \in 1 .. n + 1
      BY <1>1, <2>2
    <3>2. f[i] = g[i - 1] /\ f[i - 1] = g[(i - 1) - 1]
      BY <3>1
    <3>3. g[i - 1] = g[(i - 1) - 1] + numbers[i - 1]
      BY <1>5, <3>1
    <3>4. numbers[i - 1] = WordsFor(Len(strings[i - 1]))
      BY <3>1
    <3> QED BY <2>2, <3>2, <3>3, <3>4
  <2> QED BY <2>1, <2>2
<1>7. eq(f)
  BY <1>6
<1>8. eq(before)
  <2> HIDE DEF f, eq
  <2> QED BY <1>7
<1> HIDE DEF before
<1>9. \A i \in 1 .. n + 1 : before[i] = IF i = 1 THEN 0 ELSE before[i - 1] + WordsFor(Len(strings[i - 1]))
  BY <1>8, ZenonT(20)
<1> DEFINE packs == [i \in DOMAIN strings |-> PackBytes(strings[i])]
<1>10. Len(packs) = n /\ \A i \in 1 .. n : packs[i] = PackBytes(strings[i])
  BY <1>1
<1>11. before[1] = 0 /\ \A i \in 1 .. n : before[i + 1] = before[i] + Len(packs[i])
  <2>1. before[1] = 0
    BY <1>1, <1>9
  <2>2. ASSUME NEW i \in 1 .. n PROVE before[i + 1] = before[i] + Len(packs[i])
    <3>1. i + 1 \in 1 .. n + 1 /\ i + 1 # 1 /\ (i + 1) - 1 = i
      BY <1>1
    <3>2. before[i + 1] = before[(i + 1) - 1] + WordsFor(Len(strings[(i + 1) - 1]))
      BY <1>9, <3>1
    <3> HIDE DEF packs
    <3> QED BY <1>2, <1>10, <3>1, <3>2
  <2> QED BY <2>1, <2>2
<1>12. \A i \in 1 .. n : before[i] \in Nat
  <2> DEFINE S == {k \in Nat : k + 1 <= n => before[k + 1] \in Nat}
  <2>1. 0 \in S
    BY <1>11
  <2>2. ASSUME NEW k \in Nat, k \in S PROVE k + 1 \in S
    <3> SUFFICES ASSUME (k + 1) + 1 <= n PROVE before[(k + 1) + 1] \in Nat
      OBVIOUS
    <3>1. k + 1 \in 1 .. n /\ before[k + 1] \in Nat
      BY <1>1, <2>2
    <3>2. Len(packs[k + 1]) \in Nat
      <4> HIDE DEF packs
      <4> QED BY <1>2, <1>10, <3>1
    <3> HIDE DEF packs
    <3> QED BY <1>11, <3>1, <3>2
  <2> HIDE DEF S
  <2>3. Nat \subseteq S
    BY <2>1, <2>2, Induction
  <2>4. ASSUME NEW i \in 1 .. n PROVE before[i] \in Nat
    <3>1. i - 1 \in Nat /\ (i - 1) + 1 = i /\ i <= n
      BY <1>1
    <3>2. i - 1 \in S
      BY <2>3, <3>1
    <3> QED BY <3>1, <3>2 DEF S
  <2> QED BY <2>4
<1>13. Begins(before, packs)
  <2> HIDE DEF packs
  <2> QED BY <1>10, <1>11 DEF Begins
<1>14. \A i \in DOMAIN strings : Offsets(strings)[i] = before[i]
  <2>1. Offsets(strings) = [i \in DOMAIN strings |-> before[i]]
    BY DEF Offsets, before
  <2> QED BY <2>1
<1> QED BY <1>1, <1>12, <1>13, <1>14

\* The byte of a packet is where the shader looks for it, whatever other packets
\* are in the wave.
LEMMA PackedRead ==
    ASSUME NEW strings \in Packets, NEW i \in DOMAIN strings, NEW o \in 0 .. Len(strings[i]) - 1
    PROVE  ReadByte(Packed(strings), Offsets(strings)[i], o) = strings[i][o + 1]
           /\ Packed(strings)[Offsets(strings)[i] + (o \div 4) + 1] = PackBytes(strings[i])[(o \div 4) + 1]
<1> DEFINE packs == [j \in DOMAIN strings |-> PackBytes(strings[j])]
<1>1. /\ Len(strings) \in Nat /\ DOMAIN strings = 1 .. Len(strings)
      /\ \A j \in 1 .. Len(strings) : strings[j] \in Seq(Byte8)
  BY DEF Packets
<1>2. \A j \in 1 .. Len(strings) : PackBytes(strings[j]) \in Seq(Word)
  BY <1>1, PackTypes
<1>3. packs \in Seq(Seq(Word)) /\ Len(packs) = Len(strings) /\ packs # <<>>
  <2>1. packs \in [1 .. Len(strings) -> Seq(Word)]
    BY <1>1, <1>2
  <2>2. Len(strings) > 0
    BY <1>1
  <2> HIDE DEF packs
  <2> QED BY <1>1, <2>1, <2>2, SMTT(60)
<1>4. packs[i] = PackBytes(strings[i])
  OBVIOUS
<1>5. PICK b : Begins(b, packs) /\ \A j \in DOMAIN strings : Offsets(strings)[j] = b[j] /\ b[j] \in Nat
  BY OffsetsBegin
<1>6. Packed(strings) = FlattenSeq(packs)
  BY DEF Packed
<1> HIDE DEF packs
<1>7. LaidOut(Packed(strings), Len(packs), b, packs)
  BY <1>3, <1>5, <1>6, FlattenLaysOut
<1> DEFINE w == (o \div 4) + 1
<1>8. /\ w \in 1 .. Len(packs[i]) /\ packs[i][w][(o % 4) + 1] = strings[i][o + 1]
  BY <1>1, <1>4, PackTypes
<1>9. i \in 1 .. Len(packs)
  BY <1>1, <1>3
<1> HIDE DEF w
<1>10. Packed(strings)[b[i] + w] = packs[i][w]
  BY <1>7, <1>8, <1>9 DEF LaidOut
<1>11. Packed(strings)[Offsets(strings)[i] + w] = packs[i][w]
  BY <1>5, <1>10
<1>12. Offsets(strings)[i] + w = Offsets(strings)[i] + (o \div 4) + 1
  <2>1. Offsets(strings)[i] \in Nat /\ o \div 4 \in Int
    BY <1>1, <1>5
  <2> QED BY <2>1 DEF w
<1> QED BY <1>4, <1>8, <1>11, <1>12 DEF ReadByte, w

\* What the shader reads of a packet are the numbers the CPU reads.
ReadsBytes(input, base, packet) ==
    /\ \A o \in 0 .. Len(packet) - 1 : ReadByte(input, base, o) = Byte(packet, o)
    /\ \A o \in 0 .. Len(packet) - 2 : o % 2 = 0 => ReadU16(input, base, o) = U16(packet, o)
    /\ \A o \in 0 .. Len(packet) - 4 : o % 4 = 0 => ReadU32(input, base, o) = U32(packet, o)

LEMMA WaveReads ==
    ASSUME NEW strings \in Packets, NEW i \in DOMAIN strings
    PROVE  ReadsBytes(Packed(strings), Offsets(strings)[i], strings[i])
<1> DEFINE input == Packed(strings)
           base == Offsets(strings)[i]
           packet == strings[i]
           n == Len(packet)
           word(o) == input[base + (o \div 4) + 1]
<1>1. packet \in Seq(Byte8) /\ n \in Nat
  BY DEF Packets
<1>2. ASSUME NEW o \in 0 .. n - 1 PROVE ReadByte(input, base, o) = packet[o + 1]
  BY PackedRead
<1>3. ASSUME NEW o \in 0 .. n - 1 PROVE word(o)[(o % 4) + 1] = packet[o + 1]
  BY <1>2 DEF ReadByte
<1> HIDE DEF input, base, packet
<1>4. ASSUME NEW o \in 0 .. n - 2, o % 2 = 0 PROVE ReadU16(input, base, o) = U16(packet, o)
  <2> HIDE DEF n
  <2>1. /\ o \in 0 .. n - 1 /\ o + 1 \in 0 .. n - 1
        /\ (o + 1) \div 4 = o \div 4 /\ (o + 1) % 4 = (o % 4) + 1 /\ ((o \div 2) % 2) * 2 = o % 4
    BY <1>1, <1>4
  <2>2. word(o)[(o % 4) + 1] = packet[o + 1]
    BY <1>3, <2>1
  <2>3. word(o + 1)[((o + 1) % 4) + 1] = packet[(o + 1) + 1]
    BY <1>3, <2>1
  <2>4. word(o + 1) = word(o) /\ ((o + 1) % 4) + 1 = (o % 4) + 2 /\ (o + 1) + 1 = o + 2
    BY <2>1
  <2>5. word(o)[(o % 4) + 2] = packet[o + 2]
    <3> HIDE DEF word
    <3> QED BY <2>3, <2>4
  <2>6. ReadU16(input, base, o) = (word(o)[(o % 4) + 1] * 256) + word(o)[(o % 4) + 2]
    BY <2>1 DEF ReadU16
  <2> HIDE DEF word
  <2> QED BY <2>2, <2>5, <2>6 DEF U16
<1>5. ASSUME NEW o \in 0 .. n - 4, o % 4 = 0 PROVE ReadU32(input, base, o) = U32(packet, o)
  <2> HIDE DEF n
  <2>0. o \in 0 .. n - 1 /\ o + 1 \in 0 .. n - 1 /\ o + 2 \in 0 .. n - 1 /\ o + 3 \in 0 .. n - 1
    BY <1>1
  <2>1. /\ word(o + 1) = word(o) /\ word(o + 2) = word(o) /\ word(o + 3) = word(o)
        /\ (o + 1) % 4 = 1 /\ (o + 2) % 4 = 2 /\ (o + 3) % 4 = 3
    BY <1>1, <1>5
  <2>2. /\ word(o)[(o % 4) + 1] = packet[o + 1]
        /\ word(o + 1)[((o + 1) % 4) + 1] = packet[(o + 1) + 1]
        /\ word(o + 2)[((o + 2) % 4) + 1] = packet[(o + 2) + 1]
        /\ word(o + 3)[((o + 3) % 4) + 1] = packet[(o + 3) + 1]
    <3> HIDE DEF word
    <3> QED BY <1>3, <2>0
  <2>3. /\ word(o)[1] = packet[o + 1] /\ word(o)[2] = packet[o + 2]
        /\ word(o)[3] = packet[(o + 2) + 1] /\ word(o)[4] = packet[(o + 2) + 2]
    <3>1. (o + 1) + 1 = o + 2 /\ (o + 3) + 1 = (o + 2) + 2
      BY <2>0
    <3> HIDE DEF word
    <3> QED BY <1>5, <2>1, <2>2, <3>1
  <2>4. ReadU32(input, base, o) = <<(word(o)[1] * 256) + word(o)[2], (word(o)[3] * 256) + word(o)[4]>>
    BY DEF ReadU32
  <2> HIDE DEF word
  <2> QED BY <2>3, <2>4 DEF U32, U16
<1> QED BY <1>2, <1>4, <1>5 DEF ReadsBytes, Byte, input, base, packet

-----------------------------------------------------------------------------
(* Headers.                                                                *)

\* Two sequences of bytes are the same when they have the same bytes.
LEMMA SameBytes ==
    ASSUME NEW A, NEW s \in Seq(A), NEW t \in Seq(A), Len(s) = Len(t),
           \A i \in 1 .. Len(s) : s[i] = t[i]
    PROVE  s = t
<1>1. DOMAIN s = 1 .. Len(s) /\ DOMAIN t = 1 .. Len(s) /\ s \in [1 .. Len(s) -> A] /\ t \in [1 .. Len(s) -> A]
  OBVIOUS
<1> QED BY <1>1

\* The bytes of a packet.
LEMMA ByteRange ==
    ASSUME NEW packet \in Seq(Byte8)
    PROVE  /\ Len(packet) \in Nat
           /\ \A o \in 0 .. Len(packet) - 1 : Byte(packet, o) \in 0 .. 255
<1>1. Len(packet) \in Nat /\ \A i \in 1 .. Len(packet) : packet[i] \in 0 .. 255
  <2>1. Len(packet) \in Nat /\ \A i \in 1 .. Len(packet) : packet[i] \in Byte8
    OBVIOUS
  <2> QED BY <2>1 DEF Byte8
<1>2. ASSUME NEW o \in 0 .. Len(packet) - 1 PROVE packet[o + 1] \in 0 .. 255
  <2>1. o + 1 \in 1 .. Len(packet)
    BY <1>1
  <2> QED BY <1>1, <2>1
<1> QED BY <1>1, <1>2 DEF Byte

\* The two bytes that come first in the numbers above.
LEMMA U16Range ==
    ASSUME NEW packet \in Seq(Byte8), NEW o \in Nat, o + 2 <= Len(packet)
    PROVE  U16(packet, o) \in Nat
<1>1. Len(packet) \in Nat /\ o \in 0 .. Len(packet) - 1 /\ o + 1 \in 0 .. Len(packet) - 1
  BY ByteRange
<1>2. Byte(packet, o) \in 0 .. 255 /\ Byte(packet, o + 1) \in 0 .. 255
  BY <1>1, ByteRange
<1>3. U16(packet, o) = (Byte(packet, o) * 256) + Byte(packet, o + 1)
  <2>1. (o + 1) + 1 = o + 2
    OBVIOUS
  <2> QED BY <2>1 DEF U16, Byte
<1> DEFINE a == Byte(packet, o)
           b == Byte(packet, o + 1)
<1>4. a \in 0 .. 255 /\ b \in 0 .. 255 /\ U16(packet, o) = (a * 256) + b
  BY <1>2, <1>3
<1> HIDE DEF a, b
<1> QED BY <1>4

\* What both sides ask of the start of a packet before they look further.
HasHeader(packet) ==
    /\ Len(packet) >= 40 /\ IsTcp4(packet)
    /\ IpHeaderLen(packet) >= 20 /\ IpHeaderLen(packet) + 20 <= Len(packet)

LEMMA HeaderRange ==
    ASSUME NEW packet \in Seq(Byte8), HasHeader(packet)
    PROVE  /\ Len(packet) \in Nat /\ Len(packet) >= 40
           /\ IpHeaderLen(packet) \in 20 .. 60 /\ IpHeaderLen(packet) % 4 = 0
           /\ IpHeaderLen(packet) + 20 <= Len(packet)
           /\ U16(packet, 2) \in Nat
           /\ Byte(packet, IpHeaderLen(packet) + 12) \in 0 .. 255
<1> DEFINE tcp == IpHeaderLen(packet)
           n == Len(packet)
<1>1. n \in Nat /\ n >= 40 /\ tcp >= 20 /\ tcp + 20 <= n
  BY ByteRange DEF HasHeader
<1>2. \A o \in 0 .. n - 1 : Byte(packet, o) \in 0 .. 255
  BY ByteRange
<1>3. tcp \in 20 .. 60 /\ tcp % 4 = 0
  <2> DEFINE b == Byte(packet, 0)
  <2>1. 0 \in 0 .. n - 1
    <3> HIDE DEF n, tcp
    <3> QED BY <1>1
  <2>2. b \in 0 .. 255
    BY <1>2, <2>1
  <2>3. tcp = (b % 16) * 4
    BY DEF IpHeaderLen
  <2> HIDE DEF b, tcp, n
  <2> QED BY <1>1, <2>2, <2>3
<1>4. U16(packet, 2) \in Nat
  <2>1. 2 + 2 <= Len(packet)
    <3> HIDE DEF tcp
    <3> QED BY <1>1
  <2> QED BY <2>1, U16Range
<1>5. Byte(packet, tcp + 12) \in 0 .. 255
  <2>1. tcp + 12 \in 0 .. n - 1
    <3> HIDE DEF tcp, n
    <3> QED BY <1>1, <1>3
  <2> QED BY <1>2, <2>1
<1> QED BY <1>1, <1>3, <1>4, <1>5

LEMMA HeaderReads ==
    ASSUME NEW packet \in Seq(Byte8), HasHeader(packet), NEW input, NEW base, ReadsBytes(input, base, packet)
    PROVE  LET tcp == IpHeaderLen(packet) IN
           /\ ReadU16(input, base, 2) = U16(packet, 2) /\ ReadU16(input, base, 6) = U16(packet, 6)
           /\ ReadU32(input, base, 12) = U32(packet, 12) /\ ReadU32(input, base, 16) = U32(packet, 16)
           /\ ReadU16(input, base, tcp) = U16(packet, tcp) /\ ReadU16(input, base, tcp + 2) = U16(packet, tcp + 2)
           /\ ReadU32(input, base, tcp + 4) = U32(packet, tcp + 4)
           /\ ReadU32(input, base, tcp + 8) = U32(packet, tcp + 8)
           /\ ReadByte(input, base, tcp + 12) = Byte(packet, tcp + 12)
           /\ ReadByte(input, base, tcp + 13) = Byte(packet, tcp + 13)
<1> DEFINE tcp == IpHeaderLen(packet)
           n == Len(packet)
<1>1. n \in Nat /\ n >= 40 /\ tcp \in 20 .. 60 /\ tcp % 4 = 0 /\ tcp + 20 <= n
  BY HeaderRange DEF HasHeader
<1>2. /\ \A o \in 0 .. n - 1 : ReadByte(input, base, o) = Byte(packet, o)
      /\ \A o \in 0 .. n - 2 : o % 2 = 0 => ReadU16(input, base, o) = U16(packet, o)
      /\ \A o \in 0 .. n - 4 : o % 4 = 0 => ReadU32(input, base, o) = U32(packet, o)
  BY DEF ReadsBytes
<1> HIDE DEF tcp, n
<1>3. /\ 2 \in 0 .. n - 2 /\ 6 \in 0 .. n - 2 /\ tcp \in 0 .. n - 2 /\ tcp + 2 \in 0 .. n - 2
      /\ 2 % 2 = 0 /\ 6 % 2 = 0 /\ tcp % 2 = 0 /\ (tcp + 2) % 2 = 0
  BY <1>1
<1>4. /\ 12 \in 0 .. n - 4 /\ 16 \in 0 .. n - 4 /\ tcp + 4 \in 0 .. n - 4 /\ tcp + 8 \in 0 .. n - 4
      /\ 12 % 4 = 0 /\ 16 % 4 = 0 /\ (tcp + 4) % 4 = 0 /\ (tcp + 8) % 4 = 0
  BY <1>1
<1>5. tcp + 12 \in 0 .. n - 1 /\ tcp + 13 \in 0 .. n - 1
  BY <1>1
<1>6. /\ ReadU16(input, base, 2) = U16(packet, 2) /\ ReadU16(input, base, 6) = U16(packet, 6)
      /\ ReadU16(input, base, tcp) = U16(packet, tcp) /\ ReadU16(input, base, tcp + 2) = U16(packet, tcp + 2)
  BY <1>2, <1>3, Zenon
<1>7. /\ ReadU32(input, base, 12) = U32(packet, 12) /\ ReadU32(input, base, 16) = U32(packet, 16)
      /\ ReadU32(input, base, tcp + 4) = U32(packet, tcp + 4)
      /\ ReadU32(input, base, tcp + 8) = U32(packet, tcp + 8)
  BY <1>2, <1>4, Zenon
<1>8. /\ ReadByte(input, base, tcp + 12) = Byte(packet, tcp + 12)
      /\ ReadByte(input, base, tcp + 13) = Byte(packet, tcp + 13)
  BY <1>2, <1>5, Zenon
<1> QED BY <1>6, <1>7, <1>8 DEF tcp

\* What the shader asks of the start of a packet.
LEMMA ShaderHeader ==
    ASSUME NEW packet \in Seq(Byte8), NEW input, NEW base, ReadsBytes(input, base, packet),
           Len(packet) >= 40
    PROVE  /\ IsTcp4(packet) <=> ReadByte(input, base, 0) \div 16 = 4 /\ ReadByte(input, base, 9) = 6
           /\ IpHeaderLen(packet) = (ReadByte(input, base, 0) % 16) * 4
           /\ IpHeaderLen(packet) \in Nat
<1>1. 0 \in 0 .. Len(packet) - 1 /\ 9 \in 0 .. Len(packet) - 1
  BY ByteRange
<1>2. ReadByte(input, base, 0) = Byte(packet, 0) /\ ReadByte(input, base, 9) = Byte(packet, 9)
  BY <1>1, Zenon DEF ReadsBytes
<1>3. Byte(packet, 0) \in 0 .. 255
  BY <1>1, ByteRange
<1>4. IsTcp4(packet) <=> ReadByte(input, base, 0) \div 16 = 4 /\ ReadByte(input, base, 9) = 6
  BY <1>2, Zenon DEF IsTcp4
<1>5. IpHeaderLen(packet) = (ReadByte(input, base, 0) % 16) * 4
  BY <1>2, Zenon DEF IpHeaderLen
<1>6. (Byte(packet, 0) % 16) * 4 \in Nat
  <2> DEFINE b == Byte(packet, 0)
  <2>1. b \in 0 .. 255
    BY <1>3
  <2> HIDE DEF b
  <2>2. (b % 16) * 4 \in Nat
    BY <2>1
  <2> QED BY <2>2 DEF b
<1> QED BY <1>4, <1>5, <1>6, Zenon DEF IpHeaderLen

\* parse_ipv4_tcp: the packets it has no view of, and the view of another.
Rejects(packet) ==
    LET tcp == IpHeaderLen(packet)
        total == U16(packet, 2)
        offset == (Byte(packet, tcp + 12) \div 16) * 4
    IN \/ Len(packet) < 40 \/ ~IsTcp4(packet)
       \/ tcp < 20 \/ tcp + 20 > Len(packet)
       \/ U16(packet, 6) % 16384 # 0
       \/ total < tcp + 20 \/ total > Len(packet)
       \/ offset < 20 \/ tcp + offset > total

ViewOf(packet) ==
    LET tcp == IpHeaderLen(packet) IN
    [ok |-> TRUE, key |-> FlowKey(packet, tcp),
     seq |-> U32(packet, tcp + 4), ack |-> U32(packet, tcp + 8),
     flags |-> Byte(packet, tcp + 13),
     payload |-> SubSeq(packet, tcp + ((Byte(packet, tcp + 12) \div 16) * 4) + 1, U16(packet, 2))]

LEMMA Parses ==
    ASSUME NEW packet
    PROVE  ParseIpv4Tcp(packet) = IF Rejects(packet) THEN NoView ELSE ViewOf(packet)
<1> QED BY DEF ParseIpv4Tcp, Rejects, ViewOf

\* The same of main of the shader.
ShaderRejects(input, meta) ==
    LET At(offset) == ReadByte(input, meta.base, offset)
        tcp == (At(0) % 16) * 4
        total == ReadU16(input, meta.base, 2)
        offset == (At(tcp + 12) \div 16) * 4
    IN \/ meta.len < 40
       \/ At(0) \div 16 # 4 \/ At(9) # 6
       \/ tcp < 20 \/ tcp + 20 > meta.len
       \/ ReadU16(input, meta.base, 6) % 16384 # 0
       \/ total > meta.len \/ total < tcp + 20
       \/ offset < 20 \/ tcp + offset > total
       \/ ReadU16(input, meta.base, tcp + 2) # ListenPort

ShaderStart(input, meta) ==
    LET tcp == (ReadByte(input, meta.base, 0) % 16) * 4
    IN  tcp + ((ReadByte(input, meta.base, tcp + 12) \div 16) * 4)

ShaderChars(input, meta) ==
    [i \in 0 .. ReadU16(input, meta.base, 2) - ShaderStart(input, meta) - 1 |->
        ReadByte(input, meta.base, ShaderStart(input, meta) + i)]

ShaderView(input, meta) ==
    LET tcp == (ReadByte(input, meta.base, 0) % 16) * 4 IN
    [ok |-> TRUE,
     key |-> [src |-> ReadU32(input, meta.base, 12), dst |-> ReadU32(input, meta.base, 16),
              sport |-> ReadU16(input, meta.base, tcp), dport |-> ReadU16(input, meta.base, tcp + 2)],
     seq |-> ReadU32(input, meta.base, tcp + 4), ack |-> ReadU32(input, meta.base, tcp + 8),
     flags |-> ReadByte(input, meta.base, tcp + 13),
     payload |-> [i \in 1 .. ReadU16(input, meta.base, 2) - ShaderStart(input, meta) |->
                    ShaderChars(input, meta)[i - 1]]]

LEMMA ShaderParses ==
    ASSUME NEW input, NEW meta
    PROVE  ShaderReads(input, meta) =
              IF ShaderRejects(input, meta) THEN NotServed
              ELSE [view |-> ShaderView(input, meta),
                    response |-> IF ReadU16(input, meta.base, 2) = ShaderStart(input, meta) THEN NoResponse
                                 ELSE ShaderClassify(ShaderChars(input, meta))]
<1> QED BY DEF ShaderReads, ShaderRejects, ShaderStart, ShaderChars, ShaderView

\* Without a header neither side serves the packet.
LEMMA NoHeader ==
    ASSUME NEW packet \in Seq(Byte8), ~HasHeader(packet), NEW input, NEW meta, meta.len = Len(packet),
           ReadsBytes(input, meta.base, packet)
    PROVE  ShaderReads(input, meta) = NotServed /\ ParseIpv4Tcp(packet) = NoView
<1> DEFINE n == Len(packet)
           tcp == IpHeaderLen(packet)
<1>1. n \in Nat
  BY ByteRange
<1>2. CASE n < 40
  <2>1. ParseIpv4Tcp(packet) = NoView
    <3>1. Rejects(packet)
      BY <1>2 DEF Rejects
    <3> QED BY <3>1, Parses, Zenon
  <2>2. ShaderReads(input, meta) = NotServed
    <3>1. ShaderRejects(input, meta)
      BY <1>2 DEF ShaderRejects
    <3> QED BY <3>1, ShaderParses, Zenon
  <2> QED BY <2>1, <2>2
<1>3. CASE ~(n < 40)
  <2>1. n >= 40
    <3> HIDE DEF n
    <3> QED BY <1>1, <1>3
  <2>2. /\ IsTcp4(packet) <=> ReadByte(input, meta.base, 0) \div 16 = 4 /\ ReadByte(input, meta.base, 9) = 6
        /\ tcp = (ReadByte(input, meta.base, 0) % 16) * 4 /\ tcp \in Nat
    BY <2>1, ShaderHeader
  <2>3. ~IsTcp4(packet) \/ tcp < 20 \/ tcp + 20 > n
    <3>1. ~IsTcp4(packet) \/ ~(tcp >= 20) \/ ~(tcp + 20 <= n)
      BY <2>1, Zenon DEF HasHeader
    <3> HIDE DEF tcp, n
    <3> QED BY <1>1, <2>2, <3>1
  <2>4. ParseIpv4Tcp(packet) = NoView
    <3>1. Rejects(packet)
      BY <2>3 DEF Rejects
    <3> QED BY <3>1, Parses, Zenon
  <2>5. \/ ~(ReadByte(input, meta.base, 0) \div 16 = 4) \/ ~(ReadByte(input, meta.base, 9) = 6)
        \/ (ReadByte(input, meta.base, 0) % 16) * 4 < 20
        \/ (ReadByte(input, meta.base, 0) % 16) * 4 + 20 > meta.len
    BY <2>2, <2>3, Zenon
  <2>6. ShaderReads(input, meta) = NotServed
    <3>1. ShaderRejects(input, meta)
      BY <2>5 DEF ShaderRejects
    <3> QED BY <3>1, ShaderParses, Zenon
  <2> QED BY <2>4, <2>6
<1> QED BY <1>2, <1>3

\* With a header they look at the same numbers.
LEMMA VerdictsAlike ==
    ASSUME NEW packet \in Seq(Byte8), HasHeader(packet), NEW input, NEW meta, meta.len = Len(packet),
           ReadsBytes(input, meta.base, packet)
    PROVE  ShaderRejects(input, meta) <=> Rejects(packet) \/ U16(packet, IpHeaderLen(packet) + 2) # ListenPort
<1> DEFINE tcp == IpHeaderLen(packet)
           T == (ReadByte(input, meta.base, 0) % 16) * 4
           total == U16(packet, 2)
           offset == (Byte(packet, tcp + 12) \div 16) * 4
           fragment == U16(packet, 6)
           port == U16(packet, tcp + 2)
           n == Len(packet)
<1>1. n \in Nat /\ n >= 40 /\ tcp \in 20 .. 60 /\ tcp + 20 <= n /\ total \in Nat
  BY HeaderRange
<1>2. /\ IsTcp4(packet) <=> ReadByte(input, meta.base, 0) \div 16 = 4 /\ ReadByte(input, meta.base, 9) = 6
      /\ T = tcp
  BY <1>1, ShaderHeader
<1>3. IsTcp4(packet)
  BY DEF HasHeader
<1>4. /\ ReadU16(input, meta.base, 2) = total /\ ReadU16(input, meta.base, 6) = fragment
      /\ ReadU16(input, meta.base, tcp + 2) = port
      /\ ReadByte(input, meta.base, tcp + 12) = Byte(packet, tcp + 12)
  BY HeaderReads
<1> DEFINE total2 == ReadU16(input, meta.base, 2)
           offset2 == (ReadByte(input, meta.base, T + 12) \div 16) * 4
           fragment2 == ReadU16(input, meta.base, 6)
           port2 == ReadU16(input, meta.base, T + 2)
           tcp42 == ReadByte(input, meta.base, 0) \div 16 = 4 /\ ReadByte(input, meta.base, 9) = 6
<1>5. port2 = port /\ offset2 = offset /\ total2 = total /\ fragment2 = fragment
  <2> HIDE DEF tcp, T, port
  <2> QED BY <1>2, <1>4
<1>6. ShaderRejects(input, meta) <=>
        \/ meta.len < 40 \/ ~tcp42 \/ T < 20 \/ T + 20 > meta.len
        \/ fragment2 % 16384 # 0
        \/ total2 > meta.len \/ total2 < T + 20
        \/ offset2 < 20 \/ T + offset2 > total2
        \/ port2 # ListenPort
  BY DEF ShaderRejects
<1>7. Rejects(packet) <=>
        \/ n < 40 \/ ~IsTcp4(packet) \/ tcp < 20 \/ tcp + 20 > n
        \/ fragment % 16384 # 0
        \/ total < tcp + 20 \/ total > n
        \/ offset < 20 \/ tcp + offset > total
  BY DEF Rejects
<1>8. meta.len = n /\ tcp42
  BY <1>2, <1>3
<1> HIDE DEF tcp, T, total, offset, fragment, port, n, total2, offset2, fragment2, port2, tcp42
<1>9. ShaderRejects(input, meta) <=> Rejects(packet) \/ port # ListenPort
  BY <1>2, <1>3, <1>5, <1>6, <1>7, <1>8
<1> QED BY <1>9, Zenon DEF port, tcp

\* ... and see the same.
LEMMA ViewsAlike ==
    ASSUME NEW packet \in Seq(Byte8), HasHeader(packet), ~Rejects(packet),
           NEW input, NEW meta, meta.len = Len(packet), ReadsBytes(input, meta.base, packet)
    PROVE  LET payload == ViewOf(packet).payload IN
           /\ ShaderView(input, meta) = ViewOf(packet)
           /\ payload \in Seq(Byte8)
           /\ ReadU16(input, meta.base, 2) = ShaderStart(input, meta) <=> payload = <<>>
           /\ ShaderChars(input, meta) = [i \in 0 .. Len(payload) - 1 |-> payload[i + 1]]
<1> DEFINE tcp == IpHeaderLen(packet)
           T == (ReadByte(input, meta.base, 0) % 16) * 4
           total == U16(packet, 2)
           offset == (Byte(packet, tcp + 12) \div 16) * 4
           start == tcp + offset
           n == Len(packet)
           payload == SubSeq(packet, start + 1, total)
           k == total - start
           chars == ShaderChars(input, meta)
<1>1. n \in Nat /\ n >= 40 /\ tcp \in 20 .. 60 /\ tcp + 20 <= n /\ total \in Nat
      /\ Byte(packet, tcp + 12) \in 0 .. 255
  BY HeaderRange
<1>2. T = tcp
  BY <1>1, ShaderHeader
<1>3. total <= n /\ start <= total /\ offset \in 0 .. 60 /\ start \in Nat
  <2> DEFINE b == Byte(packet, tcp + 12)
  <2>1. ~(total > n) /\ ~(start > total)
    BY DEF Rejects
  <2>2. b \in 0 .. 255
    BY <1>1
  <2>3. (b \div 16) * 4 \in 0 .. 60
    <3> HIDE DEF b
    <3> QED BY <2>2
  <2>4. offset \in 0 .. 60
    BY <2>3
  <2> HIDE DEF offset, tcp, n, total
  <2> QED BY <1>1, <2>1, <2>4
<1>4. /\ ReadU32(input, meta.base, 12) = U32(packet, 12) /\ ReadU32(input, meta.base, 16) = U32(packet, 16)
      /\ ReadU16(input, meta.base, tcp) = U16(packet, tcp) /\ ReadU16(input, meta.base, tcp + 2) = U16(packet, tcp + 2)
      /\ ReadU32(input, meta.base, tcp + 4) = U32(packet, tcp + 4)
      /\ ReadU32(input, meta.base, tcp + 8) = U32(packet, tcp + 8)
      /\ ReadByte(input, meta.base, tcp + 13) = Byte(packet, tcp + 13)
  BY HeaderReads
<1>5. ReadU16(input, meta.base, 2) = total /\ ReadByte(input, meta.base, tcp + 12) = Byte(packet, tcp + 12)
  BY HeaderReads
<1>6. ShaderStart(input, meta) = start
  <2>1. ShaderStart(input, meta) = T + ((ReadByte(input, meta.base, T + 12) \div 16) * 4)
    BY DEF ShaderStart
  <2> HIDE DEF T, tcp
  <2> QED BY <1>2, <1>5, <2>1
<1>7. chars = [i \in 0 .. k - 1 |-> ReadByte(input, meta.base, start + i)]
  BY <1>5, <1>6 DEF ShaderChars
<1> HIDE DEF chars
<1>8. payload \in Seq(Byte8) /\ Len(payload) = k /\ k \in Nat /\ \A i \in 1 .. k : payload[i] = packet[start + i]
  <2> HIDE DEF start, total, n
  <2>1. start \in Nat /\ total \in Nat /\ start <= total /\ total <= Len(packet) /\ packet \in Seq(Byte8)
    BY <1>1, <1>3 DEF n
  <2>2. k \in Nat /\ Len(payload) = k /\ payload \in Seq(Byte8)
    BY <2>1
  <2>3. ASSUME NEW i \in 1 .. k PROVE payload[i] = packet[start + i]
    <3>1. payload[i] = packet[(start + 1) + i - 1] /\ (start + 1) + i - 1 = start + i
      BY <2>1
    <3> QED BY <3>1, Zenon
  <2> QED BY <2>2, <2>3
<1>9. ASSUME NEW i \in 0 .. k - 1
      PROVE  ReadByte(input, meta.base, start + i) = payload[i + 1]
  <2> HIDE DEF start, total, payload
  <2>1. start + i \in 0 .. Len(packet) - 1 /\ i + 1 \in 1 .. k /\ (start + i) + 1 = start + (i + 1)
    BY <1>1, <1>3, <1>8
  <2>2. ReadByte(input, meta.base, start + i) = Byte(packet, start + i)
    BY <2>1, Zenon DEF ReadsBytes
  <2>3. Byte(packet, start + i) = packet[start + (i + 1)]
    BY <2>1, Zenon DEF Byte
  <2> QED BY <1>8, <2>1, <2>2, <2>3, Zenon
<1>10. chars = [i \in 0 .. k - 1 |-> payload[i + 1]]
  <2> HIDE DEF payload, k, start
  <2> QED BY <1>7, <1>9
<1>11. [i \in 1 .. k |-> chars[i - 1]] = payload
  <2> HIDE DEF payload, k
  <2>1. ASSUME NEW i \in 1 .. k PROVE chars[i - 1] = payload[i]
    <3>1. i - 1 \in 0 .. k - 1 /\ (i - 1) + 1 = i
      BY <1>8
    <3> QED BY <1>10, <3>1
  <2>2. payload = [i \in 1 .. k |-> payload[i]]
    BY <1>8
  <2> QED BY <2>1, <2>2
<1>12. ReadU16(input, meta.base, 2) = ShaderStart(input, meta) <=> payload = <<>>
  <2> HIDE DEF payload, start, total
  <2>1. total = start <=> k = 0
    BY <1>1, <1>3
  <2>2. k = 0 <=> payload = <<>>
    BY <1>8
  <2> QED BY <1>5, <1>6, <2>1, <2>2, Zenon
<1>13. ShaderView(input, meta) =
         [ok |-> TRUE,
          key |-> [src |-> ReadU32(input, meta.base, 12), dst |-> ReadU32(input, meta.base, 16),
                   sport |-> ReadU16(input, meta.base, tcp), dport |-> ReadU16(input, meta.base, tcp + 2)],
          seq |-> ReadU32(input, meta.base, tcp + 4), ack |-> ReadU32(input, meta.base, tcp + 8),
          flags |-> ReadByte(input, meta.base, tcp + 13),
          payload |-> [i \in 1 .. k |-> chars[i - 1]]]
  <2>1. ShaderView(input, meta) =
         [ok |-> TRUE,
          key |-> [src |-> ReadU32(input, meta.base, 12), dst |-> ReadU32(input, meta.base, 16),
                   sport |-> ReadU16(input, meta.base, T), dport |-> ReadU16(input, meta.base, T + 2)],
          seq |-> ReadU32(input, meta.base, T + 4), ack |-> ReadU32(input, meta.base, T + 8),
          flags |-> ReadByte(input, meta.base, T + 13),
          payload |-> [i \in 1 .. ReadU16(input, meta.base, 2) - ShaderStart(input, meta) |-> chars[i - 1]]]
    BY DEF ShaderView, chars
  <2> HIDE DEF T, tcp, total, start
  <2> QED BY <1>2, <1>5, <1>6, <2>1, Zenon
<1>14. ViewOf(packet) =
         [ok |-> TRUE,
          key |-> [src |-> U32(packet, 12), dst |-> U32(packet, 16),
                   sport |-> U16(packet, tcp), dport |-> U16(packet, tcp + 2)],
          seq |-> U32(packet, tcp + 4), ack |-> U32(packet, tcp + 8),
          flags |-> Byte(packet, tcp + 13), payload |-> payload]
  BY DEF ViewOf, FlowKey
<1> HIDE DEF tcp, payload, k
<1>15. ShaderView(input, meta) = ViewOf(packet)
  BY <1>4, <1>11, <1>13, <1>14, Zenon
<1>16. ViewOf(packet).payload = payload
  BY <1>14
<1>17. chars = [i \in 0 .. Len(payload) - 1 |-> payload[i + 1]]
  BY <1>8, <1>10, Zenon
<1> QED BY <1>8, <1>12, <1>15, <1>16, <1>17, Zenon DEF chars

-----------------------------------------------------------------------------
(* Request lines.                                                          *)

LEMMA SubOfSub ==
    ASSUME NEW A, NEW p \in Seq(A), NEW a \in Nat \ {0}, NEW b \in Nat, a <= b + 1, b <= Len(p),
           NEW j \in Nat \ {0}, NEW k \in Nat, k <= (b - a) + 1
    PROVE  SubSeq(SubSeq(p, a, b), j, k) = SubSeq(p, (a - 1) + j, (a - 1) + k)
<1> DEFINE q == SubSeq(p, a, b)
           s == SubSeq(q, j, k)
           t == SubSeq(p, (a - 1) + j, (a - 1) + k)
<1>1. q \in Seq(A) /\ Len(q) = (b - a) + 1 /\ \A i \in 1 .. (b - a) + 1 : q[i] = p[(a - 1) + i]
  BY SubSeqFacts
<1>2. /\ s \in Seq(A) /\ Len(s) = IF j <= k THEN k - j + 1 ELSE 0
      /\ \A i \in 1 .. (k - j) + 1 : s[i] = q[(j - 1) + i]
  <2> HIDE DEF q
  <2>1. q \in Seq(A) /\ k <= Len(q)
    BY <1>1
  <2>2. /\ SubSeq(q, j, k) \in Seq(A) /\ Len(SubSeq(q, j, k)) = IF j <= k THEN k - j + 1 ELSE 0
        /\ \A i \in 1 .. (k - j) + 1 : SubSeq(q, j, k)[i] = q[(j - 1) + i]
    BY <2>1, SubSeqFacts
  <2> QED BY <2>2, Zenon
<1> DEFINE J == (a - 1) + j
           K == (a - 1) + k
<1>3. /\ t \in Seq(A) /\ Len(t) = IF j <= k THEN k - j + 1 ELSE 0
      /\ \A i \in 1 .. (k - j) + 1 : t[i] = p[(J - 1) + i]
  <2>1. J \in Nat \ {0} /\ K \in Nat /\ K <= Len(p) /\ Len(p) \in Nat
    OBVIOUS
  <2>2. (J <= K <=> j <= k) /\ K - J + 1 = k - j + 1 /\ (K - J) + 1 = (k - j) + 1
    OBVIOUS
  <2> HIDE DEF J, K
  <2>3. /\ SubSeq(p, J, K) \in Seq(A) /\ Len(SubSeq(p, J, K)) = IF J <= K THEN K - J + 1 ELSE 0
        /\ \A i \in 1 .. (K - J) + 1 : SubSeq(p, J, K)[i] = p[(J - 1) + i]
    BY <2>1, SubSeqFacts
  <2>4. t = SubSeq(p, J, K)
    BY DEF J, K
  <2> HIDE DEF t
  <2> QED BY <2>2, <2>3, <2>4
<1>4. ASSUME NEW i \in 1 .. Len(s) PROVE s[i] = t[i]
  <2> HIDE DEF s, t, q, J, K
  <2>1. i \in 1 .. (k - j) + 1 /\ (j - 1) + i \in 1 .. (b - a) + 1
    BY <1>2
  <2>2. s[i] = p[(a - 1) + ((j - 1) + i)]
    BY <1>1, <1>2, <2>1
  <2>3. t[i] = p[(J - 1) + i]
    BY <1>3, <2>1
  <2>4. (J - 1) + i = (a - 1) + ((j - 1) + i)
    BY DEF J
  <2> QED BY <2>2, <2>3, <2>4, Zenon
<1> HIDE DEF s, t, q, J, K
<1>5. Len(s) = Len(t)
  BY <1>2, <1>3
<1>6. s = t
  BY <1>2, <1>3, <1>4, <1>5, SameBytes
<1> QED BY <1>6, Zenon DEF s, t, q

\* The characters of a payload, numbered from 0.
CharsOf(payload) == [i \in 0 .. Len(payload) - 1 |-> payload[i + 1]]

\* A comparison byte by byte is one of a part of the payload.
LEMMA EqualsPart ==
    ASSUME NEW payload \in Seq(Byte8), NEW start \in Nat, NEW len \in Nat, start + len <= Len(payload),
           NEW expected \in Seq(Nat)
    PROVE  Equals(CharsOf(payload), start, len, expected) <=> SubSeq(payload, start + 1, start + len) = expected
<1> DEFINE part == SubSeq(payload, start + 1, start + len)
           chars == CharsOf(payload)
<1>1. payload \in Seq(Nat) /\ Len(payload) \in Nat
  <2>1. payload \in [1 .. Len(payload) -> Byte8] /\ Len(payload) \in Nat
    OBVIOUS
  <2>2. Byte8 \subseteq Nat
    BY DEF Byte8
  <2>3. payload \in [1 .. Len(payload) -> Nat]
    BY <2>1, <2>2
  <2> QED BY <2>1, <2>3
<1>2. part \in Seq(Nat) /\ Len(part) = len /\ \A i \in 1 .. len : part[i] = payload[start + i]
  <2>1. start + 1 \in Nat \ {0} /\ start + len \in Nat /\ start + len <= Len(payload)
    BY <1>1
  <2>2. /\ part \in Seq(Nat) /\ Len(part) = IF start + 1 <= start + len THEN (start + len) - (start + 1) + 1 ELSE 0
        /\ \A i \in 1 .. ((start + len) - (start + 1)) + 1 : part[i] = payload[((start + 1) - 1) + i]
    BY <1>1, <2>1, SubSeqFacts
  <2> HIDE DEF part
  <2>3. ((start + len) - (start + 1)) + 1 = len /\ (start + 1) - 1 = start
        /\ (IF start + 1 <= start + len THEN (start + len) - (start + 1) + 1 ELSE 0) = len
    OBVIOUS
  <2> QED BY <2>2, <2>3
<1>3. ASSUME NEW i \in 0 .. len - 1 PROVE chars[start + i] = part[i + 1] /\ i + 1 \in 1 .. len
  <2> HIDE DEF part
  <2>1. start + i \in 0 .. Len(payload) - 1 /\ i + 1 \in 1 .. len /\ (start + i) + 1 = start + (i + 1)
    BY <1>1
  <2>2. chars[start + i] = payload[(start + i) + 1]
    BY <2>1 DEF CharsOf
  <2> QED BY <1>2, <2>1, <2>2, Zenon
<1> HIDE DEF part, chars
<1>4. ASSUME Equals(chars, start, len, expected) PROVE part = expected
  <2>1. len = Len(expected) /\ \A i \in 0 .. len - 1 : chars[start + i] = expected[i + 1]
    BY <1>4 DEF Equals
  <2>2. ASSUME NEW i \in 1 .. Len(part) PROVE part[i] = expected[i]
    <3>1. i - 1 \in 0 .. len - 1 /\ (i - 1) + 1 = i
      BY <1>2
    <3> QED BY <1>3, <2>1, <3>1
  <2> QED BY <1>2, <2>1, <2>2, SameBytes
<1>5. ASSUME part = expected PROVE Equals(chars, start, len, expected)
  <2>1. len = Len(expected)
    BY <1>2, <1>5
  <2>2. ASSUME NEW i \in 0 .. len - 1 PROVE chars[start + i] = expected[i + 1]
    BY <1>3, <1>5
  <2> QED BY <2>1, <2>2 DEF Equals
<1> QED BY <1>4, <1>5, Zenon DEF part, chars

\* Counted from 0 the first place is one less.
LEMMA FirstShifted ==
    ASSUME NEW S, S \subseteq Nat \ {0}, NEW T, T \subseteq Nat, \A i \in Nat : i \in T <=> i + 1 \in S
    PROVE  FirstIn(T) = IF S = {} THEN INVALID ELSE Min(S) - 1
<1>1. CASE S = {}
  <2>1. T = {}
    BY <1>1
  <2> QED BY <1>1, <2>1 DEF FirstIn
<1>2. CASE S # {}
  <2>1. Min(S) \in S /\ \A y \in S : Min(S) <= y
    BY <1>2, MinOf
  <2> DEFINE m == Min(S)
  <2> HIDE DEF m
  <2>2. m \in S /\ \A y \in S : m <= y
    BY <2>1 DEF m
  <2>3. m - 1 \in Nat /\ (m - 1) + 1 = m
    BY <2>2
  <2>4. m - 1 \in T
    BY <2>2, <2>3
  <2>5. ASSUME NEW i \in T PROVE m - 1 <= i
    <3>1. i \in Nat /\ i + 1 \in S
      OBVIOUS
    <3>2. m <= i + 1 /\ m \in Nat
      BY <2>2, <3>1
    <3> QED BY <3>1, <3>2
  <2>6. Min(T) = m - 1 /\ T # {}
    <3> DEFINE l == m - 1
    <3>1. l \in T /\ \A i \in T : l <= i
      BY <2>4, <2>5
    <3>2. T \subseteq Int
      OBVIOUS
    <3> HIDE DEF l
    <3>3. Min(T) = l /\ T # {}
      BY <3>1, <3>2, MinIs
    <3> QED BY <3>3 DEF l
  <2> QED BY <1>2, <2>6 DEF FirstIn, m
<1> QED BY <1>1, <1>2

\* Where a request line may end, its spaces, and the end of the path between
\* two of them.
Ends(p) == {i \in 1 .. Len(p) - 1 : p[i] = CR /\ p[i + 1] = LF}
Gaps(p, n) == {i \in 1 .. n : p[i] = SP}
Marks(p, a, b) == {i \in a + 1 .. b - 1 : p[i] = Question}
PathEnd(p, a, b) == IF Marks(p, a, b) = {} THEN b ELSE Min(Marks(p, a, b))

\* What a line of n bytes with spaces at a and b, in this order, asks for.
Malformed(p, n, a, b) == b = a + 1 \/ SubSeq(p, b + 1, n) \notin Versions
ClassOf(p, n, a, b) ==
    IF Malformed(p, n, a, b) THEN BAD_REQUEST
    ELSE IF SubSeq(p, 1, a - 1) # Get THEN METHOD_NOT_ALLOWED
    ELSE IF SubSeq(p, a + 1, PathEnd(p, a, b) - 1) = PlaintextPath THEN PLAINTEXT
    ELSE IF SubSeq(p, a + 1, PathEnd(p, a, b) - 1) = HealthPath THEN HEALTH
    ELSE NOT_FOUND

LEMMA MarksRange ==
    ASSUME NEW p, NEW a \in Nat \ {0}, NEW b \in Nat, a < b
    PROVE  PathEnd(p, a, b) \in a + 1 .. b
<1>1. CASE Marks(p, a, b) = {}
  BY <1>1 DEF PathEnd
<1>2. CASE Marks(p, a, b) # {}
  <2>1. Marks(p, a, b) \subseteq Nat
    BY DEF Marks
  <2>2. Min(Marks(p, a, b)) \in Marks(p, a, b)
    BY <1>2, <2>1, MinOf
  <2>3. PathEnd(p, a, b) \in Marks(p, a, b)
    BY <1>2, <2>2, Zenon DEF PathEnd
  <2> QED BY <2>3 DEF Marks
<1> QED BY <1>1, <1>2

\* The line that the CPU splits.
LEMMA LineSpaces ==
    ASSUME NEW p \in Seq(Byte8), NEW n \in Nat, n <= Len(p)
    PROVE  LET line == SubSeq(p, 1, n) IN
           /\ line \in Seq(Byte8) /\ Len(line) = n
           /\ {i \in DOMAIN line : line[i] = SP} = Gaps(p, n)
<1> DEFINE line == SubSeq(p, 1, n)
<1>1. line \in Seq(Byte8) /\ Len(line) = n /\ \A i \in 1 .. n : line[i] = p[i]
  <2>1. line \in Seq(Byte8) /\ Len(line) = n
    OBVIOUS
  <2>2. \A i \in 1 .. n : line[i] = p[i]
    OBVIOUS
  <2> QED BY <2>1, <2>2
<1> HIDE DEF line
<1>2. DOMAIN line = 1 .. n
  BY <1>1
<1>3. {i \in DOMAIN line : line[i] = SP} = Gaps(p, n)
  BY <1>1, <1>2 DEF Gaps
<1> QED BY <1>1, <1>3 DEF line

LEMMA CpuBadLine ==
    ASSUME NEW p \in Seq(Byte8),
           Ends(p) = {} \/ (Min(Ends(p)) - 1 \in Nat /\ Min(Ends(p)) - 1 <= Len(p)
                            /\ Cardinality(Gaps(p, Min(Ends(p)) - 1)) # 2)
    PROVE  ClassifyHttpRequest(p) = BAD_REQUEST
<1> DEFINE n == Min(Ends(p)) - 1
           line == SubSeq(p, 1, n)
           spaces == {i \in DOMAIN line : line[i] = SP}
<1>1. Ends(p) = {} \/ Cardinality(spaces) # 2 => ClassifyHttpRequest(p) = BAD_REQUEST
  BY DEF ClassifyHttpRequest, Ends
<1>2. CASE Ends(p) = {}
  BY <1>1, <1>2
<1>3. CASE Ends(p) # {}
  <2>1. spaces = Gaps(p, n)
    BY <1>3, LineSpaces
  <2> HIDE DEF spaces
  <2> QED BY <1>1, <1>3, <2>1
<1> QED BY <1>2, <1>3

LEMMA CpuLine ==
    ASSUME NEW p \in Seq(Byte8), Ends(p) # {}, NEW n \in Nat, n = Min(Ends(p)) - 1, n <= Len(p),
           NEW a \in 1 .. n, NEW b \in 1 .. n, a < b, Gaps(p, n) = {a, b}, Cardinality(Gaps(p, n)) = 2
    PROVE  ClassifyHttpRequest(p) = ClassOf(p, n, a, b)
<1> DEFINE line == SubSeq(p, 1, n)
           spaces == {i \in DOMAIN line : line[i] = SP}
           first == Min(spaces)
           second == Max(spaces)
           target == SubSeq(line, first + 1, second - 1)
           marks == {i \in 1 .. Len(target) : target[i] = Question}
           mark == IF marks # {} THEN Min(marks) ELSE 0
           path == IF mark = 0 THEN target ELSE SubSeq(target, 1, mark - 1)
           end == PathEnd(p, a, b)
<1>1. ClassifyHttpRequest(p) =
        IF \/ Ends(p) = {} \/ Cardinality(spaces) # 2 \/ target = <<>>
           \/ SubSeq(line, second + 1, Len(line)) \notin Versions
        THEN BAD_REQUEST
        ELSE IF SubSeq(line, 1, first - 1) # Get THEN METHOD_NOT_ALLOWED
        ELSE IF path = PlaintextPath THEN PLAINTEXT
        ELSE IF path = HealthPath THEN HEALTH
        ELSE NOT_FOUND
  BY DEF ClassifyHttpRequest, Ends, SelectInSeq
<1>2. line \in Seq(Byte8) /\ Len(line) = n /\ spaces = {a, b} /\ Cardinality(spaces) = 2
  BY LineSpaces
<1> HIDE DEF line, spaces
<1>3. first = a
  <2>1. spaces \subseteq Int /\ a \in spaces /\ \A y \in spaces : a <= y
    BY <1>2
  <2> QED BY <2>1, MinIs
<1>4. second = b
  <2>1. second \in spaces /\ \A y \in spaces : second >= y
    <3>1. b \in spaces /\ \A y \in spaces : b >= y
      BY <1>2
    <3> QED BY <3>1, Zenon DEF Max
  <2> HIDE DEF second
  <2> QED BY <1>2, <2>1
<1> HIDE DEF first, second
<1>5. target = SubSeq(p, a + 1, b - 1) /\ target \in Seq(Byte8) /\ Len(target) = (b - a) - 1
      /\ \A i \in 1 .. (b - a) - 1 : target[i] = p[a + i]
  <2> DEFINE J == a + 1
             K == b - 1
  <2>1. J \in Nat \ {0} /\ K \in Nat /\ K <= n /\ K <= Len(p) /\ J <= K + 1 /\ (n - 1) + 1 = n
        /\ (1 - 1) + J = J /\ (1 - 1) + K = K /\ (IF J <= K THEN K - J + 1 ELSE 0) = (b - a) - 1
        /\ (K - J) + 1 = (b - a) - 1 /\ J - 1 = a
    OBVIOUS
  <2>2. target = SubSeq(line, J, K)
    BY <1>3, <1>4 DEF target
  <2> HIDE DEF J, K, target
  <2>3. SubSeq(line, J, K) = SubSeq(p, (1 - 1) + J, (1 - 1) + K)
    BY <2>1, SubOfSub DEF line
  <2>4. /\ SubSeq(p, J, K) \in Seq(Byte8)
        /\ Len(SubSeq(p, J, K)) = IF J <= K THEN K - J + 1 ELSE 0
        /\ \A i \in 1 .. (K - J) + 1 : SubSeq(p, J, K)[i] = p[(J - 1) + i]
    BY <2>1, SubSeqFacts
  <2>5. target = SubSeq(p, J, K)
    BY <2>1, <2>2, <2>3
  <2>6. target \in Seq(Byte8) /\ Len(target) = (b - a) - 1
        /\ \A i \in 1 .. (b - a) - 1 : target[i] = p[a + i]
    BY <2>1, <2>4, <2>5
  <2> QED BY <2>5, <2>6 DEF J, K
<1>6. target = <<>> <=> b = a + 1
  <2> HIDE DEF target
  <2> QED BY <1>5
<1>7. SubSeq(line, second + 1, Len(line)) = SubSeq(p, b + 1, n)
  <2>1. b + 1 \in Nat \ {0} /\ (n - 1) + 1 = n /\ (1 - 1) + (b + 1) = b + 1 /\ (1 - 1) + n = n /\ 1 <= n + 1
    OBVIOUS
  <2>2. SubSeq(SubSeq(p, 1, n), b + 1, n) = SubSeq(p, (1 - 1) + (b + 1), (1 - 1) + n)
    BY <2>1, SubOfSub
  <2> QED BY <1>2, <1>4, <2>1, <2>2, Zenon DEF line
<1>8. SubSeq(line, 1, first - 1) = SubSeq(p, 1, a - 1)
  <2>1. a - 1 \in Nat /\ a - 1 <= (n - 1) + 1 /\ (1 - 1) + 1 = 1 /\ (1 - 1) + (a - 1) = a - 1 /\ 1 <= n + 1
    OBVIOUS
  <2>2. SubSeq(SubSeq(p, 1, n), 1, a - 1) = SubSeq(p, (1 - 1) + 1, (1 - 1) + (a - 1))
    BY <2>1, SubOfSub
  <2> QED BY <1>3, <2>1, <2>2, Zenon DEF line
<1> HIDE DEF target
<1>9. path = SubSeq(p, a + 1, end - 1)
  <2> DEFINE M == Marks(p, a, b)
  <2>1. \A i \in 1 .. (b - a) - 1 : i \in marks <=> a + i \in M
    <3>1. ASSUME NEW i \in 1 .. (b - a) - 1 PROVE i \in marks <=> a + i \in M
      <4>1. a + i \in a + 1 .. b - 1
        OBVIOUS
      <4> QED BY <1>5, <4>1 DEF Marks
    <3> QED BY <3>1
  <2>2. marks \subseteq 1 .. (b - a) - 1 /\ M \subseteq a + 1 .. b - 1
    BY <1>5 DEF Marks
  <2> HIDE DEF marks
  <2>3. CASE M = {}
    <3>1. marks = {}
      BY <2>1, <2>2, <2>3
    <3>2. mark = 0 /\ end = b
      BY <2>3, <3>1 DEF PathEnd
    <3> QED BY <1>5, <3>2, Zenon
  <2>4. CASE M # {}
    <3>1. M \subseteq Nat
      BY <2>2
    <3>2. end \in M /\ \A y \in M : end <= y
      <4>1. end = Min(M)
        BY <2>4, Zenon DEF PathEnd
      <4> HIDE DEF end, M
      <4> QED BY <2>4, <3>1, <4>1, MinOf
    <3> HIDE DEF end, M
    <3> DEFINE l == end - a
    <3>3. l \in 1 .. (b - a) - 1 /\ a + l = end /\ end \in Nat
      BY <2>2, <3>2
    <3>4. l \in marks
      <4> HIDE DEF l
      <4> QED BY <2>1, <3>2, <3>3
    <3>5. ASSUME NEW i \in marks PROVE l <= i
      <4>1. i \in 1 .. (b - a) - 1 /\ a + i \in M
        BY <2>1, <2>2
      <4>2. end <= a + i
        BY <3>2, <4>1
      <4> QED BY <3>3, <4>1, <4>2
    <3>6. marks \subseteq Int
      BY <2>2
    <3> HIDE DEF l
    <3>7. Min(marks) = l /\ marks # {}
      BY <3>4, <3>5, <3>6, MinIs
    <3>8. mark = l /\ mark # 0
      <4>1. mark = l
        BY <3>7
      <4> HIDE DEF mark
      <4> QED BY <3>3, <4>1
    <3>9. path = SubSeq(target, 1, l - 1)
      BY <3>8
    <3>10. SubSeq(SubSeq(p, a + 1, b - 1), 1, l - 1) = SubSeq(p, ((a + 1) - 1) + 1, ((a + 1) - 1) + (l - 1))
      <4>1. a + 1 \in Nat \ {0} /\ b - 1 \in Nat /\ a + 1 <= (b - 1) + 1 /\ b - 1 <= Len(p)
        OBVIOUS
      <4>2. l - 1 \in Nat /\ l - 1 <= ((b - 1) - (a + 1)) + 1
        BY <3>3
      <4> QED BY <4>1, <4>2, SubOfSub, SMTT(60)
    <3>11. ((a + 1) - 1) + 1 = a + 1 /\ ((a + 1) - 1) + (l - 1) = end - 1
      BY <3>3
    <3> HIDE DEF path
    <3> QED BY <1>5, <3>9, <3>10, <3>11
  <2> QED BY <2>3, <2>4
<1> HIDE DEF path, end
<1>10. ClassOf(p, n, a, b) =
        IF b = a + 1 \/ SubSeq(p, b + 1, n) \notin Versions THEN BAD_REQUEST
        ELSE IF SubSeq(p, 1, a - 1) # Get THEN METHOD_NOT_ALLOWED
        ELSE IF SubSeq(p, a + 1, end - 1) = PlaintextPath THEN PLAINTEXT
        ELSE IF SubSeq(p, a + 1, end - 1) = HealthPath THEN HEALTH
        ELSE NOT_FOUND
  BY DEF ClassOf, Malformed, end
<1>11. ~(Ends(p) = {} \/ Cardinality(spaces) # 2)
  BY <1>2
<1> QED BY <1>1, <1>6, <1>7, <1>8, <1>9, <1>10, <1>11

\* The line that the shader looks for.
LEMMA CrlfFound ==
    ASSUME NEW p \in Seq(Byte8)
    PROVE  FindCrlf(CharsOf(p)) = IF Ends(p) = {} THEN INVALID ELSE Min(Ends(p)) - 1
<1> DEFINE chars == CharsOf(p)
           T == {i \in DOMAIN chars : i + 1 \in DOMAIN chars /\ chars[i] = CR /\ chars[i + 1] = LF}
<1>1. Len(p) \in Nat
  OBVIOUS
<1>2. DOMAIN chars = 0 .. Len(p) - 1 /\ \A i \in 0 .. Len(p) - 1 : chars[i] = p[i + 1]
  BY DEF CharsOf
<1> HIDE DEF chars
<1>3. ASSUME NEW i \in Nat PROVE i \in T <=> i + 1 \in Ends(p)
  <2>1. i \in DOMAIN chars /\ i + 1 \in DOMAIN chars <=> i + 1 \in 1 .. Len(p) - 1
    BY <1>1, <1>2
  <2>2. CASE ~(i + 1 \in 1 .. Len(p) - 1)
    BY <2>1, <2>2 DEF Ends
  <2>3. CASE i + 1 \in 1 .. Len(p) - 1
    <3>1. i \in 0 .. Len(p) - 1 /\ i + 1 \in 0 .. Len(p) - 1
      BY <1>1, <2>3
    <3>2. chars[i] = p[i + 1] /\ chars[i + 1] = p[(i + 1) + 1]
      BY <1>2, <3>1
    <3> QED BY <2>1, <2>3, <3>2 DEF Ends
  <2> QED BY <2>2, <2>3
<1>4. T \subseteq Nat /\ Ends(p) \subseteq Nat \ {0}
  BY <1>1, <1>2 DEF Ends
<1>5. FindCrlf(chars) = FirstIn(T)
  BY DEF FindCrlf
<1> HIDE DEF T
<1>6. FirstIn(T) = IF Ends(p) = {} THEN INVALID ELSE Min(Ends(p)) - 1
  BY <1>3, <1>4, FirstShifted
<1> QED BY <1>5, <1>6 DEF chars

\* Where a byte is, counted from 0 and from 1.
Indexes(p, start, end, byte) == {i \in start .. end - 1 : CharsOf(p)[i] = byte}
Places(p, start, end, byte) == {i \in start + 1 .. end : p[i] = byte}

LEMMA ByteFound ==
    ASSUME NEW p \in Seq(Byte8), NEW start \in Nat, NEW end \in Int, end <= Len(p), NEW byte
    PROVE  FirstIn(Indexes(p, start, end, byte)) =
             IF Places(p, start, end, byte) = {} THEN INVALID ELSE Min(Places(p, start, end, byte)) - 1
<1> DEFINE chars == CharsOf(p)
           T == {i \in start .. end - 1 : chars[i] = byte}
           S == {i \in start + 1 .. end : p[i] = byte}
<1>1. Len(p) \in Nat
  OBVIOUS
<1>2. \A i \in 0 .. Len(p) - 1 : chars[i] = p[i + 1]
  BY DEF CharsOf
<1> HIDE DEF chars
<1>3. ASSUME NEW i \in Nat PROVE i \in T <=> i + 1 \in S
  <2>1. i \in start .. end - 1 <=> i + 1 \in start + 1 .. end
    OBVIOUS
  <2>2. i \in start .. end - 1 => i \in 0 .. Len(p) - 1
    BY <1>1
  <2> QED BY <1>2, <2>1, <2>2
<1>4. T \subseteq Nat /\ S \subseteq Nat \ {0}
  OBVIOUS
<1> HIDE DEF T, S
<1>5. FirstIn(T) = IF S = {} THEN INVALID ELSE Min(S) - 1
  BY <1>3, <1>4, FirstShifted
<1> QED BY <1>5 DEF T, S, chars, Indexes, Places

LEMMA ShaderLine ==
    ASSUME NEW p \in Seq(Byte8), NEW n \in Nat, n <= Len(p), FindCrlf(CharsOf(p)) = n,
           NEW a \in 1 .. n, NEW b \in 1 .. n, a < b,
           FindSpace(CharsOf(p), 0, n) = a - 1, FindSpace(CharsOf(p), a, n) = b - 1
    PROVE  ShaderClassify(CharsOf(p)) = ClassOf(p, n, a, b)
<1> DEFINE chars == CharsOf(p)
           end == FindCrlf(chars)
           first == FindSpace(chars, 0, end)
           second == FindSpace(chars, first + 1, end)
           path == first + 1
           mark == FirstIn({i \in path .. second - 1 : chars[i] = Question})
           pathLen == (IF mark = INVALID THEN second ELSE mark) - path
           stop == PathEnd(p, a, b)
<1>1. ShaderClassify(chars) =
        IF \/ end = INVALID \/ first = INVALID
           \/ second = INVALID \/ second = path
           \/ \A v \in Versions : ~Equals(chars, second + 1, end - second - 1, v)
        THEN BAD_REQUEST
        ELSE IF ~Equals(chars, 0, first, Get) THEN METHOD_NOT_ALLOWED
        ELSE IF Equals(chars, path, pathLen, PlaintextPath) THEN PLAINTEXT
        ELSE IF Equals(chars, path, pathLen, HealthPath) THEN HEALTH
        ELSE NOT_FOUND
  BY DEF ShaderClassify
<1> HIDE DEF chars
<1>2. end = n /\ FindSpace(chars, 0, n) = a - 1 /\ FindSpace(chars, a, n) = b - 1
  BY DEF chars
<1> HIDE DEF end
<1>3. first = a - 1
  BY <1>2
<1> HIDE DEF first
<1>4. path = a /\ first + 1 = a
  BY <1>3
<1>5. second = b - 1
  BY <1>2, <1>4
<1> HIDE DEF second, path
<1>6. mark = (IF Marks(p, a, b) = {} THEN INVALID ELSE Min(Marks(p, a, b)) - 1)
  <2> DEFINE e == b - 1
             S == Places(p, a, e, Question)
  <2>1. e \in Int /\ e <= Len(p) /\ a \in Nat
    OBVIOUS
  <2>2. S = Marks(p, a, b) /\ second - 1 = e - 1
    BY <1>5 DEF Marks, Places
  <2> HIDE DEF e
  <2>3. FirstIn(Indexes(p, a, e, Question)) = IF S = {} THEN INVALID ELSE Min(S) - 1
    BY <2>1, ByteFound
  <2>4. mark = FirstIn({i \in a .. e - 1 : chars[i] = Question})
    BY <1>4, <2>2 DEF mark
  <2>5. {i \in a .. e - 1 : chars[i] = Question} = Indexes(p, a, e, Question)
    BY DEF Indexes, chars
  <2> HIDE DEF S, mark
  <2> QED BY <2>2, <2>3, <2>4, <2>5
<1> HIDE DEF mark
<1>7. stop \in a + 1 .. b
  BY MarksRange
<1>8. pathLen = (stop - 1) - a
  <2>1. CASE Marks(p, a, b) = {}
    <3>1. mark = INVALID /\ stop = b
      BY <1>6, <2>1 DEF PathEnd
    <3> HIDE DEF stop
    <3> QED BY <1>4, <1>5, <3>1
  <2>2. CASE Marks(p, a, b) # {}
    <3>1. mark = stop - 1
      BY <1>6, <2>2 DEF PathEnd
    <3> HIDE DEF stop
    <3>2. mark # INVALID
      BY <1>7, <3>1 DEF INVALID
    <3> QED BY <1>4, <3>1, <3>2
  <2> QED BY <2>1, <2>2
<1> HIDE DEF pathLen, stop
<1>9. pathLen \in Nat /\ a + pathLen = stop - 1 /\ a + pathLen <= Len(p) /\ a \in Nat
  BY <1>7, <1>8
<1>10. Get \in Seq(Nat) /\ PlaintextPath \in Seq(Nat) /\ HealthPath \in Seq(Nat) /\ \A v \in Versions : v \in Seq(Nat)
  BY DEF Get, PlaintextPath, HealthPath, Versions
<1>11. ASSUME NEW expected \in Seq(Nat)
       PROVE  Equals(chars, path, pathLen, expected) <=> SubSeq(p, a + 1, stop - 1) = expected
  <2>1. Equals(chars, a, pathLen, expected) <=> SubSeq(p, a + 1, a + pathLen) = expected
    BY <1>9, EqualsPart DEF chars
  <2> QED BY <1>4, <1>9, <2>1
<1>12. Equals(chars, 0, first, Get) <=> SubSeq(p, 1, a - 1) = Get
  <2> DEFINE l == a - 1
  <2>1. l \in Nat /\ 0 \in Nat /\ 0 + l <= Len(p) /\ 0 + 1 = 1 /\ 0 + l = l /\ first = l
    BY <1>3
  <2> HIDE DEF l
  <2>2. Equals(chars, 0, l, Get) <=> SubSeq(p, 0 + 1, 0 + l) = Get
    BY <1>10, <2>1, EqualsPart DEF chars
  <2>3. Equals(chars, 0, first, Get) <=> SubSeq(p, 1, l) = Get
    BY <2>1, <2>2
  <2> QED BY <2>3 DEF l
<1>13. ASSUME NEW v \in Versions
       PROVE  Equals(chars, second + 1, end - second - 1, v) <=> SubSeq(p, b + 1, n) = v
  <2> DEFINE l == n - b
  <2>1. l \in Nat /\ b \in Nat /\ b + l <= Len(p) /\ b + l = n /\ second + 1 = b /\ end - second - 1 = l
    BY <1>2, <1>5
  <2> HIDE DEF l
  <2>2. Equals(chars, b, l, v) <=> SubSeq(p, b + 1, b + l) = v
    BY <1>10, <2>1, EqualsPart, SMTT(60) DEF chars
  <2> QED BY <2>1, <2>2
<1>14. (\A v \in Versions : ~Equals(chars, second + 1, end - second - 1, v)) <=> SubSeq(p, b + 1, n) \notin Versions
  BY <1>13
<1>15. end # INVALID /\ first # INVALID /\ second # INVALID /\ (second = path <=> b = a + 1)
  BY <1>2, <1>3, <1>4, <1>5 DEF INVALID
<1>16. ClassOf(p, n, a, b) =
        IF b = a + 1 \/ SubSeq(p, b + 1, n) \notin Versions THEN BAD_REQUEST
        ELSE IF SubSeq(p, 1, a - 1) # Get THEN METHOD_NOT_ALLOWED
        ELSE IF SubSeq(p, a + 1, stop - 1) = PlaintextPath THEN PLAINTEXT
        ELSE IF SubSeq(p, a + 1, stop - 1) = HealthPath THEN HEALTH
        ELSE NOT_FOUND
  BY DEF ClassOf, Malformed, stop
<1>17. /\ Equals(chars, path, pathLen, PlaintextPath) <=> SubSeq(p, a + 1, stop - 1) = PlaintextPath
       /\ Equals(chars, path, pathLen, HealthPath) <=> SubSeq(p, a + 1, stop - 1) = HealthPath
  BY <1>10, <1>11
<1>18. ShaderClassify(chars) = ClassOf(p, n, a, b)
  BY <1>1, <1>12, <1>14, <1>15, <1>16, <1>17
<1> QED BY <1>18 DEF chars

\* How many spaces a line has.
LEMMA GapsCount ==
    ASSUME NEW G, IsFiniteSet(G), NEW a, NEW b, a # b
    PROVE  /\ G = {} => Cardinality(G) # 2
           /\ G = {a} => Cardinality(G) # 2
           /\ G = {a, b} => Cardinality(G) = 2
           /\ a \in G /\ b \in G /\ G # {a, b} => Cardinality(G) # 2
<1>1. Cardinality({}) = 0 /\ Cardinality({a}) = 1 /\ IsFiniteSet({a})
  BY FS_EmptySet, FS_Singleton
<1>2. IsFiniteSet({a} \cup {b}) /\ Cardinality({a} \cup {b}) = 2
  <2>1. Cardinality({a} \cup {b}) = IF b \in {a} THEN Cardinality({a}) ELSE Cardinality({a}) + 1
    BY <1>1, FS_AddElement
  <2> QED BY <1>1, <2>1, FS_AddElement
<1>3. {a} \cup {b} = {a, b}
  OBVIOUS
<1>4. ASSUME a \in G, b \in G, G # {a, b} PROVE Cardinality(G) # 2
  <2>1. PICK c \in G : c \notin {a, b}
    BY <1>4
  <2> DEFINE three == {a, b} \cup {c}
  <2>2. IsFiniteSet(three) /\ Cardinality(three) = 3
    <3>1. Cardinality(three) = IF c \in {a, b} THEN Cardinality({a, b}) ELSE Cardinality({a, b}) + 1
      BY <1>2, <1>3, FS_AddElement
    <3>2. IsFiniteSet(three)
      BY <1>2, <1>3, FS_AddElement
    <3> HIDE DEF three
    <3> QED BY <1>2, <1>3, <2>1, <3>1, <3>2
  <2>3. three \in SUBSET G
    BY <1>4, <2>1
  <2> HIDE DEF three
  <2>4. Cardinality(three) <= Cardinality(G)
    BY <2>3, FS_Subset
  <2> QED BY <2>2, <2>4
<1> QED BY <1>1, <1>2, <1>3, <1>4

LEMMA ShaderBadLine ==
    ASSUME NEW p,
           \/ FindCrlf(CharsOf(p)) = INVALID
           \/ FindSpace(CharsOf(p), 0, FindCrlf(CharsOf(p))) = INVALID
           \/ FindSpace(CharsOf(p), FindSpace(CharsOf(p), 0, FindCrlf(CharsOf(p))) + 1, FindCrlf(CharsOf(p))) = INVALID
    PROVE  ShaderClassify(CharsOf(p)) = BAD_REQUEST
<1> QED BY DEF ShaderClassify

\* A third space is in what should be the version.
LEMMA ThirdSpace ==
    ASSUME NEW p \in Seq(Byte8), NEW n \in Nat, n <= Len(p), NEW a, NEW b \in 1 .. n,
           NEW c \in b + 1 .. n, p[c] = SP
    PROVE  ClassOf(p, n, a, b) = BAD_REQUEST
<1> DEFINE rest == SubSeq(p, b + 1, n)
<1>1. rest \notin Versions
  <2>1. SUFFICES ASSUME rest \in Versions PROVE FALSE
    OBVIOUS
  <2>2. Len(rest) = 1 /\ rest[1] # SP
    <3> HIDE DEF rest
    <3>1. rest = <<86>> \/ rest = <<87>>
      BY <2>1 DEF Versions
    <3> QED BY <3>1 DEF SP
  <2> DEFINE j == b + 1
  <2>3. j \in Nat \ {0} /\ n <= Len(p) /\ j <= n /\ (j - 1) + 1 = b + 1
    OBVIOUS
  <2> HIDE DEF j
  <2>4. /\ Len(SubSeq(p, j, n)) = IF j <= n THEN n - j + 1 ELSE 0
        /\ \A i \in 1 .. (n - j) + 1 : SubSeq(p, j, n)[i] = p[(j - 1) + i]
    BY <2>3, SubSeqFacts
  <2>5. rest = SubSeq(p, j, n)
    BY DEF j
  <2> HIDE DEF rest
  <2>6. n - j + 1 = 1 /\ 1 \in 1 .. (n - j) + 1
    BY <2>2, <2>3, <2>4, <2>5
  <2>7. rest[1] = p[b + 1]
    BY <2>3, <2>4, <2>5, <2>6
  <2>8. c = b + 1
    BY <2>6 DEF j
  <2> QED BY <2>2, <2>7, <2>8
<1> QED BY <1>1 DEF ClassOf, Malformed

\* Both sides make the same of every request line.
LEMMA ClassifyAlike ==
    ASSUME NEW p \in Seq(Byte8)
    PROVE  ShaderClassify(CharsOf(p)) = ClassifyHttpRequest(p)
<1> DEFINE chars == CharsOf(p)
           E == Ends(p)
<1>0. Len(p) \in Nat
  OBVIOUS
<1>1. FindCrlf(chars) = IF E = {} THEN INVALID ELSE Min(E) - 1
  BY CrlfFound
<1>2. CASE E = {}
  <2>1. ShaderClassify(chars) = BAD_REQUEST
    BY <1>1, <1>2, ShaderBadLine
  <2>2. ClassifyHttpRequest(p) = BAD_REQUEST
    BY <1>2, CpuBadLine
  <2> QED BY <2>1, <2>2
<1>3. CASE E # {}
  <2> DEFINE n == Min(E) - 1
  <2>1. Min(E) \in E
    <3>1. E \subseteq Nat
      BY <1>0 DEF Ends
    <3> HIDE DEF E
    <3> QED BY <1>3, <3>1, MinOf
  <2>2. n \in Nat /\ n <= Len(p)
    BY <1>0, <2>1 DEF Ends
  <2>3. FindCrlf(chars) = n /\ n = Min(Ends(p)) - 1
    BY <1>1, <1>3
  <2> HIDE DEF n
  <2> DEFINE G == Gaps(p, n)
  <2>4. IsFiniteSet(G) /\ G \subseteq 1 .. n
    <3>1. G \in SUBSET (1 .. n)
      BY DEF Gaps
    <3>2. IsFiniteSet(1 .. n)
      BY <2>2, FS_Interval
    <3> QED BY <3>1, <3>2, FS_Subset
  <2>5. FindSpace(chars, 0, n) = IF G = {} THEN INVALID ELSE Min(G) - 1
    <3>1. FindSpace(chars, 0, n) = FirstIn(Indexes(p, 0, n, SP))
      BY DEF FindSpace, Indexes
    <3>2. Places(p, 0, n, SP) = G
      BY DEF Places, Gaps
    <3>3. 0 \in Nat /\ n \in Int /\ n <= Len(p)
      BY <2>2
    <3>4. FirstIn(Indexes(p, 0, n, SP)) =
            IF Places(p, 0, n, SP) = {} THEN INVALID ELSE Min(Places(p, 0, n, SP)) - 1
      BY <3>3, ByteFound
    <3> QED BY <3>1, <3>2, <3>4
  <2> HIDE DEF G
  <2>6. ASSUME Cardinality(G) # 2 PROVE ClassifyHttpRequest(p) = BAD_REQUEST
    BY <2>2, <2>3, <2>6, CpuBadLine DEF G
  <2>7. CASE G = {}
    <3>1. Cardinality(G) # 2
      <4>1. 0 # 1
        OBVIOUS
      <4> QED BY <2>4, <2>7, <4>1, GapsCount
    <3>2. ShaderClassify(chars) = BAD_REQUEST
      BY <2>3, <2>5, <2>7, ShaderBadLine
    <3> QED BY <2>6, <3>1, <3>2
  <2>8. CASE G # {}
    <3> DEFINE a == Min(G)
    <3>1. a \in G /\ \A y \in G : a <= y
      <4>1. G \subseteq Nat
        BY <2>4
      <4> QED BY <2>8, <4>1, MinOf
    <3>2. FindSpace(chars, 0, n) = a - 1
      BY <2>5, <2>8
    <3> HIDE DEF a
    <3>3. a \in 1 .. n /\ (a - 1) + 1 = a
      BY <2>4, <3>1
    <3> DEFINE R == Places(p, a, n, SP)
    <3>4. R = {i \in G : i > a}
      BY <2>2, <3>3 DEF Places, Gaps, G
    <3>5. FindSpace(chars, a, n) = IF R = {} THEN INVALID ELSE Min(R) - 1
      <4>1. FindSpace(chars, a, n) = FirstIn(Indexes(p, a, n, SP))
        BY DEF FindSpace, Indexes
      <4>2. a \in Nat /\ n \in Int /\ n <= Len(p)
        BY <2>2, <3>3
      <4>3. FirstIn(Indexes(p, a, n, SP)) = IF R = {} THEN INVALID ELSE Min(R) - 1
        BY <4>2, ByteFound
      <4> QED BY <4>1, <4>3
    <3> HIDE DEF R
    <3>6. CASE R = {}
      <4>1. G = {a}
        <5>1. ASSUME NEW y \in G PROVE y = a
          <6>1. y \in 1 .. n /\ a <= y /\ ~(y > a)
            BY <2>4, <3>1, <3>4, <3>6
          <6> QED BY <2>2, <3>3, <6>1
        <5> QED BY <3>1, <5>1
      <4>2. Cardinality(G) # 2
        <5>1. a # a + 1
          BY <3>3
        <5> QED BY <2>4, <4>1, <5>1, GapsCount
      <4>3. ShaderClassify(chars) = BAD_REQUEST
        BY <2>3, <3>2, <3>3, <3>5, <3>6, ShaderBadLine
      <4> QED BY <2>6, <4>2, <4>3
    <3>7. CASE R # {}
      <4> DEFINE b == Min(R)
      <4>1. b \in R /\ \A y \in R : b <= y
        <5>1. R \subseteq Nat
          <6>1. R \subseteq G
            BY <3>4
          <6>2. 1 .. n \subseteq Nat
            BY <2>2
          <6> QED BY <2>4, <6>1, <6>2, Zenon
        <5> QED BY <3>7, <5>1, MinOf
      <4>2. FindSpace(chars, a, n) = b - 1
        BY <3>5, <3>7
      <4> HIDE DEF b
      <4>3. b \in 1 .. n /\ a < b /\ b \in G
        BY <2>4, <3>3, <3>4, <4>1
      <4>4. ShaderClassify(chars) = ClassOf(p, n, a, b)
        BY <2>2, <2>3, <3>2, <3>3, <4>2, <4>3, ShaderLine
      <4>5. CASE G = {a, b}
        <5>1. Cardinality(G) = 2
          <6>1. a # b
            BY <3>3, <4>3
          <6>2. G = {a, b} => Cardinality(G) = 2
            BY <2>4, <6>1, GapsCount
          <6> QED BY <4>5, <6>2
        <5>2. ClassifyHttpRequest(p) = ClassOf(p, n, a, b)
          BY <1>3, <2>2, <2>3, <3>3, <4>3, <4>5, <5>1, CpuLine DEF G
        <5> QED BY <4>4, <5>2
      <4>6. CASE G # {a, b}
        <5>1. Cardinality(G) # 2
          <6>1. a # b
            BY <3>3, <4>3
          <6> QED BY <2>4, <3>1, <4>3, <4>6, <6>1, GapsCount
        <5>2. PICK c \in G : c # a /\ c # b
          BY <3>1, <4>3, <4>6
        <5>3. c \in R
          BY <2>4, <3>1, <3>3, <3>4, <5>2
        <5>4. c \in b + 1 .. n
          BY <2>4, <4>1, <4>3, <5>2, <5>3
        <5>5. p[c] = SP
          BY <5>2 DEF Gaps, G
        <5>6. ClassOf(p, n, a, b) = BAD_REQUEST
          BY <2>2, <4>3, <5>4, <5>5, ThirdSpace
        <5> QED BY <2>6, <4>4, <5>1, <5>6
      <4> QED BY <4>5, <4>6
    <3> QED BY <3>6, <3>7
  <2> QED BY <2>7, <2>8
<1> QED BY <1>2, <1>3

-----------------------------------------------------------------------------
(* What both sides read of the packets of a wave.                          *)

LEMMA ReadsAlike ==
    ASSUME NEW packet \in Seq(Byte8), NEW input, NEW meta, meta.len = Len(packet),
           ReadsBytes(input, meta.base, packet)
    PROVE  ShaderReads(input, meta) = CpuReads(packet)
<1>1. CASE ~HasHeader(packet)
  <2>1. ShaderReads(input, meta) = NotServed /\ ParseIpv4Tcp(packet) = NoView
    BY <1>1, NoHeader
  <2>2. CpuReads(packet) = NotServed
    BY <2>1 DEF CpuReads, NoView
  <2> QED BY <2>1, <2>2
<1>2. CASE HasHeader(packet)
  <2> DEFINE port == U16(packet, IpHeaderLen(packet) + 2)
             view == ViewOf(packet)
  <2>1. ShaderRejects(input, meta) <=> Rejects(packet) \/ port # ListenPort
    BY <1>2, VerdictsAlike
  <2>2. view.key.dport = port /\ view.ok = TRUE
    BY DEF ViewOf, FlowKey
  <2>3. CASE Rejects(packet)
    <3>1. ParseIpv4Tcp(packet) = NoView
      BY <2>3, Parses, Zenon
    <3>2. CpuReads(packet) = NotServed
      BY <3>1 DEF CpuReads, NoView
    <3>3. ShaderReads(input, meta) = NotServed
      BY <2>1, <2>3, ShaderParses, Zenon
    <3> QED BY <3>2, <3>3
  <2>4. CASE ~Rejects(packet)
    <3>1. ParseIpv4Tcp(packet) = view
      BY <2>4, Parses, Zenon
    <3> HIDE DEF view, port
    <3>2. CpuReads(packet) =
            IF port # ListenPort THEN NotServed
            ELSE [view |-> view,
                  response |-> IF view.payload = <<>> THEN NoResponse ELSE ClassifyHttpRequest(view.payload)]
      BY <2>2, <3>1 DEF CpuReads
    <3>3. /\ ShaderView(input, meta) = view /\ view.payload \in Seq(Byte8)
          /\ ReadU16(input, meta.base, 2) = ShaderStart(input, meta) <=> view.payload = <<>>
          /\ ShaderChars(input, meta) = CharsOf(view.payload)
      BY <1>2, <2>4, ViewsAlike DEF view, CharsOf
    <3>4. ShaderClassify(ShaderChars(input, meta)) = ClassifyHttpRequest(view.payload)
      BY <3>3, ClassifyAlike
    <3>5. CASE port # ListenPort
      <4>1. ShaderReads(input, meta) = NotServed
        BY <2>1, <3>5, ShaderParses, Zenon
      <4> QED BY <3>2, <3>5, <4>1
    <3>6. CASE port = ListenPort
      <4>1. ShaderReads(input, meta) =
              [view |-> ShaderView(input, meta),
               response |-> IF ReadU16(input, meta.base, 2) = ShaderStart(input, meta) THEN NoResponse
                            ELSE ShaderClassify(ShaderChars(input, meta))]
        BY <2>1, <2>4, <3>6, ShaderParses, Zenon
      <4> QED BY <3>2, <3>3, <3>4, <3>6, <4>1
    <3> QED BY <3>5, <3>6
  <2> QED BY <2>3, <2>4
<1> QED BY <1>1, <1>2

\* A packet that is served is scheduled under its flow.
LEMMA OwnFlow ==
    ASSUME NEW packet \in Seq(Byte8), CpuReads(packet).view.ok
    PROVE  SchedulingFlowKey(packet) = CpuReads(packet).view.key /\ CpuReads(packet).view.key # NoFlow
<1> DEFINE tcp == IpHeaderLen(packet)
           key == FlowKey(packet, tcp)
<1>1. ~Rejects(packet) /\ CpuReads(packet).view = ViewOf(packet)
  <2>1. CASE Rejects(packet)
    <3>1. ParseIpv4Tcp(packet) = NoView
      BY <2>1, Parses, Zenon
    <3> QED BY <3>1 DEF CpuReads, NoView, NotServed
  <2>2. CASE ~Rejects(packet)
    <3>1. ParseIpv4Tcp(packet) = ViewOf(packet)
      BY <2>2, Parses, Zenon
    <3>2. CpuReads(packet).view = ViewOf(packet)
      <4> DEFINE view == ViewOf(packet)
      <4>1. CpuReads(packet) =
              IF ~view.ok \/ view.key.dport # ListenPort THEN NotServed
              ELSE [view |-> view,
                    response |-> IF view.payload = <<>> THEN NoResponse ELSE ClassifyHttpRequest(view.payload)]
        BY <3>1 DEF CpuReads
      <4> HIDE DEF view
      <4>2. CASE ~view.ok \/ view.key.dport # ListenPort
        BY <4>1, <4>2 DEF NotServed, NoView
      <4>3. CASE ~(~view.ok \/ view.key.dport # ListenPort)
        BY <4>1, <4>3 DEF view
      <4> QED BY <4>2, <4>3
    <3> QED BY <2>2, <3>2
  <2> QED BY <2>1, <2>2
<1>2. ViewOf(packet).key = key
  BY DEF ViewOf
<1>3. Len(packet) \in Nat /\ ~(Len(packet) < 40) /\ IsTcp4(packet) /\ ~(tcp < 20) /\ ~(tcp + 20 > Len(packet))
  BY <1>1, ByteRange DEF Rejects
<1>4. tcp \in 20 .. 60
  <2> DEFINE b == Byte(packet, 0)
  <2>1. 0 \in 0 .. Len(packet) - 1
    <3> HIDE DEF tcp
    <3> QED BY <1>3
  <2>2. b \in 0 .. 255 /\ tcp = (b % 16) * 4
    BY <2>1, ByteRange DEF IpHeaderLen
  <2> HIDE DEF b, tcp
  <2> QED BY <1>3, <2>2
<1>5. SchedulingFlowKey(packet) = key
  <2>1. ~(Len(packet) < 24) /\ ~(tcp + 4 > Len(packet))
    <3> HIDE DEF tcp
    <3> QED BY <1>3, <1>4
  <2> QED BY <1>3, <2>1 DEF SchedulingFlowKey
<1>6. key \in [src : Nat \X Nat, dst : Nat \X Nat, sport : Nat, dport : Nat]
  <2>1. \A o \in 0 .. Len(packet) - 2 : U16(packet, o) \in Nat
    <3>1. ASSUME NEW o \in 0 .. Len(packet) - 2 PROVE U16(packet, o) \in Nat
      <4>1. o \in Nat /\ o + 2 <= Len(packet)
        BY <1>3
      <4> QED BY <4>1, U16Range
    <3> QED BY <3>1
  <2> HIDE DEF tcp
  <2>2. /\ 12 \in 0 .. Len(packet) - 2 /\ 12 + 2 \in 0 .. Len(packet) - 2
        /\ 16 \in 0 .. Len(packet) - 2 /\ 16 + 2 \in 0 .. Len(packet) - 2
        /\ tcp \in 0 .. Len(packet) - 2 /\ tcp + 2 \in 0 .. Len(packet) - 2
    BY <1>3, <1>4
  <2>3. /\ U16(packet, 12) \in Nat /\ U16(packet, 12 + 2) \in Nat
        /\ U16(packet, 16) \in Nat /\ U16(packet, 16 + 2) \in Nat
        /\ U16(packet, tcp) \in Nat /\ U16(packet, tcp + 2) \in Nat
    BY <2>1, <2>2, Zenon
  <2>4. U32(packet, 12) \in Nat \X Nat /\ U32(packet, 16) \in Nat \X Nat
    BY <2>3, Zenon DEF U32
  <2> QED BY <2>3, <2>4 DEF FlowKey
<1> HIDE DEF key
<1>7. key # NoFlow
  BY <1>6, WireAssumption
<1> QED BY <1>1, <1>2, <1>5, <1>7

LEMMA Unserved ==
    ASSUME NEW packet, ~CpuReads(packet).view.ok
    PROVE  CpuReads(packet).view.key = NoFlow
<1> DEFINE view == ParseIpv4Tcp(packet)
<1>1. CpuReads(packet) =
        IF ~view.ok \/ view.key.dport # ListenPort THEN NotServed
        ELSE [view |-> view,
              response |-> IF view.payload = <<>> THEN NoResponse ELSE ClassifyHttpRequest(view.payload)]
  BY DEF CpuReads
<1> HIDE DEF view
<1>2. CASE ~view.ok \/ view.key.dport # ListenPort
  BY <1>1, <1>2 DEF NotServed, NoView
<1>3. CASE ~(~view.ok \/ view.key.dport # ListenPort)
  BY <1>1, <1>3
<1> QED BY <1>2, <1>3

\* No two packets of a wave are of one flow, and those of a wave that is being
\* filled are of flows the set holds.
Apart(packets) ==
    \A i, j \in DOMAIN packets :
        SchedulingFlowKey(packets[i]) # NoFlow
        /\ SchedulingFlowKey(packets[i]) = SchedulingFlowKey(packets[j]) => i = j
Held(packets, flows) ==
    \A i \in DOMAIN packets : SchedulingFlowKey(packets[i]) \in flows \cup {NoFlow}

LEMMA AppendApart ==
    ASSUME NEW packets \in Packets, NEW packet \in Seq(Byte8), NEW flows,
           Apart(packets), Held(packets, flows),
           SchedulingFlowKey(packet) = NoFlow \/ SchedulingFlowKey(packet) \notin flows
    PROVE  /\ Append(packets, packet) \in Packets
           /\ Apart(Append(packets, packet))
           /\ Held(Append(packets, packet), flows \cup {SchedulingFlowKey(packet)})
<1> DEFINE more == Append(packets, packet)
           n == Len(packets)
           K(p) == SchedulingFlowKey(p)
<1>1. /\ n \in Nat /\ DOMAIN packets = 1 .. n /\ more \in Packets /\ DOMAIN more = 1 .. n + 1
      /\ more[n + 1] = packet /\ \A i \in 1 .. n : more[i] = packets[i]
  BY DEF Packets
<1> HIDE DEF more
<1>2. \A i \in DOMAIN more : i \in 1 .. n \/ i = n + 1
  BY <1>1
<1>3. ASSUME NEW i \in 1 .. n PROVE K(more[i]) \in flows \cup {NoFlow} /\ more[i] = packets[i]
  BY <1>1 DEF Held
<1>4. Held(more, flows \cup {SchedulingFlowKey(packet)})
  BY <1>1, <1>2, <1>3 DEF Held
<1>5. ASSUME NEW i \in DOMAIN more, NEW j \in DOMAIN more, K(more[i]) # NoFlow, K(more[i]) = K(more[j])
      PROVE  i = j
  <2>1. CASE i \in 1 .. n /\ j \in 1 .. n
    BY <1>1, <1>5, <2>1 DEF Apart
  <2>2. CASE i \in 1 .. n /\ j = n + 1
    BY <1>1, <1>3, <1>5, <2>2
  <2>3. CASE i = n + 1 /\ j \in 1 .. n
    BY <1>1, <1>3, <1>5, <2>3
  <2> QED BY <1>2, <2>1, <2>2, <2>3
<1>6. Apart(more)
  BY <1>5 DEF Apart
<1> QED BY <1>1, <1>4, <1>6 DEF more

\* What is in a wave, and what has been read of it.
WaveInv ==
    /\ wave \in Packets
    /\ Apart(wave)
    /\ phase = "filling" => Held(wave, Members)
    /\ phase = "done" => reads = [i \in DOMAIN wave |-> ShaderReads(Packed(wave), WaveMetadata(wave)[i])]

LEMMA NoPackets == <<>> \in Packets /\ Apart(<<>>) /\ Held(<<>>, {})
<1>1. <<>> \in Packets
  BY DEF Packets
<1>2. DOMAIN <<>> = {}
  OBVIOUS
<1> QED BY <1>1, <1>2 DEF Apart, Held

LEMMA WaveStart == ASSUME Init PROVE WaveInv
<1>1. wave = <<>> /\ phase = "idle"
  BY DEF Init
<1> QED BY <1>1, NoPackets DEF WaveInv

LEMMA WaveStep == ASSUME SetInv, WireInv, WaveInv, [Next]_vars PROVE WaveInv'
<1>1. CASE Start
  <2>1. wave' = <<>> /\ phase' = "filling" /\ batch' \in Traffic[kind] /\ kind \in DOMAIN Traffic
        /\ Begin(Len(batch'))
    BY <1>1 DEF Start, WireInv
  <2>2. Len(batch') \in 0 .. MaxExpected
    <3>1. batch' \in Seq(Seq(0 .. 255)) /\ Len(batch') <= MaxExpected
      BY <2>1, TrafficAssumption
    <3> QED BY <3>1, FlowSetAssumption
  <2>3. Members' = {}
    BY <2>1, <2>2, BeginStep DEF Members
  <2> QED BY <2>1, <2>3, NoPackets DEF WaveInv
<1>2. CASE Schedule
  <2> DEFINE packet == batch[Len(batch) - left + 1]
             key == SchedulingFlowKey(packet)
  <2>1. phase = "filling" /\ left > 0 /\ phase' = "filling"
    BY <1>2 DEF Schedule
  <2>2. \/ key = NoFlow /\ Pass /\ wave' = Append(wave, packet)
        \/ /\ key # NoFlow /\ Insert(key)
           /\ wave' = IF inserted' THEN Append(wave, packet) ELSE wave
    BY <1>2 DEF Schedule
  <2>3. packet \in Seq(Byte8) /\ key \in Keys \cup {NoFlow}
    <3>1. Len(batch) - left + 1 \in DOMAIN batch /\ key \in Keys \cup {NoFlow}
      BY <2>1, LegalNext
    <3>2. batch \in Seq(Seq(Byte8))
      BY <2>1 DEF WireInv, Legal, Byte8
    <3> QED BY <3>1, <3>2
  <2>4. wave \in Packets /\ Apart(wave) /\ Held(wave, Members)
    BY <2>1 DEF WaveInv
  <2> DEFINE more == Append(wave, packet)
  <2>5. key = NoFlow \/ key \notin Members => more \in Packets /\ Apart(more) /\ Held(more, Members \cup {key})
    BY <2>3, <2>4, AppendApart
  <2> HIDE DEF more, key, packet
  <2>6. CASE key = NoFlow /\ Pass /\ wave' = more
    <3>1. Members' = Members
      BY <2>6 DEF Pass, Fresh, Members, Stale, Indices
    <3>2. Held(more, Members)
      BY <2>5, <2>6 DEF Held
    <3> QED BY <2>1, <2>5, <2>6, <3>1, <3>2 DEF WaveInv
  <2>7. CASE key # NoFlow /\ Insert(key) /\ wave' = IF inserted' THEN more ELSE wave
    <3>1. key \in Keys
      BY <2>3, <2>7
    <3>2. Members' = Members \cup {key} /\ inserted' = (key \notin Members)
      BY <2>7, <3>1, InsertStep
    <3>3. Held(wave, Members \cup {key})
      BY <2>4 DEF Held
    <3>4. wave' \in Packets /\ Apart(wave') /\ Held(wave', Members \cup {key})
      <4>1. CASE key \notin Members
        BY <2>5, <2>7, <3>2, <4>1
      <4>2. CASE key \in Members
        BY <2>4, <2>7, <3>2, <3>3, <4>2
      <4> QED BY <4>1, <4>2
    <3> QED BY <2>1, <3>2, <3>4 DEF WaveInv
  <2> QED BY <2>2, <2>6, <2>7 DEF more
<1>3. CASE Dispatch
  <2>1. /\ reads' = [i \in DOMAIN wave |-> ShaderReads(Packed(wave), WaveMetadata(wave)[i])]
        /\ phase' = "done" /\ wave' = wave
    BY <1>3 DEF Dispatch
  <2> QED BY <2>1 DEF WaveInv
<1>4. CASE Finish
  BY <1>4, NoPackets DEF Finish, WaveInv
<1>5. CASE UNCHANGED vars
  <2>1. UNCHANGED <<setVars, wave, reads, phase>>
    BY <1>5 DEF vars
  <2>2. Members' = Members
    BY <2>1 DEF setVars, Fresh, Members, Stale, Indices
  <2> QED BY <2>1, <2>2 DEF WaveInv
<1> QED BY <1>1, <1>2, <1>3, <1>4, <1>5 DEF Next

\* What the shader makes of a packet of a wave.
LEMMA WaveRead ==
    ASSUME NEW packets \in Packets, NEW i \in DOMAIN packets
    PROVE  ShaderReads(Packed(packets), WaveMetadata(packets)[i]) = CpuReads(packets[i])
           /\ packets[i] \in Seq(Byte8)
<1> DEFINE meta == WaveMetadata(packets)[i]
<1>1. meta.len = Len(packets[i]) /\ meta.base = Offsets(packets)[i]
  BY DEF WaveMetadata
<1>2. ReadsBytes(Packed(packets), meta.base, packets[i])
  BY <1>1, WaveReads
<1>3. packets[i] \in Seq(Byte8)
  BY DEF Packets
<1> HIDE DEF meta
<1>4. ShaderReads(Packed(packets), meta) = CpuReads(packets[i])
  BY <1>1, <1>2, <1>3, ReadsAlike
<1> QED BY <1>3, <1>4, Zenon DEF meta

\* What the shader has read of a packet is what the CPU reads of it.
LEMMA WaveAlike ==
    ASSUME WaveInv, phase = "done", NEW i \in DOMAIN wave
    PROVE  reads[i] = CpuReads(wave[i]) /\ wave[i] \in Seq(Byte8)
<1>1. wave \in Packets /\ reads[i] = ShaderReads(Packed(wave), WaveMetadata(wave)[i])
  BY DEF WaveInv
<1> QED BY <1>1, WaveRead, Zenon

LEMMA ReadingAlike == ASSUME WaveInv PROVE SameReading
<1> QED BY WaveAlike DEF SameReading

LEMMA FlowsApart == ASSUME WaveInv PROVE OneOfAFlow
<1> SUFFICES ASSUME phase = "done", NEW i \in DOMAIN wave, NEW j \in DOMAIN wave, reads[i].view.ok
             PROVE  /\ SchedulingFlowKey(wave[i]) = reads[i].view.key
                    /\ reads[i].view.key = reads[j].view.key => i = j
  BY DEF OneOfAFlow
<1>1. SchedulingFlowKey(wave[i]) = reads[i].view.key /\ reads[i].view.key # NoFlow
  BY WaveAlike, OwnFlow
<1>2. ASSUME reads[i].view.key = reads[j].view.key PROVE i = j
  <2>1. CASE reads[j].view.ok
    <3>1. SchedulingFlowKey(wave[j]) = reads[j].view.key
      BY <2>1, WaveAlike, OwnFlow
    <3> QED BY <1>1, <1>2, <3>1 DEF WaveInv, Apart
  <2>2. CASE ~reads[j].view.ok
    <3>1. reads[j] = CpuReads(wave[j])
      BY WaveAlike
    <3>2. CpuReads(wave[j]).view.key = NoFlow
      BY <2>2, <3>1, Unserved
    <3> QED BY <1>1, <1>2, <3>1, <3>2
  <2> QED BY <2>1, <2>2
<1> QED BY <1>1, <1>2

LEMMA WaveInvariance == Spec => []WaveInv
<1>1. Init => WireInv
  BY DEF Init, WireInv
<1>2. WireInv /\ [Next]_vars => WireInv'
  BY WireStep
<1>3. Spec => []WireInv
  BY <1>1, <1>2, PTL DEF Spec
<1>4. Spec => []SetInv
  BY WireDrivesSet, SetInvariance, PTL
<1>5. Init => WaveInv
  BY WaveStart
<1>6. SetInv /\ WireInv /\ WaveInv /\ [Next]_vars => WaveInv'
  BY WaveStep
<1> QED BY <1>3, <1>4, <1>5, <1>6, PTL DEF Spec

\* For any packets, not only the few a run can try: wherever a packet lies in
\* the packed wave, the shader accepts it, reads its fields and classifies its
\* request as the CPU engine does.
THEOREM SameReadingAlways == Spec => []SameReading
<1> QED BY WaveInvariance, ReadingAlike, PTL

\* No wave has two packets of a connection, although the scheduler checks less
\* of a packet than the shader and keeps its keys in a table of hashes.
THEOREM OneOfAFlowAlways == Spec => []OneOfAFlow
<1> QED BY WaveInvariance, FlowsApart, PTL
-----------------------------------------------------------------------------
(* The arithmetic of checksums.                                            *)

\* All ones, and what folding leaves of a sum: itself modulo all ones, but
\* zero of zero only.
Ones == Word16 - 1
Residue(n) == IF n = 0 THEN 0 ELSE IF n % Ones = 0 THEN Ones ELSE n % Ones

LEMMA OnesFacts == Word16 \in Nat /\ Word16 > 0 /\ Word16 > 1 /\ Ones \in Nat /\ Ones > 0 /\ Word16 = Ones + 1
  BY SMT DEF Ones, Word16

LEMMA ResidueIs ==
    ASSUME NEW q \in Nat, NEW r \in 0 .. Ones - 1, NEW n \in Nat, n = Ones * q + r
    PROVE  Residue(n) = IF n = 0 THEN 0 ELSE IF r = 0 THEN Ones ELSE r
<1>1. n % Ones = r
  BY OnesFacts, QuotientIs
<1> QED BY <1>1, Zenon DEF Residue

LEMMA ResidueFacts ==
    ASSUME NEW n \in Nat
    PROVE  /\ Residue(n) \in 0 .. Ones
           /\ n < Word16 => Residue(n) = n
           /\ FoldOnce(n) \in Nat /\ Residue(FoldOnce(n)) = Residue(n)
           /\ n >= Word16 => FoldOnce(n) < n
<1> DEFINE q == n \div Word16
           r == n % Word16
           s == r + q
           d == s \div Ones
           e == s % Ones
<1>1. q \in Nat /\ r \in 0 .. Word16 - 1 /\ n = Word16 * q + r
  BY OnesFacts, Quotient, Zenon
<1>2. FoldOnce(n) = s
  BY Zenon DEF FoldOnce
<1> HIDE DEF q, r
<1>3. s \in Nat
  BY <1>1, OnesFacts
<1> HIDE DEF s
<1>4. d \in Nat /\ e \in 0 .. Ones - 1 /\ s = Ones * d + e
  BY <1>3, OnesFacts, Quotient
<1> HIDE DEF d, e
<1>5. Residue(s) = IF s = 0 THEN 0 ELSE IF e = 0 THEN Ones ELSE e
  BY <1>3, <1>4, ResidueIs
<1>6. n = Ones * (q + d) + e
  <2>1. n = Ones * q + s
    BY <1>1, OnesFacts DEF s
  <2> QED BY <1>1, <1>3, <1>4, <2>1, OnesFacts
<1>7. Residue(n) = IF n = 0 THEN 0 ELSE IF e = 0 THEN Ones ELSE e
  <2>1. q + d \in Nat
    BY <1>1, <1>4
  <2> QED BY <1>4, <1>6, <2>1, ResidueIs
<1>8. n = 0 <=> s = 0
  <2>1. n = q * Ones + s
    BY <1>1, OnesFacts DEF s
  <2>2. CASE n = 0
    <3>1. q * Ones \in Nat
      BY <1>1, OnesFacts
    <3> HIDE DEF s
    <3> QED BY <1>3, <2>1, <2>2, <3>1
  <2>3. CASE s = 0
    <3>1. q = 0 /\ r = 0
      BY <1>1, <2>3, OnesFacts DEF s
    <3>2. Word16 * q = 0
      BY <3>1, OnesFacts
    <3> QED BY <1>1, <2>3, <3>1, <3>2
  <2> QED BY <2>2, <2>3
<1>9. Residue(n) \in 0 .. Ones
  BY <1>4, <1>7, OnesFacts
<1>10. ASSUME n < Word16 PROVE Residue(n) = n
  <2>1. CASE n = Ones
    <3>1. n = Ones * 1 + 0 /\ 1 \in Nat /\ 0 \in 0 .. Ones - 1 /\ n # 0
      BY <2>1, OnesFacts
    <3>2. Residue(n) = IF n = 0 THEN 0 ELSE IF 0 = 0 THEN Ones ELSE 0
      BY <3>1, ResidueIs
    <3> QED BY <2>1, <3>1, <3>2
  <2>2. CASE n # Ones
    <3>1. n = Ones * 0 + n /\ 0 \in Nat /\ n \in 0 .. Ones - 1
      BY <1>10, <2>2, OnesFacts
    <3>2. Residue(n) = IF n = 0 THEN 0 ELSE IF n = 0 THEN Ones ELSE n
      BY <3>1, ResidueIs
    <3> QED BY <3>2
  <2> QED BY <2>1, <2>2
<1>11. ASSUME n >= Word16 PROVE s < n
  <2>1. q # 0
    BY <1>1, <1>11, OnesFacts
  <2>2. n = q * Ones + s
    BY <1>1, OnesFacts DEF s
  <2>3. q * Ones > 0
    BY <1>1, <2>1, OnesFacts
  <2>4. q * Ones \in Nat
    BY <1>1, OnesFacts
  <2> QED BY <1>3, <2>2, <2>3, <2>4
<1>12. Residue(s) = Residue(n)
  BY <1>5, <1>7, <1>8
<1> QED BY <1>2, <1>3, <1>9, <1>10, <1>11, <1>12, Zenon

\* The loop of the CPU folds every sum to its residue.
LEMMA FoldedIs == \A n \in Nat : Folded[n] = Residue(n)
<1> DEFINE FoldsTo(f) == f = [sum \in Nat |-> IF sum < Word16 THEN sum ELSE f[FoldOnce(sum)]]
           g == [sum \in Nat |-> Residue(sum)]
           h == [sum \in Nat |-> IF sum < Word16 THEN sum ELSE g[FoldOnce(sum)]]
<1>1. ASSUME NEW n \in Nat PROVE g[n] = h[n]
  <2>1. n < Word16 => Residue(n) = n
    BY ResidueFacts
  <2>2. FoldOnce(n) \in Nat /\ Residue(FoldOnce(n)) = Residue(n)
    BY ResidueFacts
  <2>3. g[FoldOnce(n)] = Residue(n)
    BY <2>2
  <2>4. h[n] = IF n < Word16 THEN n ELSE g[FoldOnce(n)]
    BY Zenon
  <2>5. g[n] = Residue(n)
    OBVIOUS
  <2> HIDE DEF g, h
  <2> QED BY <2>1, <2>3, <2>4, <2>5
<1>2. g = h
  <2>1. g = [sum \in Nat |-> g[sum]] /\ h = [sum \in Nat |-> h[sum]]
    OBVIOUS
  <2> HIDE DEF g, h
  <2> QED BY <1>1, <2>1
<1>3. FoldsTo(Folded)
  <2>1. FoldsTo(g)
    BY <1>2
  <2>2. Folded = CHOOSE f : FoldsTo(f)
    BY DEF Folded
  <2> HIDE DEF FoldsTo, g, h
  <2> QED BY <2>1, <2>2
<1>4. \A n \in Nat : Folded[n] = IF n < Word16 THEN n ELSE Folded[FoldOnce(n)]
  <2> DEFINE F == Folded
  <2>1. FoldsTo(F)
    BY <1>3
  <2> HIDE DEF F
  <2>2. \A n \in Nat : F[n] = IF n < Word16 THEN n ELSE F[FoldOnce(n)]
    BY <2>1, ZenonT(20)
  <2> QED BY <2>2 DEF F
<1> DEFINE T == {n \in Nat : Folded[n] # Residue(n)}
<1> SUFFICES ASSUME T # {} PROVE FALSE
  OBVIOUS
<1>5. PICK n \in T : \A m \in T : n <= m
  <2>1. T \subseteq Nat
    OBVIOUS
  <2> HIDE DEF T
  <2> QED BY <2>1, Least
<1>6. n \in Nat /\ Folded[n] # Residue(n)
  OBVIOUS
<1>7. Folded[n] = IF n < Word16 THEN n ELSE Folded[FoldOnce(n)]
  BY <1>4, <1>6, Zenon
<1>8. n < Word16 => Residue(n) = n
  BY <1>6, ResidueFacts
<1>9. n >= Word16 /\ Folded[n] = Folded[FoldOnce(n)]
  BY <1>6, <1>7, <1>8, OnesFacts
<1>10. FoldOnce(n) \in Nat /\ FoldOnce(n) < n /\ Residue(FoldOnce(n)) = Residue(n)
  BY <1>6, <1>9, ResidueFacts
<1>11. FoldOnce(n) \in T
  BY <1>6, <1>9, <1>10
<1> HIDE DEF T
<1>12. n <= FoldOnce(n)
  BY <1>5, <1>11
<1> QED BY <1>6, <1>10, <1>12

\* Two folds are enough for a sum of 32 bits.
LEMMA TwoFolds ==
    ASSUME NEW n \in Nat, n < Word16 * Word16
    PROVE  ChecksumFold(n) = FoldChecksum(n) /\ FoldChecksum(n) \in 0 .. Ones
<1> DEFINE a == FoldOnce(n)
           b == FoldOnce(a)
           q == n \div Word16
           r == n % Word16
           p == a \div Word16
           t == a % Word16
<1>1. q \in Nat /\ r \in 0 .. Word16 - 1 /\ n = Word16 * q + r
  BY OnesFacts, Quotient, Zenon
<1>2. a = r + q
  BY Zenon DEF FoldOnce
<1> HIDE DEF q, r
<1>3. q < Word16
  BY <1>1, OnesFacts
<1> HIDE DEF a
<1>4. a \in Nat /\ a <= Ones + Ones
  BY <1>1, <1>2, <1>3, OnesFacts
<1>5. p \in Nat /\ t \in 0 .. Word16 - 1 /\ a = Word16 * p + t
  BY <1>4, OnesFacts, Quotient, Zenon
<1>6. b = t + p
  BY Zenon DEF FoldOnce
<1> HIDE DEF p, t, b
<1>7. b \in 0 .. Ones
  <2>1. p = 0 \/ p = 1
    BY <1>4, <1>5, OnesFacts
  <2>2. CASE p = 0
    BY <1>5, <1>6, <2>2, OnesFacts
  <2>3. CASE p = 1
    BY <1>4, <1>5, <1>6, <2>3, OnesFacts
  <2> QED BY <2>1, <2>2, <2>3
<1>8. Residue(b) = Residue(a)
  BY <1>4, ResidueFacts DEF b
<1>9. Residue(b) = b
  BY <1>7, ResidueFacts, OnesFacts
<1>10. Residue(a) = Residue(n)
  BY ResidueFacts DEF a
<1>11. Folded[n] = b
  BY <1>8, <1>9, <1>10, FoldedIs
<1>12. b % Word16 = b
  <2>1. b \in 0 .. Word16 - 1 /\ b \in Nat /\ 0 \in Nat /\ b = Word16 * 0 + b
    BY <1>7, OnesFacts
  <2> QED BY <2>1, OnesFacts, QuotientIs
<1>13. ChecksumFold(n) = Word16 - 1 - b
  BY <1>12, Zenon DEF ChecksumFold, a, b
<1>14. FoldChecksum(n) = Word16 - 1 - b
  BY <1>11, Zenon DEF FoldChecksum
<1>15. Word16 - 1 - b \in 0 .. Ones
  BY <1>7, OnesFacts
<1> QED BY <1>13, <1>14, <1>15, Zenon

\* A sum with its own checksum added folds to all ones.
LEMMA WithChecksum ==
    ASSUME NEW n \in Nat, n > 0
    PROVE  FoldChecksum(n) \in 0 .. Ones /\ FoldChecksum(n + FoldChecksum(n)) = 0
<1> DEFINE c == Ones - Residue(n)
           q == n \div Ones
           r == n % Ones
<1>0. Residue(n) \in 0 .. Ones
  BY ResidueFacts
<1>1. FoldChecksum(n) = c /\ c \in 0 .. Ones
  BY <1>0, FoldedIs, OnesFacts DEF FoldChecksum, Ones
<1>2. q \in Nat /\ r \in 0 .. Ones - 1 /\ n = Ones * q + r
  BY OnesFacts, Quotient
<1> HIDE DEF q, r
<1>3. Residue(n) = IF n = 0 THEN 0 ELSE IF r = 0 THEN Ones ELSE r
  BY <1>2, ResidueIs
<1>4. \E k \in Nat : n + c = Ones * k
  <2>1. CASE r = 0
    <3>1. n + c = Ones * q
      BY <1>2, <1>3, <2>1, OnesFacts
    <3> HIDE DEF c
    <3> QED BY <1>2, <3>1, Zenon
  <2>2. CASE r # 0
    <3>1. n + c = Ones * (q + 1)
      BY <1>2, <1>3, <2>2, OnesFacts
    <3>2. q + 1 \in Nat
      BY <1>2
    <3> HIDE DEF c
    <3> QED BY <3>1, <3>2, Zenon
  <2> QED BY <2>1, <2>2
<1> HIDE DEF c
<1>6. PICK k \in Nat : n + c = Ones * k
  BY <1>4, Zenon
<1>7. n + c \in Nat /\ n + c # 0
  BY <1>1
<1>8. Residue(n + c) = Ones
  <2>1. 0 \in 0 .. Ones - 1 /\ n + c = Ones * k + 0
    BY <1>6, OnesFacts
  <2>2. Residue(n + c) = IF n + c = 0 THEN 0 ELSE IF 0 = 0 THEN Ones ELSE 0
    BY <1>7, <2>1, ResidueIs
  <2> QED BY <1>7, <2>2
<1>9. Folded[n + c] = Ones
  BY <1>7, <1>8, FoldedIs
<1>10. FoldChecksum(n + c) = Ones - Ones
  BY <1>9, Zenon DEF FoldChecksum, Ones
<1> QED BY <1>1, <1>10, OnesFacts

-----------------------------------------------------------------------------
(* Sums of 16-bit words.                                                   *)

Weight(i) == IF i % 2 = 1 THEN 256 ELSE 1
Terms(bytes) == [i \in 1 .. Len(bytes) |-> bytes[i] * Weight(i)]

LEMMA TermType ==
    ASSUME NEW bytes \in Seq(Byte8)
    PROVE  /\ Terms(bytes) \in [1 .. Len(bytes) -> Nat]
           /\ \A i \in 1 .. Len(bytes) : Terms(bytes)[i] \in 0 .. Ones
<1>1. ASSUME NEW i \in 1 .. Len(bytes) PROVE bytes[i] * Weight(i) \in 0 .. Ones
  <2>1. bytes[i] \in Byte8
    OBVIOUS
  <2> DEFINE x == bytes[i]
  <2>2. x \in 0 .. 255
    BY <2>1 DEF Byte8
  <2>3. Weight(i) = 256 \/ Weight(i) = 1
    BY DEF Weight
  <2> HIDE DEF x
  <2>4. x * 256 \in Nat /\ x * 1 \in Nat /\ x * 256 <= 65280 /\ x * 1 <= 255
    BY <2>2, SMT
  <2>5. Ones \in Nat /\ 65280 <= Ones /\ 255 <= Ones
    BY SMT DEF Ones, Word16
  <2>6. x * 256 \in 0 .. Ones /\ x * 1 \in 0 .. Ones
    BY <2>4, <2>5, SMT
  <2> QED BY <2>3, <2>6 DEF x
<1>2. \A i \in 1 .. Len(bytes) : Terms(bytes)[i] = bytes[i] * Weight(i)
  BY DEF Terms
<1>3. \A i \in 1 .. Len(bytes) : Terms(bytes)[i] \in 0 .. Ones
  BY <1>1, <1>2
<1>4. \A i \in 1 .. Len(bytes) : bytes[i] * Weight(i) \in Nat
  BY <1>1, OnesFacts
<1>5. Terms(bytes) \in [1 .. Len(bytes) -> Nat]
  BY <1>4, Zenon DEF Terms
<1> QED BY <1>3, <1>5

\* Sum16 adds up these terms.
LEMMA Sum16Sums ==
    ASSUME NEW bytes \in Seq(Byte8)
    PROVE  \E f : Sums(f, Len(bytes), Terms(bytes)) /\ Sum16(bytes) = f[Len(bytes)]
<1> DEFINE n == Len(bytes)
           of(f) == [i \in 0 .. n |->
                       IF i = 0 THEN 0 ELSE f[i - 1] + (bytes[i] * (IF i % 2 = 1 THEN 256 ELSE 1))]
           up(f) == [i \in 0 .. n |-> IF i = 0 THEN 0 ELSE f[i - 1] + Terms(bytes)[i]]
           sum == CHOOSE f : f = of(f)
<1>1. n \in Nat /\ Terms(bytes) \in [1 .. n -> Nat]
  BY TermType
<1>2. ASSUME NEW f PROVE of(f) = up(f)
  <2>1. ASSUME NEW i \in 0 .. n PROVE of(f)[i] = up(f)[i]
    <3>1. CASE i = 0
      BY <3>1
    <3>2. CASE i # 0
      <4>1. i \in 1 .. n
        BY <1>1, <3>2
      <4>2. Terms(bytes)[i] = bytes[i] * (IF i % 2 = 1 THEN 256 ELSE 1)
        BY <4>1, Zenon DEF Terms, Weight
      <4>3. of(f)[i] = f[i - 1] + (bytes[i] * (IF i % 2 = 1 THEN 256 ELSE 1))
        BY <3>2, Zenon
      <4>4. up(f)[i] = f[i - 1] + Terms(bytes)[i]
        BY <3>2, Zenon
      <4> HIDE DEF of, up
      <4> QED BY <4>2, <4>3, <4>4, Zenon
    <3> QED BY <3>1, <3>2, Zenon
  <2>2. of(f) = [i \in 0 .. n |-> of(f)[i]] /\ up(f) = [i \in 0 .. n |-> up(f)[i]]
    BY Zenon
  <2> HIDE DEF of, up
  <2> QED BY <2>1, <2>2, Zenon
<1>3. PICK g : SumsUp(g, n, Terms(bytes))
  <2> HIDE DEF n
  <2> QED BY <1>1, SumsExist
<1>4. g = of(g)
  <2>1. g = up(g)
    BY <1>3, Zenon DEF SumsUp
  <2> HIDE DEF of, up
  <2> QED BY <1>2, <2>1, Zenon
<1>5. sum = of(sum)
  <2> HIDE DEF of
  <2> QED BY <1>4, Zenon
<1>6. sum = up(sum)
  <2> HIDE DEF of, up, sum
  <2> QED BY <1>2, <1>5, Zenon
<1>7. Sum16(bytes) = sum[n]
  BY Zenon DEF Sum16
<1> HIDE DEF sum
<1>8. Sums(sum, n, Terms(bytes))
  BY <1>1, <1>6, Zenon DEF Sums, SumsUp
<1> QED BY <1>7, <1>8, Zenon

\* No sum of a packet's words needs more than 32 bits.
LEMMA Sum16Type ==
    ASSUME NEW bytes \in Seq(Byte8)
    PROVE  Sum16(bytes) \in Nat /\ Sum16(bytes) <= Len(bytes) * Ones
<1> DEFINE n == Len(bytes)
           t == Terms(bytes)
<1>1. PICK f : Sums(f, n, t) /\ Sum16(bytes) = f[n]
  BY Sum16Sums
<1>2. n \in Nat /\ \A i \in 1 .. n : t[i] \in 0 .. Ones
  BY TermType
<1> HIDE DEF n, t
<1>3. /\ f[0] = 0 /\ \A i \in 0 .. n : f[i] \in Nat
      /\ \A i \in 1 .. n : f[i] = f[i - 1] + t[i]
  BY <1>1, SumsTypes
<1> DEFINE S == {k \in Nat : k <= n => f[k] <= k * Ones}
<1>4. 0 \in S
  BY <1>3, OnesFacts
<1>5. ASSUME NEW k \in Nat, k \in S PROVE k + 1 \in S
  <2> SUFFICES ASSUME k + 1 <= n PROVE f[k + 1] <= (k + 1) * Ones
    OBVIOUS
  <2>1. k + 1 \in 1 .. n /\ (k + 1) - 1 = k /\ k \in 0 .. n
    BY <1>2
  <2>2. f[k + 1] = f[k] + t[k + 1] /\ t[k + 1] \in 0 .. Ones /\ f[k] \in Nat
    BY <1>2, <1>3, <2>1
  <2>3. f[k] <= k * Ones
    BY <1>2, <1>5, <2>1
  <2>4. (k + 1) * Ones = k * Ones + Ones /\ k * Ones \in Nat
    BY OnesFacts
  <2> QED BY <2>2, <2>3, <2>4, OnesFacts
<1> HIDE DEF S
<1>6. Nat \subseteq S
  BY <1>4, <1>5, Induction
<1>7. f[n] \in Nat /\ f[n] <= n * Ones
  BY <1>2, <1>3, <1>6 DEF S
<1> QED BY <1>1, <1>7 DEF n

LEMMA EvenShift ==
    ASSUME NEW m \in Nat, m % 2 = 0, NEW i \in Nat
    PROVE  (m + i) % 2 = i % 2
<1> DEFINE q == m \div 2
           p == i \div 2
           r == i % 2
<1>1. q \in Nat /\ m = 2 * q + (m % 2)
  BY Quotient
<1>2. p \in Nat /\ r \in 0 .. 2 - 1 /\ i = 2 * p + r
  BY Quotient
<1> HIDE DEF q, p, r
<1>3. m = 2 * q
  BY <1>1
<1>4. m + i = 2 * (q + p) + r /\ q + p \in Nat /\ m + i \in Nat
  BY <1>1, <1>2, <1>3
<1>5. (m + i) % 2 = r
  BY <1>2, <1>4, QuotientIs
<1> QED BY <1>5 DEF r

\* The sum of one sequence behind another, of which the first has whole words.
LEMMA Sum16Joined ==
    ASSUME NEW a \in Seq(Byte8), NEW b \in Seq(Byte8), Len(a) % 2 = 0
    PROVE  Sum16(a \o b) = Sum16(a) + Sum16(b)
<1> DEFINE c == a \o b
           la == Len(a)
           lb == Len(b)
           ta == Terms(a)
           tb == Terms(b)
           tc == Terms(c)
<1>1. /\ c \in Seq(Byte8) /\ Len(c) = la + lb /\ la \in Nat /\ lb \in Nat
      /\ \A i \in 1 .. la : c[i] = a[i]
      /\ \A i \in 1 .. lb : c[la + i] = b[i]
  OBVIOUS
<1> HIDE DEF c
<1>2. PICK f : Sums(f, la, ta) /\ Sum16(a) = f[la]
  BY Sum16Sums
<1>3. PICK g : Sums(g, lb, tb) /\ Sum16(b) = g[lb]
  BY Sum16Sums
<1>4. PICK h : Sums(h, Len(c), tc) /\ Sum16(c) = h[Len(c)]
  BY <1>1, Sum16Sums
<1>5. \A i \in 1 .. la : ta[i] = a[i] * Weight(i)
  BY DEF Terms
<1>6. \A i \in 1 .. lb : tb[i] = b[i] * Weight(i)
  BY DEF Terms
<1>7. \A i \in 1 .. Len(c) : tc[i] = c[i] * Weight(i)
  BY DEF Terms
<1>8. \A i \in 1 .. lb : tb[i] \in 0 .. Ones
  BY TermType
<1> HIDE DEF ta, tb, tc, la, lb
<1>9. ASSUME NEW i \in 1 .. la PROVE ta[i] = tc[i]
  <2>1. i \in 1 .. Len(c)
    BY <1>1
  <2> QED BY <1>1, <1>5, <1>7, <2>1, Zenon
<1>10. h[la] = f[la]
  <2>1. FirstOf(la, ta, tc)
    BY <1>9 DEF FirstOf
  <2>2. la <= Len(c)
    BY <1>1
  <2> QED BY <1>2, <1>4, <2>1, <2>2, SumsAgree
<1>11. ASSUME NEW i \in 1 .. lb PROVE tc[la + i] = tb[i]
  <2>1. la + i \in 1 .. Len(c)
    BY <1>1
  <2>2. la % 2 = 0
    BY DEF la
  <2>3. (la + i) % 2 = i % 2
    <3>1. i \in Nat
      BY <1>1
    <3> QED BY <1>1, <2>2, <3>1, EvenShift
  <2>4. Weight(la + i) = Weight(i)
    BY <2>3 DEF Weight
  <2>5. c[la + i] = b[i]
    BY <1>1
  <2> QED BY <1>6, <1>7, <2>1, <2>4, <2>5, Zenon
<1>12. g[0] = 0 /\ \A i \in 0 .. lb : g[i] \in Nat
  BY <1>3, SumsTypes
<1>13. \A i \in 1 .. lb : g[i] = g[i - 1] + tb[i]
  BY <1>3, SumsTypes
<1>14. (\A i \in 0 .. Len(c) : h[i] \in Nat) /\ \A i \in 1 .. Len(c) : h[i] = h[i - 1] + tc[i]
  BY <1>4, SumsTypes
<1> DEFINE S == {k \in Nat : k <= lb => h[la + k] = h[la] + g[k]}
<1>15. h[la] \in Nat
  <2>1. la \in 0 .. Len(c)
    BY <1>1
  <2> QED BY <1>14, <2>1
<1>16. 0 \in S
  <2>1. la + 0 = la
    BY <1>1
  <2> QED BY <1>12, <1>15, <2>1
<1>17. ASSUME NEW k \in Nat, k \in S PROVE k + 1 \in S
  <2> SUFFICES ASSUME k + 1 <= lb PROVE h[la + (k + 1)] = h[la] + g[k + 1]
    OBVIOUS
  <2>1. k + 1 \in 1 .. lb /\ (k + 1) - 1 = k /\ k \in 0 .. lb /\ la + (k + 1) \in 1 .. Len(c)
        /\ (la + (k + 1)) - 1 = la + k
    BY <1>1
  <2>2. h[la + (k + 1)] = h[la + k] + tc[la + (k + 1)]
    BY <1>14, <2>1
  <2>3. h[la + k] = h[la] + g[k]
    BY <1>1, <1>17, <2>1
  <2>4. g[k + 1] = g[k] + tb[k + 1]
    BY <1>13, <2>1
  <2>5. tc[la + (k + 1)] = tb[k + 1] /\ tb[k + 1] \in Nat /\ g[k] \in Nat
    BY <1>8, <1>11, <1>12, <2>1, OnesFacts
  <2> QED BY <1>15, <2>2, <2>3, <2>4, <2>5
<1> HIDE DEF S
<1>18. Nat \subseteq S
  BY <1>16, <1>17, Induction
<1>19. h[la + lb] = h[la] + g[lb]
  BY <1>1, <1>18 DEF S
<1> QED BY <1>1, <1>2, <1>3, <1>4, <1>10, <1>19, Zenon DEF c

\* ... of one word, and of some that are written out.
LEMMA Sum16Pair ==
    ASSUME NEW x \in Byte8, NEW y \in Byte8
    PROVE  Sum16(<<x, y>>) = 256 * x + y
<1> DEFINE s == <<x, y>>
<1>1. s \in Seq(Byte8) /\ Len(s) = 2 /\ s[1] = x /\ s[2] = y
  OBVIOUS
<1> HIDE DEF s
<1>2. PICK f : Sums(f, Len(s), Terms(s)) /\ Sum16(s) = f[Len(s)]
  BY <1>1, Sum16Sums
<1>3. f[0] = 0 /\ \A i \in 1 .. Len(s) : f[i] = f[i - 1] + Terms(s)[i]
  BY <1>2, SumsTypes
<1>4. Terms(s)[1] = x * 256 /\ Terms(s)[2] = y * 1
  BY <1>1 DEF Terms, Weight
<1>5. f[1] = f[0] + Terms(s)[1] /\ f[2] = f[1] + Terms(s)[2]
  <2>1. 1 \in 1 .. Len(s) /\ 2 \in 1 .. Len(s) /\ 1 - 1 = 0 /\ 2 - 1 = 1
    BY <1>1
  <2> QED BY <1>3, <2>1
<1>6. x \in Nat /\ y \in Nat
  BY DEF Byte8
<1>7. f[2] = 256 * x + y
  BY <1>3, <1>4, <1>5, <1>6
<1> QED BY <1>1, <1>2, <1>7 DEF s

-----------------------------------------------------------------------------
(* Sequences joined.                                                       *)

LEMMA JoinBytes ==
    ASSUME NEW a \in Seq(Byte8), NEW b \in Seq(Byte8)
    PROVE  /\ a \o b \in Seq(Byte8) /\ Len(a \o b) = Len(a) + Len(b) /\ Len(a) \in Nat /\ Len(b) \in Nat
           /\ \A i \in 1 .. Len(a) : (a \o b)[i] = a[i]
           /\ \A i \in 1 .. Len(b) : (a \o b)[Len(a) + i] = b[i]
OBVIOUS

LEMMA AssocBytes ==
    ASSUME NEW a \in Seq(Byte8), NEW b \in Seq(Byte8), NEW c \in Seq(Byte8)
    PROVE  (a \o b) \o c = a \o (b \o c)
<1> DEFINE ab == a \o b
           bc == b \o c
           l == ab \o c
           r == a \o bc
<1>1. /\ ab \in Seq(Byte8) /\ Len(ab) = Len(a) + Len(b) /\ Len(a) \in Nat /\ Len(b) \in Nat
      /\ \A i \in 1 .. Len(a) : ab[i] = a[i]
      /\ \A i \in 1 .. Len(b) : ab[Len(a) + i] = b[i]
  BY JoinBytes
<1>2. /\ bc \in Seq(Byte8) /\ Len(bc) = Len(b) + Len(c) /\ Len(c) \in Nat
      /\ \A i \in 1 .. Len(b) : bc[i] = b[i]
      /\ \A i \in 1 .. Len(c) : bc[Len(b) + i] = c[i]
  BY JoinBytes
<1> HIDE DEF ab, bc
<1>3. /\ l \in Seq(Byte8) /\ Len(l) = Len(ab) + Len(c)
      /\ \A i \in 1 .. Len(ab) : l[i] = ab[i]
      /\ \A i \in 1 .. Len(c) : l[Len(ab) + i] = c[i]
  <2>1. ab \in Seq(Byte8)
    BY <1>1
  <2> QED BY <2>1, JoinBytes
<1>4. /\ r \in Seq(Byte8) /\ Len(r) = Len(a) + Len(bc)
      /\ \A i \in 1 .. Len(a) : r[i] = a[i]
      /\ \A i \in 1 .. Len(bc) : r[Len(a) + i] = bc[i]
  <2>1. bc \in Seq(Byte8)
    BY <1>2
  <2> QED BY <2>1, JoinBytes
<1> HIDE DEF l, r
<1>5. Len(l) = Len(r)
  BY <1>1, <1>2, <1>3, <1>4
<1>6. ASSUME NEW i \in 1 .. Len(l) PROVE l[i] = r[i]
  <2>1. CASE i \in 1 .. Len(a)
    <3>1. i \in 1 .. Len(ab)
      BY <1>1, <2>1
    <3> QED BY <1>1, <1>3, <1>4, <2>1, <3>1, Zenon
  <2>2. CASE i > Len(a) /\ i <= Len(a) + Len(b)
    <3> DEFINE j == i - Len(a)
    <3>1. j \in 1 .. Len(b) /\ j \in 1 .. Len(bc) /\ i \in 1 .. Len(ab) /\ Len(a) + j = i
      BY <1>1, <1>2, <1>3, <2>2
    <3> HIDE DEF j
    <3>2. l[i] = ab[Len(a) + j] /\ r[i] = bc[j]
      BY <1>3, <1>4, <3>1, Zenon
    <3> QED BY <1>1, <1>2, <3>1, <3>2, Zenon
  <2>3. CASE i > Len(a) + Len(b)
    <3> DEFINE j == i - (Len(a) + Len(b))
    <3>1. j \in 1 .. Len(c) /\ Len(b) + j \in 1 .. Len(bc) /\ Len(ab) + j = i /\ Len(a) + (Len(b) + j) = i
      BY <1>1, <1>2, <1>3, <2>3
    <3> HIDE DEF j
    <3>2. l[i] = c[j] /\ r[i] = bc[Len(b) + j]
      BY <1>3, <1>4, <3>1, Zenon
    <3> QED BY <1>2, <3>1, <3>2, Zenon
  <2> QED BY <1>1, <1>3, <2>1, <2>2, <2>3
<1>7. l = r
  BY <1>3, <1>4, <1>5, <1>6, SameBytes
<1> QED BY <1>7, Zenon DEF l, r, ab, bc

\* The parts of a join.
LEMMA JoinParts ==
    ASSUME NEW a \in Seq(Byte8), NEW b \in Seq(Byte8), NEW c \in Seq(Byte8)
    PROVE  SubSeq((a \o b) \o c, Len(a) + 1, Len(a) + Len(b)) = b
<1> DEFINE ab == a \o b
           l == ab \o c
           m == Len(a) + 1
           n == Len(a) + Len(b)
           s == SubSeq(l, m, n)
<1>1. /\ ab \in Seq(Byte8) /\ Len(ab) = Len(a) + Len(b) /\ Len(a) \in Nat /\ Len(b) \in Nat
      /\ \A i \in 1 .. Len(b) : ab[Len(a) + i] = b[i]
  BY JoinBytes
<1> HIDE DEF ab
<1>2. /\ l \in Seq(Byte8) /\ Len(l) = Len(ab) + Len(c) /\ Len(c) \in Nat
      /\ \A i \in 1 .. Len(ab) : l[i] = ab[i]
  <2>1. ab \in Seq(Byte8)
    BY <1>1
  <2> QED BY <2>1, JoinBytes, Zenon
<1> HIDE DEF l
<1>3. m \in Nat \ {0} /\ n \in Nat /\ n <= Len(l) /\ m - 1 = Len(a) /\ (n - m) + 1 = Len(b)
      /\ (IF m <= n THEN n - m + 1 ELSE 0) = Len(b)
  BY <1>1, <1>2
<1> HIDE DEF m, n
<1>4. /\ s \in Seq(Byte8) /\ Len(s) = Len(b)
      /\ \A i \in 1 .. Len(b) : s[i] = l[Len(a) + i]
  <2>1. /\ s \in Seq(Byte8) /\ Len(s) = IF m <= n THEN n - m + 1 ELSE 0
        /\ \A i \in 1 .. (n - m) + 1 : s[i] = l[(m - 1) + i]
    BY <1>2, <1>3, SubSeqFacts
  <2> HIDE DEF s
  <2> QED BY <1>3, <2>1, Zenon
<1> HIDE DEF s
<1>5. ASSUME NEW i \in 1 .. Len(s) PROVE s[i] = b[i]
  <2>1. i \in 1 .. Len(b)
    BY <1>4, Zenon
  <2>2. Len(a) + i \in 1 .. Len(ab)
    BY <1>1, <2>1
  <2> QED BY <1>1, <1>2, <1>4, <2>1, <2>2, Zenon
<1>6. s = b
  BY <1>4, <1>5, SameBytes
<1> QED BY <1>6, Zenon DEF s, l, ab, m, n

LEMMA JoinEnds ==
    ASSUME NEW a \in Seq(Byte8), NEW b \in Seq(Byte8)
    PROVE  /\ SubSeq(a \o b, 1, Len(a)) = a
           /\ SubSeq(a \o b, Len(a) + 1, Len(a \o b)) = b
           /\ SubSeq(a, 1, Len(a)) = a
<1>1. <<>> \in Seq(Byte8) /\ Len(<<>>) = 0 /\ <<>> \o a = a /\ (a \o b) \o <<>> = a \o b
  BY JoinBytes
<1>2. Len(a \o b) = Len(a) + Len(b) /\ Len(a) \in Nat
  BY JoinBytes
<1>3. SubSeq((<<>> \o a) \o b, Len(<<>>) + 1, Len(<<>>) + Len(a)) = a
  BY <1>1, JoinParts
<1>4. SubSeq((a \o b) \o <<>>, Len(a) + 1, Len(a) + Len(b)) = b
  BY <1>1, JoinParts
<1>5. 0 + 1 = 1 /\ 0 + Len(a) = Len(a)
  BY <1>2
<1>6. SubSeq(a, 1, Len(a)) = a
  OBVIOUS
<1> QED BY <1>1, <1>2, <1>3, <1>4, <1>5, <1>6, Zenon

-----------------------------------------------------------------------------
(* Parts of a packet that are whole 16-bit words, and their sums.          *)

Half == 0 .. Ones

\* n words with the sum v.
Words(s, n, v) == s \in Seq(Byte8) /\ Len(s) = 2 * n /\ Sum16(s) = v

LEMMA WordsJoined ==
    ASSUME NEW a, NEW b, NEW m \in Nat, NEW n \in Nat, NEW v, NEW w, Words(a, m, v), Words(b, n, w)
    PROVE  Words(a \o b, m + n, v + w) /\ a \o b \in Seq(Byte8) /\ Len(a \o b) = Len(a) + Len(b)
<1>1. a \o b \in Seq(Byte8) /\ Len(a \o b) = Len(a) + Len(b)
  BY JoinBytes DEF Words
<1>2. Len(a) = 2 * m /\ Len(b) = 2 * n /\ a \in Seq(Byte8) /\ b \in Seq(Byte8)
  BY DEF Words
<1>3. Len(a) % 2 = 0
  <2> DEFINE l == Len(a)
  <2>1. l \in Nat /\ 0 \in 0 .. 2 - 1 /\ l = 2 * m + 0
    BY <1>2
  <2> HIDE DEF l
  <2>2. l % 2 = 0
    BY <2>1, QuotientIs
  <2> QED BY <2>2 DEF l
<1>4. Sum16(a \o b) = Sum16(a) + Sum16(b)
  BY <1>2, <1>3, Sum16Joined
<1>5. Len(a \o b) = 2 * (m + n)
  BY <1>1, <1>2
<1>6. Sum16(a \o b) = v + w
  BY <1>4, Zenon DEF Words
<1> QED BY <1>1, <1>5, <1>6, Zenon DEF Words

LEMMA PairWords ==
    ASSUME NEW x \in Byte8, NEW y \in Byte8
    PROVE  Words(<<x, y>>, 1, 256 * x + y)
<1>1. <<x, y>> \in Seq(Byte8) /\ Len(<<x, y>>) = 2 * 1
  OBVIOUS
<1> QED BY <1>1, Sum16Pair, ZenonT(60) DEF Words

\* The bytes of a 16-bit number.
LEMMA Put16Words ==
    ASSUME NEW v \in Half
    PROVE  /\ Words(Put16(v), 1, v) /\ Put16(v) \in Seq(Byte8) /\ Len(Put16(v)) = 2
           /\ Put16(v)[1] = v \div 256 /\ Put16(v)[2] = v % 256
           /\ v \div 256 \in Byte8 /\ v % 256 \in Byte8 /\ ((v \div 256) * 256) + (v % 256) = v
<1> DEFINE q == v \div 256
           r == v % 256
<1>1. v \in Nat /\ v <= Ones
  BY OnesFacts DEF Half
<1>2. q \in Nat /\ r \in 0 .. 256 - 1 /\ v = 256 * q + r
  BY <1>1, Quotient
<1> HIDE DEF q, r
<1>3. q <= 255
  BY <1>1, <1>2, SMT DEF Ones, Word16
<1>4. q \in Byte8 /\ r \in Byte8
  BY <1>2, <1>3, SMT DEF Byte8
<1>5. Words(<<q, r>>, 1, 256 * q + r)
  BY <1>4, PairWords
<1>6. Words(<<q, r>>, 1, v)
  BY <1>2, <1>5, Zenon
<1>7. Put16(v) = <<q, r>>
  BY Zenon DEF Put16, q, r
<1>8. Put16(v) \in Seq(Byte8) /\ Len(Put16(v)) = 2 /\ Put16(v)[1] = q /\ Put16(v)[2] = r
  BY <1>4, <1>7
<1>9. (q * 256) + r = v
  BY <1>2
<1> QED BY <1>4, <1>6, <1>7, <1>8, <1>9, Zenon DEF q, r

LEMMA HalfParts ==
    ASSUME NEW v \in Half
    PROVE  ((v \div 256) * 256) + (v % 256) = v
  BY Put16Words, Zenon

LEMMA Put32Words ==
    ASSUME NEW v \in Half \X Half
    PROVE  Words(Put32(v), 2, Sum32(v)) /\ Put32(v) \in Seq(Byte8) /\ Len(Put32(v)) = 4 /\ Sum32(v) \in 0 .. Ones + Ones
<1>1. v[1] \in Half /\ v[2] \in Half
  OBVIOUS
<1>2. Words(Put16(v[1]), 1, v[1]) /\ Words(Put16(v[2]), 1, v[2])
  BY <1>1, Put16Words
<1>3. Words(Put16(v[1]) \o Put16(v[2]), 1 + 1, v[1] + v[2])
  BY <1>2, WordsJoined
<1>4. Words(Put32(v), 1 + 1, Sum32(v))
  BY <1>3, Zenon DEF Put32, Sum32
<1>5. 1 + 1 = 2 /\ 2 * 2 = 4
  OBVIOUS
<1>6. v[1] + v[2] \in 0 .. Ones + Ones
  BY <1>1, OnesFacts DEF Half
<1> QED BY <1>4, <1>5, <1>6, Zenon DEF Words, Sum32

-----------------------------------------------------------------------------
(* The headers of a reply: what comes before the checksum, the checksum,   *)
(* what comes after it.                                                    *)

LegalKey(key) ==
    /\ key.src \in Half \X Half /\ key.dst \in Half \X Half
    /\ key.sport \in Half /\ key.dport \in Half
LegalSpec(spec) ==
    /\ LegalKey(spec.key)
    /\ spec.seq \in Half \X Half /\ spec.ack \in Half \X Half /\ spec.flags \in Byte8

IpFront(len) == <<69, 0>> \o Put16(len) \o <<0, 0, 64, 0, 64, 6>>
Addresses(key) == Put32(key.src) \o Put32(key.dst)
TcpFront(spec) ==
    Put16(spec.key.sport) \o Put16(spec.key.dport) \o Put32(spec.seq) \o Put32(spec.ack)
    \o <<80, spec.flags, 255, 255>>

IpFrontSum(len) == 17664 + len + 16384 + 16390
TcpFrontSum(spec) ==
    spec.key.sport + spec.key.dport + Sum32(spec.seq) + Sum32(spec.ack) + 20480 + spec.flags + 65535

LEMMA SmallBytes ==
    /\ 0 \in Byte8 /\ 6 \in Byte8 /\ 64 \in Byte8 /\ 69 \in Byte8 /\ 80 \in Byte8 /\ 255 \in Byte8
    /\ 0 \in Half
  BY OnesFacts, SMT DEF Byte8, Half

LEMMA IpFrontWords ==
    ASSUME NEW len \in Half
    PROVE  Words(IpFront(len), 5, IpFrontSum(len)) /\ IpFront(len) \in Seq(Byte8) /\ Len(IpFront(len)) = 10
<1> DEFINE a == <<69, 0>>
           b == Put16(len)
           c == <<0, 0>>
           d == <<64, 0>>
           e == <<64, 6>>
<1>1. Words(a, 1, 256 * 69 + 0) /\ Words(c, 1, 256 * 0 + 0)
      /\ Words(d, 1, 256 * 64 + 0) /\ Words(e, 1, 256 * 64 + 6)
  BY SmallBytes, PairWords
<1>2. Words(b, 1, len)
  BY Put16Words
<1>3. <<0, 0, 64, 0, 64, 6>> = (c \o d) \o e
  OBVIOUS
<1>4. IpFront(len) = (a \o b) \o ((c \o d) \o e)
  BY <1>3, Zenon DEF IpFront
<1> HIDE DEF a, b, c, d, e
<1>5. Words(a \o b, 1 + 1, (256 * 69 + 0) + len)
  BY <1>1, <1>2, WordsJoined
<1>6. Words(c \o d, 1 + 1, (256 * 0 + 0) + (256 * 64 + 0))
  BY <1>1, WordsJoined
<1>7. Words((c \o d) \o e, (1 + 1) + 1, ((256 * 0 + 0) + (256 * 64 + 0)) + (256 * 64 + 6))
  <2>1. 1 + 1 \in Nat
    OBVIOUS
  <2> QED BY <1>1, <1>6, <2>1, WordsJoined
<1> DEFINE v == (256 * 69 + 0) + len
           w == ((256 * 0 + 0) + (256 * 64 + 0)) + (256 * 64 + 6)
<1>8. Words(IpFront(len), (1 + 1) + ((1 + 1) + 1), v + w)
  <2>1. 1 + 1 \in Nat /\ (1 + 1) + 1 \in Nat
    OBVIOUS
  <2> HIDE DEF v, w
  <2>2. Words(a \o b, 1 + 1, v) /\ Words((c \o d) \o e, (1 + 1) + 1, w)
    BY <1>5, <1>7, Zenon DEF v, w
  <2> QED BY <1>4, <2>1, <2>2, WordsJoined
<1>9. v + w = IpFrontSum(len)
  BY OnesFacts, SMT DEF IpFrontSum, Half
<1>10. (1 + 1) + ((1 + 1) + 1) = 5 /\ 2 * 5 = 10
  OBVIOUS
<1> HIDE DEF v, w
<1> QED BY <1>8, <1>9, <1>10, Zenon DEF Words

LEMMA AddressWords ==
    ASSUME NEW key, LegalKey(key)
    PROVE  /\ Words(Addresses(key), 4, Sum32(key.src) + Sum32(key.dst))
           /\ Addresses(key) \in Seq(Byte8) /\ Len(Addresses(key)) = 8
<1>1. Words(Put32(key.src), 2, Sum32(key.src)) /\ Words(Put32(key.dst), 2, Sum32(key.dst))
  BY Put32Words DEF LegalKey
<1>2. Words(Addresses(key), 2 + 2, Sum32(key.src) + Sum32(key.dst))
  BY <1>1, WordsJoined DEF Addresses
<1>3. 2 + 2 = 4 /\ 2 * 4 = 8
  OBVIOUS
<1> QED BY <1>2, <1>3, Zenon DEF Words

LEMMA TcpFrontWords ==
    ASSUME NEW spec, LegalSpec(spec)
    PROVE  /\ Words(TcpFront(spec), 8, TcpFrontSum(spec))
           /\ TcpFront(spec) \in Seq(Byte8) /\ Len(TcpFront(spec)) = 16
<1> DEFINE a == Put16(spec.key.sport)
           b == Put16(spec.key.dport)
           c == Put32(spec.seq)
           d == Put32(spec.ack)
           e == <<80, spec.flags>>
           f == <<255, 255>>
           x == 256 * 80 + spec.flags
           y == 256 * 255 + 255
           u == spec.key.sport
           v == spec.key.dport
           s == Sum32(spec.seq)
           t == Sum32(spec.ack)
<1>1. Words(a, 1, u) /\ Words(b, 1, v)
  BY Put16Words DEF LegalSpec, LegalKey
<1>2. Words(c, 2, s) /\ Words(d, 2, t)
  BY Put32Words DEF LegalSpec
<1>3. Words(e, 1, x) /\ Words(f, 1, y)
  BY SmallBytes, PairWords DEF LegalSpec
<1>4. <<80, spec.flags, 255, 255>> = e \o f
  OBVIOUS
<1>5. TcpFront(spec) = (((a \o b) \o c) \o d) \o (e \o f)
  BY <1>4, Zenon DEF TcpFront
<1>6. 1 + 1 \in Nat /\ (1 + 1) + 2 \in Nat /\ ((1 + 1) + 2) + 2 \in Nat
  OBVIOUS
<1>7. (((u + v) + s) + t) + (x + y) = TcpFrontSum(spec)
  <2>1. u \in Nat /\ v \in Nat /\ s \in Nat /\ t \in Nat
    <3>1. u \in Half /\ v \in Half /\ spec.seq \in Half \X Half /\ spec.ack \in Half \X Half
      BY Zenon DEF LegalSpec, LegalKey
    <3>2. s \in 0 .. Ones + Ones /\ t \in 0 .. Ones + Ones
      BY <3>1, Put32Words
    <3> HIDE DEF u, v, s, t
    <3> QED BY <3>1, <3>2, OnesFacts DEF Half
  <2>2. spec.flags \in Nat
    BY SMT DEF LegalSpec, Byte8
  <2>3. TcpFrontSum(spec) = u + v + s + t + 20480 + spec.flags + 65535
    BY SMT DEF TcpFrontSum
  <2> HIDE DEF u, v, s, t
  <2>4. x = 20480 + spec.flags /\ y = 65535
    BY <2>2, SMT
  <2> HIDE DEF x, y
  <2> QED BY <2>1, <2>2, <2>3, <2>4, SMT
<1> HIDE DEF a, b, c, d, e, f, x, y, u, v, s, t
<1>8. Words(a \o b, 1 + 1, u + v)
  BY <1>1, WordsJoined
<1>9. Words((a \o b) \o c, (1 + 1) + 2, (u + v) + s)
  BY <1>2, <1>6, <1>8, WordsJoined
<1>10. Words(((a \o b) \o c) \o d, ((1 + 1) + 2) + 2, ((u + v) + s) + t)
  BY <1>2, <1>6, <1>9, WordsJoined
<1>11. Words(e \o f, 1 + 1, x + y)
  BY <1>3, WordsJoined
<1>12. Words(TcpFront(spec), (((1 + 1) + 2) + 2) + (1 + 1), (((u + v) + s) + t) + (x + y))
  BY <1>5, <1>6, <1>10, <1>11, WordsJoined
<1>13. (((1 + 1) + 2) + 2) + (1 + 1) = 8 /\ 2 * 8 = 16
  OBVIOUS
<1> QED BY <1>7, <1>12, <1>13, Zenon DEF Words

\* The arguments of the shader's two checksums.
IpSum(len, key) == 17664 + len + 16384 + 16390 + Sum32(key.src) + Sum32(key.dst)

LEMMA IpHeaderWords ==
    ASSUME NEW len \in Half, NEW key, LegalKey(key), NEW sum \in Half
    PROVE  /\ IpHeader(len, key, sum) = (IpFront(len) \o Put16(sum)) \o Addresses(key)
           /\ Words(IpHeader(len, key, sum), 10, IpSum(len, key) + sum)
           /\ IpHeader(len, key, sum) \in Seq(Byte8) /\ Len(IpHeader(len, key, sum)) = 20
           /\ IpFront(len) \o Put16(sum) \in Seq(Byte8) /\ Len(IpFront(len) \o Put16(sum)) = 12
<1> DEFINE a == IpFront(len)
           b == Put16(sum)
           c == Put32(key.src)
           d == Put32(key.dst)
           s == Sum32(key.src)
           t == Sum32(key.dst)
<1>1. Words(a, 5, IpFrontSum(len)) /\ a \in Seq(Byte8) /\ Len(a) = 10
  BY IpFrontWords
<1>2. Words(b, 1, sum) /\ b \in Seq(Byte8) /\ Len(b) = 2
  BY Put16Words
<1>3. c \in Seq(Byte8) /\ d \in Seq(Byte8) /\ s \in Nat /\ t \in Nat
  BY Put32Words, OnesFacts DEF LegalKey
<1>4. Words(Addresses(key), 4, s + t)
  BY AddressWords
<1>5. IpHeader(len, key, sum) = ((a \o b) \o c) \o d
  BY Zenon DEF IpHeader, IpFront
<1>6. Addresses(key) = c \o d
  BY Zenon DEF Addresses
<1>7. IpSum(len, key) = 17664 + len + 16384 + 16390 + s + t
  BY SMT DEF IpSum
<1> HIDE DEF a, b, c, d, s, t
<1>8. a \o b \in Seq(Byte8) /\ Len(a \o b) = 12 /\ Words(a \o b, 5 + 1, IpFrontSum(len) + sum)
  <2>1. Words(a \o b, 5 + 1, IpFrontSum(len) + sum) /\ a \o b \in Seq(Byte8) /\ Len(a \o b) = Len(a) + Len(b)
    BY <1>1, <1>2, WordsJoined
  <2> QED BY <1>1, <1>2, <2>1
<1>9. ((a \o b) \o c) \o d = (a \o b) \o (c \o d)
  BY <1>3, <1>8, AssocBytes, Zenon
<1>10. Words((a \o b) \o Addresses(key), (5 + 1) + 4, (IpFrontSum(len) + sum) + (s + t))
  <2>1. 5 + 1 \in Nat
    OBVIOUS
  <2> QED BY <1>4, <1>8, <2>1, WordsJoined
<1>11. (IpFrontSum(len) + sum) + (s + t) = IpSum(len, key) + sum
  <2>1. len \in Nat /\ sum \in Nat
    BY OnesFacts DEF Half
  <2>2. IpFrontSum(len) = 17664 + len + 16384 + 16390
    BY SMT DEF IpFrontSum
  <2> QED BY <1>3, <1>7, <2>1, <2>2, SMT
<1>12. (5 + 1) + 4 = 10 /\ 2 * 10 = 20
  OBVIOUS
<1>13. IpHeader(len, key, sum) = (a \o b) \o Addresses(key)
  BY <1>5, <1>6, <1>9, Zenon
<1>14. Words(IpHeader(len, key, sum), 10, IpSum(len, key) + sum)
  BY <1>10, <1>11, <1>12, <1>13, Zenon
<1>15. IpHeader(len, key, sum) \in Seq(Byte8) /\ Len(IpHeader(len, key, sum)) = 20
  BY <1>12, <1>14, Zenon DEF Words
<1> QED BY <1>8, <1>13, <1>14, <1>15, Zenon DEF a, b

LEMMA TcpHeaderWords ==
    ASSUME NEW spec, LegalSpec(spec), NEW sum \in Half
    PROVE  /\ TcpHeader(spec, sum) = (TcpFront(spec) \o Put16(sum)) \o <<0, 0>>
           /\ Words(TcpHeader(spec, sum), 10, TcpFrontSum(spec) + sum)
           /\ TcpHeader(spec, sum) \in Seq(Byte8) /\ Len(TcpHeader(spec, sum)) = 20
<1> DEFINE a == TcpFront(spec)
           b == Put16(sum)
           c == <<0, 0>>
<1>1. Words(a, 8, TcpFrontSum(spec))
  BY TcpFrontWords
<1>2. Words(b, 1, sum)
  BY Put16Words
<1>3. Words(c, 1, 256 * 0 + 0)
  BY SmallBytes, PairWords
<1>4. TcpHeader(spec, sum) = (a \o b) \o c
  BY Zenon DEF TcpHeader, TcpFront
<1> HIDE DEF a, b, c
<1>5. Words(a \o b, 8 + 1, TcpFrontSum(spec) + sum)
  BY <1>1, <1>2, WordsJoined
<1>6. Words((a \o b) \o c, (8 + 1) + 1, (TcpFrontSum(spec) + sum) + (256 * 0 + 0))
  <2>1. 8 + 1 \in Nat
    OBVIOUS
  <2> QED BY <1>3, <1>5, <2>1, WordsJoined
<1>7. TcpFrontSum(spec) \in Nat /\ sum \in Nat
  <2>1. Sum16(a) \in Nat
    BY <1>1, Sum16Type DEF Words
  <2> QED BY <1>1, <2>1, OnesFacts DEF Words, Half
<1>8. (8 + 1) + 1 = 10 /\ 2 * 10 = 20
  OBVIOUS
<1>9. (TcpFrontSum(spec) + sum) + (256 * 0 + 0) = TcpFrontSum(spec) + sum
  BY <1>7
<1>10. Words((a \o b) \o c, 10, TcpFrontSum(spec) + sum)
  BY <1>6, <1>8, <1>9, Zenon
<1> QED BY <1>4, <1>8, <1>10, Zenon DEF Words, a, b, c

-----------------------------------------------------------------------------
(* A packet that is built has checksums that are accepted.                 *)

LEMMA ThreeBytes ==
    ASSUME NEW a \in Seq(Byte8), NEW b \in Seq(Byte8), NEW c \in Seq(Byte8)
    PROVE  /\ (a \o b) \o c \in Seq(Byte8) /\ Len((a \o b) \o c) = Len(a) + Len(b) + Len(c)
           /\ \A i \in 1 .. Len(a) : ((a \o b) \o c)[i] = a[i]
           /\ \A i \in 1 .. Len(b) : ((a \o b) \o c)[Len(a) + i] = b[i]
           /\ \A i \in 1 .. Len(c) : ((a \o b) \o c)[Len(a) + Len(b) + i] = c[i]
<1> DEFINE ab == a \o b
           l == ab \o c
<1>1. /\ ab \in Seq(Byte8) /\ Len(ab) = Len(a) + Len(b) /\ Len(a) \in Nat /\ Len(b) \in Nat
      /\ \A i \in 1 .. Len(a) : ab[i] = a[i]
      /\ \A i \in 1 .. Len(b) : ab[Len(a) + i] = b[i]
  BY JoinBytes
<1> HIDE DEF ab
<1>2. ab \in Seq(Byte8)
  BY <1>1
<1>3. /\ l \in Seq(Byte8) /\ Len(l) = Len(ab) + Len(c) /\ Len(c) \in Nat
      /\ \A i \in 1 .. Len(ab) : l[i] = ab[i]
      /\ \A i \in 1 .. Len(c) : l[Len(ab) + i] = c[i]
  BY <1>2, JoinBytes
<1> HIDE DEF l
<1>4. ASSUME NEW i \in 1 .. Len(a) PROVE l[i] = a[i]
  <2>1. i \in 1 .. Len(ab)
    BY <1>1
  <2> QED BY <1>1, <1>3, <2>1, Zenon
<1>5. ASSUME NEW i \in 1 .. Len(b) PROVE l[Len(a) + i] = b[i]
  <2>1. Len(a) + i \in 1 .. Len(ab)
    BY <1>1
  <2> QED BY <1>1, <1>3, <2>1, Zenon
<1>6. ASSUME NEW i \in 1 .. Len(c) PROVE l[Len(a) + Len(b) + i] = c[i]
  <2>1. Len(a) + Len(b) + i = Len(ab) + i
    BY <1>1
  <2> QED BY <1>3, <2>1, Zenon
<1>7. Len(l) = Len(a) + Len(b) + Len(c)
  BY <1>1, <1>3, Zenon
<1> QED BY <1>3, <1>4, <1>5, <1>6, <1>7, Zenon DEF l, ab

\* The bytes a reader of the packet looks at.
LEMMA IpFrontBytes ==
    ASSUME NEW len \in Half
    PROVE  IpFront(len)[1] = 69 /\ IpFront(len)[3] = len \div 256 /\ IpFront(len)[4] = len % 256
<1> DEFINE a == <<69, 0>>
           b == Put16(len)
           c == <<0, 0, 64, 0, 64, 6>>
           l == (a \o b) \o c
<1>1. a \in Seq(Byte8) /\ c \in Seq(Byte8) /\ Len(a) = 2 /\ a[1] = 69
  BY SmallBytes
<1>2. b \in Seq(Byte8) /\ Len(b) = 2 /\ b[1] = len \div 256 /\ b[2] = len % 256
  BY Put16Words
<1>3. IpFront(len) = l
  BY Zenon DEF IpFront
<1> HIDE DEF a, b, c
<1>4. /\ \A i \in 1 .. Len(a) : l[i] = a[i]
      /\ \A i \in 1 .. Len(b) : l[Len(a) + i] = b[i]
  <2>1. a \in Seq(Byte8) /\ b \in Seq(Byte8) /\ c \in Seq(Byte8)
    BY <1>1, <1>2
  <2> QED BY <2>1, ThreeBytes, ZenonT(60)
<1> HIDE DEF l
<1>5. 1 \in 1 .. Len(a) /\ 1 \in 1 .. Len(b) /\ 2 \in 1 .. Len(b) /\ Len(a) + 1 = 3 /\ Len(a) + 2 = 4
  BY <1>1, <1>2
<1>6. l[1] = a[1] /\ l[3] = b[1] /\ l[4] = b[2]
  BY <1>4, <1>5
<1> QED BY <1>1, <1>2, <1>3, <1>6, Zenon

\* A packet with any checksums.
Raw(spec, payload, s, t) ==
    (IpHeader(40 + Len(payload), spec.key, s) \o TcpHeader(spec, t)) \o payload

\* validate_config keeps responses this short.
MaxPacket == 1536
Fits(payload) == payload \in Seq(Byte8) /\ 40 + Len(payload) <= MaxPacket

LEMMA MaxPacketFacts == MaxPacket \in Nat /\ MaxPacket <= Ones /\ Ones \in Nat
BY SMT DEF MaxPacket, Ones, Word16

LEMMA FitsLen ==
    ASSUME NEW payload, Fits(payload)
    PROVE  /\ payload \in Seq(Byte8) /\ Len(payload) \in Nat
           /\ 40 + Len(payload) \in Half /\ 40 + Len(payload) \in 40 .. MaxPacket
<1> DEFINE n == Len(payload)
<1>1. payload \in Seq(Byte8) /\ 40 + n <= MaxPacket
  BY Zenon DEF Fits
<1>2. n \in Nat
  BY <1>1, SMT
<1> HIDE DEF n
<1>3. 40 + n \in 0 .. Ones /\ 40 + n \in 40 .. MaxPacket
  BY <1>1, <1>2, MaxPacketFacts, SMT
<1> QED BY <1>1, <1>2, <1>3, Zenon DEF n, Half

\* What a reader finds in it.
IsRaw(packet, spec, payload, s, t) ==
    LET len == 40 + Len(payload) IN
    /\ packet \in Seq(Byte8) /\ Len(packet) = len
    /\ SubSeq(packet, 1, 20) = IpHeader(len, spec.key, s)
    /\ SubSeq(packet, 13, 20) = Addresses(spec.key)
    /\ SubSeq(packet, 21, Len(packet)) = TcpHeader(spec, t) \o payload
    /\ SubSeq(packet, 1, Len(packet)) = packet
    /\ packet[1] = 69 /\ packet[3] = len \div 256 /\ packet[4] = len % 256
    /\ packet = IpHeader(len, spec.key, s) \o (TcpHeader(spec, t) \o payload)

LEMMA RawParts ==
    ASSUME NEW spec, LegalSpec(spec), NEW payload, Fits(payload), NEW s \in Half, NEW t \in Half
    PROVE  IsRaw(Raw(spec, payload, s, t), spec, payload, s, t)
<1> DEFINE len == 40 + Len(payload)
           ip == IpHeader(len, spec.key, s)
           tcp == TcpHeader(spec, t)
           front == IpFront(len) \o Put16(s)
           adr == Addresses(spec.key)
           rest == tcp \o payload
           packet == Raw(spec, payload, s, t)
<1>1. len \in Half /\ Len(payload) \in Nat /\ payload \in Seq(Byte8)
  BY FitsLen, Zenon
<1>2. LegalKey(spec.key)
  BY Zenon DEF LegalSpec
<1>3. packet = (ip \o tcp) \o payload
  BY Zenon DEF Raw
<1>4. IpFront(len)[1] = 69 /\ IpFront(len)[3] = len \div 256 /\ IpFront(len)[4] = len % 256
  BY <1>1, IpFrontBytes
<1>5. IpFront(len) \in Seq(Byte8) /\ Len(IpFront(len)) = 10
  BY <1>1, IpFrontWords
<1>6. adr \in Seq(Byte8) /\ Len(adr) = 8
  BY <1>2, AddressWords
<1>7. tcp \in Seq(Byte8) /\ Len(tcp) = 20
  BY TcpHeaderWords
<1>8. len = 40 + Len(payload)
  OBVIOUS
<1> HIDE DEF len
<1>9. /\ ip = front \o adr /\ ip \in Seq(Byte8) /\ Len(ip) = 20
      /\ front \in Seq(Byte8) /\ Len(front) = 12
  BY <1>1, <1>2, IpHeaderWords
<1>10. Put16(s) \in Seq(Byte8) /\ Len(Put16(s)) = 2
  BY Put16Words
<1>11. /\ \A i \in 1 .. Len(IpFront(len)) : ip[i] = IpFront(len)[i]
  <2>1. \A i \in 1 .. Len(IpFront(len)) : ((IpFront(len) \o Put16(s)) \o adr)[i] = IpFront(len)[i]
    <3> DEFINE a == IpFront(len)
               b == Put16(s)
    <3>1. a \in Seq(Byte8) /\ b \in Seq(Byte8) /\ adr \in Seq(Byte8)
      BY <1>5, <1>6, <1>10, Zenon
    <3> HIDE DEF a, b, adr
    <3>2. \A i \in 1 .. Len(a) : ((a \o b) \o adr)[i] = a[i]
      BY <3>1, ThreeBytes, Zenon
    <3> QED BY <3>2, Zenon DEF a, b
  <2> HIDE DEF ip, adr
  <2> QED BY <1>9, <2>1, Zenon
<1> HIDE DEF ip, tcp, front, adr, packet
<1>12. rest \in Seq(Byte8) /\ Len(rest) = 20 + Len(payload)
  <2>1. payload \in Seq(Byte8) /\ tcp \in Seq(Byte8)
    BY <1>1, <1>7, Zenon
  <2>2. rest \in Seq(Byte8) /\ Len(rest) = Len(tcp) + Len(payload)
    BY <2>1, JoinBytes, Zenon
  <2> HIDE DEF rest
  <2> QED BY <1>7, <2>2
<1>13. packet = ip \o rest
  <2>1. payload \in Seq(Byte8) /\ tcp \in Seq(Byte8) /\ ip \in Seq(Byte8)
    BY <1>1, <1>7, <1>9, Zenon
  <2>2. (ip \o tcp) \o payload = ip \o (tcp \o payload)
    BY <2>1, AssocBytes, Zenon
  <2> QED BY <1>3, <2>2, Zenon
<1> HIDE DEF rest
<1>14. /\ packet \in Seq(Byte8) /\ Len(packet) = Len(ip) + Len(rest)
       /\ \A i \in 1 .. Len(ip) : packet[i] = ip[i]
  <2>1. ip \in Seq(Byte8) /\ rest \in Seq(Byte8)
    BY <1>9, <1>12, Zenon
  <2>2. /\ ip \o rest \in Seq(Byte8) /\ Len(ip \o rest) = Len(ip) + Len(rest)
        /\ \A i \in 1 .. Len(ip) : (ip \o rest)[i] = ip[i]
    BY <2>1, JoinBytes, Zenon
  <2> QED BY <1>13, <2>2, Zenon
<1>15. Len(packet) = len
  BY <1>1, <1>8, <1>9, <1>12, <1>14
<1>16. SubSeq(packet, 1, 20) = ip /\ SubSeq(packet, 21, Len(packet)) = rest
  <2>1. SubSeq(ip \o rest, 1, Len(ip)) = ip /\ SubSeq(ip \o rest, Len(ip) + 1, Len(ip \o rest)) = rest
    BY <1>9, <1>12, JoinEnds
  <2>2. 20 + 1 = 21
    OBVIOUS
  <2> QED BY <1>9, <1>13, <2>1, <2>2, Zenon
<1>17. SubSeq(packet, 13, 20) = adr
  <2>1. SubSeq((front \o adr) \o rest, Len(front) + 1, Len(front) + Len(adr)) = adr
    BY <1>6, <1>9, <1>12, JoinParts
  <2>2. 12 + 1 = 13 /\ 12 + 8 = 20
    OBVIOUS
  <2> QED BY <1>6, <1>9, <1>13, <2>1, <2>2, Zenon
<1>18. SubSeq(packet, 1, Len(packet)) = packet
  BY <1>14, JoinEnds
<1>19. packet[1] = 69 /\ packet[3] = len \div 256 /\ packet[4] = len % 256
  <2>1. /\ 1 \in 1 .. Len(ip) /\ 3 \in 1 .. Len(ip) /\ 4 \in 1 .. Len(ip)
        /\ 1 \in 1 .. Len(IpFront(len)) /\ 3 \in 1 .. Len(IpFront(len)) /\ 4 \in 1 .. Len(IpFront(len))
    BY <1>5, <1>9
  <2>2. packet[1] = ip[1] /\ packet[3] = ip[3] /\ packet[4] = ip[4]
    BY <1>14, <2>1, Zenon
  <2>3. ip[1] = IpFront(len)[1] /\ ip[3] = IpFront(len)[3] /\ ip[4] = IpFront(len)[4]
    BY <1>11, <2>1, Zenon
  <2> QED BY <1>4, <2>2, <2>3
<1>20. packet \in Seq(Byte8)
  BY <1>14
<1> QED BY <1>13, <1>15, <1>16, <1>17, <1>18, <1>19, <1>20, Zenon DEF IsRaw, packet, len, ip, tcp, rest, adr

\* What the checksum of the segment adds up, besides itself.
TcpSum(spec, payload) ==
    Sum32(spec.key.src) + Sum32(spec.key.dst) + 6 + (20 + Len(payload))
    + TcpFrontSum(spec) + Sum16(payload)

LEMMA FieldSums ==
    ASSUME NEW spec, LegalSpec(spec)
    PROVE  /\ LegalKey(spec.key)
           /\ Sum32(spec.key.src) \in 0 .. Ones + Ones /\ Sum32(spec.key.dst) \in 0 .. Ones + Ones
           /\ Sum32(spec.seq) \in 0 .. Ones + Ones /\ Sum32(spec.ack) \in 0 .. Ones + Ones
           /\ spec.key.sport \in 0 .. Ones /\ spec.key.dport \in 0 .. Ones
           /\ spec.flags \in 0 .. Ones
<1>1. /\ LegalKey(spec.key) /\ spec.key.src \in Half \X Half /\ spec.key.dst \in Half \X Half
      /\ spec.seq \in Half \X Half /\ spec.ack \in Half \X Half
      /\ spec.key.sport \in Half /\ spec.key.dport \in Half /\ spec.flags \in Byte8
  BY Zenon DEF LegalSpec, LegalKey
<1>2. spec.flags \in 0 .. Ones
  <2> DEFINE g == spec.flags
  <2>1. g \in 0 .. 255
    BY <1>1, Zenon DEF Byte8
  <2>2. 255 <= Ones /\ Ones \in Nat
    BY SMT DEF Ones, Word16
  <2> HIDE DEF g
  <2>3. g \in 0 .. Ones
    BY <2>1, <2>2, SMT
  <2> QED BY <2>3, Zenon DEF g
<1>3. spec.key.sport \in 0 .. Ones /\ spec.key.dport \in 0 .. Ones
  BY <1>1, Zenon DEF Half
<1> QED BY <1>1, <1>2, <1>3, Put32Words, Zenon

LEMMA SmallSum ==
    ASSUME NEW n \in Nat, n <= 1536 * Ones
    PROVE  n < Word16 * Word16
<1>1. Ones = 65535 /\ Word16 = 65536
  BY SMT DEF Ones, Word16
<1>2. n <= 100661760
  BY <1>1, SMT
<1>3. Word16 * Word16 = 4294967296
  BY <1>1, SMT
<1> QED BY <1>2, <1>3, SMT

LEMMA UpTo == ASSUME NEW w \in Nat, NEW z \in 0 .. w PROVE z \in Nat /\ z <= w
BY SMT

LEMMA DoubleOnes == \A z \in 0 .. Ones + Ones : z \in Nat /\ z <= 131070
<1>1. Ones + Ones = 131070 /\ Ones + Ones \in Nat
  BY SMT DEF Ones, Word16
<1> SUFFICES ASSUME NEW z \in 0 .. Ones + Ones PROVE z \in Nat /\ z <= 131070
  OBVIOUS
<1>2. z \in Nat /\ z <= Ones + Ones
  <2> DEFINE w == Ones + Ones
  <2>1. w \in Nat
    BY <1>1, SMT
  <2>3. z \in 0 .. w
    OBVIOUS
  <2> HIDE DEF w
  <2>2. z \in Nat /\ z <= w
    BY <2>1, <2>3, UpTo, SMT
  <2> QED BY <2>2, Zenon DEF w
<1>3. z <= 131070
  <2> DEFINE w == Ones + Ones
  <2>1. w = 131070 /\ z <= w
    BY <1>1, <1>2, SMT
  <2> HIDE DEF w
  <2> QED BY <2>1, SMT
<1> QED BY <1>2, <1>3, SMT

LEMMA SumsFit ==
    ASSUME NEW spec, LegalSpec(spec), NEW payload, Fits(payload)
    PROVE  /\ IpSum(40 + Len(payload), spec.key) \in Nat /\ IpSum(40 + Len(payload), spec.key) > 0
           /\ IpSum(40 + Len(payload), spec.key) < Word16 * Word16
           /\ TcpSum(spec, payload) \in Nat /\ TcpSum(spec, payload) > 0
           /\ TcpSum(spec, payload) < Word16 * Word16
<1> DEFINE a == Sum32(spec.key.src)
           b == Sum32(spec.key.dst)
           c == Sum32(spec.seq)
           d == Sum32(spec.ack)
           e == spec.key.sport
           f == spec.key.dport
           g == spec.flags
           n == Len(payload)
           p == Sum16(payload)
           i == IpSum(40 + Len(payload), spec.key)
           t == TcpSum(spec, payload)
<1>1. /\ a \in 0 .. Ones + Ones /\ b \in 0 .. Ones + Ones /\ c \in 0 .. Ones + Ones
      /\ d \in 0 .. Ones + Ones /\ e \in 0 .. Ones /\ f \in 0 .. Ones /\ g \in 0 .. Ones
  BY FieldSums, Zenon
<1>2. payload \in Seq(Byte8) /\ n \in Nat /\ 40 + n \in 40 .. MaxPacket
  BY FitsLen, Zenon
<1>3. p \in Nat /\ p <= n * Ones
  BY <1>2, Sum16Type, Zenon
<1>4. i = 17664 + (40 + n) + 16384 + 16390 + a + b
  BY SMT DEF IpSum
<1>5. t = a + b + 6 + (20 + n) + (e + f + c + d + 20480 + g + 65535) + p
  BY SMT DEF TcpSum, TcpFrontSum
<1> HIDE DEF a, b, c, d, e, f, g, n, p, i, t
<1>6. Ones = 65535
  BY SMT DEF Ones, Word16
<1>7. p <= 1496 * 65535 /\ n \in 0 .. 1496
  <2>1. n \in 0 .. 1496
    BY <1>2, SMT DEF MaxPacket
  <2>2. n * 65535 <= 1496 * 65535
    BY <2>1, SMT
  <2>3. p <= n * 65535
    BY <1>3, <1>6, SMT
  <2> QED BY <1>3, <2>1, <2>2, <2>3, SMT
<1>8. /\ a \in Nat /\ b \in Nat /\ c \in Nat /\ d \in Nat /\ e \in Nat /\ f \in Nat /\ g \in Nat
      /\ a <= 131070 /\ b <= 131070 /\ c <= 131070 /\ d <= 131070
      /\ e <= 65535 /\ f <= 65535 /\ g <= 65535
  <2>1. ASSUME NEW z \in 0 .. Ones + Ones PROVE z \in Nat /\ z <= 131070
    BY DoubleOnes
  <2>2. ASSUME NEW z \in 0 .. Ones PROVE z \in Nat /\ z <= Ones
    <3>1. Ones \in Nat
      BY OnesFacts
    <3> QED BY <3>1
  <2>3. a \in Nat /\ a <= 131070
    BY <1>1, <2>1, SMT
  <2>4. b \in Nat /\ b <= 131070
    BY <1>1, <2>1, SMT
  <2>5. c \in Nat /\ c <= 131070
    BY <1>1, <2>1, SMT
  <2>6. d \in Nat /\ d <= 131070
    BY <1>1, <2>1, SMT
  <2>7. e \in Nat /\ e <= 65535 /\ f \in Nat /\ f <= 65535 /\ g \in Nat /\ g <= 65535
    <3>1. e \in Nat /\ e <= Ones /\ f \in Nat /\ f <= Ones /\ g \in Nat /\ g <= Ones
      BY <1>1, <2>2, Zenon
    <3> QED BY <1>6, <3>1, SMT
  <2> QED BY <2>3, <2>4, <2>5, <2>6, <2>7, SMT
<1>9. i \in Nat /\ i > 0 /\ i <= 1536 * 65535
  BY <1>4, <1>7, <1>8, SMT
<1>10. t \in Nat /\ t > 0 /\ t <= 1536 * 65535
  BY <1>3, <1>5, <1>7, <1>8, SMT
<1>11. i < Word16 * Word16
  <2>1. i <= 1536 * Ones
    BY <1>6, <1>9, SMT
  <2> QED BY <1>9, <2>1, SmallSum, SMT
<1>12. t < Word16 * Word16
  <2>1. t <= 1536 * Ones
    BY <1>6, <1>10, SMT
  <2> QED BY <1>10, <2>1, SmallSum, SMT
<1> QED BY <1>9, <1>10, <1>11, <1>12, SMT DEF i, t

\* Clearing a field that is zero.
LEMMA ClearZero ==
    ASSUME NEW s \in Seq(Byte8), NEW i \in 1 .. Len(s), NEW v, s[i] = v
    PROVE  [s EXCEPT ![i] = v] = s
<1>1. s = [k \in 1 .. Len(s) |-> s[k]]
  OBVIOUS
<1>2. [s EXCEPT ![i] = v] = [k \in 1 .. Len(s) |-> IF k = i THEN v ELSE s[k]]
  OBVIOUS
<1>3. \A k \in 1 .. Len(s) : (IF k = i THEN v ELSE s[k]) = s[k]
  OBVIOUS
<1> QED BY <1>1, <1>2, <1>3

LEMMA TcpZero ==
    ASSUME NEW spec, LegalSpec(spec), NEW payload, Fits(payload)
    PROVE  LET segment == TcpHeader(spec, 0) \o payload
           IN [segment EXCEPT ![17] = 0, ![18] = 0] = segment
<1> DEFINE a == TcpFront(spec)
           b == Put16(0)
           c == <<0, 0>>
           h == TcpHeader(spec, 0)
           segment == h \o payload
<1>1. a \in Seq(Byte8) /\ Len(a) = 16
  BY TcpFrontWords
<1>2. 0 \in Half
  BY SmallBytes
<1>3. b \in Seq(Byte8) /\ Len(b) = 2
  BY <1>2, Put16Words
<1>4. b[1] = 0 /\ b[2] = 0
  <2>1. 0 \in Nat /\ 256 \in Nat /\ 256 > 0 /\ 0 \in 0 .. 256 - 1 /\ 0 = 256 * 0 + 0
    BY SMT
  <2>2. 0 \div 256 = 0 /\ 0 % 256 = 0
    BY <2>1, QuotientIs
  <2>3. b[1] = 0 \div 256 /\ b[2] = 0 % 256
    BY <1>2, Put16Words
  <2> QED BY <2>2, <2>3, Zenon
<1>5. c \in Seq(Byte8)
  BY SmallBytes
<1>6. h = (a \o b) \o c /\ h \in Seq(Byte8) /\ Len(h) = 20
  BY <1>2, TcpHeaderWords
<1> HIDE DEF a, b, c, h
<1>7. \A i \in 1 .. Len(b) : h[Len(a) + i] = b[i]
  <2>1. \A i \in 1 .. Len(b) : ((a \o b) \o c)[Len(a) + i] = b[i]
    <3>1. a \in Seq(Byte8) /\ b \in Seq(Byte8) /\ c \in Seq(Byte8)
      BY <1>1, <1>3, <1>5, Zenon
    <3> QED BY <3>1, ThreeBytes, Zenon
  <2> QED BY <1>6, <2>1, Zenon
<1>8. h[17] = 0 /\ h[18] = 0
  <2>1. 1 \in 1 .. Len(b) /\ 2 \in 1 .. Len(b) /\ Len(a) + 1 = 17 /\ Len(a) + 2 = 18
    BY <1>1, <1>3
  <2>2. h[Len(a) + 1] = b[1] /\ h[Len(a) + 2] = b[2]
    BY <1>7, <2>1, Zenon
  <2> QED BY <1>4, <2>1, <2>2, Zenon
<1>9. payload \in Seq(Byte8) /\ Len(payload) \in Nat
  BY FitsLen
<1>10. /\ segment \in Seq(Byte8) /\ Len(segment) = Len(h) + Len(payload)
       /\ \A i \in 1 .. Len(h) : segment[i] = h[i]
  <2>1. h \in Seq(Byte8) /\ payload \in Seq(Byte8)
    BY <1>6, <1>9, Zenon
  <2> QED BY <2>1, JoinBytes
<1> HIDE DEF segment
<1>11. 17 \in 1 .. Len(h) /\ 18 \in 1 .. Len(h) /\ 17 \in 1 .. Len(segment) /\ 18 \in 1 .. Len(segment)
  BY <1>6, <1>9, <1>10
<1>12. segment[17] = 0 /\ segment[18] = 0
  BY <1>8, <1>10, <1>11, Zenon
<1>13. [segment EXCEPT ![17] = 0] = segment /\ [segment EXCEPT ![18] = 0] = segment
  BY <1>10, <1>11, <1>12, ClearZero
<1>14. [segment EXCEPT ![17] = 0, ![18] = 0] = [[segment EXCEPT ![17] = 0] EXCEPT ![18] = 0]
  OBVIOUS
<1>15. [segment EXCEPT ![17] = 0, ![18] = 0] = segment
  BY <1>13, <1>14, Zenon
<1> QED BY <1>15, Zenon DEF segment, h

\* The checksum over a packet, with the field in it counted or not.
LEMMA RawTcpSum ==
    ASSUME NEW spec, LegalSpec(spec), NEW payload, Fits(payload), NEW s \in Half, NEW t \in Half
    PROVE  /\ TcpChecksum(Raw(spec, payload, s, t), 20, FALSE) = FoldChecksum(TcpSum(spec, payload) + t)
           /\ t = 0 => TcpChecksum(Raw(spec, payload, s, t), 20, TRUE) = FoldChecksum(TcpSum(spec, payload))
<1> DEFINE packet == Raw(spec, payload, s, t)
           adr == Addresses(spec.key)
           tcp == TcpHeader(spec, t)
           segment == tcp \o payload
           src == Sum32(spec.key.src)
           dst == Sum32(spec.key.dst)
           front == TcpFrontSum(spec)
           n == Len(payload)
           p == Sum16(payload)
<1>1. SubSeq(packet, 13, 20) = adr /\ SubSeq(packet, 21, Len(packet)) = segment
  <2>1. IsRaw(packet, spec, payload, s, t)
    BY RawParts, Zenon
  <2> HIDE DEF packet
  <2> QED BY <2>1, Zenon DEF IsRaw
<1>2. LegalKey(spec.key) /\ src \in Nat /\ dst \in Nat
  BY FieldSums, OnesFacts
<1>3. Sum16(adr) = src + dst
  BY <1>2, AddressWords, Zenon DEF Words
<1>4. tcp \in Seq(Byte8) /\ Len(tcp) = 20 /\ Sum16(tcp) = front + t
  BY TcpHeaderWords, Zenon DEF Words
<1>5. payload \in Seq(Byte8) /\ n \in Nat
  BY FitsLen
<1>6. p \in Nat
  BY <1>5, Sum16Type
<1>7. front \in Nat
  <2>1. Words(TcpFront(spec), 8, TcpFrontSum(spec))
    BY TcpFrontWords
  <2> QED BY <2>1, Sum16Type DEF Words
<1>8. TcpSum(spec, payload) = src + dst + 6 + (20 + n) + front + p
  BY Zenon DEF TcpSum
<1>9. t \in Nat
  BY OnesFacts DEF Half
<1>10. TcpChecksum(packet, 20, FALSE)
         = FoldChecksum(Sum16(adr) + 6 + Len(segment) + Sum16(segment))
  <2>1. 20 + 1 = 21
    OBVIOUS
  <2>2. TcpChecksum(packet, 20, FALSE)
          = FoldChecksum(Sum16(SubSeq(packet, 13, 20)) + 6 + Len(SubSeq(packet, 20 + 1, Len(packet)))
                         + Sum16(SubSeq(packet, 20 + 1, Len(packet))))
    <3> HIDE DEF packet
    <3> QED BY DEF TcpChecksum
  <2> HIDE DEF packet, adr, segment
  <2> QED BY <1>1, <2>1, <2>2, Zenon
<1>11. ASSUME t = 0
       PROVE  TcpChecksum(packet, 20, TRUE)
                = FoldChecksum(Sum16(adr) + 6 + Len(segment) + Sum16(segment))
  <2>1. 20 + 1 = 21
    OBVIOUS
  <2> DEFINE part == SubSeq(packet, 20 + 1, Len(packet))
  <2>2. TcpChecksum(packet, 20, TRUE)
          = FoldChecksum(Sum16(SubSeq(packet, 13, 20)) + 6 + Len(part)
                         + Sum16([part EXCEPT ![17] = 0, ![18] = 0]))
    <3> HIDE DEF packet
    <3> QED BY DEF TcpChecksum
  <2>3. [segment EXCEPT ![17] = 0, ![18] = 0] = segment
    BY <1>11, TcpZero, Zenon
  <2>4. part = segment
    <3> HIDE DEF packet, segment
    <3> QED BY <1>1, <2>1, Zenon
  <2> HIDE DEF packet, adr, segment, part
  <2> QED BY <1>1, <2>2, <2>3, <2>4, Zenon
<1> HIDE DEF packet, adr, tcp, src, dst, front, n, p
<1>12. Len(segment) = 20 + n /\ Sum16(segment) = (front + t) + p
  <2>1. Len(tcp) % 2 = 0
    BY <1>4
  <2>2. Sum16(segment) = Sum16(tcp) + Sum16(payload)
    BY <1>4, <1>5, <2>1, Sum16Joined
  <2>3. tcp \in Seq(Byte8) /\ payload \in Seq(Byte8)
    BY <1>4, <1>5, Zenon
  <2>4. Len(segment) = Len(tcp) + Len(payload)
    BY <2>3, JoinBytes, Zenon
  <2> HIDE DEF segment
  <2> QED BY <1>4, <2>2, <2>4, Zenon DEF n, p
<1> HIDE DEF segment
<1>13. Sum16(adr) + 6 + Len(segment) + Sum16(segment) = TcpSum(spec, payload) + t
  <2>1. Sum16(adr) + 6 + Len(segment) + Sum16(segment)
          = (src + dst) + 6 + (20 + n) + ((front + t) + p)
    BY <1>3, <1>12, Zenon
  <2>2. (src + dst) + 6 + (20 + n) + ((front + t) + p) = (src + dst + 6 + (20 + n) + front + p) + t
    BY <1>2, <1>5, <1>6, <1>7, <1>9
  <2> QED BY <1>8, <2>1, <2>2, Zenon
<1>14. TcpSum(spec, payload) \in Nat
  BY SumsFit
<1>15. t = 0 => TcpSum(spec, payload) + t = TcpSum(spec, payload)
  BY <1>14
<1> QED BY <1>10, <1>11, <1>13, <1>15, Zenon DEF packet

\* What the CPU builds.
LEMMA BuiltIs ==
    ASSUME NEW spec, LegalSpec(spec), Fits(spec.payload)
    PROVE  BuildIpv4TcpPacket(spec)
             = Raw(spec, spec.payload, FoldChecksum(IpSum(40 + Len(spec.payload), spec.key)),
                   FoldChecksum(TcpSum(spec, spec.payload)))
<1> DEFINE payload == spec.payload
           len == 40 + Len(payload)
           ip == IpHeader(len, spec.key, 0)
           tcp == TcpHeader(spec, 0) \o payload
<1>1. 0 \in Half /\ len \in Half /\ LegalKey(spec.key)
  <2>1. 0 \in Half
    BY SmallBytes, SMT
  <2> QED BY <2>1, FitsLen, FieldSums, Zenon
<1>2. Raw(spec, payload, 0, 0) = ip \o tcp
  <2> HIDE DEF payload
  <2>1. Fits(payload)
    BY Zenon DEF payload
  <2>2. IsRaw(Raw(spec, payload, 0, 0), spec, payload, 0, 0)
    BY <1>1, <2>1, RawParts, Zenon
  <2> QED BY <2>2, Zenon DEF IsRaw
<1>3. TcpChecksum(ip \o tcp, 20, TRUE) = FoldChecksum(TcpSum(spec, payload))
  <2>1. TcpChecksum(Raw(spec, payload, 0, 0), 20, TRUE) = FoldChecksum(TcpSum(spec, payload))
    BY <1>1, RawTcpSum, Zenon
  <2> HIDE DEF ip, tcp
  <2> QED BY <1>2, <2>1, Zenon
<1>4. IpChecksum(ip) = FoldChecksum(IpSum(len, spec.key))
  <2>1. Sum16(ip) = IpSum(len, spec.key) + 0
    BY <1>1, IpHeaderWords, Zenon DEF Words
  <2>2. IpSum(len, spec.key) \in Nat
    BY SumsFit, Zenon
  <2>3. Sum16(ip) = IpSum(len, spec.key)
    BY <2>1, <2>2
  <2> QED BY <2>3, Zenon DEF IpChecksum
<1>5. BuildIpv4TcpPacket(spec)
        = (IpHeader(len, spec.key, IpChecksum(ip)) \o TcpHeader(spec, TcpChecksum(ip \o tcp, 20, TRUE))) \o payload
  BY Zenon DEF BuildIpv4TcpPacket
<1> HIDE DEF ip, tcp
<1>6. BuildIpv4TcpPacket(spec)
        = (IpHeader(len, spec.key, FoldChecksum(IpSum(len, spec.key)))
            \o TcpHeader(spec, FoldChecksum(TcpSum(spec, payload)))) \o payload
  BY <1>3, <1>4, <1>5, Zenon
<1> QED BY <1>6, Zenon DEF Raw

LEMMA BuiltValid ==
    ASSUME NEW spec, LegalSpec(spec), Fits(spec.payload)
    PROVE  ChecksumsValid(BuildIpv4TcpPacket(spec))
<1> DEFINE payload == spec.payload
           len == 40 + Len(payload)
           is == IpSum(len, spec.key)
           ts == TcpSum(spec, payload)
           s == FoldChecksum(is)
           t == FoldChecksum(ts)
           packet == Raw(spec, payload, s, t)
<1>1. is \in Nat /\ is > 0 /\ ts \in Nat /\ ts > 0
  BY SumsFit, Zenon
<1>2. s \in Half /\ FoldChecksum(is + s) = 0 /\ t \in Half /\ FoldChecksum(ts + t) = 0
  <2> HIDE DEF is, ts
  <2> QED BY <1>1, WithChecksum DEF Half
<1>3. BuildIpv4TcpPacket(spec) = packet
  BY BuiltIs, Zenon
<1>4. len \in Half /\ LegalKey(spec.key) /\ len \in 40 .. MaxPacket
  BY FitsLen, FieldSums, Zenon
<1> HIDE DEF s, t, is, ts
<1>5. /\ packet \in Seq(Byte8) /\ Len(packet) = len
      /\ SubSeq(packet, 1, 20) = IpHeader(len, spec.key, s)
      /\ SubSeq(packet, 1, Len(packet)) = packet
      /\ packet[1] = 69 /\ packet[3] = len \div 256 /\ packet[4] = len % 256
  <2> HIDE DEF payload
  <2>1. Fits(payload)
    BY Zenon DEF payload
  <2>2. IsRaw(packet, spec, payload, s, t)
    BY <1>2, <2>1, RawParts, Zenon
  <2> HIDE DEF packet
  <2> QED BY <2>2, Zenon DEF IsRaw
<1>6. Sum16(IpHeader(len, spec.key, s)) = is + s
  <2>1. Sum16(IpHeader(len, spec.key, s)) = IpSum(len, spec.key) + s
    <3> HIDE DEF len
    <3>1. Words(IpHeader(len, spec.key, s), 10, IpSum(len, spec.key) + s)
      BY <1>2, <1>4, IpHeaderWords, Zenon
    <3> QED BY <3>1, Zenon DEF Words
  <2> QED BY <2>1, Zenon DEF is
<1>7. TcpChecksum(packet, 20, FALSE) = FoldChecksum(ts + t)
  <2> HIDE DEF payload
  <2>1. Fits(payload)
    BY Zenon DEF payload
  <2>2. TcpChecksum(Raw(spec, payload, s, t), 20, FALSE) = FoldChecksum(TcpSum(spec, payload) + t)
    BY <1>2, <2>1, RawTcpSum, ZenonT(60)
  <2> QED BY <2>2, Zenon DEF ts
<1>8. ((len \div 256) * 256) + (len % 256) = len
  <2> HIDE DEF len
  <2> QED BY <1>4, HalfParts, Zenon
<1> HIDE DEF packet, is, ts, len
<1>9. IpHeaderLen(packet) = 20
  <2>1. packet[0 + 1] = 69
    BY <1>5
  <2>2. (69 % 16) * 4 = 20
    BY SMT
  <2> QED BY <2>1, <2>2, Zenon DEF IpHeaderLen, Byte
<1>10. U16(packet, 2) = len
  <2>1. 2 + 1 = 3 /\ 2 + 2 = 4
    OBVIOUS
  <2> QED BY <1>5, <1>8, <2>1, ZenonT(60) DEF U16
<1>11. IpChecksum(SubSeq(packet, 1, 20)) = 0
  BY <1>2, <1>5, <1>6, Zenon DEF IpChecksum
<1>12. TcpChecksum(SubSeq(packet, 1, len), 20, FALSE) = 0
  BY <1>2, <1>5, <1>7, Zenon
<1>13. Len(packet) >= 40 /\ 20 \in 20 .. Len(packet) /\ len <= Len(packet)
  <2>1. len \in Nat /\ len >= 40
    BY <1>4, MaxPacketFacts, SMT
  <2> QED BY <1>5, <2>1, SMT
<1>14. ChecksumsValid(packet)
  BY <1>9, <1>10, <1>11, <1>12, <1>13, Zenon DEF ChecksumsValid
<1> QED BY <1>3, <1>14, Zenon

-----------------------------------------------------------------------------
(* Bytes in the output.                                                    *)

\* The bytes of p are those of the words after base.
Holds(words, base, p) == \A o \in 0 .. Len(p) - 1 : ReadByte(words, base, o) = p[o + 1]

LEMMA WordOf ==
    ASSUME NEW p \in Seq(Byte8), NEW o \in 0 .. Len(p) - 1
    PROVE  o \in Nat /\ o \div 4 \in Nat /\ o % 4 \in 0 .. 3 /\ o = 4 * (o \div 4) + (o % 4)
<1>1. o \in Nat
  OBVIOUS
<1>2. o \div 4 \in Nat /\ o % 4 \in 0 .. 4 - 1 /\ o = 4 * (o \div 4) + (o % 4)
  BY <1>1, Quotient
<1>3. 4 - 1 = 3
  OBVIOUS
<1> QED BY <1>1, <1>2, <1>3, Zenon

LEMMA HoldsKept ==
    ASSUME NEW words, NEW base \in Nat, NEW p \in Seq(Byte8), Holds(words, base, p),
           NEW after, \A w \in base + 1 .. base + WordsFor(Len(p)) : after[w] = words[w]
    PROVE  Holds(after, base, p)
<1> SUFFICES ASSUME NEW o \in 0 .. Len(p) - 1 PROVE ReadByte(after, base, o) = p[o + 1]
  BY Zenon DEF Holds
<1> DEFINE q == o \div 4
           n == WordsFor(Len(p))
<1>1. q + 1 \in 1 .. n /\ n \in Nat /\ q \in Nat
  BY PackTypes, WordOf, Zenon
<1>2. ReadByte(words, base, o) = p[o + 1]
  BY Zenon DEF Holds
<1> HIDE DEF n
<1>3. after[base + q + 1] = words[base + q + 1]
  <2> HIDE DEF q
  <2>1. base + q + 1 \in base + 1 .. base + n
    BY <1>1
  <2> QED BY <2>1, Zenon DEF n
<1>4. ReadByte(after, base, o) = ReadByte(words, base, o)
  BY <1>3, Zenon DEF ReadByte, q
<1> QED BY <1>2, <1>4, Zenon

LEMMA WordsWritten ==
    ASSUME NEW out \in Seq(Word), NEW base \in Nat, NEW words \in Seq(Word), base + Len(words) <= Len(out),
           NEW after, after = WriteWords(out, base, words)
    PROVE  /\ after \in Seq(Word) /\ Len(after) = Len(out)
           /\ \A w \in 1 .. Len(words) : after[base + w] = words[w]
           /\ \A w \in 1 .. Len(out) : (w <= base \/ w > base + Len(words)) => after[w] = out[w]
<1> DEFINE m == Len(words)
           n == Len(out)
<1>1. /\ m \in Nat /\ n \in Nat /\ DOMAIN words = 1 .. m /\ DOMAIN out = 1 .. n
      /\ \A w \in 1 .. m : words[w] \in Word
      /\ \A w \in 1 .. n : out[w] \in Word
  OBVIOUS
<1>2. after = [w \in 1 .. n |-> IF w - base \in 1 .. m THEN words[w - base] ELSE out[w]]
  BY <1>1, Zenon DEF WriteWords
<1>3. base + m <= n
  OBVIOUS
<1> HIDE DEF m, n
<1>4. ASSUME NEW w \in 1 .. n PROVE after[w] \in Word
  <2>1. after[w] = IF w - base \in 1 .. m THEN words[w - base] ELSE out[w]
    BY <1>2, Zenon
  <2> QED BY <1>1, <2>1, Zenon
<1>5. after \in Seq(Word) /\ Len(after) = n
  <2>1. after \in [1 .. n -> Word]
    BY <1>2, <1>4, Zenon
  <2> QED BY <1>1, <2>1
<1>6. ASSUME NEW w \in 1 .. m PROVE after[base + w] = words[w]
  <2>1. base + w \in 1 .. n /\ (base + w) - base = w
    BY <1>1, <1>3
  <2>2. after[base + w] = IF (base + w) - base \in 1 .. m THEN words[(base + w) - base] ELSE out[base + w]
    BY <1>2, <2>1, Zenon
  <2> QED BY <2>1, <2>2, Zenon
<1>7. ASSUME NEW w \in 1 .. n, w <= base \/ w > base + m PROVE after[w] = out[w]
  <2>1. w - base \notin 1 .. m
    BY <1>1, <1>7
  <2>2. after[w] = IF w - base \in 1 .. m THEN words[w - base] ELSE out[w]
    BY <1>2, Zenon
  <2> QED BY <2>1, <2>2, Zenon
<1> QED BY <1>5, <1>6, <1>7, Zenon DEF m, n

\* A packet written after base, and nothing else.
IsWritten(out, base, p, after) ==
    /\ after \in Seq(Word) /\ Len(after) = Len(out) /\ Holds(after, base, p)
    /\ \A w \in 1 .. Len(out) : (w <= base \/ w > base + WordsFor(Len(p))) => after[w] = out[w]

LEMMA PackedWritten ==
    ASSUME NEW out \in Seq(Word), NEW base \in Nat, NEW p \in Seq(Byte8),
           base + WordsFor(Len(p)) <= Len(out),
           NEW after, after = WriteWords(out, base, PackBytes(p))
    PROVE  IsWritten(out, base, p, after)
<1> DEFINE words == PackBytes(p)
           n == WordsFor(Len(p))
<1>1. /\ n \in Nat /\ words \in Seq(Word) /\ Len(words) = n
      /\ \A o \in 0 .. Len(p) - 1 : (o \div 4) + 1 \in 1 .. n /\ words[(o \div 4) + 1][(o % 4) + 1] = p[o + 1]
  BY PackTypes
<1>2. base + n <= Len(out) /\ after = WriteWords(out, base, words)
  OBVIOUS
<1> HIDE DEF words, n
<1>3. base + Len(words) <= Len(out)
  BY <1>1, <1>2, Zenon
<1>4. /\ after \in Seq(Word) /\ Len(after) = Len(out)
      /\ \A w \in 1 .. Len(words) : after[base + w] = words[w]
      /\ \A w \in 1 .. Len(out) : (w <= base \/ w > base + Len(words)) => after[w] = out[w]
  <2>1. words \in Seq(Word) /\ base + Len(words) <= Len(out) /\ after = WriteWords(out, base, words)
    BY <1>1, <1>2, <1>3, Zenon
  <2> QED BY <2>1, WordsWritten
<1>5. ASSUME NEW o \in 0 .. Len(p) - 1 PROVE ReadByte(after, base, o) = p[o + 1]
  <2> DEFINE q == o \div 4
             r == o % 4
  <2>1. q + 1 \in 1 .. n /\ words[q + 1][r + 1] = p[o + 1] /\ q \in Nat
    BY <1>1, WordOf, Zenon
  <2>2. after[base + (q + 1)] = words[q + 1]
    BY <1>1, <1>4, <2>1, Zenon
  <2>3. ReadByte(after, base, o) = after[base + q + 1][r + 1]
    BY Zenon DEF ReadByte
  <2> HIDE DEF q, r
  <2>4. base + (q + 1) = base + q + 1
    BY <2>1
  <2> QED BY <2>1, <2>2, <2>3, <2>4, Zenon
<1> QED BY <1>1, <1>4, <1>5, Zenon DEF IsWritten, Holds, n

\* A 16-bit number stored at an even place.
High(v) == v \div 256
Low(v) == v % 256
Stored(p, o, v) == [p EXCEPT ![o + 1] = High(v), ![o + 2] = Low(v)]

LEMMA StoredIs ==
    ASSUME NEW p \in Seq(Byte8), NEW o \in Nat, o + 2 <= Len(p), NEW v \in Half
    PROVE  /\ Stored(p, o, v) \in Seq(Byte8) /\ Len(Stored(p, o, v)) = Len(p)
           /\ \A i \in 1 .. Len(p) : Stored(p, o, v)[i] = IF i = o + 1 THEN High(v)
                                                         ELSE IF i = o + 2 THEN Low(v) ELSE p[i]
<1> DEFINE hi == High(v)
           lo == Low(v)
           n == Len(p)
           s == [p EXCEPT ![o + 1] = hi, ![o + 2] = lo]
<1>1. hi \in Byte8 /\ lo \in Byte8
  BY Put16Words, ZenonT(60) DEF High, Low
<1>2. n \in Nat /\ p \in [1 .. n -> Byte8] /\ o + 2 <= n
  OBVIOUS
<1>3. Stored(p, o, v) = s
  BY Zenon DEF Stored
<1> HIDE DEF hi, lo, n
<1>4. o + 1 \in 1 .. n /\ o + 2 \in 1 .. n /\ o + 1 # o + 2
  BY <1>2
<1>5. s \in [1 .. n -> Byte8]
  BY <1>1, <1>2, Zenon
<1>6. \A i \in 1 .. n : s[i] = IF i = o + 1 THEN hi ELSE IF i = o + 2 THEN lo ELSE p[i]
  BY <1>2, <1>4
<1>7. s \in Seq(Byte8) /\ Len(s) = n
  <2> HIDE DEF s
  <2> QED BY <1>2, <1>5
<1> HIDE DEF s
<1> QED BY <1>3, <1>6, <1>7, Zenon DEF hi, lo, n

LEMMA StoredType ==
    ASSUME NEW p \in Seq(Byte8), NEW o \in {10, 36}, o + 2 <= Len(p), NEW v \in Half
    PROVE  Stored(p, o, v) \in Seq(Byte8) /\ Len(Stored(p, o, v)) = Len(p)
<1>1. o \in Nat
  OBVIOUS
<1> QED BY <1>1, StoredIs, Zenon

LEMMA HalfWritten ==
    ASSUME NEW out \in Seq(Word), NEW base \in Nat, NEW p \in Seq(Byte8), Holds(out, base, p),
           base + WordsFor(Len(p)) <= Len(out),
           NEW o \in {10, 36}, o + 2 <= Len(p),
           NEW v \in Half, NEW after, after = WriteU16(out, base, o, v)
    PROVE  IsWritten(out, base, Stored(p, o, v), after)
<1>q. \E q \in Nat : \E r \in {0, 2} : o = 4 * q + r /\ o \div 4 = q /\ ((o \div 2) % 2) * 2 = r
  <2>1. CASE o = 10
    <3>1. 10 = 4 * 2 + 2 /\ 10 \div 4 = 2 /\ ((10 \div 2) % 2) * 2 = 2 /\ 2 \in Nat
      BY SMT
    <3> QED BY <2>1, <3>1, Zenon
  <2>2. CASE o = 36
    <3>1. 36 = 4 * 9 + 0 /\ 36 \div 4 = 9 /\ ((36 \div 2) % 2) * 2 = 0 /\ 9 \in Nat
      BY SMT
    <3> QED BY <2>2, <3>1, Zenon
  <2> QED BY <2>1, <2>2
<1>0. PICK q \in Nat, r \in {0, 2} : o = 4 * q + r /\ o \div 4 = q /\ ((o \div 2) % 2) * 2 = r
  BY <1>q, Zenon
<1>o. o \in Nat
  OBVIOUS
<1> DEFINE hi == High(v)
           lo == Low(v)
           n == Len(out)
           m == WordsFor(Len(p))
           at == base + q + 1
           word == [out[at] EXCEPT ![r + 1] = hi, ![r + 2] = lo]
<1>1. hi \in Byte8 /\ lo \in Byte8
  BY Put16Words, ZenonT(60) DEF High, Low
<1>2. after = [out EXCEPT ![at] = word]
  BY <1>0, Zenon DEF WriteU16, High, Low
<1>3. n \in Nat /\ out \in [1 .. n -> Word] /\ m \in Nat
  BY PackTypes
<1>4. base + m <= n /\ o \in 0 .. Len(p) - 1 /\ Len(p) \in Nat
  OBVIOUS
<1>5. at \in base + 1 .. base + m
  <2>1. (o \div 4) + 1 \in 1 .. m
    BY <1>4, PackTypes
  <2> HIDE DEF m
  <2>2. q + 1 \in 1 .. m
    BY <1>0, <2>1, Zenon
  <2> QED BY <2>2, <1>3
<1> HIDE DEF hi, lo, n, m
<1>6. at \in 1 .. n
  BY <1>3, <1>4, <1>5
<1>7. out[at] \in [1 .. 4 -> Byte8]
  BY <1>3, <1>6, Zenon DEF Word
<1>8. r + 1 \in 1 .. 4 /\ r + 2 \in 1 .. 4 /\ r + 1 # r + 2 /\ r \in Nat
  OBVIOUS
<1> DEFINE old == out[at]
<1>9. /\ word \in [1 .. 4 -> Byte8]
      /\ \A k \in 1 .. 4 : word[k] = IF k = r + 1 THEN hi ELSE IF k = r + 2 THEN lo ELSE old[k]
  <2>1. old \in [1 .. 4 -> Byte8] /\ word = [old EXCEPT ![r + 1] = hi, ![r + 2] = lo]
    BY <1>7, Zenon
  <2> HIDE DEF old, word
  <2> QED BY <1>1, <1>8, <2>1
<1> HIDE DEF word, at
<1>10. after \in Seq(Word) /\ Len(after) = n
  <2>1. after \in [1 .. n -> Word]
    BY <1>2, <1>3, <1>6, <1>9, Zenon DEF Word
  <2> QED BY <1>3, <2>1
<1>11. /\ after[at] = word
       /\ \A w \in 1 .. n : w # at => after[w] = out[w]
  BY <1>2, <1>3, <1>6, Zenon
<1>12. \A w \in 1 .. n : (w <= base \/ w > base + m) => after[w] = out[w]
  <2>1. \A w \in 1 .. n : (w <= base \/ w > base + m) => w # at
    BY <1>3, <1>5
  <2> QED BY <1>11, <2>1, Zenon
<1>13. /\ Len(Stored(p, o, v)) = Len(p)
       /\ \A i \in 1 .. Len(p) : Stored(p, o, v)[i] = IF i = o + 1 THEN hi ELSE IF i = o + 2 THEN lo ELSE p[i]
  BY <1>o, StoredIs, ZenonT(60) DEF hi, lo
<1>14. ASSUME NEW j \in 0 .. Len(p) - 1 PROVE ReadByte(after, base, j) = Stored(p, o, v)[j + 1]
  <2> DEFINE x == j \div 4
             y == j % 4
             st == Stored(p, o, v)
  <2>1. j \in Nat /\ x \in Nat /\ y \in 0 .. 3 /\ j = 4 * x + y
    BY WordOf, Zenon
  <2>2. x + 1 \in 1 .. m
    BY PackTypes DEF m
  <2>3. ReadByte(after, base, j) = after[base + x + 1][y + 1] /\ out[base + x + 1][y + 1] = p[j + 1]
    BY Zenon DEF ReadByte, Holds
  <2>4. j + 1 \in 1 .. Len(p)
    BY <1>4
  <2>5. st[j + 1] = IF j + 1 = o + 1 THEN hi ELSE IF j + 1 = o + 2 THEN lo ELSE p[j + 1]
    BY <1>13, <2>4, Zenon
  <2> HIDE DEF x, y, st
  <2>6. CASE x # q
    <3>1. base + x + 1 \in 1 .. n /\ base + x + 1 # at
      BY <1>3, <1>4, <2>1, <2>2, <2>6 DEF at
    <3>2. j + 1 # o + 1 /\ j + 1 # o + 2
      BY <1>0, <2>1, <2>6
    <3>3. after[base + x + 1] = out[base + x + 1]
      BY <1>11, <3>1, Zenon
    <3> QED BY <2>3, <2>5, <3>2, <3>3, Zenon DEF st
  <2>7. CASE x = q
    <3>1. base + x + 1 = at
      BY <2>7, Zenon DEF at
    <3>2. y + 1 \in 1 .. 4 /\ (y + 1 = r + 1 <=> j + 1 = o + 1) /\ (y + 1 = r + 2 <=> j + 1 = o + 2)
      BY <1>0, <2>1, <2>7, <1>8
    <3>3. word[y + 1] = IF y + 1 = r + 1 THEN hi ELSE IF y + 1 = r + 2 THEN lo ELSE old[y + 1]
      BY <1>9, <3>2, Zenon
    <3>4. old[y + 1] = p[j + 1] /\ after[base + x + 1][y + 1] = word[y + 1]
      BY <1>11, <2>3, <3>1, Zenon
    <3> HIDE DEF old
    <3> QED BY <2>3, <2>5, <3>2, <3>3, <3>4, Zenon DEF st
  <2> QED BY <2>6, <2>7, Zenon DEF st
<1>15. Holds(after, base, Stored(p, o, v))
  BY <1>13, <1>14, Zenon DEF Holds
<1> QED BY <1>10, <1>12, <1>13, <1>15, Zenon DEF IsWritten, n, m

LEMMA WordsForSum ==
    ASSUME NEW k \in Nat, NEW n \in Nat
    PROVE  WordsFor(4 * k + n) = k + WordsFor(n) /\ WordsFor(n) \in Nat
<1> DEFINE q == (n + 3) \div 4
           r == (n + 3) % 4
<1>1. n + 3 \in Nat
  OBVIOUS
<1>2. q \in Nat /\ r \in 0 .. 4 - 1 /\ n + 3 = 4 * q + r
  BY <1>1, Quotient
<1> HIDE DEF q, r
<1>3. (4 * k + n) + 3 \in Nat /\ k + q \in Nat /\ (4 * k + n) + 3 = 4 * (k + q) + r
  BY <1>2
<1>4. ((4 * k + n) + 3) \div 4 = k + q
  BY <1>2, <1>3, QuotientIs
<1> QED BY <1>2, <1>4, Zenon DEF WordsFor, q

LEMMA WordsForGrows ==
    ASSUME NEW m \in Nat, NEW n \in Nat, m <= n
    PROVE  WordsFor(m) <= WordsFor(n)
<1> DEFINE q == (n + 3) \div 4
           r == (n + 3) % 4
           p == (m + 3) \div 4
           t == (m + 3) % 4
<1>1. n + 3 \in Nat /\ m + 3 \in Nat
  OBVIOUS
<1>2. q \in Nat /\ r \in 0 .. 4 - 1 /\ n + 3 = 4 * q + r
  BY <1>1, Quotient
<1>3. p \in Nat /\ t \in 0 .. 4 - 1 /\ m + 3 = 4 * p + t
  BY <1>1, Quotient
<1> HIDE DEF q, r, p, t
<1>4. p <= q
  BY <1>2, <1>3
<1> QED BY <1>4, Zenon DEF WordsFor, p, q

LEMMA HoldsJoined ==
    ASSUME NEW words, NEW base \in Nat, NEW k \in Nat, NEW p \in Seq(Byte8), Len(p) = 4 * k,
           NEW s \in Seq(Byte8), Holds(words, base, p), Holds(words, base + k, s)
    PROVE  Holds(words, base, p \o s)
<1> DEFINE t == p \o s
<1>1. /\ t \in Seq(Byte8) /\ Len(t) = Len(p) + Len(s) /\ Len(p) \in Nat /\ Len(s) \in Nat
      /\ \A i \in 1 .. Len(p) : t[i] = p[i]
      /\ \A i \in 1 .. Len(s) : t[Len(p) + i] = s[i]
  <2>2. /\ p \o s \in Seq(Byte8) /\ Len(p \o s) = Len(p) + Len(s) /\ Len(p) \in Nat /\ Len(s) \in Nat
        /\ \A i \in 1 .. Len(p) : (p \o s)[i] = p[i]
        /\ \A i \in 1 .. Len(s) : (p \o s)[Len(p) + i] = s[i]
    BY JoinBytes, Zenon
  <2> QED BY <2>2, Zenon
<1> HIDE DEF t
<1> SUFFICES ASSUME NEW o \in 0 .. Len(t) - 1 PROVE ReadByte(words, base, o) = t[o + 1]
  BY Zenon DEF Holds, t
<1>2. o \in Nat
  BY <1>1
<1>3. CASE o < Len(p)
  <2>1. o \in 0 .. Len(p) - 1 /\ o + 1 \in 1 .. Len(p)
    BY <1>1, <1>2, <1>3
  <2> QED BY <1>1, <2>1, Zenon DEF Holds
<1>4. CASE o >= Len(p)
  <2> DEFINE j == o - Len(p)
             x == j \div 4
             y == j % 4
  <2>1. j \in 0 .. Len(s) - 1 /\ j + 1 \in 1 .. Len(s) /\ Len(p) + (j + 1) = o + 1 /\ o = 4 * k + j
    BY <1>1, <1>2, <1>4
  <2>2. ReadByte(words, base + k, j) = s[j + 1]
    BY <2>1, Zenon DEF Holds
  <2>3. t[o + 1] = s[j + 1]
    <3> HIDE DEF j
    <3> QED BY <1>1, <2>1, Zenon
  <2> HIDE DEF j
  <2>4. j \in Nat /\ x \in Nat /\ y \in 0 .. 3 /\ j = 4 * x + y
    BY <2>1, WordOf, Zenon
  <2> HIDE DEF x, y
  <2>5. 4 \in Nat /\ 4 > 0 /\ k + x \in Nat /\ y \in 0 .. 4 - 1 /\ o = 4 * (k + x) + y
    BY <2>1, <2>4
  <2>6. o \div 4 = k + x /\ o % 4 = y
    BY <1>2, <2>5, QuotientIs
  <2>7. base + (o \div 4) + 1 = (base + k) + x + 1
    BY <2>4, <2>6
  <2>8. ReadByte(words, base, o) = words[base + (o \div 4) + 1][(o % 4) + 1]
        /\ ReadByte(words, base + k, j) = words[(base + k) + x + 1][y + 1]
    BY Zenon DEF ReadByte, x, y
  <2> QED BY <2>2, <2>3, <2>6, <2>7, <2>8, Zenon
<1> QED BY <1>1, <1>2, <1>3, <1>4

-----------------------------------------------------------------------------
(* A reply in the slot of its packet.                                      *)

\* Of bytes, what is known of joining.
LEMMA FieldStored ==
    ASSUME NEW a \in Seq(Byte8), NEW c \in Seq(Byte8), NEW v \in Half
    PROVE  Stored((a \o Put16(0)) \o c, Len(a), v) = (a \o Put16(v)) \o c
<1> DEFINE b == Put16(0)
           d == Put16(v)
           x == (a \o b) \o c
           y == (a \o d) \o c
           n == Len(a)
           m == Len(c)
           st == Stored(x, n, v)
<1>1. n \in Nat /\ m \in Nat
  OBVIOUS
<1>2. b \in Seq(Byte8) /\ Len(b) = 2
  BY SmallBytes, Put16Words, ZenonT(60)
<1>3. d \in Seq(Byte8) /\ Len(d) = 2 /\ d[1] = High(v) /\ d[2] = Low(v)
  BY Put16Words, ZenonT(60) DEF High, Low
<1> HIDE DEF b, d
<1>4. /\ x \in Seq(Byte8) /\ Len(x) = n + 2 + m
      /\ \A i \in 1 .. n : x[i] = a[i]
      /\ \A i \in 1 .. m : x[n + 2 + i] = c[i]
  <2>1. /\ (a \o b) \o c \in Seq(Byte8) /\ Len((a \o b) \o c) = Len(a) + Len(b) + Len(c)
        /\ \A i \in 1 .. Len(a) : ((a \o b) \o c)[i] = a[i]
        /\ \A i \in 1 .. Len(c) : ((a \o b) \o c)[Len(a) + Len(b) + i] = c[i]
    <3>1. b \in Seq(Byte8)
      BY <1>2, Zenon
    <3> QED BY <3>1, ThreeBytes, ZenonT(60)
  <2> QED BY <1>2, <2>1, Zenon
<1>5. /\ y \in Seq(Byte8) /\ Len(y) = n + 2 + m
      /\ \A i \in 1 .. n : y[i] = a[i]
      /\ \A i \in 1 .. 2 : y[n + i] = d[i]
      /\ \A i \in 1 .. m : y[n + 2 + i] = c[i]
  <2>1. /\ (a \o d) \o c \in Seq(Byte8) /\ Len((a \o d) \o c) = Len(a) + Len(d) + Len(c)
        /\ \A i \in 1 .. Len(a) : ((a \o d) \o c)[i] = a[i]
        /\ \A i \in 1 .. Len(d) : ((a \o d) \o c)[Len(a) + i] = d[i]
        /\ \A i \in 1 .. Len(c) : ((a \o d) \o c)[Len(a) + Len(d) + i] = c[i]
    <3>1. d \in Seq(Byte8)
      BY <1>3, Zenon
    <3> QED BY <3>1, ThreeBytes, Zenon
  <2> QED BY <1>3, <2>1, Zenon
<1> HIDE DEF x, y, n, m
<1>6. n + 2 <= Len(x)
  BY <1>1, <1>4
<1>7. /\ st \in Seq(Byte8) /\ Len(st) = Len(x)
      /\ \A i \in 1 .. Len(x) : st[i] = IF i = n + 1 THEN High(v) ELSE IF i = n + 2 THEN Low(v) ELSE x[i]
  BY <1>1, <1>4, <1>6, StoredIs, Zenon
<1> HIDE DEF st
<1>8. ASSUME NEW i \in 1 .. Len(st) PROVE st[i] = y[i]
  <2>1. i \in 1 .. Len(x) /\ i \in Nat
    BY <1>1, <1>4, <1>7
  <2>2. st[i] = IF i = n + 1 THEN High(v) ELSE IF i = n + 2 THEN Low(v) ELSE x[i]
    BY <1>7, <2>1, Zenon
  <2>3. CASE i \in 1 .. n
    <3>1. i # n + 1 /\ i # n + 2
      BY <1>1, <2>1, <2>3
    <3> QED BY <1>4, <1>5, <2>2, <2>3, <3>1, Zenon
  <2>4. CASE i = n + 1
    <3>1. 1 \in 1 .. 2
      OBVIOUS
    <3> QED BY <1>3, <1>5, <2>2, <2>4, <3>1, Zenon
  <2>5. CASE i = n + 2
    <3>1. 2 \in 1 .. 2 /\ n + 2 # n + 1
      BY <1>1
    <3> QED BY <1>3, <1>5, <2>2, <2>5, <3>1, Zenon
  <2>6. CASE i > n + 2
    <3> DEFINE j == i - (n + 2)
    <3>1. j \in 1 .. m /\ n + 2 + j = i /\ i # n + 1 /\ i # n + 2
      BY <1>1, <1>4, <2>1, <2>6
    <3> HIDE DEF j
    <3> QED BY <1>4, <1>5, <2>2, <3>1, Zenon
  <2> QED BY <1>1, <2>1, <2>3, <2>4, <2>5, <2>6
<1>9. Len(st) = Len(y)
  BY <1>4, <1>5, <1>7, Zenon
<1>10. st = y
  BY <1>5, <1>7, <1>8, <1>9, SameBytes
<1> QED BY <1>10, Zenon DEF st, x, y, n, b, d

\* The headers as emit_packet writes them first, and then the checksums.
HeadersOf(spec, len, s, t) == IpHeader(len, spec.key, s) \o TcpHeader(spec, t)

LEMMA HeadStored ==
    ASSUME NEW spec, LegalSpec(spec), NEW len \in Half, NEW s \in Half, NEW t \in Half
    PROVE  /\ HeadersOf(spec, len, s, t) \in Seq(Byte8) /\ Len(HeadersOf(spec, len, s, t)) = 40
           /\ Stored(HeadersOf(spec, len, 0, 0), 10, s) = HeadersOf(spec, len, s, 0)
           /\ Stored(HeadersOf(spec, len, s, 0), 36, t) = HeadersOf(spec, len, s, t)
<1> DEFINE a == IpFront(len)
           adr == Addresses(spec.key)
           f == TcpFront(spec)
           z == <<0, 0>>
           Ip(v) == IpHeader(len, spec.key, v)
           Tcp(v) == TcpHeader(spec, v)
<1>1. LegalKey(spec.key) /\ 0 \in Half
  <2>1. 0 \in Half
    BY SmallBytes, SMT
  <2> QED BY <2>1, Zenon DEF LegalSpec
<1>2. ASSUME NEW v \in Half
      PROVE  /\ Ip(v) = (a \o Put16(v)) \o adr /\ Ip(v) \in Seq(Byte8) /\ Len(Ip(v)) = 20
             /\ Tcp(v) = (f \o Put16(v)) \o z /\ Tcp(v) \in Seq(Byte8) /\ Len(Tcp(v)) = 20
             /\ Put16(v) \in Seq(Byte8)
  <2>1. /\ IpHeader(len, spec.key, v) = (IpFront(len) \o Put16(v)) \o Addresses(spec.key)
        /\ IpHeader(len, spec.key, v) \in Seq(Byte8) /\ Len(IpHeader(len, spec.key, v)) = 20
    BY <1>1, IpHeaderWords, ZenonT(60)
  <2>2. /\ TcpHeader(spec, v) = (TcpFront(spec) \o Put16(v)) \o <<0, 0>>
        /\ TcpHeader(spec, v) \in Seq(Byte8) /\ Len(TcpHeader(spec, v)) = 20
    BY TcpHeaderWords, Zenon
  <2>3. Put16(v) \in Seq(Byte8)
    BY Put16Words, Zenon
  <2> QED BY <2>1, <2>2, <2>3, Zenon
<1>3. a \in Seq(Byte8) /\ Len(a) = 10
  BY IpFrontWords, Zenon
<1>4. adr \in Seq(Byte8) /\ Len(adr) = 8
  BY <1>1, AddressWords, Zenon
<1>5. f \in Seq(Byte8) /\ Len(f) = 16
  BY TcpFrontWords, Zenon
<1>6. z \in Seq(Byte8)
  BY SmallBytes
<1> HIDE DEF a, adr, f, z, Ip, Tcp
<1>7. ASSUME NEW v \in Half, NEW w \in Half
      PROVE  /\ Ip(v) \o Tcp(w) \in Seq(Byte8) /\ Len(Ip(v) \o Tcp(w)) = 40
             /\ Ip(v) \o Tcp(w) = (a \o Put16(v)) \o (adr \o Tcp(w))
             /\ Ip(v) \o Tcp(w) = ((Ip(v) \o f) \o Put16(w)) \o z
             /\ adr \o Tcp(w) \in Seq(Byte8)
             /\ Ip(v) \o f \in Seq(Byte8) /\ Len(Ip(v) \o f) = 36
  <2>1. /\ Ip(v) \in Seq(Byte8) /\ Len(Ip(v)) = 20 /\ Tcp(w) \in Seq(Byte8) /\ Len(Tcp(w)) = 20
        /\ Put16(v) \in Seq(Byte8) /\ Put16(w) \in Seq(Byte8)
    BY <1>2, Zenon
  <2> DEFINE ip == Ip(v)
             tcp == Tcp(w)
  <2> HIDE DEF ip, tcp
  <2>a. ip \in Seq(Byte8) /\ tcp \in Seq(Byte8) /\ f \in Seq(Byte8) /\ adr \in Seq(Byte8)
    BY <1>4, <1>5, <2>1, Zenon DEF ip, tcp
  <2>b. /\ ip \o tcp \in Seq(Byte8) /\ Len(ip \o tcp) = Len(ip) + Len(tcp)
        /\ adr \o tcp \in Seq(Byte8)
        /\ ip \o f \in Seq(Byte8) /\ Len(ip \o f) = Len(ip) + Len(f)
    BY <2>a, JoinBytes, Zenon
  <2>2. Ip(v) \o Tcp(w) \in Seq(Byte8) /\ Len(Ip(v) \o Tcp(w)) = 20 + 20
    BY <2>1, <2>b, Zenon DEF ip, tcp
  <2>3. adr \o Tcp(w) \in Seq(Byte8) /\ Ip(v) \o f \in Seq(Byte8) /\ Len(Ip(v) \o f) = 20 + 16
    BY <1>5, <2>1, <2>b, Zenon DEF ip, tcp
  <2>4. a \o Put16(v) \in Seq(Byte8)
    BY <1>3, <2>1, JoinBytes, Zenon
  <2>5. ((a \o Put16(v)) \o adr) \o Tcp(w) = (a \o Put16(v)) \o (adr \o Tcp(w))
    BY <1>4, <2>1, <2>4, AssocBytes, ZenonT(60)
  <2>6. Ip(v) \o ((f \o Put16(w)) \o z) = ((Ip(v) \o f) \o Put16(w)) \o z
    <3> DEFINE p == Put16(w)
    <3>1. ip \in Seq(Byte8) /\ f \in Seq(Byte8) /\ p \in Seq(Byte8) /\ z \in Seq(Byte8)
      BY <1>5, <1>6, <2>1, Zenon DEF ip
    <3> HIDE DEF p
    <3>2. ip \o ((f \o p) \o z) = ((ip \o f) \o p) \o z
      <4>1. f \o p \in Seq(Byte8)
        BY <3>1, JoinBytes, Zenon
      <4>2. (ip \o (f \o p)) \o z = ip \o ((f \o p) \o z)
        BY <3>1, <4>1, AssocBytes, ZenonT(60)
      <4>3. (ip \o f) \o p = ip \o (f \o p)
        BY <3>1, AssocBytes, ZenonT(60)
      <4> QED BY <4>2, <4>3, Zenon
    <3> QED BY <3>2, Zenon DEF ip, p
  <2>7. Ip(v) = (a \o Put16(v)) \o adr /\ Tcp(w) = (f \o Put16(w)) \o z
    BY <1>2, Zenon
  <2>8. 20 + 20 = 40 /\ 20 + 16 = 36
    OBVIOUS
  <2>9. Ip(v) \o Tcp(w) = ((Ip(v) \o f) \o Put16(w)) \o z
    BY <2>6, <2>7, Zenon
  <2>10. Ip(v) \o Tcp(w) = (a \o Put16(v)) \o (adr \o Tcp(w))
    BY <2>5, <2>7, Zenon
  <2> QED BY <2>2, <2>3, <2>8, <2>9, <2>10, Zenon
<1>8. Stored(Ip(0) \o Tcp(0), 10, s) = Ip(s) \o Tcp(0)
  <2>1. adr \o Tcp(0) \in Seq(Byte8)
    BY <1>1, <1>7, Zenon
  <2>2. Stored((a \o Put16(0)) \o (adr \o Tcp(0)), Len(a), s) = (a \o Put16(s)) \o (adr \o Tcp(0))
    BY <1>3, <2>1, FieldStored, Zenon
  <2>3. Ip(0) \o Tcp(0) = (a \o Put16(0)) \o (adr \o Tcp(0)) /\ Ip(s) \o Tcp(0) = (a \o Put16(s)) \o (adr \o Tcp(0))
    BY <1>1, <1>7, Zenon
  <2> QED BY <1>3, <2>2, <2>3, Zenon
<1>9. Stored(Ip(s) \o Tcp(0), 36, t) = Ip(s) \o Tcp(t)
  <2>1. Ip(s) \o f \in Seq(Byte8) /\ Len(Ip(s) \o f) = 36
    BY <1>1, <1>7, Zenon
  <2>2. Stored(((Ip(s) \o f) \o Put16(0)) \o z, Len(Ip(s) \o f), t) = ((Ip(s) \o f) \o Put16(t)) \o z
    BY <1>6, <2>1, FieldStored, Zenon
  <2>3. Ip(s) \o Tcp(0) = ((Ip(s) \o f) \o Put16(0)) \o z /\ Ip(s) \o Tcp(t) = ((Ip(s) \o f) \o Put16(t)) \o z
    BY <1>1, <1>7, Zenon
  <2> QED BY <2>1, <2>2, <2>3, Zenon
<1>10. Ip(s) \o Tcp(t) \in Seq(Byte8) /\ Len(Ip(s) \o Tcp(t)) = 40
  BY <1>7, Zenon
<1> QED BY <1>8, <1>9, <1>10, Zenon DEF HeadersOf, Ip, Tcp

\* The words of one of some byte strings that are packed together.
LEMMA PackedPart ==
    ASSUME NEW strings \in Packets, NEW i \in DOMAIN strings
    PROVE  SubSeq(Packed(strings), Offsets(strings)[i] + 1, Offsets(strings)[i] + WordsFor(Len(strings[i])))
             = PackBytes(strings[i])
<1> DEFINE packs == [j \in DOMAIN strings |-> PackBytes(strings[j])]
           flat == Packed(strings)
           part == PackBytes(strings[i])
           n == WordsFor(Len(strings[i]))
           off == Offsets(strings)[i]
           sub == SubSeq(flat, off + 1, off + n)
<1>1. /\ Len(strings) \in Nat /\ DOMAIN strings = 1 .. Len(strings)
      /\ \A j \in 1 .. Len(strings) : strings[j] \in Seq(Byte8)
  BY DEF Packets
<1>2. \A j \in 1 .. Len(strings) : PackBytes(strings[j]) \in Seq(Word)
  BY <1>1, PackTypes
<1>3. packs \in Seq(Seq(Word)) /\ Len(packs) = Len(strings) /\ packs # <<>>
  <2>1. packs \in [1 .. Len(strings) -> Seq(Word)]
    BY <1>1, <1>2
  <2>2. Len(strings) > 0
    BY <1>1
  <2> HIDE DEF packs
  <2> QED BY <1>1, <2>1, <2>2
<1>4. packs[i] = part
  OBVIOUS
<1>5. PICK b : Begins(b, packs) /\ \A j \in DOMAIN strings : Offsets(strings)[j] = b[j] /\ b[j] \in Nat
  BY OffsetsBegin
<1>6. flat = FlattenSeq(packs)
  BY DEF Packed
<1>7. n \in Nat /\ part \in Seq(Word) /\ Len(part) = n
  BY <1>1, PackTypes
<1> HIDE DEF packs, part, n, flat
<1>8. flat \in Seq(Word) /\ LaidOut(flat, Len(packs), b, packs)
  BY <1>3, <1>5, <1>6, FlattenLaysOut
<1>9. off = b[i] /\ off \in Nat
  BY <1>5
<1>10. i \in 1 .. Len(packs)
  BY <1>1, <1>3
<1> HIDE DEF off
<1>11. \A w \in 1 .. n : off + w \in 1 .. Len(flat) /\ flat[off + w] = part[w]
  BY <1>4, <1>7, <1>8, <1>9, <1>10, Zenon DEF LaidOut
<1>12. CASE n = 0
  <2>1. sub = <<>>
    BY <1>8, <1>9, <1>12
  <2>2. part = <<>>
    BY <1>7, <1>12
  <2> QED BY <2>1, <2>2, Zenon DEF flat, off, part, n
<1>13. CASE n # 0
  <2>1. n \in 1 .. n /\ off + n <= Len(flat) /\ off + 1 \in Nat \ {0} /\ off + n \in Nat
        /\ off + 1 <= off + n /\ ((off + n) - (off + 1)) + 1 = n /\ (off + 1) - 1 = off
    <3>1. n \in 1 .. n
      BY <1>7, <1>13
    <3>2. off + n \in 1 .. Len(flat)
      BY <1>11, <3>1, Zenon
    <3>3. Len(flat) \in Nat
      BY <1>8
    <3> HIDE DEF sub
    <3>4. n \in Nat /\ off \in Nat /\ n > 0 /\ off + n <= Len(flat)
      BY <1>7, <1>9, <1>13, <3>2, <3>3, SMT
    <3> QED BY <3>1, <3>4, SMT
  <2>2. /\ sub \in Seq(Word)
        /\ Len(sub) = IF off + 1 <= off + n THEN ((off + n) - (off + 1)) + 1 ELSE 0
        /\ \A w \in 1 .. ((off + n) - (off + 1)) + 1 : sub[w] = flat[((off + 1) - 1) + w]
    <3> DEFINE j == off + 1
               k == off + n
    <3>1. j \in Nat \ {0} /\ k \in Nat /\ k <= Len(flat)
      BY <2>1
    <3> HIDE DEF j, k
    <3>2. /\ SubSeq(flat, j, k) \in Seq(Word)
          /\ Len(SubSeq(flat, j, k)) = IF j <= k THEN k - j + 1 ELSE 0
          /\ \A w \in 1 .. (k - j) + 1 : SubSeq(flat, j, k)[w] = flat[(j - 1) + w]
      BY <1>8, <3>1, SubSeqFacts
    <3> QED BY <3>2 DEF j, k
  <2>3. Len(sub) = n
    BY <2>1, <2>2, Zenon
  <2>4. \A w \in 1 .. Len(sub) : sub[w] = part[w]
    <3> HIDE DEF sub
    <3> QED BY <1>11, <2>1, <2>2, <2>3, Zenon
  <2> HIDE DEF sub
  <2>5. sub = part
    BY <1>7, <2>2, <2>3, <2>4, SameBytes
  <2> QED BY <2>5, Zenon DEF sub, flat, off, part, n
<1> QED BY <1>12, <1>13

LEMMA SlotWritten ==
    ASSUME NEW w0 \in Seq(Word), NEW base \in Nat, NEW h \in Seq(Byte8), Len(h) = 40, NEW p \in Seq(Byte8),
           base + 10 + WordsFor(Len(p)) <= Len(w0), NEW s \in Half, NEW t \in Half,
           NEW w1, w1 = WriteWords(w0, base, PackBytes(h)),
           NEW w2, w2 = WriteWords(w1, base + 10, PackBytes(p)) \/ (p = <<>> /\ w2 = w1),
           NEW w3, w3 = WriteU16(w2, base, 10, s),
           NEW w4, w4 = WriteU16(w3, base, 36, t)
    PROVE  /\ w4 \in Seq(Word) /\ Len(w4) = Len(w0)
           /\ Holds(w4, base, Stored(Stored(h, 10, s), 36, t) \o p)
           /\ \A w \in 1 .. Len(w0) :
                 (w <= base \/ w > base + (10 + WordsFor(Len(p)))) => w4[w] = w0[w]
<1> DEFINE m == WordsFor(Len(p))
           n == Len(w0)
           after == base + 10
           hs == Stored(h, 10, s)
           ht == Stored(hs, 36, t)
<1>1. m \in Nat /\ n \in Nat /\ after \in Nat /\ after + m <= n
  <2>1. m \in Nat
    BY PackTypes, Zenon
  <2>2. base + 10 + m <= n /\ n \in Nat
    OBVIOUS
  <2> HIDE DEF m, n
  <2> QED BY <2>1, <2>2
<1>2. WordsFor(40) = 10
  BY SMT DEF WordsFor
<1>3. WordsFor(Len(h)) = 10 /\ base + WordsFor(Len(h)) <= n
  <2>1. WordsFor(Len(h)) = 10
    BY <1>2
  <2> HIDE DEF n, m
  <2> QED BY <1>1, <2>1
<1>4. /\ w1 \in Seq(Word) /\ Len(w1) = n /\ Holds(w1, base, h)
      /\ \A w \in 1 .. n : (w <= base \/ w > base + 10) => w1[w] = w0[w]
  <2>1. /\ w1 \in Seq(Word) /\ Len(w1) = Len(w0) /\ Holds(w1, base, h)
        /\ \A w \in 1 .. Len(w0) : (w <= base \/ w > base + WordsFor(Len(h))) => w1[w] = w0[w]
    <3>1. IsWritten(w0, base, h, w1)
      BY <1>3, PackedWritten, Zenon DEF n
    <3> QED BY <3>1, Zenon DEF IsWritten
  <2> QED BY <1>3, <2>1, Zenon
<1> HIDE DEF m, n, after, hs, ht
<1>5. /\ w2 \in Seq(Word) /\ Len(w2) = n /\ Holds(w2, base, h) /\ Holds(w2, after, p)
      /\ \A w \in 1 .. n : (w <= base \/ w > after + m) => w2[w] = w0[w]
  <2>1. CASE w2 = WriteWords(w1, base + 10, PackBytes(p))
    <3>1. after + WordsFor(Len(p)) <= Len(w1) /\ w2 = WriteWords(w1, after, PackBytes(p))
      BY <1>1, <1>4, <2>1, Zenon DEF m, after
    <3>2. /\ w2 \in Seq(Word) /\ Len(w2) = Len(w1) /\ Holds(w2, after, p)
          /\ \A w \in 1 .. Len(w1) : (w <= after \/ w > after + WordsFor(Len(p))) => w2[w] = w1[w]
      <4>1. IsWritten(w1, after, p, w2)
        BY <1>1, <1>4, <3>1, PackedWritten, Zenon
      <4> QED BY <4>1, Zenon DEF IsWritten
    <3>3. \A w \in 1 .. n : (w <= after \/ w > after + m) => w2[w] = w1[w]
      BY <1>4, <3>2, Zenon DEF m
    <3>4. \A w \in base + 1 .. base + 10 : w2[w] = w1[w]
      <4>1. \A w \in base + 1 .. base + 10 : w \in 1 .. n /\ w <= after
        BY <1>1 DEF after
      <4> QED BY <3>3, <4>1, Zenon
    <3>5. Holds(w2, base, h)
      <4>1. \A w \in base + 1 .. base + WordsFor(Len(h)) : w2[w] = w1[w]
        BY <1>3, <3>4, Zenon
      <4> QED BY <1>4, <4>1, HoldsKept, Zenon
    <3>6. \A w \in 1 .. n : (w <= base \/ w > after + m) => w2[w] = w0[w]
      <4>1. \A w \in 1 .. n : (w <= base \/ w > after + m)
              => (w <= after \/ w > after + m) /\ (w <= base \/ w > base + 10)
        BY <1>1 DEF after
      <4> QED BY <1>4, <3>3, <4>1, Zenon
    <3> QED BY <1>4, <3>2, <3>5, <3>6, Zenon
  <2>2. CASE p = <<>> /\ w2 = w1
    <3>1. Len(p) = 0
      BY <2>2
    <3>2. Holds(w2, after, p)
      <4>1. 0 .. Len(p) - 1 = {}
        BY <3>1
      <4> QED BY <4>1, Zenon DEF Holds
    <3>3. \A w \in 1 .. n : w > after + m => w > base + 10
      BY <1>1 DEF after
    <3> QED BY <1>4, <2>2, <3>2, <3>3, Zenon
  <2> QED BY <2>1, <2>2
<1>6. /\ w3 \in Seq(Word) /\ Len(w3) = n /\ Holds(w3, base, hs) /\ Holds(w3, after, p)
      /\ hs \in Seq(Byte8) /\ Len(hs) = 40
      /\ \A w \in 1 .. n : (w <= base \/ w > base + 10) => w3[w] = w2[w]
  <2>1. 10 \in Nat /\ 10 \in {10, 36} /\ 10 + 2 <= Len(h)
    BY SMT
  <2>2. base + WordsFor(Len(h)) <= Len(w2)
    BY <1>3, <1>5, Zenon
  <2>4. hs \in Seq(Byte8) /\ Len(hs) = Len(h)
    BY <2>1, StoredType DEF hs
  <2>8. IsWritten(w2, base, hs, w3)
    BY <1>5, <2>1, <2>2, HalfWritten, ZenonT(60) DEF hs
  <2>3. /\ w3 \in Seq(Word) /\ Len(w3) = Len(w2) /\ Holds(w3, base, hs)
        /\ \A w \in 1 .. Len(w2) : (w <= base \/ w > base + WordsFor(Len(h))) => w3[w] = w2[w]
    BY <2>4, <2>8, Zenon DEF IsWritten
  <2>5. \A w \in 1 .. n : (w <= base \/ w > base + 10) => w3[w] = w2[w]
    BY <1>3, <1>5, <2>3, Zenon
  <2>6. \A w \in after + 1 .. after + WordsFor(Len(p)) : w3[w] = w2[w]
    <3>1. \A w \in after + 1 .. after + m : w \in 1 .. n /\ w > base + 10
      BY <1>1 DEF after
    <3> QED BY <2>5, <3>1, Zenon DEF m
  <2>7. Holds(w3, after, p)
    BY <1>1, <1>5, <2>6, HoldsKept, Zenon
  <2> QED BY <1>5, <2>3, <2>4, <2>5, <2>7, Zenon DEF hs
<1>7. /\ w4 \in Seq(Word) /\ Len(w4) = n /\ Holds(w4, base, ht) /\ Holds(w4, after, p)
      /\ ht \in Seq(Byte8) /\ Len(ht) = 40
      /\ \A w \in 1 .. n : (w <= base \/ w > base + 10) => w4[w] = w3[w]
  <2>1. 36 \in Nat /\ 36 \in {10, 36} /\ 36 + 2 <= Len(hs)
    BY <1>6, SMT
  <2>0. WordsFor(Len(hs)) = 10
    BY <1>2, <1>6, Zenon
  <2>2. base + WordsFor(Len(hs)) <= Len(w3)
    BY <1>3, <1>6, <2>0, Zenon
  <2>4. ht \in Seq(Byte8) /\ Len(ht) = Len(hs)
    <3>1. hs \in Seq(Byte8)
      BY <1>6, Zenon
    <3> QED BY <2>1, <3>1, StoredType DEF ht
  <2>8. IsWritten(w3, base, ht, w4)
    BY <1>6, <2>1, <2>2, HalfWritten, ZenonT(60) DEF ht
  <2>3. /\ w4 \in Seq(Word) /\ Len(w4) = Len(w3) /\ Holds(w4, base, ht)
        /\ \A w \in 1 .. Len(w3) : (w <= base \/ w > base + WordsFor(Len(hs))) => w4[w] = w3[w]
    BY <2>4, <2>8, Zenon DEF IsWritten
  <2>5. \A w \in 1 .. n : (w <= base \/ w > base + 10) => w4[w] = w3[w]
    BY <1>6, <2>0, <2>3, Zenon
  <2>6. \A w \in after + 1 .. after + WordsFor(Len(p)) : w4[w] = w3[w]
    <3>1. \A w \in after + 1 .. after + m : w \in 1 .. n /\ w > base + 10
      BY <1>1 DEF after
    <3> QED BY <2>5, <3>1, Zenon DEF m
  <2>7. Holds(w4, after, p)
    BY <1>1, <1>6, <2>6, HoldsKept, Zenon
  <2> QED BY <1>6, <2>3, <2>4, <2>5, <2>7, Zenon DEF ht
<1>8. Holds(w4, base, ht \o p)
  <2>1. 10 \in Nat /\ Len(ht) = 4 * 10 /\ Holds(w4, base + 10, p)
    <3>1. 4 * 10 = 40
      OBVIOUS
    <3> QED BY <1>7, <3>1, SMT DEF after
  <2> QED BY <1>7, <2>1, HoldsJoined, Zenon
<1>9. \A w \in 1 .. n : (w <= base \/ w > base + (10 + m)) => w4[w] = w0[w]
  <2>1. \A w \in 1 .. n : (w <= base \/ w > base + (10 + m))
          => (w <= base \/ w > base + 10) /\ (w <= base \/ w > after + m)
    BY <1>1 DEF after
  <2> QED BY <1>5, <1>6, <1>7, <2>1, Zenon
<1> QED BY <1>7, <1>8, <1>9, Zenon DEF m, n, ht, hs

\* The response in a reply, and the room for it in a slot.
PayloadOf(response) == IF response < Len(Responses) THEN Responses[response + 1] ELSE <<>>

LEMMA ResponseFacts ==
    /\ Responses \in Packets /\ DOMAIN Responses = 1 .. Len(Responses) /\ Len(Responses) \in Nat
    /\ Len(Responses) = 5
    /\ \A i \in DOMAIN Responses : Fits(Responses[i])
<1>1. /\ Responses \in Seq(Seq(0 .. 255)) /\ Len(Responses) = 5
      /\ \A i \in DOMAIN Responses : 40 + Len(Responses[i]) <= 1536
  BY WireAssumption, Zenon
<1>2. Responses \in Packets
  <2>1. Responses \in Seq(Seq(0 .. 255))
    BY <1>1, Zenon
  <2> QED BY <2>1 DEF Packets, Byte8
<1>3. DOMAIN Responses = 1 .. Len(Responses) /\ Len(Responses) \in Nat
      /\ \A i \in DOMAIN Responses : Responses[i] \in Seq(0 .. 255)
  <2>1. Responses \in Seq(Seq(0 .. 255))
    BY <1>1, Zenon
  <2> DEFINE B == Seq(0 .. 255)
  <2>2. Responses \in Seq(B)
    BY <2>1, Zenon
  <2> HIDE DEF B
  <2>3. /\ DOMAIN Responses = 1 .. Len(Responses) /\ Len(Responses) \in Nat
        /\ \A i \in DOMAIN Responses : Responses[i] \in B
    BY <2>2
  <2> QED BY <2>3, Zenon DEF B
<1>4. \A i \in DOMAIN Responses : Fits(Responses[i])
  <2> SUFFICES ASSUME NEW i \in DOMAIN Responses PROVE Fits(Responses[i])
    OBVIOUS
  <2>1. Responses[i] \in Seq(0 .. 255) /\ 40 + Len(Responses[i]) <= 1536
    BY <1>1, <1>3, SMTT(60)
  <2> QED BY <2>1 DEF Fits, Byte8, MaxPacket
<1> QED BY <1>1, <1>2, <1>3, <1>4, Zenon

LEMMA PayloadFits ==
    ASSUME NEW response \in Nat
    PROVE  /\ Fits(PayloadOf(response))
           /\ response < Len(Responses) => response + 1 \in DOMAIN Responses
<1>1. CASE response < Len(Responses)
  <2>1. response + 1 \in DOMAIN Responses
    BY <1>1, ResponseFacts
  <2> QED BY <1>1, <2>1, ResponseFacts, Zenon DEF PayloadOf
<1>2. CASE ~(response < Len(Responses))
  <2>1. PayloadOf(response) = <<>>
    BY <1>2, Zenon DEF PayloadOf
  <2>2. <<>> \in Seq(Byte8) /\ 40 + Len(<<>>) <= MaxPacket
    BY SMT DEF MaxPacket
  <2> QED BY <1>2, <2>1, <2>2, Zenon DEF Fits
<1> QED BY <1>1, <1>2

LEMMA LargestOf ==
    ASSUME NEW S, NEW B \in Nat, S \subseteq 0 .. B, S # {}
    PROVE  Max(S) \in S /\ \A x \in S : x <= Max(S)
<1> DEFINE T == {n \in Nat : \E x \in S : n = B - x}
<1>1. T \subseteq Nat /\ T # {}
  <2>1. PICK x \in S : TRUE
    OBVIOUS
  <2>2. B - x \in Nat
    OBVIOUS
  <2> QED BY <2>2
<1>2. PICK n \in T : \A m \in T : n <= m
  <2> HIDE DEF T
  <2> QED BY <1>1, Least, Zenon
<1>3. PICK x \in S : n = B - x
  BY <1>2
<1>4. \A y \in S : x >= y
  <2> SUFFICES ASSUME NEW y \in S PROVE x >= y
    OBVIOUS
  <2>1. B - y \in T
    OBVIOUS
  <2>2. n <= B - y
    BY <1>2, <2>1
  <2>3. x \in 0 .. B /\ y \in 0 .. B
    OBVIOUS
  <2> QED BY <1>3, <2>2, <2>3
<1>5. Max(S) \in S /\ \A y \in S : Max(S) >= y
  BY <1>4, Zenon DEF Max
<1>6. \A y \in S : Max(S) >= y => y <= Max(S)
  BY <1>5
<1> QED BY <1>5, <1>6

LEMMA StrideFits ==
    ASSUME NEW response \in Nat
    PROVE  Stride \in Nat /\ 10 + WordsFor(Len(PayloadOf(response))) <= Stride
<1> DEFINE S == {Len(Responses[i]) : i \in DOMAIN Responses}
           n == Len(PayloadOf(response))
           M == Max(S)
<1>1. S \subseteq 0 .. MaxPacket
  <2> SUFFICES ASSUME NEW i \in DOMAIN Responses PROVE Len(Responses[i]) \in 0 .. MaxPacket
    OBVIOUS
  <2> DEFINE l == Len(Responses[i])
  <2>1. l \in Nat /\ 40 + l \in 40 .. MaxPacket
    BY ResponseFacts, FitsLen, Zenon
  <2> HIDE DEF l
  <2>2. l \in 0 .. MaxPacket
    BY <2>1, MaxPacketFacts
  <2> QED BY <2>2, Zenon DEF l
<1>2. S # {}
  <2>1. 1 \in DOMAIN Responses
    BY ResponseFacts
  <2> QED BY <2>1
<1>3. n = 0 \/ n \in S
  <2>1. CASE response < Len(Responses)
    <3>1. response + 1 \in DOMAIN Responses /\ PayloadOf(response) = Responses[response + 1]
      BY <2>1, PayloadFits, Zenon DEF PayloadOf
    <3> QED BY <3>1, Zenon
  <2>2. CASE ~(response < Len(Responses))
    <3>1. PayloadOf(response) = <<>>
      BY <2>2, Zenon DEF PayloadOf
    <3> QED BY <3>1
  <2> QED BY <2>1, <2>2
<1>4. Stride = WordsFor(40 + M)
  BY Zenon DEF Stride
<1> HIDE DEF S, n
<1>5. M \in S /\ \A x \in S : x <= M
  BY <1>1, <1>2, MaxPacketFacts, LargestOf, Zenon
<1> HIDE DEF M
<1>6. M \in Nat
  BY <1>1, <1>5, MaxPacketFacts
<1>7. n \in Nat /\ n <= M
  <2>1. CASE n = 0
    BY <1>6, <2>1
  <2>2. CASE n \in S
    <3>1. n <= M
      BY <1>5, <2>2, Zenon
    <3>2. n \in Nat
      BY <1>1, <2>2, MaxPacketFacts
    <3> QED BY <3>1, <3>2, Zenon
  <2> QED BY <1>3, <2>1, <2>2
<1>8. 40 + M = 4 * 10 + M /\ 10 \in Nat
  OBVIOUS
<1>9. WordsFor(4 * 10 + M) = 10 + WordsFor(M) /\ WordsFor(M) \in Nat /\ WordsFor(n) \in Nat
  BY <1>6, <1>7, <1>8, WordsForSum, Zenon
<1>10. WordsFor(n) <= WordsFor(M)
  BY <1>6, <1>7, WordsForGrows, Zenon
<1>11. Stride = 10 + WordsFor(M)
  BY <1>4, <1>8, <1>9, Zenon
<1>12. Stride \in Nat /\ 10 + WordsFor(n) <= Stride
  BY <1>9, <1>10, <1>11
<1> QED BY <1>12, Zenon DEF n

\* What the shader adds up is what the CPU adds up.
LEMMA ShaderSums ==
    ASSUME NEW reply, LegalSpec(reply), reply.response \in Nat,
           NEW payload, payload = PayloadOf(reply.response), NEW len, len = 40 + Len(payload)
    PROVE  /\ ShaderIpChecksum(len, reply.key) = FoldChecksum(IpSum(len, reply.key))
           /\ ShaderTcpChecksum(reply, len) = FoldChecksum(TcpSum(reply, payload))
           /\ FoldChecksum(IpSum(len, reply.key)) \in Half
           /\ FoldChecksum(TcpSum(reply, payload)) \in Half
<1> DEFINE id == reply.response
           a == Sum32(reply.key.src)
           b == Sum32(reply.key.dst)
           c == Sum32(reply.seq)
           d == Sum32(reply.ack)
           e == reply.key.sport
           f == reply.key.dport
           g == reply.flags
           n == Len(payload)
           p == Sum16(payload)
           extra == IF id < Len(Responses) THEN ResponseTable.sums[id + 1] ELSE 0
           is == IpSum(len, reply.key)
           ts == TcpSum(reply, payload)
<1>1. Fits(payload) /\ (id < Len(Responses) => id + 1 \in DOMAIN Responses)
  BY PayloadFits, Zenon
<1>2. payload \in Seq(Byte8) /\ n \in Nat
  BY <1>1, FitsLen, Zenon
<1>3. extra = p
  <2>1. CASE id < Len(Responses)
    <3>1. payload = Responses[id + 1] /\ id + 1 \in DOMAIN Responses
      BY <1>1, <2>1, Zenon DEF PayloadOf
    <3>2. ResponseTable.sums = [i \in DOMAIN Responses |-> Sum16(Responses[i])]
      BY Zenon DEF ResponseTable
    <3>3. ResponseTable.sums[id + 1] = Sum16(Responses[id + 1])
      BY <3>1, <3>2, Zenon
    <3> QED BY <2>1, <3>1, <3>3, Zenon
  <2>2. CASE ~(id < Len(Responses))
    <3>1. payload = <<>>
      BY <2>2, Zenon DEF PayloadOf
    <3>2. p \in Nat /\ p <= n * Ones
      BY <1>2, Sum16Type, Zenon
    <3>3. n = 0
      BY <3>1
    <3> HIDE DEF p, n
    <3>4. p = 0
      BY <3>2, <3>3, OnesFacts
    <3> QED BY <2>2, <3>4, Zenon
  <2> QED BY <2>1, <2>2, Zenon
<1>4. /\ is \in Nat /\ is < Word16 * Word16 /\ ts \in Nat /\ ts < Word16 * Word16
  BY <1>1, SumsFit, Zenon
<1>5. /\ ChecksumFold(is) = FoldChecksum(is) /\ FoldChecksum(is) \in Half
      /\ ChecksumFold(ts) = FoldChecksum(ts) /\ FoldChecksum(ts) \in Half
  <2> HIDE DEF is, ts
  <2> QED BY <1>4, TwoFolds, Zenon DEF Half
<1>6. ShaderIpChecksum(len, reply.key) = ChecksumFold(is)
  <2>1. is = 17664 + len + 16384 + 16390 + a + b
    BY SMT DEF IpSum
  <2>2. ShaderIpChecksum(len, reply.key) = ChecksumFold(17664 + len + 16384 + 16390 + a + b)
    BY SMT DEF ShaderIpChecksum
  <2> HIDE DEF is, a, b
  <2> QED BY <2>1, <2>2, SMT
<1>7. ShaderTcpChecksum(reply, len) = ChecksumFold(ts)
  <2>1. ts = a + b + 6 + (20 + n) + (e + f + c + d + 20480 + g + 65535) + p
    BY SMT DEF TcpSum, TcpFrontSum
  <2> DEFINE u == a + b + 6 + (len - 20) + e + f + c + d + 20480 + g + 65535 + extra
  <2>2. ShaderTcpChecksum(reply, len) = ChecksumFold(u)
    BY SMT DEF ShaderTcpChecksum
  <2>3. /\ a \in 0 .. Ones + Ones /\ b \in 0 .. Ones + Ones /\ c \in 0 .. Ones + Ones
        /\ d \in 0 .. Ones + Ones /\ e \in 0 .. Ones /\ f \in 0 .. Ones /\ g \in 0 .. Ones
    BY FieldSums, Zenon
  <2>4. p \in Nat
    BY <1>2, Sum16Type, Zenon
  <2>5. len = 40 + n
    OBVIOUS
  <2> HIDE DEF ts, a, b, c, d, e, f, g, n, p, extra
  <2>6. a \in Int /\ b \in Int /\ c \in Int /\ d \in Int /\ e \in Int /\ f \in Int /\ g \in Int
    BY <2>3
  <2>7. len - 20 = 20 + n
    BY <1>2, <2>5, SMT
  <2>8. u = a + b + 6 + (20 + n) + e + f + c + d + 20480 + g + 65535 + p
    BY <1>3, <2>7, SMT
  <2>9. u = ts
    <3> HIDE DEF u
    <3> QED BY <1>2, <2>1, <2>4, <2>6, <2>8, SMT
  <2> HIDE DEF u
  <2> QED BY <2>2, <2>9, Zenon DEF ts
<1> QED BY <1>5, <1>6, <1>7, Zenon

\* The reply with the checksums of its sums.
Reply(reply) ==
    LET payload == PayloadOf(reply.response) IN
    Raw(reply, payload, FoldChecksum(IpSum(40 + Len(payload), reply.key)), FoldChecksum(TcpSum(reply, payload)))

LegalReply(reply) == LegalSpec(reply) /\ reply.response \in Nat

LEMMA ReplyBytes ==
    ASSUME NEW reply, LegalReply(reply)
    PROVE  /\ Reply(reply) \in Seq(Byte8) /\ Len(Reply(reply)) = 40 + Len(PayloadOf(reply.response))
<1> DEFINE payload == PayloadOf(reply.response)
           s == FoldChecksum(IpSum(40 + Len(payload), reply.key))
           t == FoldChecksum(TcpSum(reply, payload))
<1>1. LegalSpec(reply) /\ reply.response \in Nat
  BY Zenon DEF LegalReply
<1>2. s \in Half /\ t \in Half /\ Fits(payload)
  BY <1>1, ShaderSums, PayloadFits, Zenon
<1>3. Reply(reply) = Raw(reply, payload, s, t)
  BY Zenon DEF Reply
<1> HIDE DEF payload, s, t
<1>4. IsRaw(Raw(reply, payload, s, t), reply, payload, s, t)
  BY <1>1, <1>2, RawParts, Zenon
<1>5. Reply(reply) \in Seq(Byte8) /\ Len(Reply(reply)) = 40 + Len(payload)
  BY <1>3, <1>4, Zenon DEF IsRaw
<1> QED BY <1>5, Zenon DEF payload

\* What emit_packet does to the output.
IsEmitted(output, index, reply, after) ==
    LET base == (index - 1) * Stride IN
    /\ after.words \in Seq(Word) /\ Len(after.words) = Len(output.words)
    /\ Holds(after.words, base, Reply(reply))
    /\ \A w \in 1 .. Len(output.words) : (w <= base \/ w > base + Stride) => after.words[w] = output.words[w]
    /\ after.lens = [output.lens EXCEPT ![index] = Len(Reply(reply))]

LEMMA Emitted ==
    ASSUME NEW output, output.words \in Seq(Word), NEW N \in Nat, Len(output.words) = N * Stride,
           NEW index \in 1 .. N, NEW reply, LegalReply(reply)
    PROVE  IsEmitted(output, index, reply, EmitPacket(output, index, reply))
<1> DEFINE id == reply.response
           payload == PayloadOf(id)
           m == WordsFor(Len(payload))
           len == 40 + Len(payload)
           base == (index - 1) * Stride
           s == ShaderIpChecksum(len, reply.key)
           t == ShaderTcpChecksum(reply, len)
           h == HeadersOf(reply, len, 0, 0)
           w0 == output.words
           w1 == WriteWords(w0, base, PackBytes(h))
           w2 == IF id < Len(Responses) THEN WriteHttpResponse(w1, base, id) ELSE w1
           w3 == WriteU16(w2, base, 10, s)
           w4 == WriteU16(w3, base, 36, t)
           after == EmitPacket(output, index, reply)
<1>1. LegalSpec(reply) /\ id \in Nat
  BY Zenon DEF LegalReply
<1>2. Fits(payload) /\ (id < Len(Responses) => id + 1 \in DOMAIN Responses)
  BY <1>1, PayloadFits, Zenon
<1>3. payload \in Seq(Byte8) /\ len \in Half
  BY <1>2, FitsLen, Zenon
<1>4. /\ s = FoldChecksum(IpSum(len, reply.key)) /\ t = FoldChecksum(TcpSum(reply, payload))
      /\ s \in Half /\ t \in Half
  BY <1>1, ShaderSums, Zenon
<1>5. len = 40 + (IF id < Len(Responses) THEN ResponseTable.lengths[id + 1] ELSE 0)
  <2>1. CASE id < Len(Responses)
    <3>1. payload = Responses[id + 1] /\ id + 1 \in DOMAIN Responses
      BY <1>2, <2>1, Zenon DEF PayloadOf
    <3>2. ResponseTable.lengths = [i \in DOMAIN Responses |-> Len(Responses[i])]
      BY Zenon DEF ResponseTable
    <3>3. ResponseTable.lengths[id + 1] = Len(payload)
      BY <3>1, <3>2, Zenon
    <3> QED BY <2>1, <3>3, Zenon
  <2>2. CASE ~(id < Len(Responses))
    <3>1. payload = <<>>
      BY <2>2, Zenon DEF PayloadOf
    <3>2. Len(<<>>) = 0
      OBVIOUS
    <3> HIDE DEF payload
    <3>3. len = 40 + 0
      BY <3>1, <3>2
    <3> HIDE DEF len
    <3> QED BY <2>2, <3>3, Zenon
  <2> QED BY <2>1, <2>2, Zenon
<1>6. after = [words |-> w4, lens |-> [output.lens EXCEPT ![index] = len]]
  <2>1. h = IpHeader(len, reply.key, 0) \o TcpHeader(reply, 0)
    BY Zenon DEF HeadersOf
  <2> HIDE DEF payload
  <2> QED BY <1>5, <2>1, Zenon DEF EmitPacket
<1>7. base \in Nat /\ Stride \in Nat /\ 10 + m <= Stride /\ m \in Nat /\ base + Stride <= Len(w0)
  <2>1. Stride \in Nat /\ 10 + m <= Stride
    BY <1>1, StrideFits, Zenon
  <2>2. m \in Nat
    BY <1>3, PackTypes, Zenon
  <2> HIDE DEF m
  <2> DEFINE k == index - 1
             l == N - index
  <2>3. k \in Nat /\ l \in Nat /\ N = k + 1 + l
    OBVIOUS
  <2> HIDE DEF k, l
  <2>4. base = k * Stride
    BY Zenon DEF k
  <2>5. k * Stride \in Nat /\ l * Stride \in Nat
    BY <2>1, <2>3
  <2>6. (k + 1 + l) * Stride = k * Stride + Stride + l * Stride
    BY <2>1, <2>3
  <2>7. Len(w0) = k * Stride + Stride + l * Stride
    BY <2>3, <2>6, Zenon
  <2>8. k * Stride + Stride <= Len(w0)
    BY <2>1, <2>5, <2>7
  <2> QED BY <2>1, <2>2, <2>4, <2>5, <2>8, Zenon
<1>8. w2 = WriteWords(w1, base + 10, PackBytes(payload)) \/ (payload = <<>> /\ w2 = w1)
  <2>1. CASE id < Len(Responses)
    <3>1. payload = Responses[id + 1] /\ id + 1 \in DOMAIN Responses
      BY <1>2, <2>1, Zenon DEF PayloadOf
    <3> DEFINE i == id + 1
    <3>2. /\ ResponseTable.words = Packed(Responses) /\ ResponseTable.offsets = Offsets(Responses)
          /\ ResponseTable.counts = [j \in DOMAIN Responses |-> WordsFor(Len(Responses[j]))]
      BY Zenon DEF ResponseTable
    <3>3. ResponseTable.counts[i] = WordsFor(Len(Responses[i]))
      BY <3>1, <3>2, Zenon
    <3>4. Responses \in Packets /\ i \in DOMAIN Responses
      BY <3>1, ResponseFacts, Zenon
    <3>5. SubSeq(Packed(Responses), Offsets(Responses)[i] + 1, Offsets(Responses)[i] + WordsFor(Len(Responses[i])))
            = PackBytes(Responses[i])
      <4> HIDE DEF i
      <4> QED BY <3>4, PackedPart, Zenon
    <3> HIDE DEF w1, base
    <3>6. WriteHttpResponse(w1, base, id)
            = WriteWords(w1, base + 10,
                 SubSeq(ResponseTable.words, ResponseTable.offsets[i] + 1,
                        ResponseTable.offsets[i] + ResponseTable.counts[i]))
      BY Zenon DEF WriteHttpResponse
    <3>7. WriteHttpResponse(w1, base, id) = WriteWords(w1, base + 10, PackBytes(payload))
      BY <3>1, <3>2, <3>3, <3>5, <3>6, Zenon
    <3> QED BY <2>1, <3>7, Zenon
  <2>2. CASE ~(id < Len(Responses))
    BY <2>2, Zenon DEF PayloadOf
  <2> QED BY <2>1, <2>2, Zenon
<1>9. 0 \in Half
  BY SmallBytes, SMT
<1>10. /\ h \in Seq(Byte8) /\ Len(h) = 40
       /\ Stored(h, 10, s) = HeadersOf(reply, len, s, 0)
       /\ Stored(HeadersOf(reply, len, s, 0), 36, t) = HeadersOf(reply, len, s, t)
  <2> HIDE DEF len, s, t
  <2>1. HeadersOf(reply, len, 0, 0) \in Seq(Byte8) /\ Len(HeadersOf(reply, len, 0, 0)) = 40
    BY <1>1, <1>3, <1>9, HeadStored, Zenon
  <2>2. Stored(HeadersOf(reply, len, 0, 0), 10, s) = HeadersOf(reply, len, s, 0)
    BY <1>1, <1>3, <1>4, HeadStored, Zenon
  <2>3. Stored(HeadersOf(reply, len, s, 0), 36, t) = HeadersOf(reply, len, s, t)
    <3>1. LegalSpec(reply) /\ len \in Half /\ s \in Half /\ t \in Half
      BY <1>1, <1>3, <1>4, Zenon
    <3>2. /\ HeadersOf(reply, len, s, t) \in Seq(Byte8) /\ Len(HeadersOf(reply, len, s, t)) = 40
          /\ Stored(HeadersOf(reply, len, 0, 0), 10, s) = HeadersOf(reply, len, s, 0)
          /\ Stored(HeadersOf(reply, len, s, 0), 36, t) = HeadersOf(reply, len, s, t)
      BY <3>1, HeadStored
    <3> QED BY <3>2, Zenon
  <2> QED BY <2>1, <2>2, <2>3, Zenon DEF h
<1>11. Stored(Stored(h, 10, s), 36, t) \o payload = Reply(reply)
  <2>1. Reply(reply) = (IpHeader(len, reply.key, s) \o TcpHeader(reply, t)) \o payload
    <3> HIDE DEF s, t
    <3> QED BY <1>4, Zenon DEF Reply, Raw
  <2> HIDE DEF s, t, h, len, payload
  <2> QED BY <1>10, <2>1, Zenon DEF HeadersOf
<1> DEFINE p == payload
<1>12. base + 10 + WordsFor(Len(p)) <= Len(w0)
  <2>1. WordsFor(Len(p)) = m
    BY Zenon
  <2>2. Len(w0) \in Nat
    OBVIOUS
  <2> HIDE DEF m, base, w0
  <2> QED BY <1>7, <2>1, <2>2
<1> HIDE DEF s, t, h, w0, w1, w2, w3, w4, base, m, len, after
<1>13. /\ w0 \in Seq(Word) /\ w1 = WriteWords(w0, base, PackBytes(h))
       /\ w3 = WriteU16(w2, base, 10, s) /\ w4 = WriteU16(w3, base, 36, t)
  BY Zenon DEF w0, w1, w3, w4
<1> HIDE DEF payload
<1>14. /\ w4 \in Seq(Word) /\ Len(w4) = Len(w0)
       /\ Holds(w4, base, Stored(Stored(h, 10, s), 36, t) \o payload)
       /\ \A w \in 1 .. Len(w0) :
             (w <= base \/ w > base + (10 + WordsFor(Len(payload)))) => w4[w] = w0[w]
  BY <1>3, <1>4, <1>7, <1>8, <1>10, <1>12, <1>13, SlotWritten
<1>15. \A w \in 1 .. Len(w0) : (w <= base \/ w > base + Stride) => w4[w] = w0[w]
  <2>1. \A w \in 1 .. Len(w0) : w > base + Stride => w > base + (10 + m)
    BY <1>7
  <2> QED BY <1>14, <2>1, Zenon DEF m
<1>16. after.words = w4 /\ after.lens = [output.lens EXCEPT ![index] = len]
  BY <1>6
<1>17. Len(Reply(reply)) = len
  BY ReplyBytes, Zenon DEF len, payload
<1> QED BY <1>11, <1>14, <1>15, <1>16, <1>17, Zenon DEF IsEmitted, base, w0, after

-----------------------------------------------------------------------------
(* What the sink is given.                                                 *)

\* What the sink is given from a slot.
LEMMA WordsCover == ASSUME NEW n \in Nat PROVE n <= 4 * WordsFor(n) /\ WordsFor(n) \in Nat
<1> DEFINE q == (n + 3) \div 4
           r == (n + 3) % 4
<1>1. n + 3 \in Nat
  OBVIOUS
<1>2. q \in Nat /\ r \in 0 .. 4 - 1 /\ n + 3 = 4 * q + r
  BY <1>1, Quotient
<1> HIDE DEF q, r
<1>3. n <= 4 * q
  BY <1>2
<1> QED BY <1>2, <1>3, Zenon DEF WordsFor, q

LEMMA FourIsNat == 4 \in Nat
  OBVIOUS

LEMMA FunctionIsSeq ==
    ASSUME NEW B, NEW n \in Nat, NEW x \in [1 .. n -> B]
    PROVE  x \in Seq(B) /\ Len(x) = n
  OBVIOUS

LEMMA FourTimes ==
    ASSUME NEW k \in Nat, NEW n \in Nat
    PROVE  4 * n * k = 4 * (k * n)
  OBVIOUS

LEMMA FlatWords ==
    ASSUME NEW words \in Seq(Word), words # <<>>
    PROVE  /\ FlattenSeq(words) \in Seq(Byte8) /\ Len(FlattenSeq(words)) = 4 * Len(words)
           /\ \A w \in 1 .. Len(words) : \A k \in 1 .. 4 : FlattenSeq(words)[4 * (w - 1) + k] = words[w][k]
<1> DEFINE n == Len(words)
           b == [k \in 1 .. n + 1 |-> 4 * (k - 1)]
           flat == FlattenSeq(words)
<1>1. n \in Nat /\ words \in [1 .. n -> Word]
  OBVIOUS
<1>2. \A w \in 1 .. n : words[w] \in Seq(Byte8) /\ Len(words[w]) = 4
  <2> SUFFICES ASSUME NEW w \in 1 .. n PROVE words[w] \in Seq(Byte8) /\ Len(words[w]) = 4
    OBVIOUS
  <2>1. words[w] \in [1 .. 4 -> Byte8]
    BY <1>1, Zenon DEF Word
  <2> DEFINE x == words[w]
  <2> HIDE DEF x
  <2>2. x \in [1 .. 4 -> Byte8]
    BY <2>1, Zenon DEF x
  <2>3. x \in Seq(Byte8) /\ Len(x) = 4
    BY <2>2, FunctionIsSeq, FourIsNat, ZenonT(60)
  <2> QED BY <2>3, Zenon DEF x
<1>3. words \in Seq(Seq(Byte8))
  <2>1. words \in [1 .. n -> Seq(Byte8)]
    BY <1>1, <1>2, Zenon
  <2> DEFINE B == Seq(Byte8)
  <2>2. words \in [1 .. n -> B] /\ n \in Nat
    BY <1>1, <2>1, Zenon
  <2> HIDE DEF B, n
  <2>3. words \in Seq(B)
    BY <2>2
  <2> QED BY <2>3, Zenon DEF B
<1>4. Begins(b, words)
  <2>1. b[1] = 0
    BY <1>1
  <2>2. ASSUME NEW i \in 1 .. n PROVE b[i + 1] = b[i] + Len(words[i])
    <3>1. b[i + 1] = 4 * ((i + 1) - 1) /\ b[i] = 4 * (i - 1)
      BY <1>1
    <3>2. 4 * ((i + 1) - 1) = 4 * (i - 1) + 4
      BY <1>1
    <3> HIDE DEF b
    <3> QED BY <1>2, <3>1, <3>2, Zenon
  <2> HIDE DEF b
  <2> QED BY <2>1, <2>2, Zenon DEF Begins
<1>5. \A w \in 1 .. n + 1 : b[w] = 4 * (w - 1)
  BY Zenon
<1> HIDE DEF b
<1>6. flat \in Seq(Byte8) /\ LaidOut(flat, n, b, words)
  BY <1>3, <1>4, FlattenLaysOut
<1> HIDE DEF flat, n
<1>7. Len(flat) = 4 * n
  <2>1. Len(flat) = b[n + 1]
    BY <1>6, Zenon DEF LaidOut
  <2>2. n + 1 \in 1 .. n + 1 /\ (n + 1) - 1 = n
    BY <1>1
  <2> QED BY <1>5, <2>1, <2>2, Zenon
<1>8. ASSUME NEW w \in 1 .. n, NEW k \in 1 .. 4 PROVE flat[4 * (w - 1) + k] = words[w][k]
  <2>1. w \in 1 .. n + 1
    BY <1>1
  <2>2. flat[b[w] + k] = words[w][k]
    BY <1>2, <1>6, Zenon DEF LaidOut
  <2> QED BY <1>5, <2>1, <2>2, Zenon
<1> QED BY <1>6, <1>7, <1>8, Zenon DEF flat, n

LEMMA SlotOutput ==
    ASSUME NEW output, output.words \in Seq(Word), NEW N \in Nat, Len(output.words) = N * Stride,
           Stride \in Nat, Stride > 0, NEW i \in 1 .. N, DOMAIN output.lens = 1 .. N,
           NEW packet \in Seq(Byte8), output.lens[i] = Len(packet), WordsFor(Len(packet)) <= Stride,
           Holds(output.words, (i - 1) * Stride, packet)
    PROVE  WaveOutputs(output)[i] = packet
<1> DEFINE words == output.words
           base == (i - 1) * Stride
           bytes == FlattenSeq(words)
           len == Len(packet)
           at == 4 * Stride * (i - 1)
           sub == SubSeq(bytes, at + 1, at + len)
           m == WordsFor(len)
<1>1. WaveOutputs(output)[i] = sub
  BY Zenon DEF WaveOutputs
<1>2. base \in Nat /\ base + Stride <= Len(words)
  <2> DEFINE k == i - 1
             l == N - i
  <2>1. k \in Nat /\ l \in Nat /\ N = k + 1 + l
    OBVIOUS
  <2> HIDE DEF k, l
  <2>2. base = k * Stride
    BY Zenon DEF k
  <2>3. k * Stride \in Nat /\ l * Stride \in Nat
    BY <2>1
  <2>4. (k + 1 + l) * Stride = k * Stride + Stride + l * Stride
    BY <2>1
  <2>5. Len(words) = k * Stride + Stride + l * Stride
    BY <2>1, <2>4, Zenon
  <2>6. k * Stride + Stride <= Len(words)
    BY <2>3, <2>5
  <2> QED BY <2>2, <2>3, <2>6, Zenon
<1>3. at = 4 * base
  <2> DEFINE k == i - 1
  <2>1. k \in Nat
    OBVIOUS
  <2>2. at = 4 * Stride * k /\ base = k * Stride
    BY Zenon
  <2> HIDE DEF k, at, base
  <2>3. Stride \in Nat
    OBVIOUS
  <2>4. 4 * Stride * k = 4 * (k * Stride)
    BY <2>1, <2>3, FourTimes
  <2> QED BY <2>2, <2>4, Zenon
<1>4. len \in Nat /\ m \in Nat /\ m <= Stride /\ len <= 4 * m
  <2>1. Len(packet) \in Nat
    OBVIOUS
  <2> QED BY <2>1, WordsCover, Zenon
<1> HIDE DEF base, at, len, m
<1>5. words \in Seq(Word) /\ words # <<>>
  <2>1. Len(words) # 0
    BY <1>2
  <2>2. Len(<<>>) = 0
    OBVIOUS
  <2> QED BY <2>1, <2>2, Zenon
<1>6. /\ bytes \in Seq(Byte8) /\ Len(bytes) = 4 * Len(words)
      /\ \A w \in 1 .. Len(words) : \A k \in 1 .. 4 : bytes[4 * (w - 1) + k] = words[w][k]
  BY <1>5, FlatWords, Zenon
<1>7. Len(words) \in Nat
  BY <1>5
<1> HIDE DEF words, bytes
<1>8. at \in Nat /\ at + len <= Len(bytes)
  BY <1>2, <1>3, <1>4, <1>6, <1>7
<1> DEFINE j == at + 1
           k == at + len
<1>9. j \in Nat \ {0} /\ k \in Nat /\ k <= Len(bytes) /\ (k - j) + 1 = len /\ (j <= k <=> len # 0)
      /\ j - 1 = at
  BY <1>4, <1>8
<1>10. sub = SubSeq(bytes, j, k)
  BY Zenon
<1> HIDE DEF sub, j, k
<1>11. /\ sub \in Seq(Byte8)
       /\ Len(sub) = IF j <= k THEN k - j + 1 ELSE 0
       /\ \A x \in 1 .. (k - j) + 1 : sub[x] = bytes[(j - 1) + x]
  <2>1. /\ SubSeq(bytes, j, k) \in Seq(Byte8)
        /\ Len(SubSeq(bytes, j, k)) = IF j <= k THEN k - j + 1 ELSE 0
        /\ \A x \in 1 .. (k - j) + 1 : SubSeq(bytes, j, k)[x] = bytes[(j - 1) + x]
    BY <1>6, <1>9, SubSeqFacts, SMTT(60)
  <2> QED BY <1>10, <2>1, Zenon
<1>12. Len(sub) = Len(packet)
  <2>1. Len(sub) = len
    BY <1>4, <1>9, <1>11
  <2> QED BY <2>1, Zenon DEF len
<1>13. ASSUME NEW x \in 1 .. Len(sub) PROVE sub[x] = packet[x]
  <2> DEFINE o == x - 1
             q == o \div 4
             r == o % 4
  <2>1. o \in 0 .. Len(packet) - 1 /\ o + 1 = x /\ x \in 1 .. len
    BY <1>4, <1>12 DEF len
  <2> HIDE DEF o
  <2>2. o \in Nat /\ q \in Nat /\ r \in 0 .. 3 /\ o = 4 * q + r
    BY <2>1, WordOf, Zenon
  <2>3. q + 1 \in 1 .. m
    BY <2>1, PackTypes DEF m, len
  <2>4. ReadByte(words, base, o) = packet[x]
    BY <2>1, Zenon DEF Holds, words, base
  <2>5. ReadByte(words, base, o) = words[base + q + 1][r + 1]
    BY Zenon DEF ReadByte
  <2> HIDE DEF q, r
  <2>6. base + q + 1 \in 1 .. Len(words) /\ r + 1 \in 1 .. 4 /\ 4 * ((base + q + 1) - 1) + (r + 1) = at + x
    BY <1>2, <1>3, <1>4, <1>7, <2>1, <2>2, <2>3
  <2>7. bytes[4 * ((base + q + 1) - 1) + (r + 1)] = words[base + q + 1][r + 1]
    BY <1>6, <2>6, Zenon
  <2>8. sub[x] = bytes[at + x]
    BY <1>9, <1>11, <2>1, Zenon
  <2> QED BY <2>4, <2>5, <2>6, <2>7, <2>8, Zenon
<1>14. sub = packet
  BY <1>11, <1>12, <1>13, SameBytes
<1> QED BY <1>1, <1>14, Zenon DEF sub, bytes, words, at, len

\* The numbers read are of 16 bits, so a reply to them can be built.
LEMMA U16Half ==
    ASSUME NEW packet \in Seq(Byte8), NEW o \in Nat, o + 2 <= Len(packet)
    PROVE  U16(packet, o) \in Half
<1> DEFINE a == Byte(packet, o)
           b == Byte(packet, o + 1)
<1>1. Len(packet) \in Nat /\ o \in 0 .. Len(packet) - 1 /\ o + 1 \in 0 .. Len(packet) - 1
  BY ByteRange
<1>2. a \in 0 .. 255 /\ b \in 0 .. 255
  BY <1>1, ByteRange
<1>3. U16(packet, o) = (a * 256) + b
  <2>1. (o + 1) + 1 = o + 2
    OBVIOUS
  <2> QED BY <2>1 DEF U16, Byte
<1> HIDE DEF a, b
<1>4. /\ a * 256 \in Nat /\ a * 256 <= 255 * 256 /\ b \in Nat /\ b <= 255
  BY <1>2
<1>5. Ones = (255 * 256) + 255 /\ Ones \in Nat
  BY SMT DEF Ones, Word16
<1> DEFINE c == a * 256
           u == c + b
<1> HIDE DEF c
<1>6. c \in Nat /\ c <= 255 * 256
  BY <1>4, Zenon DEF c
<1>7. u \in Nat /\ u <= Ones
  BY <1>4, <1>5, <1>6
<1>8. U16(packet, o) = u
  BY <1>3, Zenon DEF c
<1> HIDE DEF u
<1>9. u \in 0 .. Ones
  <2> DEFINE w == Ones
  <2>1. u \in Nat /\ u <= w /\ w \in Nat
    BY <1>5, <1>7, Zenon
  <2> HIDE DEF w
  <2>2. u \in 0 .. w
    BY <2>1
  <2> QED BY <2>2, Zenon DEF w
<1> QED BY <1>8, <1>9, Zenon DEF Half

\* What is read of a packet that is served can be answered.
LEMMA ServedView ==
    ASSUME NEW packet \in Seq(Byte8), CpuReads(packet).view.ok
    PROVE  /\ ~Rejects(packet) /\ CpuReads(packet).view = ViewOf(packet)
           /\ CpuReads(packet).response \in 0 .. 5
<1> DEFINE parsed == ParseIpv4Tcp(packet)
           class == IF parsed.payload = <<>> THEN NoResponse ELSE ClassifyHttpRequest(parsed.payload)
<1>1. CpuReads(packet) = IF ~parsed.ok \/ parsed.key.dport # ListenPort THEN NotServed
                         ELSE [view |-> parsed, response |-> class]
  BY DEF CpuReads
<1>2. class \in 0 .. 5
  <2>1. ASSUME NEW payload PROVE ClassifyHttpRequest(payload) \in 0 .. 5
    <3>1. ClassifyHttpRequest(payload) \in {BAD_REQUEST, METHOD_NOT_ALLOWED, PLAINTEXT, HEALTH, NOT_FOUND}
      BY Zenon DEF ClassifyHttpRequest
    <3> QED BY <3>1 DEF BAD_REQUEST, METHOD_NOT_ALLOWED, PLAINTEXT, HEALTH, NOT_FOUND
  <2>2. NoResponse \in 0 .. 5
    BY DEF NoResponse
  <2> QED BY <2>1, <2>2, Zenon
<1> HIDE DEF class
<1>3. ~(~parsed.ok \/ parsed.key.dport # ListenPort)
  <2>1. ~NotServed.view.ok
    BY DEF NotServed, NoView
  <2> HIDE DEF parsed
  <2> QED BY <1>1, <2>1, Zenon
<1>4. CpuReads(packet).view = parsed /\ CpuReads(packet).response = class
  <2> HIDE DEF parsed
  <2> QED BY <1>1, <1>3
<1>5. ~Rejects(packet)
  <2>1. ~NoView.ok
    BY DEF NoView
  <2>2. ASSUME Rejects(packet) PROVE FALSE
    <3>1. parsed = NoView
      BY <2>2, Parses, Zenon
    <3> HIDE DEF parsed
    <3> QED BY <1>3, <2>1, <3>1, Zenon
  <2> QED BY <2>2
<1>6. parsed = ViewOf(packet)
  BY <1>5, Parses, Zenon
<1> HIDE DEF parsed
<1> QED BY <1>2, <1>4, <1>5, <1>6, Zenon

LEMMA ServedFields ==
    ASSUME NEW packet \in Seq(Byte8), ~Rejects(packet), NEW view, view = ViewOf(packet)
    PROVE  LegalKey(view.key) /\ view.seq \in Half \X Half /\ view.ack \in Half \X Half /\ view.flags \in Byte8
<1> DEFINE tcp == IpHeaderLen(packet)
           n == Len(packet)
<1>1. n \in Nat /\ n >= 40 /\ tcp \in 20 .. 60 /\ tcp + 20 <= n
  <2>1. n \in Nat
    OBVIOUS
  <2>2. ~(n < 40) /\ IsTcp4(packet) /\ ~(tcp < 20) /\ ~(tcp + 20 > n)
    BY <2>1 DEF Rejects
  <2>3. tcp \in Nat
    <3>1. 0 \in 0 .. n - 1
      BY <2>1, <2>2
    <3> DEFINE b == Byte(packet, 0)
    <3>2. b \in 0 .. 255
      BY <3>1, ByteRange, Zenon
    <3> HIDE DEF b
    <3>3. (b % 16) * 4 \in Nat
      BY <3>2
    <3>4. tcp = (b % 16) * 4
      BY Zenon DEF IpHeaderLen, b
    <3> QED BY <3>3, <3>4, Zenon
  <2>4. HasHeader(packet)
    <3> DEFINE h == tcp
    <3> HIDE DEF h, n
    <3>1. n >= 40 /\ h >= 20 /\ h + 20 <= n
      BY <2>1, <2>2, <2>3 DEF h
    <3> QED BY <2>2, <3>1, Zenon DEF HasHeader, h, n
  <2> QED BY <2>4, HeaderRange, Zenon
<1>2. ASSUME NEW o \in Nat, o + 4 <= n PROVE U32(packet, o) \in Half \X Half
  <2>1. o + 2 <= n /\ o + 2 \in Nat /\ (o + 2) + 2 <= n
    BY <1>1, <1>2
  <2>2. U16(packet, o) \in Half /\ U16(packet, o + 2) \in Half
    BY <2>1, U16Half, Zenon
  <2> QED BY <2>2, Zenon DEF U32
<1> HIDE DEF tcp, n
<1>3. /\ 12 + 4 <= n /\ 16 + 4 <= n
      /\ tcp + 4 \in Nat /\ (tcp + 4) + 4 <= n /\ tcp + 8 \in Nat /\ (tcp + 8) + 4 <= n
      /\ tcp \in Nat /\ tcp + 2 <= n /\ tcp + 2 \in Nat /\ (tcp + 2) + 2 <= n
      /\ tcp + 13 \in 0 .. n - 1 /\ 12 \in Nat /\ 16 \in Nat
  BY <1>1
<1>4. /\ U32(packet, 12) \in Half \X Half /\ U32(packet, 16) \in Half \X Half
      /\ U32(packet, tcp + 4) \in Half \X Half /\ U32(packet, tcp + 8) \in Half \X Half
  BY <1>2, <1>3, Zenon
<1>5. U16(packet, tcp) \in Half /\ U16(packet, tcp + 2) \in Half
  BY <1>3, U16Half, Zenon DEF n
<1>6. Byte(packet, tcp + 13) \in Byte8
  BY <1>3, ByteRange, Zenon DEF n, Byte8
<1>7. /\ view.key = [src |-> U32(packet, 12), dst |-> U32(packet, 16),
                     sport |-> U16(packet, tcp), dport |-> U16(packet, tcp + 2)]
      /\ view.seq = U32(packet, tcp + 4) /\ view.ack = U32(packet, tcp + 8)
      /\ view.flags = Byte(packet, tcp + 13)
  BY DEF ViewOf, FlowKey, tcp
<1> QED BY <1>4, <1>5, <1>6, <1>7 DEF LegalKey

LEMMA AnswerLegal ==
    ASSUME NEW packet \in Seq(Byte8), NEW read, read = CpuReads(packet), read.view.ok
    PROVE  LegalReply(Replied(read)) /\ Replied(read).response = read.response /\ read.response \in 0 .. 5
<1> DEFINE view == read.view
           reply == Replied(read)
<1>1. ~Rejects(packet) /\ view = ViewOf(packet) /\ read.response \in 0 .. 5
  BY ServedView, Zenon
<1>2. LegalKey(view.key) /\ view.seq \in Half \X Half /\ view.ack \in Half \X Half /\ view.flags \in Byte8
  BY <1>1, ServedFields, Zenon
<1>3. /\ reply.key.src = view.key.dst /\ reply.key.dst = view.key.src
      /\ reply.key.sport = view.key.dport /\ reply.key.dport = view.key.sport
      /\ reply.seq = view.ack /\ reply.ack = view.seq /\ reply.flags = view.flags
      /\ reply.response = read.response
  BY DEF Replied
<1> HIDE DEF view, reply
<1>4. LegalKey(reply.key)
  BY <1>2, <1>3, Zenon DEF LegalKey
<1>5. LegalSpec(reply)
  BY <1>2, <1>3, <1>4, Zenon DEF LegalSpec
<1>6. read.response \in Nat
  BY <1>1
<1> QED BY <1>1, <1>3, <1>5, <1>6, Zenon DEF LegalReply, reply

\* The packet of the CPU for a reply is the same, byte for byte.
LEMMA SameHeaders ==
    ASSUME NEW a, NEW b, a.key = b.key, a.seq = b.seq, a.ack = b.ack, a.flags = b.flags, NEW payload
    PROVE  /\ \A s, t : Raw(a, payload, s, t) = Raw(b, payload, s, t)
           /\ TcpSum(a, payload) = TcpSum(b, payload)
           /\ LegalSpec(a) <=> LegalSpec(b)
<1>1. ASSUME NEW s, NEW t PROVE Raw(a, payload, s, t) = Raw(b, payload, s, t)
  <2>1. TcpHeader(a, t) = TcpHeader(b, t)
    BY ZenonT(60) DEF TcpHeader
  <2> QED BY <2>1, Zenon DEF Raw
<1>2. TcpFrontSum(a) = TcpFrontSum(b)
  BY DEF TcpFrontSum
<1>3. TcpSum(a, payload) = TcpSum(b, payload)
  BY <1>2, Zenon DEF TcpSum
<1>4. LegalSpec(a) <=> LegalSpec(b)
  BY Zenon DEF LegalSpec
<1> QED BY <1>1, <1>3, <1>4, Zenon

\* What RepliesOnTheWire says of a packet that is served.
SentFor(read) ==
    LET reply == Replied(read) IN
    [key |-> reply.key, seq |-> reply.seq, ack |-> reply.ack, flags |-> reply.flags,
     payload |-> IF read.response = NoResponse THEN <<>> ELSE Responses[read.response + 1]]

LEMMA SentAlike ==
    ASSUME NEW read, LegalReply(Replied(read)), Replied(read).response = read.response,
           read.response \in 0 .. 5
    PROVE  /\ BuildIpv4TcpPacket(SentFor(read)) = Reply(Replied(read))
           /\ ChecksumsValid(BuildIpv4TcpPacket(SentFor(read)))
<1> DEFINE reply == Replied(read)
           sent == SentFor(read)
           payload == PayloadOf(reply.response)
<1>1. LegalSpec(reply) /\ reply.response \in Nat
  BY Zenon DEF LegalReply
<1>2. /\ sent.key = reply.key /\ sent.seq = reply.seq /\ sent.ack = reply.ack /\ sent.flags = reply.flags
      /\ sent.payload = IF read.response = NoResponse THEN <<>> ELSE Responses[read.response + 1]
  <2> HIDE DEF reply
  <2> QED BY DEF SentFor, reply
<1>3. sent.payload = payload
  <2> DEFINE id == read.response
  <2>1. NoResponse = Len(Responses) /\ Len(Responses) = 5
    BY ResponseFacts DEF NoResponse
  <2>2. reply.response = id /\ id \in 0 .. 5
    OBVIOUS
  <2> HIDE DEF id, reply
  <2>3. id = NoResponse <=> ~(id < Len(Responses))
    BY <2>1, <2>2
  <2> HIDE DEF sent
  <2> QED BY <1>2, <2>2, <2>3, Zenon DEF PayloadOf, id
<1>4. Fits(payload)
  BY <1>1, PayloadFits, Zenon
<1> HIDE DEF sent, reply, payload
<1>5. LegalSpec(sent) /\ TcpSum(sent, payload) = TcpSum(reply, payload)
      /\ \A s, t : Raw(sent, payload, s, t) = Raw(reply, payload, s, t)
  <2>1. sent.key = reply.key /\ sent.seq = reply.seq /\ sent.ack = reply.ack /\ sent.flags = reply.flags
    BY <1>2, Zenon
  <2>2. /\ \A s, t : Raw(sent, payload, s, t) = Raw(reply, payload, s, t)
        /\ TcpSum(sent, payload) = TcpSum(reply, payload)
        /\ LegalSpec(sent) <=> LegalSpec(reply)
    BY <2>1, SameHeaders
  <2> QED BY <1>1, <2>2, Zenon
<1>6. BuildIpv4TcpPacket(sent)
        = Raw(sent, payload, FoldChecksum(IpSum(40 + Len(payload), sent.key)), FoldChecksum(TcpSum(sent, payload)))
  BY <1>3, <1>4, <1>5, BuiltIs, Zenon
<1>7. Reply(reply)
        = Raw(reply, payload, FoldChecksum(IpSum(40 + Len(payload), reply.key)), FoldChecksum(TcpSum(reply, payload)))
  BY Zenon DEF Reply, payload
<1>8. BuildIpv4TcpPacket(sent) = Reply(reply)
  BY <1>2, <1>5, <1>6, <1>7, Zenon
<1>9. ChecksumsValid(BuildIpv4TcpPacket(sent))
  BY <1>3, <1>4, <1>5, BuiltValid, Zenon
<1> QED BY <1>8, <1>9, Zenon DEF sent, reply

-----------------------------------------------------------------------------
(* The replies of a wave.                                                  *)

\* The slots of the packets of a wave lie apart in the output.
LEMMA SlotsApart ==
    ASSUME NEW S \in Nat, NEW N \in Nat, NEW i \in 1 .. N, NEW j \in 1 .. N, i # j,
           NEW w \in Int, w > (i - 1) * S, w <= (i - 1) * S + S
    PROVE  w \in 1 .. N * S /\ (w <= (j - 1) * S \/ w > (j - 1) * S + S)
<1>1. ASSUME NEW k \in Nat, NEW l \in Nat, k < l PROVE k * S + S <= l * S
  <2> DEFINE d == l - (k + 1)
  <2>1. d \in Nat /\ l = k + 1 + d
    BY <1>1
  <2> HIDE DEF d
  <2>2. (k + 1 + d) * S = k * S + S + d * S
    BY <2>1
  <2>3. d * S \in Nat /\ k * S \in Nat
    BY <2>1
  <2>4. l * S = k * S + S + d * S
    BY <2>1, <2>2, Zenon
  <2> QED BY <2>3, <2>4
<1> DEFINE a == (i - 1) * S
           b == (j - 1) * S
           e == N * S
<1>2. i - 1 \in Nat /\ j - 1 \in Nat /\ i - 1 < N /\ (i - 1 < j - 1 \/ j - 1 < i - 1)
  OBVIOUS
<1>3. a + S <= e /\ (a + S <= b \/ b + S <= a)
  BY <1>1, <1>2
<1>4. a \in Nat /\ b \in Nat /\ e \in Nat
  BY <1>2
<1>5. w > a /\ w <= a + S
  OBVIOUS
<1> HIDE DEF a, b, e
<1>6. w \in 1 .. e /\ (w <= b \/ w > b + S)
  BY <1>3, <1>4, <1>5
<1> QED BY <1>6, Zenon DEF a, b, e

LEMMA StrideFacts == Stride \in Nat /\ Stride > 0
<1>1. 0 \in Nat
  OBVIOUS
<1> DEFINE m == WordsFor(Len(PayloadOf(0)))
<1>2. Stride \in Nat /\ 10 + m <= Stride
  BY <1>1, StrideFits, Zenon
<1>3. m \in Nat
  <2>1. PayloadOf(0) \in Seq(Byte8)
    BY <1>1, PayloadFits, FitsLen, Zenon
  <2> QED BY <2>1, PackTypes, Zenon
<1> HIDE DEF m
<1> QED BY <1>2, <1>3

LEMMA ReplyInSlot ==
    ASSUME NEW reply, LegalReply(reply)
    PROVE  /\ Reply(reply) \in Seq(Byte8) /\ Len(Reply(reply)) \in Nat
           /\ WordsFor(Len(Reply(reply))) \in Nat /\ WordsFor(Len(Reply(reply))) <= Stride
<1> DEFINE n == Len(PayloadOf(reply.response))
<1>1. reply.response \in Nat
  BY Zenon DEF LegalReply
<1>2. 10 + WordsFor(n) <= Stride
  BY <1>1, StrideFits, Zenon
<1>3. Reply(reply) \in Seq(Byte8) /\ Len(Reply(reply)) = 40 + n
  BY ReplyBytes, Zenon
<1>4. n \in Nat
  BY <1>1, PayloadFits, FitsLen, Zenon
<1> HIDE DEF n
<1>5. 10 \in Nat /\ 4 * 10 + n = 40 + n /\ 40 + n \in Nat
  BY <1>4
<1>6. WordsFor(4 * 10 + n) = 10 + WordsFor(n) /\ WordsFor(n) \in Nat
  BY <1>4, <1>5, WordsForSum, Zenon
<1> DEFINE m == WordsFor(n)
<1> HIDE DEF m
<1>7. m \in Nat /\ WordsFor(40 + n) = 10 + m /\ 10 + m <= Stride
  BY <1>2, <1>5, <1>6, Zenon DEF m
<1>8. 10 + m \in Nat
  BY <1>7
<1> QED BY <1>3, <1>5, <1>7, <1>8, Zenon

\* The output after k packets of N: the replies to those served, each in its
\* slot, and nothing announced for the others.
OutputsOf(N) == [words : {words \in Seq(Word) : Len(words) = N * Stride}, lens : [1 .. N -> Nat]]

ReplyOf(rs, i) == Reply(Replied(rs[i]))

Filled(rs, N, k, output) ==
    \A i \in 1 .. N :
        IF i <= k /\ rs[i].view.ok
        THEN Holds(output.words, (i - 1) * Stride, ReplyOf(rs, i)) /\ output.lens[i] = Len(ReplyOf(rs, i))
        ELSE output.lens[i] = 0

Answered(rs, i, output) == IF rs[i].view.ok THEN EmitPacket(output, i, Replied(rs[i])) ELSE output

Answerable(rs, N) == \A i \in 1 .. N : rs[i].view.ok => LegalReply(Replied(rs[i]))

LEMMA AnsweredType ==
    ASSUME NEW N \in Nat, NEW rs, Answerable(rs, N), NEW i \in 1 .. N, NEW output \in OutputsOf(N)
    PROVE  Answered(rs, i, output) \in OutputsOf(N)
<1>1. CASE ~rs[i].view.ok
  BY <1>1, Zenon DEF Answered
<1>2. CASE rs[i].view.ok
  <2> DEFINE reply == Replied(rs[i])
             after == EmitPacket(output, i, reply)
  <2>1. LegalReply(reply) /\ Answered(rs, i, output) = after
    BY <1>2, Zenon DEF Answerable, Answered
  <2>2. output.words \in Seq(Word) /\ Len(output.words) = N * Stride /\ output.lens \in [1 .. N -> Nat]
    BY DEF OutputsOf
  <2>3. \E words, lens : after = [words |-> words, lens |-> lens]
    BY Zenon DEF EmitPacket
  <2> HIDE DEF reply
  <2>4. IsEmitted(output, i, reply, after)
    BY <2>1, <2>2, Emitted, Zenon
  <2>5. /\ after.words \in Seq(Word) /\ Len(after.words) = Len(output.words)
        /\ after.lens = [output.lens EXCEPT ![i] = Len(Reply(reply))]
    BY <2>4, Zenon DEF IsEmitted
  <2>6. Len(Reply(reply)) \in Nat
    BY <2>1, ReplyInSlot, Zenon
  <2> HIDE DEF after
  <2>7. after.lens \in [1 .. N -> Nat]
    BY <2>2, <2>5, <2>6
  <2>8. after = [words |-> after.words, lens |-> after.lens]
    BY <2>3
  <2> DEFINE W == {words \in Seq(Word) : Len(words) = N * Stride}
             L == [1 .. N -> Nat]
  <2>9. after.words \in W /\ after.lens \in L
    BY <2>2, <2>5, <2>7, Zenon
  <2> HIDE DEF W, L
  <2>10. after \in [words : W, lens : L]
    BY <2>8, <2>9
  <2> QED BY <2>1, <2>10, Zenon DEF OutputsOf, W, L
<1> QED BY <1>1, <1>2

LEMMA FilledStep ==
    ASSUME NEW N \in Nat, NEW rs, Answerable(rs, N), NEW k \in Nat, k + 1 \in 1 .. N,
           NEW output \in OutputsOf(N), Filled(rs, N, k, output)
    PROVE  Filled(rs, N, k + 1, Answered(rs, k + 1, output))
<1> DEFINE n == k + 1
           after == Answered(rs, n, output)
<1>1. n \in 1 .. N /\ \A i \in 1 .. N : (i <= n <=> i <= k \/ i = n) /\ ~(n <= k)
  OBVIOUS
<1>2. output.words \in Seq(Word) /\ Len(output.words) = N * Stride /\ output.lens \in [1 .. N -> Nat]
  BY DEF OutputsOf
<1> HIDE DEF n
<1>3. CASE ~rs[n].view.ok
  <2>1. after = output
    BY <1>3, Zenon DEF Answered
  <2>2. ASSUME NEW i \in 1 .. N
        PROVE  IF i <= n /\ rs[i].view.ok
               THEN Holds(output.words, (i - 1) * Stride, ReplyOf(rs, i)) /\ output.lens[i] = Len(ReplyOf(rs, i))
               ELSE output.lens[i] = 0
    <3>1. i <= n /\ rs[i].view.ok <=> i <= k /\ rs[i].view.ok
      BY <1>1, <1>3, Zenon
    <3> QED BY <3>1, Zenon DEF Filled
  <2>3. Filled(rs, N, n, output)
    BY <2>2, Zenon DEF Filled
  <2> QED BY <2>1, <2>3, Zenon DEF n
<1>4. CASE rs[n].view.ok
  <2> DEFINE reply == Replied(rs[n])
  <2>1. LegalReply(reply) /\ after = EmitPacket(output, n, reply) /\ ReplyOf(rs, n) = Reply(reply)
    BY <1>1, <1>4, Zenon DEF Answerable, Answered, ReplyOf
  <2> HIDE DEF reply, after
  <2>2. IsEmitted(output, n, reply, after)
    BY <1>1, <1>2, <2>1, Emitted, Zenon
  <2> DEFINE base == (n - 1) * Stride
  <2>3. /\ Holds(after.words, base, Reply(reply))
        /\ \A w \in 1 .. Len(output.words) : (w <= base \/ w > base + Stride) => after.words[w] = output.words[w]
        /\ after.lens = [output.lens EXCEPT ![n] = Len(Reply(reply))]
    BY <2>2, Zenon DEF IsEmitted
  <2>4. ASSUME NEW i \in 1 .. N, i # n, NEW p \in Seq(Byte8), Len(p) \in Nat,
               WordsFor(Len(p)) \in Nat, WordsFor(Len(p)) <= Stride,
               Holds(output.words, (i - 1) * Stride, p)
        PROVE  Holds(after.words, (i - 1) * Stride, p)
    <3> DEFINE b == (i - 1) * Stride
               m == WordsFor(Len(p))
    <3>1. b \in Nat
      <4> DEFINE l == i - 1
      <4>1. l \in Nat
        OBVIOUS
      <4> HIDE DEF l
      <4>2. l * Stride \in Nat
        BY <4>1, StrideFacts
      <4> QED BY <4>2, Zenon DEF l
    <3>2. ASSUME NEW w \in b + 1 .. b + m PROVE after.words[w] = output.words[w]
      <4>1. w \in Int /\ w > b /\ w <= b + Stride
        <5>1. m \in Nat /\ m <= Stride /\ Stride \in Nat
          BY <2>4, StrideFacts, Zenon
        <5> HIDE DEF b, m
        <5> QED BY <3>1, <3>2, <5>1
      <4>2. w \in 1 .. N * Stride /\ (w <= base \/ w > base + Stride)
        BY <1>1, <2>4, <4>1, StrideFacts, SlotsApart, Zenon
      <4> QED BY <1>2, <2>3, <4>2, Zenon
    <3>3. Holds(output.words, b, p)
      BY <2>4
    <3> HIDE DEF b, m
    <3>4. \A w \in b + 1 .. b + WordsFor(Len(p)) : after.words[w] = output.words[w]
      BY <3>2, Zenon DEF m
    <3> DEFINE ws == output.words
               vs == after.words
    <3>5. Holds(ws, b, p) /\ \A w \in b + 1 .. b + WordsFor(Len(p)) : vs[w] = ws[w]
      BY <3>3, <3>4, Zenon
    <3> HIDE DEF ws, vs
    <3>6. Holds(vs, b, p)
      BY <2>4, <3>1, <3>5, HoldsKept
    <3> QED BY <3>6, Zenon DEF vs, b
  <2>5. ASSUME NEW i \in 1 .. N
        PROVE  IF i <= n /\ rs[i].view.ok
               THEN Holds(after.words, (i - 1) * Stride, ReplyOf(rs, i)) /\ after.lens[i] = Len(ReplyOf(rs, i))
               ELSE after.lens[i] = 0
    <3>1. CASE i = n
      <4>1. after.lens[n] = Len(Reply(reply))
        BY <1>1, <1>2, <2>3
      <4>2. n <= n
        BY <1>1
      <4> QED BY <1>4, <2>1, <2>3, <3>1, <4>1, <4>2, Zenon
    <3>2. CASE i # n
      <4>1. after.lens[i] = output.lens[i]
        BY <1>1, <1>2, <2>3, <3>2
      <4>2. i <= n <=> i <= k
        BY <1>1, <3>2
      <4>3. IF i <= k /\ rs[i].view.ok
            THEN Holds(output.words, (i - 1) * Stride, ReplyOf(rs, i)) /\ output.lens[i] = Len(ReplyOf(rs, i))
            ELSE output.lens[i] = 0
        BY Zenon DEF Filled
      <4>4. CASE i <= k /\ rs[i].view.ok
        <5>1. LegalReply(Replied(rs[i]))
          BY <4>4, Zenon DEF Answerable
        <5>2. /\ ReplyOf(rs, i) \in Seq(Byte8) /\ Len(ReplyOf(rs, i)) \in Nat
              /\ WordsFor(Len(ReplyOf(rs, i))) \in Nat /\ WordsFor(Len(ReplyOf(rs, i))) <= Stride
          BY <5>1, ReplyInSlot, Zenon DEF ReplyOf
        <5>3. Holds(after.words, (i - 1) * Stride, ReplyOf(rs, i))
          BY <2>4, <3>2, <4>3, <4>4, <5>2, Zenon
        <5> QED BY <4>1, <4>2, <4>3, <4>4, <5>3, Zenon
      <4>5. CASE ~(i <= k /\ rs[i].view.ok)
        BY <4>1, <4>2, <4>3, <4>5, Zenon
      <4> QED BY <4>4, <4>5, Zenon
    <3> QED BY <3>1, <3>2, Zenon
  <2>6. Filled(rs, N, n, after)
    BY <2>5, Zenon DEF Filled
  <2> QED BY <2>6, Zenon DEF n, after
<1> QED BY <1>3, <1>4

\* What dispatch_wave leaves in the output.
Written(rs, packets) ==
    LET stale == [words |-> [w \in 1 .. Len(packets) * Stride |-> Garbage],
                  lens |-> [i \in DOMAIN packets |-> 0]]
        after[i \in 0 .. Len(packets)] ==
            IF i = 0 THEN stale
            ELSE IF rs[i].view.ok THEN EmitPacket(after[i - 1], i, Replied(rs[i]))
            ELSE after[i - 1]
    IN after[Len(packets)]

LEMMA StaleFilled ==
    ASSUME NEW N \in Nat, NEW rs, NEW stale,
           stale = [words |-> [w \in 1 .. N * Stride |-> Garbage], lens |-> [i \in 1 .. N |-> 0]]
    PROVE  stale \in OutputsOf(N) /\ Filled(rs, N, 0, stale)
<1> DEFINE words == [w \in 1 .. N * Stride |-> Garbage]
           lens == [i \in 1 .. N |-> 0]
<1>1. stale.words = words /\ stale.lens = lens /\ stale = [words |-> stale.words, lens |-> stale.lens]
  OBVIOUS
<1>2. Garbage \in Word
  BY GarbageAssumption, Zenon DEF Word, Byte8
<1>3. words \in Seq(Word) /\ Len(words) = N * Stride
  <2> DEFINE n == N * Stride
  <2>1. n \in Nat
    BY StrideFacts
  <2> HIDE DEF n
  <2>2. words = [w \in 1 .. n |-> Garbage]
    BY Zenon DEF n
  <2>3. [w \in 1 .. n |-> Garbage] \in [1 .. n -> Word]
    BY <1>2, Zenon
  <2> HIDE DEF words
  <2>4. words \in Seq(Word) /\ Len(words) = n
    BY <2>1, <2>2, <2>3, FunctionIsSeq, Zenon
  <2> QED BY <2>4, Zenon DEF n
<1>4. lens \in [1 .. N -> Nat]
  OBVIOUS
<1>5. Filled(rs, N, 0, stale)
  <2>1. ASSUME NEW i \in 1 .. N PROVE ~(i <= 0) /\ stale.lens[i] = 0
    BY <1>1
  <2> QED BY <2>1, Zenon DEF Filled
<1> DEFINE W == {ws \in Seq(Word) : Len(ws) = N * Stride}
           L == [1 .. N -> Nat]
<1> HIDE DEF words, lens
<1>6. stale.words \in W /\ stale.lens \in L
  BY <1>1, <1>3, <1>4, Zenon
<1> HIDE DEF W, L
<1>7. stale \in [words : W, lens : L]
  BY <1>1, <1>6
<1> QED BY <1>5, <1>7, Zenon DEF OutputsOf, W, L

LEMMA WrittenFilled ==
    ASSUME NEW packets \in Packets, NEW rs, Answerable(rs, Len(packets))
    PROVE  Written(rs, packets) \in OutputsOf(Len(packets))
           /\ Filled(rs, Len(packets), Len(packets), Written(rs, packets))
<1> DEFINE N == Len(packets)
           stale == [words |-> [w \in 1 .. N * Stride |-> Garbage], lens |-> [i \in DOMAIN packets |-> 0]]
           of(f) == [i \in 0 .. N |->
                       IF i = 0 THEN stale
                       ELSE IF rs[i].view.ok THEN EmitPacket(f[i - 1], i, Replied(rs[i])) ELSE f[i - 1]]
           up(f) == [i \in 0 .. N |-> IF i = 0 THEN stale ELSE Answered(rs, i, f[i - 1])]
           after == CHOOSE f : f = of(f)
           A == OutputsOf(N)
           steps == [i \in 1 .. N |-> [x \in A |-> Answered(rs, i, x)]]
<1>1. N \in Nat /\ DOMAIN packets = 1 .. N
  BY DEF Packets
<1>2. stale \in A /\ Filled(rs, N, 0, stale)
  <2>1. stale = [words |-> [w \in 1 .. N * Stride |-> Garbage], lens |-> [i \in 1 .. N |-> 0]]
    BY <1>1, Zenon
  <2> HIDE DEF stale, N
  <2> QED BY <1>1, <2>1, StaleFilled, Zenon
<1>3. Written(rs, packets) = after[N]
  BY Zenon DEF Written
<1> HIDE DEF stale
<1>4. ASSUME NEW f PROVE of(f) = up(f)
  BY Zenon DEF Answered
<1> HIDE DEF N, of
<1>5. steps \in [1 .. N -> [A -> A]]
  <2>1. ASSUME NEW i \in 1 .. N, NEW x \in A PROVE Answered(rs, i, x) \in A
    BY <1>1, AnsweredType, Zenon DEF N
  <2> HIDE DEF A
  <2> QED BY <2>1, Zenon
<1>6. PICK g : Iterates(g, N, A, stale, steps)
  <2> HIDE DEF A, steps
  <2> QED BY <1>1, <1>2, <1>5, Iteration
<1>7. g = up(g)
  <2>1. g \in [0 .. N -> A] /\ g[0] = stale /\ \A n \in 0 .. N - 1 : g[n + 1] = steps[n + 1][g[n]]
    BY <1>6, Zenon DEF Iterates
  <2> HIDE DEF A
  <2>2. ASSUME NEW i \in 0 .. N PROVE g[i] = IF i = 0 THEN stale ELSE Answered(rs, i, g[i - 1])
    <3>1. CASE i = 0
      BY <2>1, <3>1, Zenon
    <3>2. CASE i # 0
      <4>1. i - 1 \in 0 .. N - 1 /\ (i - 1) + 1 = i /\ i \in 1 .. N /\ i - 1 \in 0 .. N
        BY <1>1, <3>2
      <4>2. g[i] = steps[i][g[i - 1]] /\ g[i - 1] \in A
        BY <2>1, <4>1, Zenon
      <4>3. steps[i][g[i - 1]] = Answered(rs, i, g[i - 1])
        BY <4>1, <4>2, Zenon
      <4> HIDE DEF steps
      <4> QED BY <3>2, <4>2, <4>3, Zenon
    <3> QED BY <3>1, <3>2, Zenon
  <2> QED BY <2>1, <2>2, Zenon
<1>8. after = of(after)
  <2>1. g = of(g)
    <3> HIDE DEF up
    <3> QED BY <1>4, <1>7, Zenon
  <2> QED BY <2>1, Zenon
<1>9. after = up(after)
  <2> HIDE DEF up, after
  <2> QED BY <1>4, <1>8, Zenon
<1> HIDE DEF after, A, steps
<1>10. after[0] = stale /\ \A i \in 1 .. N : after[i] = Answered(rs, i, after[i - 1])
  <2>1. 0 \in 0 .. N /\ \A i \in 1 .. N : i \in 0 .. N /\ i # 0
    BY <1>1
  <2>2. \A i \in 0 .. N : after[i] = IF i = 0 THEN stale ELSE Answered(rs, i, after[i - 1])
    BY <1>9, Zenon
  <2> QED BY <2>1, <2>2, Zenon
<1> HIDE DEF up
<1> DEFINE S == {k \in Nat : k <= N => after[k] \in A /\ Filled(rs, N, k, after[k])}
<1>11. 0 \in S
  BY <1>2, <1>10
<1>12. ASSUME NEW k \in Nat, k \in S PROVE k + 1 \in S
  <2> SUFFICES ASSUME k + 1 <= N PROVE after[k + 1] \in A /\ Filled(rs, N, k + 1, after[k + 1])
    OBVIOUS
  <2>1. k + 1 \in 1 .. N /\ (k + 1) - 1 = k /\ k <= N
    BY <1>1
  <2>2. after[k] \in A /\ Filled(rs, N, k, after[k])
    BY <1>12, <2>1
  <2>3. after[k + 1] = Answered(rs, k + 1, after[k])
    BY <1>10, <2>1, Zenon
  <2> DEFINE x == after[k]
  <2>4. x \in OutputsOf(N) /\ Filled(rs, N, k, x) /\ Answerable(rs, N)
    BY <2>2, Zenon DEF A, N
  <2> HIDE DEF x
  <2>5. Answered(rs, k + 1, x) \in OutputsOf(N)
    BY <1>1, <2>1, <2>4, AnsweredType, Zenon
  <2>6. Filled(rs, N, k + 1, Answered(rs, k + 1, x))
    BY <1>1, <2>1, <2>4, FilledStep, Zenon
  <2> QED BY <2>3, <2>5, <2>6, Zenon DEF x, A
<1> HIDE DEF S
<1>13. Nat \subseteq S
  BY <1>11, <1>12, Induction
<1>14. N <= N
  BY <1>1
<1>15. after[N] \in A /\ Filled(rs, N, N, after[N])
  BY <1>1, <1>13, <1>14 DEF S
<1> QED BY <1>3, <1>15, Zenon DEF A, N

\* What the sink gets for the packets of a wave.
Replies(packets, rs, sent) ==
    \A i \in DOMAIN packets :
        IF rs[i].view.ok
        THEN sent[i] = BuildIpv4TcpPacket(SentFor(rs[i])) /\ ChecksumsValid(sent[i])
        ELSE sent[i] = <<>>

LEMMA WaveReplies ==
    ASSUME NEW packets \in Packets, NEW rs,
           rs = [i \in DOMAIN packets |-> ShaderReads(Packed(packets), WaveMetadata(packets)[i])]
    PROVE  Replies(packets, rs, WaveOutputs(Written(rs, packets)))
<1> DEFINE N == Len(packets)
           output == Written(rs, packets)
<1>1. N \in Nat /\ DOMAIN packets = 1 .. N
  BY DEF Packets
<1>2. ASSUME NEW i \in 1 .. N PROVE rs[i] = CpuReads(packets[i]) /\ packets[i] \in Seq(Byte8)
  <2>1. i \in DOMAIN packets
    BY <1>1, Zenon
  <2>2. rs[i] = ShaderReads(Packed(packets), WaveMetadata(packets)[i])
    BY <2>1, Zenon
  <2> QED BY <2>1, <2>2, WaveRead, Zenon
<1> HIDE DEF N
<1>3. ASSUME NEW i \in 1 .. N, rs[i].view.ok
      PROVE  /\ LegalReply(Replied(rs[i])) /\ Replied(rs[i]).response = rs[i].response
             /\ rs[i].response \in 0 .. 5
  BY <1>2, <1>3, AnswerLegal, Zenon
<1>4. Answerable(rs, N)
  BY <1>3, Zenon DEF Answerable
<1>5. output \in OutputsOf(N) /\ Filled(rs, N, N, output)
  BY <1>4, WrittenFilled, Zenon DEF N
<1> HIDE DEF output
<1>6. /\ output.words \in Seq(Word) /\ Len(output.words) = N * Stride
      /\ output.lens \in [1 .. N -> Nat] /\ DOMAIN output.lens = 1 .. N
  BY <1>5 DEF OutputsOf
<1>7. ASSUME NEW i \in 1 .. N
      PROVE  IF rs[i].view.ok THEN WaveOutputs(output)[i] = ReplyOf(rs, i) ELSE WaveOutputs(output)[i] = <<>>
  <2>1. i <= N
    BY <1>1
  <2>2. IF i <= N /\ rs[i].view.ok
        THEN Holds(output.words, (i - 1) * Stride, ReplyOf(rs, i)) /\ output.lens[i] = Len(ReplyOf(rs, i))
        ELSE output.lens[i] = 0
    BY <1>5, Zenon DEF Filled
  <2>3. ASSUME NEW p \in Seq(Byte8), output.lens[i] = Len(p), WordsFor(Len(p)) <= Stride,
               Holds(output.words, (i - 1) * Stride, p)
        PROVE  WaveOutputs(output)[i] = p
    BY <1>1, <1>6, <2>3, StrideFacts, SlotOutput
  <2>4. CASE rs[i].view.ok
    <3>1. ReplyOf(rs, i) \in Seq(Byte8) /\ WordsFor(Len(ReplyOf(rs, i))) <= Stride
      BY <1>3, <2>4, ReplyInSlot, Zenon DEF ReplyOf
    <3> QED BY <2>1, <2>2, <2>3, <2>4, <3>1, Zenon
  <2>5. CASE ~rs[i].view.ok
    <3>1. <<>> \in Seq(Byte8) /\ Len(<<>>) = 0
      OBVIOUS
    <3>2. WordsFor(0) <= Stride
      <4>1. (0 + 3) \div 4 = 0
        OBVIOUS
      <4>2. WordsFor(0) = 0
        BY <4>1, Zenon DEF WordsFor
      <4>3. 0 <= Stride
        BY StrideFacts
      <4> QED BY <4>2, <4>3, Zenon
    <3>3. Holds(output.words, (i - 1) * Stride, <<>>)
      <4>1. \A o \in 0 .. Len(<<>>) - 1 : FALSE
        BY <3>1
      <4> QED BY <4>1, Zenon DEF Holds
    <3>4. output.lens[i] = Len(<<>>) /\ WordsFor(Len(<<>>)) <= Stride
      BY <2>2, <2>5, <3>1, <3>2, Zenon
    <3> QED BY <2>3, <2>5, <3>1, <3>3, <3>4, Zenon
  <2> QED BY <2>4, <2>5, Zenon
<1>8. ASSUME NEW i \in 1 .. N, rs[i].view.ok
      PROVE  /\ BuildIpv4TcpPacket(SentFor(rs[i])) = ReplyOf(rs, i)
             /\ ChecksumsValid(BuildIpv4TcpPacket(SentFor(rs[i])))
  BY <1>3, <1>8, SentAlike, Zenon DEF ReplyOf
<1> QED BY <1>1, <1>7, <1>8, Zenon DEF Replies, output

LEMMA DispatchReplies == ASSUME WaveInv, Dispatch PROVE Replies(wave', reads', outputs')
<1>1. wave \in Packets /\ wave' = wave
  BY DEF WaveInv, Dispatch
<1>2. reads' = [i \in DOMAIN wave |-> ShaderReads(Packed(wave), WaveMetadata(wave)[i])]
  BY Zenon DEF Dispatch
<1>3. outputs' = WaveOutputs(Written(reads', wave))
  BY Zenon DEF Dispatch, Written
<1> QED BY <1>1, <1>2, <1>3, WaveReplies, Zenon

RepliesInv == phase = "done" => Replies(wave, reads, outputs)

LEMMA RepliesStep == ASSUME WaveInv, RepliesInv, [Next]_vars PROVE RepliesInv'
<1>1. CASE Start
  BY <1>1 DEF Start, RepliesInv
<1>2. CASE Schedule
  BY <1>2 DEF Schedule, RepliesInv
<1>3. CASE Dispatch
  BY <1>3, DispatchReplies, Zenon DEF RepliesInv
<1>4. CASE Finish
  BY <1>4 DEF Finish, RepliesInv
<1>5. CASE UNCHANGED vars
  <2>1. UNCHANGED <<phase, wave, reads, outputs>>
    BY <1>5 DEF vars
  <2> QED BY <2>1, Zenon DEF RepliesInv
<1> QED BY <1>1, <1>2, <1>3, <1>4, <1>5 DEF Next

LEMMA RepliesAre == ASSUME RepliesInv PROVE RepliesOnTheWire
  BY Zenon DEF RepliesInv, Replies, SentFor, RepliesOnTheWire

\* For any responses, any packets and whatever an earlier wave left in the
\* output: each packet that is served has in its slot, byte for byte, the packet
\* the CPU builds for its reply, with checksums a receiver accepts, and no
\* other packet of the wave has touched it.
THEOREM RepliesAlways == Spec => []RepliesOnTheWire
<1>1. Init => RepliesInv
  BY DEF Init, RepliesInv
<1>2. WaveInv /\ RepliesInv /\ [Next]_vars => RepliesInv'
  BY RepliesStep
<1>3. RepliesInv => RepliesOnTheWire
  BY RepliesAre
<1> QED BY <1>1, <1>2, <1>3, WaveInvariance, PTL DEF Spec
=============================================================================
