-------------------------- MODULE HttpProcessorProofs --------------------------
(***************************************************************************)
(* For every router the compiler accepts, every request and any sequence   *)
(* of batches: the compiled router answers as the router is declared; an   *)
(* invocation of the shader finds the same route in the arenas and writes  *)
(* the same bytes into its slot, which is large enough for them; so both   *)
(* backends answer as declared, the length of a body is the one its header *)
(* says, and a processor that maps its output directly outlives failures.  *)
(***************************************************************************)
EXTENDS HttpProcessor, FiniteSetTheorems, Inductions

-----------------------------------------------------------------------------
(* Numbers in decimal.                                                     *)

DigitsRecur(f) ==
    f = [n \in Nat |-> IF n < 10 THEN <<Zero + n>> ELSE Append(f[n \div 10], Zero + (n % 10))]

\* The recursion of Digits has a solution, and its values are strings.
LEMMA DigitsAre ==
    /\ Digits \in [Nat -> Seq(Byte)]
    /\ \A n \in Nat : Digits[n] = IF n < 10 THEN <<Zero + n>> ELSE Append(Digits[n \div 10], Zero + (n % 10))
<1> DEFINE A == Seq(Byte)
           measure == [n \in Nat |-> n]
           next(n, f) == IF n < 10 THEN <<Zero + n>> ELSE Append(f[n \div 10], Zero + (n % 10))
           step == [n \in Nat |-> [f \in [Nat -> A] |-> next(n, f)]]
<1>1. \A n \in Nat : n \div 10 \in Nat /\ (n >= 10 => n \div 10 < n)
  OBVIOUS
<1>2. ASSUME NEW n \in Nat PROVE Zero + (n % 10) \in Byte /\ (n < 10 => Zero + n \in Byte)
  BY DEF Zero, Byte
<1>3. ASSUME NEW n \in Nat, NEW f \in [Nat -> A] PROVE next(n, f) \in A
  <2>1. f[n \div 10] \in Seq(Byte)
    BY <1>1
  <2>2. Append(f[n \div 10], Zero + (n % 10)) \in Seq(Byte)
    BY <1>2, <2>1, OneAppended, Zenon
  <2>3. n < 10 => <<Zero + n>> \in Seq(Byte)
    BY <1>2, <2>1, OneAppended, Zenon
  <2> QED BY <2>2, <2>3, Zenon
<1>4. Descends(Nat, A, measure, step)
  <2>1. measure \in [Nat -> Nat]
    OBVIOUS
  <2>2. step \in [Nat -> [[Nat -> A] -> A]]
    <3> HIDE DEF next, A
    <3> QED BY <1>3
  <2>3. ASSUME NEW n \in Nat, NEW f \in [Nat -> A], NEW h \in [Nat -> A],
               \A y \in Nat : measure[y] < measure[n] => f[y] = h[y]
        PROVE  step[n][f] = step[n][h]
    <3>1. step[n][f] = next(n, f) /\ step[n][h] = next(n, h)
      <4> HIDE DEF next, A
      <4> QED OBVIOUS
    <3>2. n >= 10 => f[n \div 10] = h[n \div 10]
      BY <1>1, <2>3
    <3>3. next(n, f) = next(n, h)
      BY <3>2
    <3> HIDE DEF next, step, A
    <3> QED BY <3>1, <3>3
  <2> HIDE DEF step, measure, A
  <2> QED BY <2>1, <2>2, <2>3 DEF Descends
<1>5. <<>> \in A
  OBVIOUS
<1>6. PICK f \in [Nat -> A] : \A n \in Nat : f[n] = step[n][f]
  <2> HIDE DEF step, measure, A
  <2> QED BY <1>4, <1>5, Recursion
<1>7. \A n \in Nat : f[n] = next(n, f)
  <2> HIDE DEF next, A
  <2> QED BY <1>6
<1>8. DigitsRecur(f)
  BY <1>6, <1>7 DEF DigitsRecur
<1>9. Digits = CHOOSE h : DigitsRecur(h)
  BY Zenon DEF Digits, DigitsRecur
<1>10. DigitsRecur(Digits)
  BY <1>8, <1>9
<1>11. \A n \in Nat : Digits[n] = next(n, Digits)
  BY <1>10, ZenonT(20) DEF DigitsRecur
<1> DEFINE S == {k \in Nat : \A n \in Nat : n < k => Digits[n] \in A}
<1>12. 0 \in S
  OBVIOUS
<1>13. ASSUME NEW k \in Nat, k \in S PROVE k + 1 \in S
  <2> SUFFICES ASSUME NEW n \in Nat, n < k + 1 PROVE Digits[n] \in A
    OBVIOUS
  <2>1. CASE n < 10
    <3>1. <<Zero + n>> \in Seq(Byte)
      BY <1>2, <1>5, <2>1, OneAppended, Zenon
    <3> QED BY <1>11, <2>1, <3>1
  <2>2. CASE n >= 10
    <3>1. n \div 10 \in Nat /\ n \div 10 < k
      BY <1>1, <2>2
    <3>2. Digits[n \div 10] \in A
      BY <1>13, <3>1
    <3>3. Append(Digits[n \div 10], Zero + (n % 10)) \in Seq(Byte)
      BY <1>2, <3>2, OneAppended, Zenon
    <3>4. ~(n < 10)
      BY <2>2
    <3> QED BY <1>11, <3>3, <3>4, Zenon
  <2> QED BY <2>1, <2>2
<1>14. Nat \subseteq S
  <2> HIDE DEF S
  <2> QED BY <1>12, <1>13, Induction
<1>15. ASSUME NEW n \in Nat PROVE Digits[n] \in A
  <2>1. n + 1 \in Nat /\ n < n + 1
    OBVIOUS
  <2>2. n + 1 \in S
    BY <1>14, <2>1
  <2> QED BY <2>1, <2>2
<1>16. Digits = [n \in Nat |-> Digits[n]]
  BY <1>10, Zenon DEF DigitsRecur
<1> QED BY <1>11, <1>15, <1>16

DecimalWidthRecur(f) == f = [value \in Nat |-> IF value < 10 THEN 1 ELSE f[value \div 10] + 1]

\* The length the shader counts is the number of digits.
LEMMA WidthOfDigits ==
    ASSUME NEW n \in Nat
    PROVE  DecimalWidth[n] = Len(Digits[n]) /\ Len(Digits[n]) \in Nat \ {0}
<1> DEFINE f == [value \in Nat |-> Len(Digits[value])]
<1>1. \A value \in Nat : value \div 10 \in Nat /\ (value >= 10 => value \div 10 < value)
  OBVIOUS
<1>2. ASSUME NEW value \in Nat
      PROVE  Len(Digits[value]) = IF value < 10 THEN 1 ELSE Len(Digits[value \div 10]) + 1
  <2>1. CASE value < 10
    BY <2>1, DigitsAre
  <2>2. CASE value >= 10
    <3>1. ~(value < 10) /\ value \div 10 \in Nat
      BY <1>1, <2>2
    <3>2. Digits[value] = Append(Digits[value \div 10], Zero + (value % 10)) /\ Digits[value \div 10] \in Seq(Byte)
      BY <3>1, DigitsAre
    <3>3. Zero + (value % 10) \in Byte
      BY DEF Zero, Byte
    <3> QED BY <3>1, <3>2, <3>3, OneAppended
  <2> QED BY <2>1, <2>2
<1>3. DecimalWidthRecur(f)
  BY <1>1, <1>2 DEF DecimalWidthRecur
<1>4. DecimalWidth = CHOOSE h : DecimalWidthRecur(h)
  BY Zenon DEF DecimalWidth, DecimalWidthRecur
<1>5. DecimalWidthRecur(DecimalWidth)
  BY <1>3, <1>4
<1>6. \A value \in Nat : DecimalWidth[value] = IF value < 10 THEN 1 ELSE DecimalWidth[value \div 10] + 1
  BY <1>5, ZenonT(20) DEF DecimalWidthRecur
<1> HIDE DEF f
<1> DEFINE S == {k \in Nat : \A value \in Nat : value < k =>
                   DecimalWidth[value] = Len(Digits[value]) /\ Len(Digits[value]) \in Nat \ {0}}
<1>7. 0 \in S
  OBVIOUS
<1>8. ASSUME NEW k \in Nat, k \in S PROVE k + 1 \in S
  <2> SUFFICES ASSUME NEW value \in Nat, value < k + 1
               PROVE  DecimalWidth[value] = Len(Digits[value]) /\ Len(Digits[value]) \in Nat \ {0}
    OBVIOUS
  <2>1. CASE value < 10
    BY <1>2, <1>6, <2>1
  <2>2. CASE value >= 10
    <3>1. value \div 10 \in Nat /\ value \div 10 < k
      BY <1>1, <2>2
    <3>2. DecimalWidth[value \div 10] = Len(Digits[value \div 10]) /\ Len(Digits[value \div 10]) \in Nat \ {0}
      BY <1>8, <3>1
    <3>3. ~(value < 10)
      BY <2>2
    <3>4. Len(Digits[value]) = Len(Digits[value \div 10]) + 1
      BY <1>2, <3>3
    <3>5. DecimalWidth[value] = DecimalWidth[value \div 10] + 1
      BY <1>6, <3>3
    <3> QED BY ONLY <3>2, <3>4, <3>5
  <2> QED BY <2>1, <2>2
<1>9. Nat \subseteq S
  <2> HIDE DEF S
  <2> QED BY <1>7, <1>8, Induction
<1>10. n + 1 \in Nat /\ n < n + 1
  OBVIOUS
<1>11. n + 1 \in S
  BY <1>9, <1>10
<1> QED BY <1>10, <1>11

\* A greater number has as many digits or more.
LEMMA WidthGrows ==
    ASSUME NEW m \in Nat, NEW n \in Nat, m <= n
    PROVE  Len(Digits[m]) <= Len(Digits[n])
<1> DEFINE Width(v) == Len(Digits[v])
<1>1. \A v \in Nat : v \div 10 \in Nat /\ (v >= 10 => v \div 10 < v)
  OBVIOUS
<1>2. ASSUME NEW v \in Nat
      PROVE  Width(v) = IF v < 10 THEN 1 ELSE Width(v \div 10) + 1
  <2>1. CASE v < 10
    BY <2>1, DigitsAre
  <2>2. CASE v >= 10
    <3>1. ~(v < 10) /\ v \div 10 \in Nat
      BY <1>1, <2>2
    <3>2. Digits[v] = Append(Digits[v \div 10], Zero + (v % 10)) /\ Digits[v \div 10] \in Seq(Byte)
      BY <3>1, DigitsAre
    <3>3. Zero + (v % 10) \in Byte
      BY DEF Zero, Byte
    <3> QED BY <3>1, <3>2, <3>3, OneAppended
  <2> QED BY <2>1, <2>2
<1>3. \A v \in Nat : Width(v) \in Nat \ {0}
  BY WidthOfDigits
<1> HIDE DEF Width
<1> DEFINE S == {k \in Nat : \A v \in Nat : v < k => \A u \in Nat : u <= v => Width(u) <= Width(v)}
<1>4. 0 \in S
  OBVIOUS
<1>5. ASSUME NEW k \in Nat, k \in S PROVE k + 1 \in S
  <2> SUFFICES ASSUME NEW v \in Nat, v < k + 1, NEW u \in Nat, u <= v PROVE Width(u) <= Width(v)
    OBVIOUS
  <2>0. Width(u) \in Nat \ {0} /\ Width(v) \in Nat \ {0}
    BY <1>3
  <2>1. CASE u < 10
    <3>1. Width(u) = 1
      BY <1>2, <2>1
    <3> QED BY <2>0, <3>1
  <2>2. CASE u >= 10
    <3>1. v >= 10 /\ v \div 10 < k /\ u \div 10 <= v \div 10 /\ v \div 10 \in Nat /\ u \div 10 \in Nat
      BY <1>1, <2>2
    <3>2. Width(u \div 10) <= Width(v \div 10)
      BY <1>5, <3>1
    <3>3. Width(u) = Width(u \div 10) + 1 /\ Width(v) = Width(v \div 10) + 1
      BY <1>2, <2>2, <3>1
    <3>4. Width(u \div 10) \in Nat /\ Width(v \div 10) \in Nat
      BY <1>3, <3>1
    <3> QED BY <3>2, <3>3, <3>4
  <2> QED BY <2>1, <2>2
<1>6. Nat \subseteq S
  <2> HIDE DEF S
  <2> QED BY <1>4, <1>5, Induction
<1>7. n + 1 \in S /\ n < n + 1
  BY <1>6
<1>8. Width(m) <= Width(n)
  BY <1>7
<1> QED BY <1>8 DEF Width

-----------------------------------------------------------------------------
(* The folds of the router.                                                *)

HashFolds(f, s) ==
    f = [t \in SUBSET DOMAIN s |->
            IF t = {} THEN HashBase ELSE ((f[t \ {Max(t)}] + s[Max(t)]) * HashPrime) % HashRange]

\* The hash is computed byte by byte.
LEMMA HashFold ==
    ASSUME NEW s \in Seq(Nat)
    PROVE  \E g \in [0 .. Len(s) -> Nat] :
              /\ g[0] = HashBase /\ Hash(s) = g[Len(s)]
              /\ \A n \in 1 .. Len(s) : g[n] = ((g[n - 1] + s[n]) * HashPrime) % HashRange
<1> DEFINE N == Len(s)
           next(v, n) == ((v + s[n]) * HashPrime) % HashRange
           steps == [n \in 1 .. N |-> [v \in Nat |-> next(v, n)]]
<1>1. N \in Nat /\ DOMAIN s = 1 .. N /\ \A n \in 1 .. N : s[n] \in Nat
  OBVIOUS
<1>2. ASSUME NEW n \in 1 .. N, NEW v \in Nat PROVE next(v, n) \in Nat
  <2> DEFINE x == (v + s[n]) * HashPrime
  <2>1. x \in Nat
    BY <1>1, RouterAssumption
  <2> HIDE DEF x
  <2>2. x % HashRange \in Nat
    BY <2>1, RouterAssumption
  <2> QED BY <2>2 DEF x
<1>3. steps \in [1 .. N -> [Nat -> Nat]]
  <2> HIDE DEF next, N
  <2> QED BY <1>2
<1>4. PICK f : Folds(f, N, Nat, HashBase, steps)
  <2> HIDE DEF steps, N
  <2> QED BY <1>1, <1>3, RouterAssumption, FoldsExist
<1>5. HashFolds(f, s)
  <2>1. f = [t \in SUBSET DOMAIN s |-> f[t]]
    BY <1>1, <1>4 DEF Folds
  <2>2. ASSUME NEW t \in SUBSET DOMAIN s
        PROVE  f[t] = IF t = {} THEN HashBase ELSE ((f[t \ {Max(t)}] + s[Max(t)]) * HashPrime) % HashRange
    <3>1. CASE t = {}
      BY <1>1, <1>4, <3>1 DEF Folds
    <3>2. CASE t # {}
      <4> DEFINE m == Max(t)
      <4>1. t \in SUBSET (0 .. N) /\ t \in SUBSET (1 .. N)
        BY <1>1
      <4>2. m \in 1 .. N /\ t \ {m} \in SUBSET (1 .. N)
        BY <1>1, <3>2, <4>1, MaxOf
      <4>3. f[t] = steps[m][f[t \ {m}]] /\ f[t \ {m}] \in Nat
        <5> HIDE DEF steps, N
        <5> QED BY <1>4, <3>2, <4>1, <4>2 DEF Folds
      <4> HIDE DEF m
      <4>4. steps[m][f[t \ {m}]] = next(f[t \ {m}], m)
        <5> HIDE DEF next, N
        <5> QED BY <4>2, <4>3
      <4> QED BY <3>2, <4>3, <4>4 DEF m
    <3> QED BY <3>1, <3>2
  <2> HIDE DEF steps, next, N
  <2> QED BY <2>1, <2>2 DEF HashFolds
<1> DEFINE h == CHOOSE h : HashFolds(h, s)
<1>6. Hash(s) = h[DOMAIN s]
  BY Zenon DEF Hash, FoldLeft, MapThenFoldSet, HashFolds
<1>7. HashFolds(h, s)
  BY <1>5
<1> HIDE DEF h
<1>8. \A t \in SUBSET (1 .. N) :
         h[t] = IF t = {} THEN HashBase ELSE ((h[t \ {Max(t)}] + s[Max(t)]) * HashPrime) % HashRange
  BY <1>1, <1>7, ZenonT(20) DEF HashFolds
<1>9. h[1 .. 0] = HashBase
  <2>1. 1 .. 0 = {}
    OBVIOUS
  <2> QED BY <1>8, <2>1
<1>10. ASSUME NEW n \in 1 .. N PROVE h[1 .. n] = next(h[1 .. n - 1], n)
  <2> HIDE DEF N
  <2> QED BY <1>1, <1>8, InitialSegments
<1> DEFINE S == {n \in Nat : n <= N => h[1 .. n] \in Nat}
           g == [n \in 0 .. N |-> h[1 .. n]]
<1>11. 0 \in S
  BY <1>9, RouterAssumption
<1>12. ASSUME NEW n \in Nat, n \in S PROVE n + 1 \in S
  <2> SUFFICES ASSUME n + 1 <= N PROVE h[1 .. n + 1] \in Nat
    OBVIOUS
  <2>1. n + 1 \in 1 .. N /\ (n + 1) - 1 = n /\ h[1 .. n] \in Nat
    BY <1>1, <1>12
  <2>2. next(h[1 .. n], n + 1) \in Nat
    BY <1>2, <2>1
  <2>3. h[1 .. n + 1] = next(h[1 .. n], n + 1)
    BY <1>10, <2>1
  <2> HIDE DEF next
  <2> QED BY <2>2, <2>3
<1>13. \A n \in 0 .. N : h[1 .. n] \in Nat
  <2> HIDE DEF S
  <2>1. Nat \subseteq S
    BY <1>11, <1>12, Induction
  <2> QED BY <2>1 DEF S
<1>14. g \in [0 .. N -> Nat] /\ g[0] = HashBase /\ Hash(s) = g[N]
  <2>1. 0 \in 0 .. N /\ N \in 0 .. N
    BY <1>1
  <2> HIDE DEF N
  <2> QED BY <1>1, <1>6, <1>9, <1>13, <2>1
<1>15. ASSUME NEW n \in 1 .. N PROVE g[n] = ((g[n - 1] + s[n]) * HashPrime) % HashRange
  <2>1. n \in 0 .. N /\ n - 1 \in 0 .. N
    BY <1>1
  <2>2. g[n] = h[1 .. n] /\ g[n - 1] = h[1 .. n - 1]
    <3> HIDE DEF N
    <3> QED BY <2>1
  <2> HIDE DEF N, g
  <2> QED BY <1>10, <2>2
<1> HIDE DEF g
<1> QED BY <1>14, <1>15

\* The hash of a sequence that is not empty is below HashRange.
LEMMA HashIs ==
    ASSUME NEW s \in Seq(Nat)
    PROVE  Hash(s) \in Nat /\ (s # <<>> => Hash(s) \in 0 .. HashRange - 1)
<1> DEFINE N == Len(s)
<1>1. N \in Nat /\ (s # <<>> => N \in 1 .. N) /\ \A n \in 1 .. N : s[n] \in Nat
  OBVIOUS
<1>2. PICK g \in [0 .. N -> Nat] : /\ g[0] = HashBase /\ Hash(s) = g[N]
                                   /\ \A n \in 1 .. N : g[n] = ((g[n - 1] + s[n]) * HashPrime) % HashRange
  BY HashFold
<1>3. Hash(s) \in Nat
  BY <1>1, <1>2
<1>4. ASSUME s # <<>> PROVE Hash(s) \in 0 .. HashRange - 1
  <2> DEFINE x == (g[N - 1] + s[N]) * HashPrime
  <2>1. N \in 1 .. N /\ N - 1 \in 0 .. N
    BY <1>1, <1>4
  <2>2. x \in Nat
    <3>1. g[N - 1] \in Nat /\ s[N] \in Nat
      <4> HIDE DEF N
      <4> QED BY <1>1, <1>2, <2>1
    <3> QED BY <3>1, RouterAssumption
  <2>3. Hash(s) = x % HashRange
    BY <1>2, <2>1
  <2> HIDE DEF x
  <2> QED BY <2>2, <2>3, RouterAssumption
<1> QED BY <1>3, <1>4

InternFolds(f, s) ==
    f = [t \in SUBSET DOMAIN s |->
            IF t = {} THEN <<>> ELSE Intern(f[t \ {Max(t)}], s[Max(t)])]

\* Strings are interned one by one.
LEMMA InternFold ==
    ASSUME NEW s \in Seq(Seq(Byte))
    PROVE  \E g \in [0 .. Len(s) -> Seq(Seq(Byte))] :
              /\ g[0] = <<>> /\ FoldLeft(Intern, <<>>, s) = g[Len(s)]
              /\ \A n \in 1 .. Len(s) : g[n] = Intern(g[n - 1], s[n])
<1> DEFINE N == Len(s)
           next(v, n) == Intern(v, s[n])
           steps == [n \in 1 .. N |-> [v \in Seq(Seq(Byte)) |-> next(v, n)]]
<1>1. N \in Nat /\ DOMAIN s = 1 .. N /\ \A n \in 1 .. N : s[n] \in Seq(Byte)
  OBVIOUS
<1>2. ASSUME NEW n \in 1 .. N, NEW v \in Seq(Seq(Byte)) PROVE next(v, n) \in Seq(Seq(Byte))
  BY <1>1, OneAppended DEF Intern
<1>3. steps \in [1 .. N -> [Seq(Seq(Byte)) -> Seq(Seq(Byte))]]
  <2> HIDE DEF next, N
  <2> QED BY <1>2
<1>4. PICK f : Folds(f, N, Seq(Seq(Byte)), <<>>, steps)
  <2> HIDE DEF steps, N
  <2> QED BY <1>1, <1>3, EmptySeq, FoldsExist
<1>5. InternFolds(f, s)
  <2>1. f = [t \in SUBSET DOMAIN s |-> f[t]]
    BY <1>1, <1>4 DEF Folds
  <2>2. ASSUME NEW t \in SUBSET DOMAIN s
        PROVE  f[t] = IF t = {} THEN <<>> ELSE Intern(f[t \ {Max(t)}], s[Max(t)])
    <3>1. CASE t = {}
      BY <1>1, <1>4, <3>1 DEF Folds
    <3>2. CASE t # {}
      <4> DEFINE m == Max(t)
      <4>1. t \in SUBSET (0 .. N) /\ t \in SUBSET (1 .. N)
        BY <1>1
      <4>2. m \in 1 .. N /\ t \ {m} \in SUBSET (1 .. N)
        BY <1>1, <3>2, <4>1, MaxOf
      <4>3. f[t] = steps[m][f[t \ {m}]] /\ f[t \ {m}] \in Seq(Seq(Byte))
        <5> HIDE DEF steps, N
        <5> QED BY <1>4, <3>2, <4>1, <4>2 DEF Folds
      <4> HIDE DEF m
      <4>4. steps[m][f[t \ {m}]] = next(f[t \ {m}], m)
        <5> HIDE DEF next, N
        <5> QED BY <4>2, <4>3
      <4> QED BY <3>2, <4>3, <4>4 DEF m
    <3> QED BY <3>1, <3>2
  <2> HIDE DEF steps, next, N
  <2> QED BY <2>1, <2>2 DEF InternFolds
<1> DEFINE h == CHOOSE h : InternFolds(h, s)
<1>6. FoldLeft(Intern, <<>>, s) = h[DOMAIN s]
  BY Zenon DEF FoldLeft, MapThenFoldSet, InternFolds
<1>7. InternFolds(h, s)
  BY <1>5
<1> HIDE DEF h
<1>8. \A t \in SUBSET (1 .. N) :
         h[t] = IF t = {} THEN <<>> ELSE Intern(h[t \ {Max(t)}], s[Max(t)])
  BY <1>1, <1>7, ZenonT(20) DEF InternFolds
<1>9. h[1 .. 0] = <<>>
  <2>1. 1 .. 0 = {}
    OBVIOUS
  <2> QED BY <1>8, <2>1
<1>10. ASSUME NEW n \in 1 .. N PROVE h[1 .. n] = next(h[1 .. n - 1], n)
  <2> HIDE DEF N
  <2> QED BY <1>1, <1>8, InitialSegments
<1> DEFINE S == {n \in Nat : n <= N => h[1 .. n] \in Seq(Seq(Byte))}
           g == [n \in 0 .. N |-> h[1 .. n]]
<1>11. 0 \in S
  BY <1>9, EmptySeq
<1>12. ASSUME NEW n \in Nat, n \in S PROVE n + 1 \in S
  <2> SUFFICES ASSUME n + 1 <= N PROVE h[1 .. n + 1] \in Seq(Seq(Byte))
    OBVIOUS
  <2>1. n + 1 \in 1 .. N /\ (n + 1) - 1 = n /\ h[1 .. n] \in Seq(Seq(Byte))
    BY <1>1, <1>12
  <2>2. next(h[1 .. n], n + 1) \in Seq(Seq(Byte))
    BY <1>2, <2>1
  <2>3. h[1 .. n + 1] = next(h[1 .. n], n + 1)
    BY <1>10, <2>1
  <2> HIDE DEF next
  <2> QED BY <2>2, <2>3
<1>13. \A n \in 0 .. N : h[1 .. n] \in Seq(Seq(Byte))
  <2> HIDE DEF S
  <2>1. Nat \subseteq S
    BY <1>11, <1>12, Induction
  <2> QED BY <2>1 DEF S
<1>14. g \in [0 .. N -> Seq(Seq(Byte))] /\ g[0] = <<>> /\ FoldLeft(Intern, <<>>, s) = g[N]
  <2>1. 0 \in 0 .. N /\ N \in 0 .. N
    BY <1>1
  <2> HIDE DEF N
  <2> QED BY <1>1, <1>6, <1>9, <1>13, <2>1
<1>15. ASSUME NEW n \in 1 .. N PROVE g[n] = Intern(g[n - 1], s[n])
  <2>1. n \in 0 .. N /\ n - 1 \in 0 .. N
    BY <1>1
  <2>2. g[n] = h[1 .. n] /\ g[n - 1] = h[1 .. n - 1]
    <3> HIDE DEF N
    <3> QED BY <2>1
  <2> HIDE DEF N, g
  <2> QED BY <1>10, <2>2
<1> HIDE DEF g
<1> QED BY <1>14, <1>15

\* A segment that is added is one that may be called for.
LEMMA AddTypes ==
    ASSUME NEW body \in Seq(Call), NEW call \in Call
    PROVE  Add(body, call) \in Seq(Call)
<1>1. ASSUME NEW s \in Seq(Byte) PROVE Literal(s) \in Call
  BY <1>1 DEF Literal, Segment, Call
<1>2. ASSUME NEW s \in Seq(Byte) PROVE AddLiteral(body, s) \in Seq(Call)
  <2>1. CASE body # <<>> /\ Last(body).op = "literal"
    <3>1. Front(body) \in Seq(Call) /\ Last(body) \in Call
      BY <2>1 DEF Front, Last
    <3>2. Last(body).cpu \o s \in Seq(Byte)
      BY <3>1, ConcatProperties DEF Call
    <3>3. Append(Front(body), Literal(Last(body).cpu \o s)) \in Seq(Call)
      BY <1>1, <3>1, <3>2, OneAppended
    <3>4. Append(body, Literal(s)) \in Seq(Call)
      BY <1>1, OneAppended
    <3> QED BY <3>3, <3>4 DEF AddLiteral
  <2>2. CASE ~(body # <<>> /\ Last(body).op = "literal")
    <3>1. Append(body, Literal(s)) \in Seq(Call)
      BY <1>1, OneAppended
    <3> QED BY <2>2, <3>1 DEF AddLiteral
  <2> QED BY <2>1, <2>2
<1>3. call.cpu \in Seq(Byte) /\ Append(body, call) \in Seq(Call)
  BY OneAppended DEF Call
<1> QED BY <1>2, <1>3 DEF Add

AddFolds(f, s) ==
    f = [t \in SUBSET DOMAIN s |->
            IF t = {} THEN <<>> ELSE Add(f[t \ {Max(t)}], s[Max(t)])]

\* The calls are added one by one.
LEMMA AddFold ==
    ASSUME NEW s \in Seq(Call)
    PROVE  \E g \in [0 .. Len(s) -> Seq(Call)] :
              /\ g[0] = <<>> /\ FoldLeft(Add, <<>>, s) = g[Len(s)]
              /\ \A n \in 1 .. Len(s) : g[n] = Add(g[n - 1], s[n])
<1> DEFINE N == Len(s)
           next(v, n) == Add(v, s[n])
           steps == [n \in 1 .. N |-> [v \in Seq(Call) |-> next(v, n)]]
<1>1. N \in Nat /\ DOMAIN s = 1 .. N /\ \A n \in 1 .. N : s[n] \in Call
  OBVIOUS
<1>2. ASSUME NEW n \in 1 .. N, NEW v \in Seq(Call) PROVE next(v, n) \in Seq(Call)
  BY <1>1, AddTypes
<1>3. steps \in [1 .. N -> [Seq(Call) -> Seq(Call)]]
  <2> HIDE DEF next, N
  <2> QED BY <1>2
<1>4. PICK f : Folds(f, N, Seq(Call), <<>>, steps)
  <2> HIDE DEF steps, N
  <2> QED BY <1>1, <1>3, EmptySeq, FoldsExist
<1>5. AddFolds(f, s)
  <2>1. f = [t \in SUBSET DOMAIN s |-> f[t]]
    BY <1>1, <1>4 DEF Folds
  <2>2. ASSUME NEW t \in SUBSET DOMAIN s
        PROVE  f[t] = IF t = {} THEN <<>> ELSE Add(f[t \ {Max(t)}], s[Max(t)])
    <3>1. CASE t = {}
      BY <1>1, <1>4, <3>1 DEF Folds
    <3>2. CASE t # {}
      <4> DEFINE m == Max(t)
      <4>1. t \in SUBSET (0 .. N) /\ t \in SUBSET (1 .. N)
        BY <1>1
      <4>2. m \in 1 .. N /\ t \ {m} \in SUBSET (1 .. N)
        BY <1>1, <3>2, <4>1, MaxOf
      <4>3. f[t] = steps[m][f[t \ {m}]] /\ f[t \ {m}] \in Seq(Call)
        <5> HIDE DEF steps, N
        <5> QED BY <1>4, <3>2, <4>1, <4>2 DEF Folds
      <4> HIDE DEF m
      <4>4. steps[m][f[t \ {m}]] = next(f[t \ {m}], m)
        <5> HIDE DEF next, N
        <5> QED BY <4>2, <4>3
      <4> QED BY <3>2, <4>3, <4>4 DEF m
    <3> QED BY <3>1, <3>2
  <2> HIDE DEF steps, next, N
  <2> QED BY <2>1, <2>2 DEF AddFolds
<1> DEFINE h == CHOOSE h : AddFolds(h, s)
<1>6. FoldLeft(Add, <<>>, s) = h[DOMAIN s]
  BY Zenon DEF FoldLeft, MapThenFoldSet, AddFolds
<1>7. AddFolds(h, s)
  BY <1>5
<1> HIDE DEF h
<1>8. \A t \in SUBSET (1 .. N) :
         h[t] = IF t = {} THEN <<>> ELSE Add(h[t \ {Max(t)}], s[Max(t)])
  BY <1>1, <1>7, ZenonT(20) DEF AddFolds
<1>9. h[1 .. 0] = <<>>
  <2>1. 1 .. 0 = {}
    OBVIOUS
  <2> QED BY <1>8, <2>1
<1>10. ASSUME NEW n \in 1 .. N PROVE h[1 .. n] = next(h[1 .. n - 1], n)
  <2> HIDE DEF N
  <2> QED BY <1>1, <1>8, InitialSegments
<1> DEFINE S == {n \in Nat : n <= N => h[1 .. n] \in Seq(Call)}
           g == [n \in 0 .. N |-> h[1 .. n]]
<1>11. 0 \in S
  BY <1>9, EmptySeq
<1>12. ASSUME NEW n \in Nat, n \in S PROVE n + 1 \in S
  <2> SUFFICES ASSUME n + 1 <= N PROVE h[1 .. n + 1] \in Seq(Call)
    OBVIOUS
  <2>1. n + 1 \in 1 .. N /\ (n + 1) - 1 = n /\ h[1 .. n] \in Seq(Call)
    BY <1>1, <1>12
  <2>2. next(h[1 .. n], n + 1) \in Seq(Call)
    BY <1>2, <2>1
  <2>3. h[1 .. n + 1] = next(h[1 .. n], n + 1)
    BY <1>10, <2>1
  <2> HIDE DEF next
  <2> QED BY <2>2, <2>3
<1>13. \A n \in 0 .. N : h[1 .. n] \in Seq(Call)
  <2> HIDE DEF S
  <2>1. Nat \subseteq S
    BY <1>11, <1>12, Induction
  <2> QED BY <2>1 DEF S
<1>14. g \in [0 .. N -> Seq(Call)] /\ g[0] = <<>> /\ FoldLeft(Add, <<>>, s) = g[N]
  <2>1. 0 \in 0 .. N /\ N \in 0 .. N
    BY <1>1
  <2> HIDE DEF N
  <2> QED BY <1>1, <1>6, <1>9, <1>13, <2>1
<1>15. ASSUME NEW n \in 1 .. N PROVE g[n] = Add(g[n - 1], s[n])
  <2>1. n \in 0 .. N /\ n - 1 \in 0 .. N
    BY <1>1
  <2>2. g[n] = h[1 .. n] /\ g[n - 1] = h[1 .. n - 1]
    <3> HIDE DEF N
    <3> QED BY <2>1
  <2> HIDE DEF N, g
  <2> QED BY <1>10, <2>2
<1> HIDE DEF g
<1> QED BY <1>14, <1>15

-----------------------------------------------------------------------------
(* What is said: merging literals and leaving out what says nothing does   *)
(* not change it.                                                          *)

PartsSet == [kind : {"bad", "not_allowed", "get"}, path : Seq(Byte), query : Seq(Byte), hash : Nat]

Wording(call, b) == IF b = "gpu" THEN call.gpu ELSE call.cpu
Piece(call, parts, len, b) == Said(call, Wording(call, b), parts, len, b)
Pieces(calls, parts, len, b) == [i \in DOMAIN calls |-> Piece(calls[i], parts, len, b)]
SayAll(calls, parts, len, b) == FlattenSeq(Pieces(calls, parts, len, b))

\* What a path or query segment with a limit copies.
LEMMA AtMostIs ==
    ASSUME NEW s \in Seq(Byte), NEW n \in Nat
    PROVE  /\ AtMost(s, n) \in Seq(Byte) /\ Len(AtMost(s, n)) = Min({Len(s), n})
           /\ Min({Len(s), n}) \in Nat /\ Min({Len(s), n}) <= n /\ Min({Len(s), n}) <= Len(s)
           /\ \A i \in 1 .. Min({Len(s), n}) : AtMost(s, n)[i] = s[i]
           /\ n = 0 => AtMost(s, n) = <<>>
<1> DEFINE m == Min({Len(s), n})
<1>1. Len(s) \in Nat
  OBVIOUS
<1>2. m \in Nat /\ m <= n /\ m <= Len(s) /\ (n = 0 => m = 0)
  BY <1>1, MinTwo
<1> HIDE DEF m
<1>3. /\ SubSeq(s, 1, m) \in Seq(Byte) /\ Len(SubSeq(s, 1, m)) = m
      /\ \A i \in 1 .. m : SubSeq(s, 1, m)[i] = s[i]
      /\ m = 0 => SubSeq(s, 1, m) = <<>>
  BY <1>2
<1> QED BY <1>2, <1>3 DEF AtMost, m

\* The names of the backends have equal length.
LEMMA NameIs == \A b : Name(b) \in Seq(Byte) /\ Len(Name(b)) = 1
<1>1. 103 \in Byte /\ 99 \in Byte
  BY DEF Byte
<1> QED BY <1>1 DEF Name

\* What a call says is a string ...
LEMMA PieceTypes ==
    ASSUME NEW call \in Call, NEW parts \in PartsSet, NEW len \in Nat, NEW b
    PROVE  Piece(call, parts, len, b) \in Seq(Byte)
<1>1. /\ call.op \in {"literal", "path", "query", "backend", "request_bytes", "path_hash", "variant"}
      /\ call.n \in Nat /\ call.cpu \in Seq(Byte) /\ call.gpu \in Seq(Byte)
  BY DEF Call
<1>2. parts.path \in Seq(Byte) /\ parts.query \in Seq(Byte) /\ parts.hash \in Nat
  BY DEF PartsSet
<1>3. Digits[len] \in Seq(Byte) /\ Digits[parts.hash] \in Seq(Byte)
  BY <1>2, DigitsAre
<1>4. AtMost(parts.path, call.n) \in Seq(Byte) /\ AtMost(parts.query, call.n) \in Seq(Byte)
  BY <1>1, <1>2, AtMostIs
<1> QED BY <1>1, <1>3, <1>4, NameIs DEF Piece, Said, Wording

\* ... and so is what all of them say.
LEMMA PiecesTypes ==
    ASSUME NEW calls \in Seq(Call), NEW parts \in PartsSet, NEW len \in Nat, NEW b
    PROVE  /\ Pieces(calls, parts, len, b) \in Seq(Seq(Byte))
           /\ Len(Pieces(calls, parts, len, b)) = Len(calls)
           /\ SayAll(calls, parts, len, b) \in Seq(Byte)
<1>1. DOMAIN calls = 1 .. Len(calls) /\ Len(calls) \in Nat /\ \A i \in 1 .. Len(calls) : calls[i] \in Call
  OBVIOUS
<1>2. \A i \in 1 .. Len(calls) : Piece(calls[i], parts, len, b) \in Seq(Byte)
  BY <1>1, PieceTypes
<1> DEFINE P(i) == Piece(calls[i], parts, len, b)
           pieces == [i \in 1 .. Len(calls) |-> P(i)]
<1>3. pieces \in Seq(Seq(Byte)) /\ Len(pieces) = Len(calls)
  <2>1. \A i \in 1 .. Len(calls) : P(i) \in Seq(Byte)
    BY <1>2
  <2> HIDE DEF P
  <2> QED BY <1>1, <2>1
<1> HIDE DEF pieces
<1>4. FlattenSeq(pieces) \in Seq(Byte)
  <2>1. <<>> \in Seq(Byte)
    OBVIOUS
  <2> QED BY <1>3, <2>1, FlattenAppend
<1> QED BY <1>1, <1>3, <1>4 DEF SayAll, Pieces, pieces

\* No call says nothing.
LEMMA SayEmpty ==
    ASSUME NEW parts, NEW len, NEW b
    PROVE  SayAll(<<>>, parts, len, b) = <<>>
<1>1. Pieces(<<>>, parts, len, b) = <<>>
  BY DEF Pieces
<1>2. FlattenSeq(<<>>) = <<>>
  BY DEF FlattenSeq
<1> QED BY <1>1, <1>2 DEF SayAll

\* One more call says its piece after the others.
LEMMA SayAppend ==
    ASSUME NEW calls \in Seq(Call), NEW call \in Call, NEW parts \in PartsSet, NEW len \in Nat, NEW b
    PROVE  SayAll(Append(calls, call), parts, len, b)
              = SayAll(calls, parts, len, b) \o Piece(call, parts, len, b)
<1> DEFINE P(c) == Piece(c, parts, len, b)
           more == Append(calls, call)
           old == Pieces(calls, parts, len, b)
           new == Pieces(more, parts, len, b)
<1>1. /\ more \in Seq(Call) /\ DOMAIN more = 1 .. Len(calls) + 1 /\ DOMAIN calls = 1 .. Len(calls)
      /\ Len(calls) \in Nat /\ more[Len(calls) + 1] = call
      /\ \A i \in 1 .. Len(calls) : more[i] = calls[i]
  OBVIOUS
<1>2. old \in Seq(Seq(Byte)) /\ Len(old) = Len(calls) /\ P(call) \in Seq(Byte)
  BY PiecesTypes, PieceTypes
<1>3. new \in Seq(Seq(Byte)) /\ Len(new) = Len(calls) + 1
  <2>1. Len(more) = Len(calls) + 1
    OBVIOUS
  <2> HIDE DEF more
  <2> QED BY <1>1, <2>1, PiecesTypes
<1>4. \A i \in 1 .. Len(calls) + 1 : new[i] = P(more[i])
  <2> HIDE DEF P, more
  <2> QED BY <1>1 DEF Pieces, P
<1>5. \A i \in 1 .. Len(calls) : old[i] = P(calls[i])
  <2> HIDE DEF P
  <2> QED BY <1>1 DEF Pieces, P
<1> HIDE DEF old, new, P, more
<1>6. new = Append(old, P(call))
  <2>1. /\ Append(old, P(call)) \in Seq(Seq(Byte)) /\ Len(Append(old, P(call))) = Len(calls) + 1
        /\ Append(old, P(call))[Len(calls) + 1] = P(call)
        /\ \A i \in 1 .. Len(calls) : Append(old, P(call))[i] = old[i]
    BY <1>2
  <2>2. ASSUME NEW i \in 1 .. Len(new) PROVE new[i] = Append(old, P(call))[i]
    <3>1. i \in 1 .. Len(calls) \/ i = Len(calls) + 1
      BY <1>1, <1>3
    <3> QED BY <1>1, <1>3, <1>4, <1>5, <2>1, <3>1, Zenon
  <2> QED BY <1>3, <2>1, <2>2, SeqEqual
<1>7. FlattenSeq(Append(old, P(call))) = FlattenSeq(old) \o P(call)
  BY <1>2, FlattenAppend
<1> QED BY <1>6, <1>7 DEF SayAll, P, more, old, new

\* A literal that is merged says what it would have said on its own.
LEMMA SayLiteral ==
    ASSUME NEW calls \in Seq(Call), NEW s \in Seq(Byte), NEW parts \in PartsSet, NEW len \in Nat, NEW b
    PROVE  SayAll(AddLiteral(calls, s), parts, len, b) = SayAll(calls, parts, len, b) \o s
<1> DEFINE Say(c) == SayAll(c, parts, len, b)
<1>0. Say(calls) \in Seq(Byte)
  BY PiecesTypes
<1>1. ASSUME NEW t \in Seq(Byte) PROVE Literal(t) \in Call /\ Piece(Literal(t), parts, len, b) = t
  BY <1>1 DEF Literal, Segment, Call, Piece, Said, Wording
<1>2. CASE s = <<>>
  <2>1. AddLiteral(calls, s) = calls
    BY <1>2 DEF AddLiteral
  <2> QED BY <1>0, <1>2, <2>1, ConcatEmptySeq
<1>3. CASE s # <<>> /\ calls # <<>> /\ Last(calls).op = "literal"
  <2> DEFINE front == Front(calls)
             last == Last(calls)
  <2>1. front \in Seq(Call) /\ last \in Call /\ calls = Append(front, last)
    BY <1>3 DEF Front, Last
  <2>2. last.op = "literal" /\ last.cpu \in Seq(Byte) /\ last.gpu = last.cpu
    BY <1>3, <2>1 DEF Call
  <2>3. AddLiteral(calls, s) = Append(front, Literal(last.cpu \o s))
    BY <1>3 DEF AddLiteral
  <2> HIDE DEF front, last
  <2>4. Piece(last, parts, len, b) = last.cpu
    BY <2>2 DEF Piece, Said, Wording
  <2>5. last.cpu \o s \in Seq(Byte)
    BY <2>2, ConcatProperties
  <2> DEFINE merged == Literal(last.cpu \o s)
  <2>10. merged \in Call /\ Piece(merged, parts, len, b) = last.cpu \o s
    BY <1>1, <2>5
  <2> HIDE DEF merged
  <2>11. Say(Append(front, merged)) = Say(front) \o Piece(merged, parts, len, b)
    <3>1. front \in Seq(Call) /\ merged \in Call
      BY <2>1, <2>10
    <3> QED BY ONLY <3>1, parts \in PartsSet, len \in Nat, SayAppend
  <2>12. Say(Append(front, last)) = Say(front) \o Piece(last, parts, len, b)
    BY <2>1, SayAppend
  <2> HIDE DEF Say
  <2>6. Say(AddLiteral(calls, s)) = Say(front) \o (last.cpu \o s)
    BY <2>3, <2>10, <2>11 DEF merged
  <2>7. Say(calls) = Say(front) \o last.cpu
    BY <2>1, <2>4, <2>12
  <2>8. Say(front) \in Seq(Byte)
    BY <2>1, PiecesTypes DEF Say
  <2>9. (Say(front) \o last.cpu) \o s = Say(front) \o (last.cpu \o s)
    <3> DEFINE t == last.cpu
               said == Say(front)
    <3>1. t \in Seq(Byte) /\ said \in Seq(Byte)
      BY <2>2, <2>8
    <3> HIDE DEF t, said
    <3>2. (said \o t) \o s = said \o (t \o s)
      BY <3>1, ConcatAssociative
    <3> QED BY <3>2 DEF t, said
  <2> QED BY <2>6, <2>7, <2>9 DEF Say
<1>4. CASE s # <<>> /\ ~(calls # <<>> /\ Last(calls).op = "literal")
  <2>1. AddLiteral(calls, s) = Append(calls, Literal(s))
    BY <1>4 DEF AddLiteral
  <2> DEFINE own == Literal(s)
  <2>2. own \in Call /\ Piece(own, parts, len, b) = s
    BY <1>1
  <2> HIDE DEF own
  <2>3. Say(Append(calls, own)) = Say(calls) \o Piece(own, parts, len, b)
    BY <2>2, SayAppend
  <2> QED BY <2>1, <2>2, <2>3 DEF own
<1> QED BY <1>2, <1>3, <1>4

\* Whether Add merges, drops or appends a call, its piece is said last.
LEMMA SayAdd ==
    ASSUME NEW calls \in Seq(Call), NEW call \in Call, NEW parts \in PartsSet, NEW len \in Nat, NEW b
    PROVE  SayAll(Add(calls, call), parts, len, b)
              = SayAll(calls, parts, len, b) \o Piece(call, parts, len, b)
<1> DEFINE Say(c) == SayAll(c, parts, len, b)
<1>0. Say(calls) \in Seq(Byte) /\ call.cpu \in Seq(Byte) /\ call.n \in Nat
  BY PiecesTypes DEF Call
<1>1. CASE call.op = "literal" \/ (call.op = "variant" /\ call.cpu = call.gpu)
  <2>1. call.cpu = call.gpu
    BY <1>1 DEF Call
  <2>2. Piece(call, parts, len, b) = call.cpu
    BY <1>1, <2>1 DEF Piece, Said, Wording
  <2>3. Add(calls, call) = AddLiteral(calls, call.cpu)
    BY <1>1 DEF Add
  <2> DEFINE t == call.cpu
  <2>4. t \in Seq(Byte)
    BY <1>0
  <2> HIDE DEF t
  <2>5. Say(AddLiteral(calls, t)) = Say(calls) \o t
    BY <2>4, SayLiteral
  <2> QED BY <2>2, <2>3, <2>5 DEF t
<1>2. CASE call.op \in {"path", "query"} /\ call.n = 0
  <2>1. Add(calls, call) = calls
    BY <1>2 DEF Add
  <2>2. parts.path \in Seq(Byte) /\ parts.query \in Seq(Byte)
    BY DEF PartsSet
  <2>3. AtMost(parts.path, 0) = <<>> /\ AtMost(parts.query, 0) = <<>>
    BY <2>2, AtMostIs
  <2>4. Piece(call, parts, len, b) = <<>>
    BY <1>2, <2>3 DEF Piece, Said
  <2> QED BY <1>0, <2>1, <2>4, ConcatEmptySeq
<1>3. CASE ~(\/ call.op = "literal" \/ (call.op = "variant" /\ call.cpu = call.gpu)
             \/ call.op \in {"path", "query"} /\ call.n = 0)
  <2>1. Add(calls, call) = Append(calls, call)
    BY <1>3 DEF Add
  <2> QED BY <2>1, SayAppend
<1> QED BY <1>1, <1>2, <1>3

\* The segments of a body are calls.
LEMMA BodyTypes == ASSUME NEW calls \in Seq(Call) PROVE Body(calls) \in Seq(Call)
<1>1. PICK g \in [0 .. Len(calls) -> Seq(Call)] : Body(calls) = g[Len(calls)]
  BY AddFold DEF Body
<1>2. Len(calls) \in 0 .. Len(calls)
  OBVIOUS
<1> QED BY <1>1, <1>2

\* The segments of a body say what the calls that built it say.
LEMMA SayBody ==
    ASSUME NEW calls \in Seq(Call), NEW parts \in PartsSet, NEW len \in Nat, NEW b
    PROVE  SayAll(Body(calls), parts, len, b) = SayAll(calls, parts, len, b)
<1> DEFINE N == Len(calls)
           Say(c) == SayAll(c, parts, len, b)
           P(n) == Piece(calls[n], parts, len, b)
           pieces == Pieces(calls, parts, len, b)
<1>1. N \in Nat /\ DOMAIN calls = 1 .. N /\ \A n \in 1 .. N : calls[n] \in Call
  OBVIOUS
<1>2. PICK g \in [0 .. N -> Seq(Call)] :
           /\ g[0] = <<>> /\ FoldLeft(Add, <<>>, calls) = g[N]
           /\ \A n \in 1 .. N : g[n] = Add(g[n - 1], calls[n])
  BY AddFold
<1>3. pieces \in Seq(Seq(Byte)) /\ Len(pieces) = N /\ \A n \in 1 .. N : pieces[n] = P(n) /\ P(n) \in Seq(Byte)
  <2>1. pieces \in Seq(Seq(Byte)) /\ Len(pieces) = N
    BY PiecesTypes
  <2>2. \A n \in 1 .. N : P(n) \in Seq(Byte)
    BY <1>1, PieceTypes
  <2>3. \A n \in 1 .. N : pieces[n] = P(n)
    BY <1>1 DEF Pieces
  <2> HIDE DEF P, pieces
  <2> QED BY <1>1, <2>1, <2>2, <2>3
<1> HIDE DEF pieces
<1>4. PICK f : /\ \A n \in 1 .. Len(pieces) : f[n] = IF n = 1 THEN pieces[n] ELSE f[n - 1] \o pieces[n]
               /\ FlattenSeq(pieces) = IF Len(pieces) = 0 THEN pieces ELSE f[Len(pieces)]
  BY <1>3, FlattenIs
<1>5. \A n \in 1 .. N : Say(g[n]) = Say(g[n - 1]) \o P(n)
  <2> SUFFICES ASSUME NEW n \in 1 .. N PROVE Say(g[n]) = Say(g[n - 1]) \o P(n)
    OBVIOUS
  <2>1. n - 1 \in 0 .. N
    BY <1>1
  <2>2. g[n - 1] \in Seq(Call) /\ g[n] = Add(g[n - 1], calls[n]) /\ calls[n] \in Call
    <3> HIDE DEF N
    <3> QED BY <1>1, <1>2, <2>1
  <2> DEFINE before == g[n - 1]
             call == calls[n]
  <2>3. before \in Seq(Call) /\ call \in Call /\ g[n] = Add(before, call)
    BY <2>2
  <2> HIDE DEF before, call
  <2>4. Say(Add(before, call)) = Say(before) \o Piece(call, parts, len, b)
    BY <2>3, SayAdd
  <2> QED BY <2>3, <2>4 DEF before, call
<1>6. Say(g[0]) = <<>>
  BY <1>2, SayEmpty
<1> DEFINE S == {n \in Nat : n + 1 <= N => Say(g[n + 1]) = f[n + 1]}
<1> HIDE DEF N, Say, P
<1>7. 0 \in S
  <2> SUFFICES ASSUME 1 <= N PROVE Say(g[1]) = f[1]
    OBVIOUS
  <2>1. 1 \in 1 .. N /\ 1 - 1 = 0
    BY <1>1
  <2>2. f[1] = P(1) /\ P(1) \in Seq(Byte)
    BY <1>3, <1>4, <2>1
  <2>3. Say(g[1]) = <<>> \o P(1)
    BY <1>5, <1>6, <2>1
  <2> QED BY <2>2, <2>3, ConcatEmptySeq
<1>8. ASSUME NEW n \in Nat, n \in S PROVE n + 1 \in S
  <2> DEFINE m == (n + 1) + 1
  <2> SUFFICES ASSUME m <= N PROVE Say(g[m]) = f[m]
    OBVIOUS
  <2>1. m \in 1 .. N /\ m - 1 = n + 1 /\ m # 1 /\ n + 1 <= N
    BY <1>1
  <2>2. Say(g[m - 1]) = f[m - 1]
    BY <1>8, <2>1
  <2> HIDE DEF m, S
  <2>3. f[m] = f[m - 1] \o P(m)
    BY <1>3, <1>4, <2>1
  <2> QED BY <1>5, <2>1, <2>2, <2>3
<1>9. Nat \subseteq S
  <2> HIDE DEF S
  <2> QED BY <1>7, <1>8, Induction
<1>10. Say(calls) = FlattenSeq(pieces)
  BY DEF Say, SayAll, pieces, P
<1>11. CASE N = 0
  <2>1. pieces = <<>>
    BY <1>3, <1>11
  <2> QED BY <1>2, <1>3, <1>4, <1>6, <1>10, <1>11, <2>1 DEF Body, Say
<1>12. CASE N # 0
  <2>1. N - 1 \in Nat /\ (N - 1) + 1 = N
    BY <1>1, <1>12
  <2>2. N - 1 \in S
    BY <1>9, <2>1
  <2>3. Say(g[N]) = f[N]
    BY <1>1, <2>1, <2>2
  <2> QED BY <1>2, <1>3, <1>4, <1>10, <1>12, <2>3 DEF Body, Say
<1> QED BY <1>11, <1>12

-----------------------------------------------------------------------------
(* The table of strings.                                                   *)

\* t has the text x, under the id that is given for it.
Knows(t, x) == Id(t, x) \in 1 .. Len(t) /\ t[Id(t, x)] = x

\* An id is looked up for a string that is in the table, and finds it.
LEMMA IdOf ==
    ASSUME NEW A, NEW t \in Seq(A), NEW x, Contains(t, x)
    PROVE  Knows(t, x)
<1> DEFINE I == {i \in 1 .. Len(t) : t[i] = x}
<1>1. I \subseteq Nat /\ I # {}
  <2>1. Len(t) \in Nat
    OBVIOUS
  <2> QED BY <2>1 DEF Contains
<1>2. Min(I) \in I
  <2> HIDE DEF I
  <2> QED BY <1>1, MinOf
<1>3. Id(t, x) = Min(I)
  BY <1>1, Zenon DEF Id, SelectInSeq
<1> QED BY <1>2, <1>3 DEF Knows

\* Interning adds the string and loses none.
LEMMA InternKeeps ==
    ASSUME NEW t \in Seq(Seq(Byte)), NEW x \in Seq(Byte)
    PROVE  /\ Intern(t, x) \in Seq(Seq(Byte)) /\ Contains(Intern(t, x), x)
           /\ \A y : Contains(t, y) => Contains(Intern(t, x), y)
<1>1. /\ Append(t, x) \in Seq(Seq(Byte)) /\ Len(Append(t, x)) = Len(t) + 1 /\ Len(t) \in Nat
      /\ Append(t, x)[Len(t) + 1] = x /\ \A i \in 1 .. Len(t) : Append(t, x)[i] = t[i]
  OBVIOUS
<1>2. Contains(Append(t, x), x)
  BY <1>1 DEF Contains
<1>3. \A y : Contains(t, y) => Contains(Append(t, x), y)
  BY <1>1 DEF Contains
<1> QED BY <1>1, <1>2, <1>3 DEF Intern

\* Every string that was interned is in the table.
LEMMA AllInterned ==
    ASSUME NEW s \in Seq(Seq(Byte))
    PROVE  /\ FoldLeft(Intern, <<>>, s) \in Seq(Seq(Byte))
           /\ \A x \in Seq(Byte) : Contains(s, x) => Knows(FoldLeft(Intern, <<>>, s), x)
<1> DEFINE N == Len(s)
           T == Seq(Seq(Byte))
           t == FoldLeft(Intern, <<>>, s)
<1>1. N \in Nat /\ \A n \in 1 .. N : s[n] \in Seq(Byte)
  OBVIOUS
<1>2. PICK g \in [0 .. N -> T] : /\ g[0] = <<>> /\ t = g[N]
                                 /\ \A n \in 1 .. N : g[n] = Intern(g[n - 1], s[n])
  BY InternFold
<1> DEFINE S == {n \in Nat : n <= N => \A k \in 1 .. n : Contains(g[n], s[k])}
<1>3. 0 \in S
  OBVIOUS
<1>4. ASSUME NEW n \in Nat, n \in S PROVE n + 1 \in S
  <2> SUFFICES ASSUME n + 1 <= N, NEW k \in 1 .. n + 1 PROVE Contains(g[n + 1], s[k])
    OBVIOUS
  <2>1. n + 1 \in 1 .. N /\ (n + 1) - 1 = n /\ n \in 0 .. N
    BY <1>1
  <2> DEFINE before == g[n]
             x == s[n + 1]
  <2>2. before \in Seq(Seq(Byte)) /\ x \in Seq(Byte) /\ g[n + 1] = Intern(before, x)
    BY <1>1, <1>2, <2>1
  <2> HIDE DEF before, x
  <2>5. /\ Contains(Intern(before, x), x)
        /\ \A y : Contains(before, y) => Contains(Intern(before, x), y)
    BY <2>2, InternKeeps
  <2>3. CASE k = n + 1
    BY <2>2, <2>3, <2>5 DEF x
  <2>4. CASE k # n + 1
    <3>1. k \in 1 .. n /\ n <= N
      BY <2>1, <2>4
    <3>2. Contains(before, s[k])
      BY <1>4, <3>1 DEF before
    <3> QED BY <2>2, <2>5, <3>2
  <2> QED BY <2>3, <2>4
<1>5. Nat \subseteq S
  <2> HIDE DEF S
  <2> QED BY <1>3, <1>4, Induction
<1>6. \A k \in 1 .. N : Contains(t, s[k])
  <2>1. \A k \in 1 .. N : Contains(g[N], s[k])
    <3>1. N \in S
      BY <1>1, <1>5
    <3> HIDE DEF N
    <3> QED BY <1>1, <3>1
  <2> HIDE DEF t, N, T
  <2> QED BY <1>2, <2>1
<1>7. t \in T
  <2>1. N \in 0 .. N
    BY <1>1
  <2> HIDE DEF N, T, t
  <2> QED BY <1>2, <2>1
<1>8. ASSUME NEW x \in Seq(Byte), Contains(s, x) PROVE Knows(t, x)
  <2>1. Contains(t, x)
    BY <1>6, <1>8 DEF Contains
  <2> HIDE DEF t
  <2> QED BY <1>7, <2>1, IdOf
<1> QED BY <1>7, <1>8

RouteDeclaration == [path : Seq(Byte), response : ResponseDeclaration]

\* The parts of a declared router.
LEMMA RouterIs ==
    ASSUME NEW R \in RouterDeclaration
    PROVE  /\ R.routes \in Seq(RouteDeclaration) /\ Len(R.routes) \in Nat
           /\ DOMAIN R.routes = 1 .. Len(R.routes)
           /\ \A i \in 1 .. Len(R.routes) : /\ R.routes[i] \in RouteDeclaration
                                            /\ R.routes[i].path \in Seq(Byte)
                                            /\ R.routes[i].response \in ResponseDeclaration
           /\ R.fallback \in ResponseDeclaration /\ R.bad \in ResponseDeclaration
           /\ R.notAllowed \in ResponseDeclaration
<1>1. /\ R.routes \in Seq(RouteDeclaration) /\ R.fallback \in ResponseDeclaration
      /\ R.bad \in ResponseDeclaration /\ R.notAllowed \in ResponseDeclaration
  BY DEF RouterDeclaration, RouteDeclaration
<1> DEFINE s == R.routes
<1>2. s \in Seq(RouteDeclaration)
  BY <1>1
<1> HIDE DEF s
<1>3. Len(s) \in Nat /\ DOMAIN s = 1 .. Len(s) /\ \A i \in 1 .. Len(s) : s[i] \in RouteDeclaration
  BY <1>2
<1>4. \A i \in 1 .. Len(s) : s[i].path \in Seq(Byte) /\ s[i].response \in ResponseDeclaration
  BY <1>3 DEF RouteDeclaration
<1> QED BY <1>1, <1>2, <1>3, <1>4 DEF s

\* The responses of a router: of its routes, then the three others.
LEMMA ResponsesAre ==
    ASSUME NEW R \in RouterDeclaration
    PROVE  /\ Responses(R) \in Seq(ResponseDeclaration)
           /\ Len(Responses(R)) = Len(R.routes) + 3
           /\ \A i \in 1 .. Len(R.routes) : Responses(R)[i] = R.routes[i].response
           /\ Responses(R)[Len(R.routes) + 1] = R.fallback
           /\ Responses(R)[Len(R.routes) + 2] = R.bad
           /\ Responses(R)[Len(R.routes) + 3] = R.notAllowed
<1> DEFINE D == ResponseDeclaration
           n == Len(R.routes)
           s == [i \in 1 .. n |-> R.routes[i].response]
           t == <<R.fallback, R.bad, R.notAllowed>>
<1>1. /\ n \in Nat /\ DOMAIN R.routes = 1 .. n /\ \A i \in 1 .. n : R.routes[i].response \in D
      /\ R.fallback \in D /\ R.bad \in D /\ R.notAllowed \in D
  BY RouterIs
<1>2. s \in Seq(D) /\ Len(s) = n /\ \A i \in 1 .. n : s[i] = R.routes[i].response
  <2> HIDE DEF n, D
  <2> QED BY <1>1
<1>3. t \in Seq(D) /\ Len(t) = 3 /\ t[1] = R.fallback /\ t[2] = R.bad /\ t[3] = R.notAllowed
  <2> HIDE DEF D
  <2> QED BY <1>1
<1>4. Responses(R) = s \o t
  BY <1>1, Zenon DEF Responses
<1> HIDE DEF s, t, D
<1>5. /\ s \o t \in Seq(D) /\ Len(s \o t) = n + 3
      /\ \A i \in 1 .. n : (s \o t)[i] = s[i]
      /\ \A i \in 1 .. 3 : (s \o t)[n + i] = t[i]
  <2> HIDE DEF n
  <2>1. s \o t \in Seq(D) /\ Len(s \o t) = Len(s) + Len(t)
    BY <1>2, <1>3, ConcatProperties
  <2>2. \A i \in 1 .. Len(s) : (s \o t)[i] = s[i]
    BY <1>2, <1>3
  <2>3. \A i \in 1 .. Len(t) : (s \o t)[Len(s) + i] = t[i]
    <3>1. s \in Seq(D) /\ t \in Seq(D)
      BY <1>2, <1>3
    <3> QED BY ONLY <3>1
  <2> QED BY <1>1, <1>2, <1>3, <2>1, <2>2, <2>3
<1>6. (s \o t)[n + 1] = t[1] /\ (s \o t)[n + 2] = t[2] /\ (s \o t)[n + 3] = t[3]
  <2>1. 1 \in 1 .. 3 /\ 2 \in 1 .. 3 /\ 3 \in 1 .. 3
    OBVIOUS
  <2> QED BY <1>5, <2>1, Zenon
<1> QED BY <1>2, <1>3, <1>4, <1>5, <1>6 DEF D

-----------------------------------------------------------------------------
\* A segment with a text of its own.
Worded(seg) == seg.op \in {"literal", "variant"}

\* All texts of a response are among s.
Mentions(s, r) ==
    /\ Contains(s, r.reason) /\ Contains(s, r.contentType)
    /\ \A i \in DOMAIN Body(r.calls) :
          Worded(Body(r.calls)[i]) => Contains(s, Body(r.calls)[i].cpu) /\ Contains(s, Body(r.calls)[i].gpu)

\* The parts of a call.
LEMMA CallIs ==
    ASSUME NEW c \in Call
    PROVE  /\ c.op \in {"literal", "path", "query", "backend", "request_bytes", "path_hash", "variant"}
           /\ c.n \in Nat /\ c.cpu \in Seq(Byte) /\ c.gpu \in Seq(Byte)
  BY DEF Call

\* The parts of a declared response.
LEMMA ResponseIs ==
    ASSUME NEW r \in ResponseDeclaration
    PROVE  /\ r.status \in Nat /\ r.reason \in Seq(Byte) /\ r.contentType \in Seq(Byte)
           /\ r.calls \in Seq(Call)
           /\ Body(r.calls) \in Seq(Call) /\ Len(Body(r.calls)) \in Nat
           /\ DOMAIN Body(r.calls) = 1 .. Len(Body(r.calls))
           /\ \A i \in 1 .. Len(Body(r.calls)) : Body(r.calls)[i] \in Call
<1>1. r.status \in Nat /\ r.reason \in Seq(Byte) /\ r.contentType \in Seq(Byte) /\ r.calls \in Seq(Call)
  BY DEF ResponseDeclaration
<1> DEFINE s == Body(r.calls)
<1>2. s \in Seq(Call)
  BY <1>1, BodyTypes
<1> HIDE DEF s
<1>3. Len(s) \in Nat /\ DOMAIN s = 1 .. Len(s) /\ \A i \in 1 .. Len(s) : s[i] \in Call
  BY <1>2
<1> QED BY <1>1, <1>2, <1>3 DEF s

\* All strings a response needs are listed for interning.
LEMMA StringsOfMention ==
    ASSUME NEW r \in ResponseDeclaration
    PROVE  StringsOf(r) \in Seq(Seq(Byte)) /\ Mentions(StringsOf(r), r)
<1> DEFINE T == Seq(Byte)
           body == Body(r.calls)
           N == Len(body)
           Texts(seg) == IF seg.op \in {"literal", "variant"} THEN <<seg.cpu, seg.gpu>> ELSE <<>>
           front == <<r.reason, r.contentType>>
           texts == [i \in 1 .. N |-> Texts(body[i])]
<1>1. N \in Nat /\ DOMAIN body = 1 .. N /\ \A i \in 1 .. N : body[i] \in Call
  BY ResponseIs
<1>2. front \in Seq(T) /\ Contains(front, r.reason) /\ Contains(front, r.contentType)
  <2>1. r.reason \in T /\ r.contentType \in T
    BY ResponseIs
  <2> HIDE DEF T
  <2>2. front \in Seq(T) /\ Len(front) = 2 /\ front[1] = r.reason /\ front[2] = r.contentType
    BY <2>1
  <2> QED BY <2>2 DEF Contains
<1>3. ASSUME NEW i \in 1 .. N
      PROVE  Texts(body[i]) \in Seq(T)
             /\ (Worded(body[i]) => Contains(Texts(body[i]), body[i].cpu) /\ Contains(Texts(body[i]), body[i].gpu))
  <2> DEFINE seg == body[i]
  <2>1. seg.cpu \in T /\ seg.gpu \in T
    BY <1>1, CallIs
  <2> HIDE DEF body, T
  <2>2. CASE Worded(seg)
    <3>1. Texts(seg) = <<seg.cpu, seg.gpu>>
      BY <2>2 DEF Worded
    <3> DEFINE t == <<seg.cpu, seg.gpu>>
    <3>2. t \in Seq(T) /\ Len(t) = 2 /\ t[1] = seg.cpu /\ t[2] = seg.gpu
      BY <2>1
    <3> HIDE DEF t
    <3> QED BY <3>1, <3>2 DEF Contains, t
  <2>3. CASE ~Worded(seg)
    <3>1. Texts(seg) = <<>>
      BY <2>3 DEF Worded
    <3> QED BY <2>3, <3>1, EmptySeq
  <2> QED BY <2>2, <2>3
<1>4. texts \in Seq(Seq(T)) /\ Len(texts) = N /\ \A i \in 1 .. N : texts[i] = Texts(body[i])
  <2> HIDE DEF Texts, T, body, N
  <2> QED BY <1>1, <1>3
<1>5. StringsOf(r) = front \o FlattenSeq(texts)
  BY <1>1, Zenon DEF StringsOf
<1> HIDE DEF texts, T, Texts, front
<1>6. FlattenSeq(texts) \in Seq(T)
  BY <1>4, FlattenAppend, EmptySeq
<1>7. ASSUME NEW i \in 1 .. N, NEW x, Contains(Texts(body[i]), x)
      PROVE  Contains(FlattenSeq(texts), x)
  <2>1. i \in 1 .. Len(texts) /\ Contains(texts[i], x)
    BY <1>4, <1>7
  <2> QED BY <1>4, <2>1, FlattenContains
<1>8. /\ front \o FlattenSeq(texts) \in Seq(T)
      /\ \A x : Contains(front, x) \/ Contains(FlattenSeq(texts), x) => Contains(front \o FlattenSeq(texts), x)
  <2> DEFINE t == FlattenSeq(texts)
  <2>1. t \in Seq(T)
    BY <1>6
  <2> HIDE DEF t
  <2>2. front \o t \in Seq(T)
    BY <1>2, <2>1, ConcatProperties
  <2>3. \A x : Contains(front, x) \/ Contains(t, x) => Contains(front \o t, x)
    BY <1>2, <2>1, ContainsEither
  <2> QED BY <2>2, <2>3 DEF t
<1> HIDE DEF N, body
<1>9. \A i \in 1 .. N : Worded(body[i]) => /\ Contains(front \o FlattenSeq(texts), body[i].cpu)
                                           /\ Contains(front \o FlattenSeq(texts), body[i].gpu)
  BY <1>3, <1>7, <1>8
<1>10. StringsOf(r) \in Seq(T)
  BY <1>5, <1>8
<1>11. Mentions(StringsOf(r), r)
  BY <1>1, <1>2, <1>5, <1>8, <1>9 DEF Mentions, body
<1> QED BY <1>10, <1>11 DEF T

\* A sequence that holds all that s holds.
Covers(t, s) == \A x : Contains(s, x) => Contains(t, x)

\* A longer list mentions no less.
LEMMA CoversMentions ==
    ASSUME NEW s, NEW t, NEW r, Covers(t, s), Mentions(s, r)
    PROVE  Mentions(t, r)
  BY DEF Covers, Mentions

\* The fixed strings of HTTP and their lengths.
LEMMA FixedStrings ==
    /\ HttpVersion \in Seq(Byte) /\ ContentTypeHeader \in Seq(Byte) /\ ContentLengthHeader \in Seq(Byte)
    /\ TailReserved \in Seq(Byte) /\ Name("gpu") \in Seq(Byte)
    /\ \A b : TailSent(b) \in Seq(Byte) /\ Len(TailSent(b)) = 2
    /\ Len(TailReserved) = 3 /\ Len(HttpVersion) = 2 /\ Len(ContentTypeHeader) = 2 /\ Len(ContentLengthHeader) = 2
<1>1. {86, 32, 84, 76, CR, 75} \subseteq Byte
  BY DEF Byte, CR
<1>2. /\ <<86, 32>> \in Seq(Byte) /\ <<CR, 84>> \in Seq(Byte) /\ <<CR, 76>> \in Seq(Byte)
      /\ <<CR, 75>> \in Seq(Byte) /\ <<CR>> \in Seq(Byte)
      /\ Len(<<86, 32>>) = 2 /\ Len(<<CR, 84>>) = 2 /\ Len(<<CR, 76>>) = 2
      /\ Len(<<CR, 75>>) = 2 /\ Len(<<CR>>) = 1
  BY <1>1
<1>3. ASSUME NEW b PROVE TailSent(b) \in Seq(Byte) /\ Len(TailSent(b)) = 2
  <2> DEFINE s == <<CR>>
             t == Name(b)
  <2>1. s \in Seq(Byte) /\ Len(s) = 1 /\ t \in Seq(Byte) /\ Len(t) = 1
    BY <1>2, NameIs
  <2> HIDE DEF s, t
  <2>2. s \o t \in Seq(Byte) /\ Len(s \o t) = 2
    BY <2>1
  <2> QED BY <2>2 DEF s, t, TailSent
<1>4. TailReserved \in Seq(Byte) /\ Len(TailReserved) = 3
  <2> DEFINE s == <<CR, 75>>
             t == Name("gpu")
  <2>1. s \in Seq(Byte) /\ Len(s) = 2 /\ t \in Seq(Byte) /\ Len(t) = 1
    BY <1>2, NameIs
  <2> HIDE DEF s, t
  <2>2. s \o t \in Seq(Byte) /\ Len(s \o t) = 2 + 1
    <3>1. s \o t \in Seq(Byte) /\ Len(s \o t) = Len(s) + Len(t)
      BY ONLY <2>1, ConcatProperties
    <3> QED BY ONLY <2>1, <3>1
  <2>3. Len(s \o t) = 3
    BY <2>2
  <2> QED BY <2>2, <2>3 DEF s, t, TailReserved
<1> QED BY <1>2, <1>3, <1>4, NameIs DEF HttpVersion, ContentTypeHeader, ContentLengthHeader, SP

\* The strings of the shader that no declaration names.
Fixed == {HttpVersion, ContentTypeHeader, ContentLengthHeader, TailReserved, Name("gpu")}

\* All texts of a router are interned.
LEMMA StringsMention ==
    ASSUME NEW R \in RouterDeclaration
    PROVE  /\ Strings(R) \in Seq(Seq(Byte))
           /\ \A x \in Fixed : Contains(Strings(R), x)
           /\ \A i \in 1 .. Len(Responses(R)) : Mentions(Strings(R), Responses(R)[i])
           /\ \A i \in 1 .. Len(R.routes) : Contains(Strings(R), R.routes[i].path)
<1> DEFINE T == Seq(Byte)
           first == <<HttpVersion, ContentTypeHeader, ContentLengthHeader, TailReserved, Name("gpu")>>
           responses == Responses(R)
           N == Len(responses)
           texts == [i \in 1 .. N |-> StringsOf(responses[i])]
           n == Len(R.routes)
           paths == [i \in 1 .. n |-> R.routes[i].path]
           middle == FlattenSeq(texts)
<1>1. N \in Nat /\ DOMAIN responses = 1 .. N /\ \A i \in 1 .. N : responses[i] \in ResponseDeclaration
  <2> HIDE DEF responses
  <2>1. responses \in Seq(ResponseDeclaration)
    BY ResponsesAre DEF responses
  <2> QED BY <2>1
<1>2. first \in Seq(T) /\ \A x \in Fixed : Contains(first, x)
  <2> DEFINE a == HttpVersion
             b == ContentTypeHeader
             c == ContentLengthHeader
             d == TailReserved
             e == Name("gpu")
  <2>1. a \in T /\ b \in T /\ c \in T /\ d \in T /\ e \in T
    BY FixedStrings
  <2> HIDE DEF T, a, b, c, d, e
  <2>2. /\ <<a, b, c, d, e>> \in Seq(T) /\ Len(<<a, b, c, d, e>>) = 5
        /\ \A x \in {a, b, c, d, e} : \E i \in 1 .. 5 : <<a, b, c, d, e>>[i] = x
    BY <2>1
  <2>3. \A x \in {a, b, c, d, e} : Contains(<<a, b, c, d, e>>, x)
    BY <2>2 DEF Contains
  <2> QED BY <2>2, <2>3 DEF Fixed, a, b, c, d, e
<1>3. ASSUME NEW i \in 1 .. N PROVE StringsOf(responses[i]) \in Seq(T) /\ Mentions(StringsOf(responses[i]), responses[i])
  <2> DEFINE r == responses[i]
  <2>1. r \in ResponseDeclaration
    BY <1>1
  <2> HIDE DEF r
  <2>2. StringsOf(r) \in Seq(T) /\ Mentions(StringsOf(r), r)
    BY <2>1, StringsOfMention
  <2> QED BY <2>2 DEF r
<1>4. texts \in Seq(Seq(T)) /\ Len(texts) = N /\ \A i \in 1 .. N : texts[i] = StringsOf(responses[i])
  <2> HIDE DEF T, responses, N
  <2> QED BY <1>1, <1>3
<1>5. n \in Nat /\ DOMAIN R.routes = 1 .. n /\ \A i \in 1 .. n : R.routes[i].path \in T
  BY RouterIs
<1>6. paths \in Seq(T) /\ \A i \in 1 .. n : Contains(paths, R.routes[i].path)
  <2> HIDE DEF T, n
  <2>1. paths \in Seq(T) /\ Len(paths) = n /\ \A i \in 1 .. n : paths[i] = R.routes[i].path
    BY <1>5
  <2> HIDE DEF paths
  <2> QED BY <1>5, <2>1 DEF Contains
<1>7. Strings(R) = (first \o middle) \o paths
  BY <1>1, <1>5, Zenon DEF Strings
<1> HIDE DEF texts, T, responses, N, first, paths, n
<1>8. middle \in Seq(T)
  BY <1>4, FlattenAppend, EmptySeq
<1>9. ASSUME NEW i \in 1 .. N PROVE Covers(middle, StringsOf(responses[i]))
  <2> SUFFICES ASSUME NEW x, Contains(StringsOf(responses[i]), x) PROVE Contains(middle, x)
    BY DEF Covers
  <2>1. i \in 1 .. Len(texts) /\ Contains(texts[i], x)
    BY <1>4
  <2> QED BY <1>4, <2>1, FlattenContains
<1> HIDE DEF middle
<1> DEFINE begin == first \o middle
           all == begin \o paths
<1>10. begin \in Seq(T) /\ Covers(begin, first) /\ Covers(begin, middle)
  BY <1>2, <1>8, ContainsEither DEF Covers
<1> HIDE DEF begin
<1>11. all \in Seq(T) /\ Covers(all, begin) /\ Covers(all, paths)
  BY <1>6, <1>10, ContainsEither DEF Covers
<1>12. Strings(R) = all
  BY <1>7 DEF begin
<1> HIDE DEF all
<1>13. \A i \in 1 .. N : Covers(all, StringsOf(responses[i]))
  BY <1>9, <1>10, <1>11 DEF Covers
<1>14. \A i \in 1 .. N : Mentions(all, responses[i])
  BY <1>3, <1>13, CoversMentions
<1>15. \A x \in Fixed : Contains(all, x)
  BY <1>2, <1>10, <1>11 DEF Covers
<1>16. \A i \in 1 .. n : Contains(all, R.routes[i].path)
  BY <1>6, <1>11 DEF Covers
<1> QED BY <1>11, <1>12, <1>14, <1>15, <1>16 DEF N, n, responses, T

\* The table has the texts of the response.
Speaks(t, r) ==
    /\ Knows(t, r.reason) /\ Knows(t, r.contentType)
    /\ \A i \in DOMAIN Body(r.calls) :
          Worded(Body(r.calls)[i]) => Knows(t, Body(r.calls)[i].cpu) /\ Knows(t, Body(r.calls)[i].gpu)

\* The string table knows every string any response or route refers to.
LEMMA TableSpeaks ==
    ASSUME NEW R \in RouterDeclaration
    PROVE  /\ StringTable(R) \in Seq(Seq(Byte))
           /\ \A x \in Fixed : Knows(StringTable(R), x)
           /\ \A i \in 1 .. Len(Responses(R)) : Speaks(StringTable(R), Responses(R)[i])
           /\ \A i \in 1 .. Len(R.routes) : Knows(StringTable(R), R.routes[i].path)
<1> DEFINE s == Strings(R)
           t == StringTable(R)
<1>1. /\ s \in Seq(Seq(Byte)) /\ \A x \in Fixed : Contains(s, x)
      /\ \A i \in 1 .. Len(Responses(R)) : Mentions(s, Responses(R)[i])
      /\ \A i \in 1 .. Len(R.routes) : Contains(s, R.routes[i].path)
  BY StringsMention
<1>2. t \in Seq(Seq(Byte)) /\ \A x \in Seq(Byte) : Contains(s, x) => Knows(t, x)
  BY <1>1, AllInterned DEF StringTable
<1>3. \A x \in Fixed : x \in Seq(Byte)
  BY FixedStrings DEF Fixed
<1> HIDE DEF s, t
<1>4. ASSUME NEW i \in 1 .. Len(Responses(R)) PROVE Speaks(t, Responses(R)[i])
  <2> DEFINE r == Responses(R)[i]
             body == Body(r.calls)
  <2>1. r \in ResponseDeclaration
    BY <1>4, ResponsesAre
  <2>2. Mentions(s, r)
    BY <1>1
  <2> HIDE DEF r
  <2>3. r.reason \in Seq(Byte) /\ r.contentType \in Seq(Byte)
        /\ \A k \in DOMAIN body : body[k].cpu \in Seq(Byte) /\ body[k].gpu \in Seq(Byte)
    BY <2>1, ResponseIs, CallIs
  <2>4. Speaks(t, r)
    BY <1>2, <2>2, <2>3 DEF Mentions, Speaks
  <2> QED BY <2>4 DEF r
<1>5. ASSUME NEW i \in 1 .. Len(R.routes) PROVE Knows(t, R.routes[i].path)
  BY <1>1, <1>2, <1>5, RouterIs
<1> QED BY <1>1, <1>2, <1>3, <1>4, <1>5 DEF t

\* A compiled response says what was declared.
LEMMA Rendered ==
    ASSUME NEW r \in ResponseDeclaration, NEW t \in Seq(Seq(Byte)), Speaks(t, r),
           NEW machine, machine.strings = t,
           NEW parts \in PartsSet, NEW len \in Nat, NEW b
    PROVE  RenderResponse(machine, CompileResponse(t, r), parts, len, b)
              = BuildResponse(r.status, r.reason, r.contentType, SayAll(r.calls, parts, len, b), b)
<1> DEFINE body == Body(r.calls)
           N == Len(body)
           c == CompileResponse(t, r)
           segs == [i \in DOMAIN body |-> [body[i] EXCEPT !.cpu = Id(t, @), !.gpu = Id(t, @)]]
           Text(seg) == IF seg.op \in {"literal", "variant"}
                        THEN machine.strings[IF b = "gpu" THEN seg.gpu ELSE seg.cpu] ELSE <<>>
           S(seg) == Said(seg, Text(seg), parts, len, b)
<1>1. body \in Seq(Call) /\ N \in Nat /\ DOMAIN body = 1 .. N /\ \A i \in 1 .. N : body[i] \in Call
  BY ResponseIs
<1>2. /\ c.status = r.status /\ c.segments = segs
      /\ c.reason = Id(t, r.reason) /\ c.contentType = Id(t, r.contentType)
  BY DEF CompileResponse
<1>3. t[c.reason] = r.reason /\ t[c.contentType] = r.contentType
  BY <1>2 DEF Speaks, Knows
<1> HIDE DEF c
<1>4. ASSUME NEW i \in 1 .. N
      PROVE  S(segs[i]) = Piece(body[i], parts, len, b)
  <2> DEFINE call == body[i]
             seg == segs[i]
  <2>1. call \in Call
    BY <1>1
  <2>2. seg = [call EXCEPT !.cpu = Id(t, @), !.gpu = Id(t, @)]
    BY <1>1
  <2>3. Worded(call) => Knows(t, call.cpu) /\ Knows(t, call.gpu)
    BY <1>1 DEF Speaks
  <2> HIDE DEF call, seg
  <2>4. seg.op = call.op /\ seg.n = call.n /\ seg.cpu = Id(t, call.cpu) /\ seg.gpu = Id(t, call.gpu)
    BY <2>1, <2>2 DEF Call
  <2>5. Worded(call) => Text(seg) = Wording(call, b)
    BY <2>3, <2>4 DEF Worded, Knows, Wording
  <2> HIDE DEF Text
  <2>6. S(seg) = Piece(call, parts, len, b)
    <3>1. CASE Worded(call)
      <4>1. S(seg) = Text(seg)
        BY <2>4, <3>1 DEF Said, Worded
      <4>2. Piece(call, parts, len, b) = Wording(call, b)
        BY <3>1 DEF Piece, Said, Worded
      <4> QED BY <2>5, <3>1, <4>1, <4>2
    <3>2. CASE ~Worded(call)
      BY <2>1, <2>4, <3>2, CallIs DEF Said, Piece, Worded
    <3> QED BY <3>1, <3>2
  <2> QED BY <2>6 DEF call, seg
<1>5. RenderResponse(machine, c, parts, len, b)
         = BuildResponse(c.status, machine.strings[c.reason], machine.strings[c.contentType],
                         FlattenSeq([i \in DOMAIN c.segments |-> S(c.segments[i])]), b)
  BY Zenon DEF RenderResponse
<1>6. DOMAIN segs = DOMAIN body
  OBVIOUS
<1>7. [i \in DOMAIN segs |-> S(segs[i])] = Pieces(body, parts, len, b)
  <2> HIDE DEF S, segs, body
  <2> QED BY <1>1, <1>4, <1>6 DEF Pieces
<1> HIDE DEF S, segs
<1>8. FlattenSeq([i \in DOMAIN c.segments |-> S(c.segments[i])]) = SayAll(body, parts, len, b)
  BY <1>2, <1>7 DEF SayAll
<1>9. SayAll(body, parts, len, b) = SayAll(r.calls, parts, len, b)
  BY SayBody, ResponseIs
<1> QED BY <1>2, <1>3, <1>5, <1>8, <1>9 DEF c

-----------------------------------------------------------------------------
(* The order of the routes.                                                *)

\* s ends where t goes on, or the first difference decides.
Ends(s, t) == Len(s) < Len(t) /\ \A i \in 1 .. Len(s) : s[i] = t[i]
Differs(s, t, i) ==
    /\ i \in 1 .. Len(s) /\ i \in 1 .. Len(t)
    /\ s[i] < t[i] /\ \A j \in 1 .. i - 1 : s[j] = t[j]

\* The order of strings, unfolded: one ends first, or they differ at a byte.
LEMMA LexicographicIs ==
    ASSUME NEW s \in Seq(Nat), NEW t \in Seq(Nat)
    PROVE  Lexicographic(s, t) <=> Ends(s, t) \/ \E i \in Nat : Differs(s, t, i)
<1>1. /\ Len(s) \in Nat /\ Len(t) \in Nat /\ DOMAIN s = 1 .. Len(s) /\ DOMAIN t = 1 .. Len(t)
      /\ \A i \in 1 .. Len(s) : s[i] \in Nat
      /\ \A i \in 1 .. Len(t) : t[i] \in Nat
  OBVIOUS
<1>2. IsStrictPrefix(s, t) <=> Ends(s, t)
  <2>1. CASE Len(s) <= Len(t)
    <3> DEFINE front == SubSeq(t, 1, Len(s))
    <3>1. front \in Seq(Nat) /\ Len(front) = Len(s) /\ \A i \in 1 .. Len(s) : front[i] = t[i]
      BY <1>1, <2>1
    <3>2. SubSeq(s, 1, Len(s)) = s
      OBVIOUS
    <3>3. IsStrictPrefix(s, t) <=> s = front /\ s # t
      BY <2>1, <3>2 DEF IsStrictPrefix, IsPrefix
    <3>4. s = front <=> \A i \in 1 .. Len(s) : s[i] = t[i]
      <4> HIDE DEF front
      <4>1. (\A i \in 1 .. Len(s) : s[i] = front[i]) => s = front
        BY <3>1, SeqEqual
      <4> QED BY <3>1, <4>1
    <3>5. (\A i \in 1 .. Len(s) : s[i] = t[i]) => (s # t <=> Len(s) < Len(t))
      <4>1. (\A i \in 1 .. Len(s) : s[i] = t[i]) /\ Len(s) = Len(t) => s = t
        BY SeqEqual
      <4>2. s = t => Len(s) = Len(t)
        OBVIOUS
      <4> QED BY ONLY Len(s) \in Nat, Len(t) \in Nat, <2>1, <4>1, <4>2
    <3> HIDE DEF front
    <3> QED BY <3>3, <3>4, <3>5 DEF Ends
  <2>2. CASE ~(Len(s) <= Len(t))
    BY <1>1, <2>2 DEF IsStrictPrefix, IsPrefix, Ends
  <2> QED BY <2>1, <2>2
<1>3. (\E i \in DOMAIN s \cap DOMAIN t : s[i] < t[i] /\ \A j \in 1 .. i - 1 : s[j] = t[j])
         <=> \E i \in Nat : Differs(s, t, i)
  <2>1. ASSUME NEW i \in DOMAIN s \cap DOMAIN t, s[i] < t[i], \A j \in 1 .. i - 1 : s[j] = t[j]
        PROVE  i \in Nat /\ Differs(s, t, i)
    BY <1>1, <2>1 DEF Differs
  <2>2. ASSUME NEW i \in Nat, Differs(s, t, i)
        PROVE  i \in DOMAIN s \cap DOMAIN t /\ s[i] < t[i] /\ \A j \in 1 .. i - 1 : s[j] = t[j]
    BY <1>1, <2>2 DEF Differs
  <2> QED BY <2>1, <2>2
<1> QED BY <1>2, <1>3 DEF Lexicographic

\* The order of strings is strict and total.
LEMMA LexicographicOrder ==
    ASSUME NEW s \in Seq(Nat), NEW t \in Seq(Nat), NEW u \in Seq(Nat)
    PROVE  /\ ~Lexicographic(s, s)
           /\ s # t => Lexicographic(s, t) \/ Lexicographic(t, s)
           /\ Lexicographic(s, t) /\ Lexicographic(t, u) => Lexicographic(s, u)
<1>1. /\ Len(s) \in Nat /\ Len(t) \in Nat /\ Len(u) \in Nat
      /\ \A i \in 1 .. Len(s) : s[i] \in Nat
      /\ \A i \in 1 .. Len(t) : t[i] \in Nat
      /\ \A i \in 1 .. Len(u) : u[i] \in Nat
  OBVIOUS
<1>2. ~Lexicographic(s, s)
  <2>1. ~Ends(s, s)
    BY <1>1 DEF Ends
  <2>2. \A i \in Nat : ~Differs(s, s, i)
    BY <1>1 DEF Differs
  <2> QED BY <2>1, <2>2, LexicographicIs
<1>3. ASSUME s # t PROVE Lexicographic(s, t) \/ Lexicographic(t, s)
  <2> DEFINE D == {i \in Nat : i \in 1 .. Len(s) /\ i \in 1 .. Len(t) /\ s[i] # t[i]}
  <2>1. CASE D = {}
    <3>1. \A i \in Nat : i \in 1 .. Len(s) /\ i \in 1 .. Len(t) => s[i] = t[i]
      BY <2>1
    <3>2. Len(s) # Len(t)
      BY <1>3, <3>1, SeqEqual
    <3>3. Ends(s, t) \/ Ends(t, s)
      BY <1>1, <3>1, <3>2 DEF Ends
    <3> QED BY <3>3, LexicographicIs
  <2>2. CASE D # {}
    <3>1. PICK i \in D : \A j \in D : i <= j
      <4>1. D \subseteq Nat
        OBVIOUS
      <4> HIDE DEF D
      <4> QED BY <2>2, <4>1, Least
    <3>2. \A j \in 1 .. i - 1 : s[j] = t[j]
      <4> SUFFICES ASSUME NEW j \in 1 .. i - 1, s[j] # t[j] PROVE FALSE
        OBVIOUS
      <4>1. i \in Nat /\ i \in 1 .. Len(s) /\ i \in 1 .. Len(t)
        OBVIOUS
      <4>2. j \in Nat /\ j \in 1 .. Len(s) /\ j \in 1 .. Len(t) /\ ~(i <= j)
        BY <1>1, <4>1
      <4> QED BY <3>1, <4>2
    <3>3. Differs(s, t, i) \/ Differs(t, s, i)
      BY <1>1, <3>1, <3>2 DEF Differs
    <3> QED BY <3>1, <3>3, LexicographicIs
  <2> QED BY <2>1, <2>2
<1>4. ASSUME Lexicographic(s, t), Lexicographic(t, u) PROVE Lexicographic(s, u)
  <2>1. CASE Ends(s, t) /\ Ends(t, u)
    <3>1. Ends(s, u)
      <4>1. Len(s) < Len(u) /\ \A j \in 1 .. Len(s) : j \in 1 .. Len(t)
        BY ONLY <1>1, <2>1 DEF Ends
      <4>2. \A j \in 1 .. Len(s) : s[j] = u[j]
        BY ONLY <2>1, <4>1, Zenon DEF Ends
      <4> QED BY ONLY <4>1, <4>2, Zenon DEF Ends
    <3> QED BY <3>1, LexicographicIs
  <2>2. ASSUME Ends(s, t), NEW i \in Nat, Differs(t, u, i) PROVE Lexicographic(s, u)
    <3>1. i <= Len(s) => Differs(s, u, i)
      BY <1>1, <2>2 DEF Ends, Differs
    <3>2. i > Len(s) => Ends(s, u)
      BY <1>1, <2>2 DEF Ends, Differs
    <3> QED BY <1>1, <3>1, <3>2, LexicographicIs
  <2>3. ASSUME NEW i \in Nat, Differs(s, t, i), Ends(t, u) PROVE Lexicographic(s, u)
    <3>1. Differs(s, u, i)
      BY <1>1, <2>3 DEF Ends, Differs
    <3> QED BY <3>1, LexicographicIs
  <2>4. ASSUME NEW i \in Nat, Differs(s, t, i), NEW k \in Nat, Differs(t, u, k) PROVE Lexicographic(s, u)
    <3>0. /\ i \in 1 .. Len(s) /\ i \in 1 .. Len(t) /\ k \in 1 .. Len(t) /\ k \in 1 .. Len(u)
          /\ s[i] < t[i] /\ t[k] < u[k]
          /\ \A j \in 1 .. i - 1 : s[j] = t[j]
          /\ \A j \in 1 .. k - 1 : t[j] = u[j]
      BY <2>4 DEF Differs
    <3>1. ASSUME i <= k PROVE Differs(s, u, i)
      <4>0. i \in Nat /\ k \in Nat /\ i \in 1 .. Len(s) /\ i \in 1 .. Len(t) /\ i \in 1 .. Len(u)
        BY <1>1, <3>0, <3>1
      <4>4. ASSUME NEW j \in 1 .. i - 1 PROVE s[j] = u[j]
        <5>1. j \in 1 .. k - 1
          BY <3>1, <4>0
        <5> QED BY <3>0, <5>1
      <4>1. i \in 1 .. Len(s) /\ i \in 1 .. Len(u) /\ \A j \in 1 .. i - 1 : s[j] = u[j]
        BY <4>0, <4>4
      <4>2. i = k \/ t[i] = u[i]
        <5>1. i = k \/ i \in 1 .. k - 1
          BY <3>1, <3>0
        <5> QED BY <3>0, <5>1
      <4>3. s[i] < u[i]
        <5>1. s[i] \in Nat /\ t[i] \in Nat /\ u[i] \in Nat /\ s[i] < t[i]
          BY <1>1, <3>0, <4>0
        <5>2. CASE i = k
          BY <3>0, <5>1, <5>2
        <5>3. CASE i # k
          BY <4>2, <5>1, <5>3
        <5> QED BY <5>2, <5>3
      <4> QED BY <4>1, <4>3 DEF Differs
    <3>2. ASSUME k < i PROVE Differs(s, u, k)
      <4>1. k \in 1 .. Len(s) /\ k \in 1 .. Len(u) /\ \A j \in 1 .. k - 1 : s[j] = u[j]
        <5>1. k \in Nat /\ i \in Nat /\ k \in 1 .. Len(s) /\ k \in 1 .. Len(u)
          BY <1>1, <3>0, <3>2
        <5>2. ASSUME NEW j \in 1 .. k - 1 PROVE s[j] = u[j]
          <6>1. j \in 1 .. i - 1
            BY <3>2, <5>1
          <6> QED BY <3>0, <6>1
        <5> QED BY <5>1, <5>2
      <4>2. s[k] = t[k]
        BY <1>1, <3>0, <3>2
      <4> QED BY <3>0, <4>1, <4>2 DEF Differs
    <3> QED BY <3>1, <3>2, LexicographicIs
  <2> QED BY <1>4, <2>1, <2>2, <2>3, <2>4, LexicographicIs
<1> QED BY <1>2, <1>3, <1>4

-----------------------------------------------------------------------------
\* Compiled routes, told apart by their paths.
Routed(S) ==
    /\ IsFiniteSet(S)
    /\ \A r \in S : r.hash \in Nat /\ r.path \in Seq(Nat)
    /\ \A q, r \in S : q.path = r.path => q = r

\* So is the order of routes with different paths, and the hash never falls.
LEMMA BeforeOrder ==
    ASSUME NEW S, Routed(S), NEW p \in S, NEW q \in S, NEW r \in S
    PROVE  /\ ~Before(p, p)
           /\ p # q => Before(p, q) \/ Before(q, p)
           /\ Before(p, q) /\ Before(q, r) => Before(p, r)
           /\ Before(p, q) => p.hash <= q.hash
<1> DEFINE s == p.path
           t == q.path
           u == r.path
           a == p.hash
           b == q.hash
           c == r.hash
<1>1. /\ s \in Seq(Nat) /\ t \in Seq(Nat) /\ u \in Seq(Nat) /\ a \in Nat /\ b \in Nat /\ c \in Nat
      /\ p # q => s # t
  BY DEF Routed
<1>2. /\ Before(p, p) <=> a < a \/ (a = a /\ Lexicographic(s, s))
      /\ Before(p, q) <=> a < b \/ (a = b /\ Lexicographic(s, t))
      /\ Before(q, p) <=> b < a \/ (b = a /\ Lexicographic(t, s))
      /\ Before(q, r) <=> b < c \/ (b = c /\ Lexicographic(t, u))
      /\ Before(p, r) <=> a < c \/ (a = c /\ Lexicographic(s, u))
  BY DEF Before
<1> HIDE DEF s, t, u, a, b, c
<1>3. /\ ~Lexicographic(s, s)
      /\ s # t => Lexicographic(s, t) \/ Lexicographic(t, s)
      /\ Lexicographic(s, t) /\ Lexicographic(t, u) => Lexicographic(s, u)
  BY <1>1, LexicographicOrder
<1>4. /\ ~Before(p, p)
      /\ p # q => Before(p, q) \/ Before(q, p)
      /\ Before(p, q) /\ Before(q, r) => Before(p, r)
      /\ Before(p, q) => a <= b
  BY <1>1, <1>2, <1>3
<1> QED BY <1>4 DEF a, b

Rank(S, r) == Cardinality({q \in S : Before(q, r)})

\* The number of predecessors of a route is below the number of routes and grows.
LEMMA RankGrows ==
    ASSUME NEW S, Routed(S), NEW p \in S, NEW q \in S
    PROVE  /\ Rank(S, p) \in Nat /\ Rank(S, p) < Cardinality(S)
           /\ Before(p, q) => Rank(S, p) < Rank(S, q)
<1> DEFINE Down(r) == {x \in S : Before(x, r)}
           D == Down(p)
           E == Down(q)
<1>1. IsFiniteSet(S) /\ IsFiniteSet(D) /\ IsFiniteSet(E)
  <2>1. IsFiniteSet(S) /\ D \in SUBSET S /\ E \in SUBSET S
    BY DEF Routed
  <2> HIDE DEF D, E
  <2> QED BY <2>1, FS_Subset
<1>2. Cardinality(D) \in Nat /\ Cardinality(E) \in Nat /\ Cardinality(S) \in Nat
  <2> HIDE DEF D, E
  <2> QED BY <1>1, FS_CardinalityType
<1>3. p \notin D /\ D \in SUBSET S
  BY BeforeOrder
<1>4. Before(p, q) => p \in E /\ D \in SUBSET E
  <2> SUFFICES ASSUME Before(p, q) PROVE p \in E /\ D \in SUBSET E
    OBVIOUS
  <2>1. ASSUME NEW x \in D PROVE x \in E
    <3>1. x \in S /\ Before(x, p)
      OBVIOUS
    <3> QED BY <3>1, BeforeOrder
  <2> QED BY <2>1
<1> HIDE DEF D, E
<1>5. ASSUME NEW U, IsFiniteSet(U), D \in SUBSET U, p \in U PROVE Cardinality(D) < Cardinality(U)
  <2>1. Cardinality(D) <= Cardinality(U) /\ (Cardinality(U) = Cardinality(D) => U = D)
    BY <1>5, FS_Subset
  <2>2. Cardinality(U) \in Nat
    BY <1>5, FS_CardinalityType
  <2> QED BY <1>2, <1>3, <1>5, <2>1, <2>2
<1>6. Cardinality(D) < Cardinality(S)
  BY <1>1, <1>3, <1>5
<1>7. Before(p, q) => Cardinality(D) < Cardinality(E)
  BY <1>1, <1>4, <1>5
<1> QED BY <1>2, <1>6, <1>7 DEF Rank, D, E

\* The routes in order: each of them once, by growing hash.
Ascends(f, S) ==
    /\ f \in [1 .. Cardinality(S) -> S] /\ Cardinality(S) \in Nat
    /\ \A r \in S : \E k \in 1 .. Cardinality(S) : f[k] = r
    /\ \A k, m \in 1 .. Cardinality(S) : k < m => f[k] # f[m] /\ f[k].hash <= f[m].hash

\* Sorting keeps every route once, in the order of the hashes.
LEMMA SortedIs ==
    ASSUME NEW S, Routed(S)
    PROVE  Ascends(Sorted(S), S)
<1> DEFINE N == Cardinality(S)
           rank == [r \in S |-> Rank(S, r) + 1]
<1>1. N \in Nat /\ IsFiniteSet(S)
  BY FS_CardinalityType DEF Routed
<1>2. \A r \in S : Rank(S, r) \in Nat /\ Rank(S, r) < N
  BY RankGrows
<1>3. \A p, q \in S : p # q => Rank(S, p) # Rank(S, q)
  <2> SUFFICES ASSUME NEW p \in S, NEW q \in S, p # q PROVE Rank(S, p) # Rank(S, q)
    OBVIOUS
  <2>1. Before(p, q) \/ Before(q, p)
    BY BeforeOrder
  <2>2. Before(p, q) => Rank(S, p) < Rank(S, q)
    BY RankGrows
  <2>3. Before(q, p) => Rank(S, q) < Rank(S, p)
    BY RankGrows
  <2> QED BY <1>2, <2>1, <2>2, <2>3
<1>4. rank \in Injection(S, 1 .. N)
  <2>1. \A r \in S : Rank(S, r) + 1 \in 1 .. N
    BY <1>1, <1>2
  <2>2. \A p, q \in S : Rank(S, p) + 1 = Rank(S, q) + 1 => p = q
    BY <1>2, <1>3
  <2> HIDE DEF N
  <2> QED BY <2>1, <2>2 DEF Injection, IsInjective
<1>5. IsFiniteSet(1 .. N) /\ Cardinality(1 .. N) = N
  <2> HIDE DEF N
  <2>1. IsFiniteSet(1 .. N) /\ Cardinality(1 .. N) = IF 1 > N THEN 0 ELSE N - 1 + 1
    BY <1>1, FS_Interval
  <2> QED BY <1>1, <2>1
<1>6. rank \in Surjection(S, 1 .. N)
  <2> HIDE DEF rank
  <2>1. Cardinality(S) = Cardinality(1 .. N) <=> rank \in Surjection(S, 1 .. N)
    BY <1>4, <1>5, FS_Injection
  <2> QED BY <1>5, <2>1
<1>7. \A k \in 1 .. N : \E r \in S : Rank(S, r) = k - 1
  <2> SUFFICES ASSUME NEW k \in 1 .. N PROVE \E r \in S : Rank(S, r) = k - 1
    OBVIOUS
  <2>1. PICK r \in S : rank[r] = k
    <3> HIDE DEF rank, N
    <3> QED BY <1>6 DEF Surjection
  <2>2. Rank(S, r) + 1 = k
    BY <2>1
  <2> QED BY <1>2, <2>2
<1> HIDE DEF rank
<1> DEFINE f == Sorted(S)
           At(k) == CHOOSE r \in S : Rank(S, r) = k - 1
<1>8. f = [k \in 1 .. N |-> At(k)]
  BY Zenon DEF Sorted, Rank
<1>9. \A k \in 1 .. N : At(k) \in S /\ Rank(S, At(k)) = k - 1
  BY <1>7
<1> HIDE DEF f, At, N
<1>10. f \in [1 .. N -> S] /\ \A k \in 1 .. N : f[k] \in S /\ Rank(S, f[k]) = k - 1
  BY <1>8, <1>9
<1>11. ASSUME NEW r \in S PROVE \E k \in 1 .. N : f[k] = r
  <2> DEFINE k == Rank(S, r) + 1
  <2>1. k \in 1 .. N /\ k - 1 = Rank(S, r)
    BY <1>1, <1>2
  <2>2. f[k] \in S /\ Rank(S, f[k]) = k - 1
    BY <1>10, <2>1
  <2>3. f[k] = r
    BY <1>3, <2>1, <2>2
  <2> QED BY <2>1, <2>3
<1>12. ASSUME NEW k \in 1 .. N, NEW m \in 1 .. N, k < m
       PROVE  f[k] # f[m] /\ f[k].hash <= f[m].hash
  <2> DEFINE p == f[k]
             q == f[m]
  <2>1. p \in S /\ q \in S /\ Rank(S, p) = k - 1 /\ Rank(S, q) = m - 1
    BY <1>10
  <2> HIDE DEF p, q
  <2>2. Rank(S, p) < Rank(S, q)
    BY <1>1, <1>12, <2>1
  <2>3. p # q /\ ~(Rank(S, q) < Rank(S, p))
    BY <1>2, <2>1, <2>2
  <2>4. Before(p, q)
    BY <2>1, <2>3, BeforeOrder, RankGrows
  <2>5. p.hash <= q.hash
    BY <2>1, <2>4, BeforeOrder
  <2> QED BY <2>3, <2>5 DEF p, q
<1> QED BY <1>1, <1>10, <1>11, <1>12 DEF Ascends, f, N

-----------------------------------------------------------------------------
(* The compiled router, and the answer of the CPU.                         *)

RouteSet(R) == {CompileRoute(StringTable(R), R.routes[i]) : i \in 1 .. Len(R.routes)}

\* Strings of bytes are strings of numbers.
LEMMA BytesAreNumbers == Seq(Byte) \subseteq Seq(Nat)
<1>1. Byte \subseteq Nat
  BY DEF Byte
<1>2. ASSUME NEW s \in Seq(Byte) PROVE s \in Seq(Nat)
  <2>1. Len(s) \in Nat /\ s \in [1 .. Len(s) -> Byte]
    OBVIOUS
  <2>2. s \in [1 .. Len(s) -> Nat]
    BY <1>1, <2>1
  <2> QED BY <2>1, <2>2, SeqDef
<1> QED BY <1>2

\* What compiling a route keeps of it.
LEMMA CompiledRoute ==
    ASSUME NEW R \in RouterDeclaration, NEW i \in 1 .. Len(R.routes)
    PROVE  /\ CompileRoute(StringTable(R), R.routes[i]).path = R.routes[i].path
           /\ CompileRoute(StringTable(R), R.routes[i]).hash = Hash(R.routes[i].path)
           /\ CompileRoute(StringTable(R), R.routes[i]).response
                 = CompileResponse(StringTable(R), R.routes[i].response)
           /\ R.routes[i].path \in Seq(Nat) /\ Hash(R.routes[i].path) \in Nat
<1>1. R.routes[i].path \in Seq(Nat)
  BY RouterIs, BytesAreNumbers
<1>2. Hash(R.routes[i].path) \in Nat
  BY <1>1, HashIs
<1> QED BY <1>1, <1>2 DEF CompileRoute

\* Compilation refuses two routes of one path, so no two compiled routes coincide.
LEMMA RouteSetIs ==
    ASSUME NEW R \in RouterDeclaration, Compiles(R)
    PROVE  Routed(RouteSet(R)) /\ Cardinality(RouteSet(R)) = Len(R.routes)
<1> DEFINE n == Len(R.routes)
           E(i) == CompileRoute(StringTable(R), R.routes[i])
           S == RouteSet(R)
           f == [i \in 1 .. n |-> E(i)]
<1>1. n \in Nat /\ DOMAIN R.routes = 1 .. n
  BY RouterIs
<1>2. \A i \in 1 .. n : /\ E(i).path = R.routes[i].path /\ E(i).hash \in Nat
                        /\ E(i).path \in Seq(Nat)
  BY CompiledRoute
<1>3. \A i, j \in 1 .. n : R.routes[i].path = R.routes[j].path => i = j
  <2> SUFFICES ASSUME NEW i \in 1 .. n, NEW j \in 1 .. n, R.routes[i].path = R.routes[j].path, i # j
               PROVE  FALSE
    OBVIOUS
  <2>1. \A a \in 1 .. n : \A b \in 1 .. a - 1 : R.routes[b].path # R.routes[a].path
    BY <1>1 DEF Compiles
  <2>2. j \in 1 .. i - 1 \/ i \in 1 .. j - 1
    BY <1>1
  <2> QED BY <2>1, <2>2
<1>4. S = {E(i) : i \in 1 .. n}
  BY DEF RouteSet
<1> HIDE DEF E, S, n
<1>5. IsFiniteSet(1 .. n) /\ Cardinality(1 .. n) = n
  <2>1. IsFiniteSet(1 .. n) /\ Cardinality(1 .. n) = IF 1 > n THEN 0 ELSE n - 1 + 1
    BY <1>1, FS_Interval
  <2> QED BY <1>1, <2>1
<1>6. f \in Surjection(1 .. n, S)
  BY <1>4 DEF Surjection
<1>7. f \in Injection(1 .. n, S)
  <2>1. f \in [1 .. n -> S]
    BY <1>4
  <2>2. \A i, j \in 1 .. n : f[i] = f[j] => i = j
    BY <1>2, <1>3
  <2> QED BY <2>1, <2>2 DEF Injection, IsInjective
<1> HIDE DEF f
<1>8. IsFiniteSet(S) /\ Cardinality(S) = n
  BY <1>5, <1>6, <1>7, FS_Surjection
<1>9. \A r \in S : r.hash \in Nat /\ r.path \in Seq(Nat)
  BY <1>2, <1>4
<1>10. \A q, r \in S : q.path = r.path => q = r
  BY <1>2, <1>3, <1>4
<1> QED BY <1>8, <1>9, <1>10 DEF Routed, S, n

\* What was compiled.
LEMMA CompiledIs ==
    ASSUME NEW R \in RouterDeclaration, Compiles(R)
    PROVE  /\ Compile(R).strings = StringTable(R)
           /\ Compile(R).routes = Sorted(RouteSet(R))
           /\ Compile(R).fallback = CompileResponse(StringTable(R), R.fallback)
           /\ Compile(R).bad = CompileResponse(StringTable(R), R.bad)
           /\ Compile(R).notAllowed = CompileResponse(StringTable(R), R.notAllowed)
<1> DEFINE t == StringTable(R)
           n == Len(R.routes)
           S == {CompileRoute(t, R.routes[i]) : i \in 1 .. n}
           routes == Sorted(S)
           own == [i \in 1 .. n |-> routes[i].response]
           others == <<CompileResponse(t, R.fallback), CompileResponse(t, R.bad), CompileResponse(t, R.notAllowed)>>
           all == own \o others
<1>1. /\ Compile(R).strings = t /\ Compile(R).routes = routes
      /\ Compile(R).fallback = all[n + 1] /\ Compile(R).bad = all[n + 2] /\ Compile(R).notAllowed = all[n + 3]
  BY Zenon DEF Compile
<1>2. n \in Nat
  BY RouterIs
<1>3. S = RouteSet(R)
  BY DEF RouteSet
<1> HIDE DEF n, t, routes
<1> DEFINE A == {own[i] : i \in 1 .. n} \cup {others[1], others[2], others[3]}
<1>4. own \in Seq(A) /\ Len(own) = n
  BY <1>2
<1>5. others \in Seq(A) /\ Len(others) = 3
  <2>1. others[1] \in A /\ others[2] \in A /\ others[3] \in A
    OBVIOUS
  <2> QED BY <2>1
<1> HIDE DEF own, A
<1>6. \A i \in 1 .. Len(others) : (own \o others)[Len(own) + i] = others[i]
  <2>1. own \in Seq(A) /\ others \in Seq(A)
    BY <1>4, <1>5
  <2> HIDE DEF others
  <2> QED BY ONLY <2>1
<1>7. 1 \in 1 .. Len(others) /\ 2 \in 1 .. Len(others) /\ 3 \in 1 .. Len(others)
  BY <1>5
<1>8. all[n + 1] = others[1] /\ all[n + 2] = others[2] /\ all[n + 3] = others[3]
  BY <1>4, <1>6, <1>7, Zenon
<1>9. /\ others[1] = CompileResponse(t, R.fallback) /\ others[2] = CompileResponse(t, R.bad)
      /\ others[3] = CompileResponse(t, R.notAllowed)
  OBVIOUS
<1> QED BY <1>1, <1>3, <1>8, <1>9 DEF routes, t

\* What answers is among the responses ...
LEMMA DeclaredAmong ==
    ASSUME NEW R \in RouterDeclaration, NEW parts \in PartsSet
    PROVE  \E i \in 1 .. Len(Responses(R)) : Declared(R, parts) = Responses(R)[i]
<1> DEFINE n == Len(R.routes)
           d == Declared(R, parts)
<1>1. n \in Nat /\ DOMAIN R.routes = 1 .. n
  BY RouterIs
<1>2. \E i \in 1 .. Len(Responses(R)) : d = Responses(R)[i]
  <2>1. Len(Responses(R)) = n + 3
    BY ResponsesAre
  <2>2. \A i \in 1 .. n : R.routes[i].response = Responses(R)[i]
    BY ResponsesAre
  <2>3. R.fallback = Responses(R)[n + 1] /\ R.bad = Responses(R)[n + 2] /\ R.notAllowed = Responses(R)[n + 3]
    BY ResponsesAre
  <2>4. \/ d \in {R.bad, R.notAllowed, R.fallback}
        \/ \E i \in 1 .. n : d = R.routes[i].response
    <3> DEFINE here == {i \in DOMAIN R.routes : R.routes[i].path = parts.path}
               chosen == CHOOSE i \in here : TRUE
    <3>1. parts.kind \in {"bad", "not_allowed", "get"}
      BY DEF PartsSet
    <3>2. d = CASE parts.kind = "bad" -> R.bad
                [] parts.kind = "not_allowed" -> R.notAllowed
                [] parts.kind = "get" -> IF here = {} THEN R.fallback ELSE R.routes[chosen].response
      BY Zenon DEF Declared
    <3>3. here # {} => chosen \in 1 .. n
      BY <1>1
    <3> HIDE DEF here, chosen, n, d
    <3> QED BY <3>1, <3>2, <3>3
  <2>5. n + 1 \in 1 .. n + 3 /\ n + 2 \in 1 .. n + 3 /\ n + 3 \in 1 .. n + 3 /\ \A i \in 1 .. n : i \in 1 .. n + 3
    BY <1>1
  <2> HIDE DEF n, d
  <2> QED BY <2>1, <2>2, <2>3, <2>4, <2>5
<1> QED BY <1>2 DEF d

\* ... which the string table can speak.
LEMMA DeclaredIs ==
    ASSUME NEW R \in RouterDeclaration, NEW parts \in PartsSet
    PROVE  Declared(R, parts) \in ResponseDeclaration /\ Speaks(StringTable(R), Declared(R, parts))
<1> DEFINE t == StringTable(R)
           d == Declared(R, parts)
<1>1. PICK i \in 1 .. Len(Responses(R)) : d = Responses(R)[i]
  BY DeclaredAmong
<1>2. \A j \in 1 .. Len(Responses(R)) : Responses(R)[j] \in ResponseDeclaration
  BY ResponsesAre
<1>3. \A j \in 1 .. Len(Responses(R)) : Speaks(t, Responses(R)[j])
  BY TableSpeaks
<1> HIDE DEF d, t
<1> QED BY <1>1, <1>2, <1>3 DEF d, t

\* The numbers below a bound come first.
LEMMA BelowIs ==
    ASSUME NEW n \in Nat, NEW f, NEW h \in Nat,
           \A i \in 1 .. n : f[i] \in Nat,
           \A i, j \in 1 .. n : i < j => f[i] <= f[j]
    PROVE  LET m == Cardinality({i \in 1 .. n : f[i] < h})
           IN  m \in 0 .. n /\ \A i \in 1 .. n : f[i] < h <=> i <= m
<1> DEFINE B == {i \in 1 .. n : f[i] < h}
<1>1. \E m \in 0 .. n : B = 1 .. m
  <2>1. CASE B = {}
    <3>1. B = 1 .. 0
      BY <2>1
    <3> QED BY <3>1
  <2>2. CASE B # {}
    <3>1. B \in SUBSET (0 .. n)
      OBVIOUS
    <3> DEFINE m == Max(B)
    <3>2. m \in B /\ \A y \in B : m >= y
      <4> HIDE DEF B
      <4> QED BY <2>2, <3>1, MaxOf
    <3> HIDE DEF m
    <3>3. ASSUME NEW i \in 1 .. m PROVE i \in B
      <4>1. i \in 1 .. n /\ m \in 1 .. n /\ (i < m \/ i = m)
        BY <3>2
      <4>2. f[i] \in Nat /\ f[m] \in Nat /\ f[i] <= f[m] /\ f[m] < h
        BY <3>2, <4>1
      <4> QED BY <4>1, <4>2
    <3>4. B = 1 .. m
      BY <3>2, <3>3
    <3> QED BY <3>2, <3>4
  <2> QED BY <2>1, <2>2
<1>2. PICK m \in 0 .. n : B = 1 .. m
  BY <1>1
<1>3. Cardinality(1 .. m) = m
  <2>1. Cardinality(1 .. m) = IF 1 > m THEN 0 ELSE m - 1 + 1
    BY FS_Interval
  <2> QED BY <2>1
<1>4. \A i \in 1 .. n : f[i] < h <=> i \in B
  OBVIOUS
<1> HIDE DEF B
<1>5. Cardinality(B) \in 0 .. n /\ \A i \in 1 .. n : f[i] < h <=> i <= Cardinality(B)
  BY <1>2, <1>3, <1>4
<1> QED BY <1>5 DEF B

\* The route that is found is the one that was declared.
LEMMA RouteFound ==
    ASSUME NEW R \in RouterDeclaration, Compiles(R),
           NEW parts \in PartsSet, parts.kind = "get", parts.hash = Hash(parts.path)
    PROVE  FindRoute(Compile(R), parts) = CompileResponse(StringTable(R), Declared(R, parts))
<1> DEFINE t == StringTable(R)
           S == RouteSet(R)
           n == Len(R.routes)
           E(i) == CompileRoute(t, R.routes[i])
           app0 == Compile(R)
           routes == app0.routes
           h == parts.hash
           p == parts.path
           hashes == [i \in 1 .. n |-> routes[i].hash]
           m == Cardinality({i \in 1 .. n : hashes[i] < h})
           found == {i \in m + 1 .. n : (\A j \in m + 1 .. i : routes[j].hash = h) /\ routes[i].path = p}
<1>1. n \in Nat /\ DOMAIN R.routes = 1 .. n /\ h \in Nat
  BY RouterIs DEF PartsSet
<1>2. /\ routes \in [1 .. n -> S] /\ \A r \in S : \E k \in 1 .. n : routes[k] = r
      /\ \A k, l \in 1 .. n : k < l => routes[k].hash <= routes[l].hash
  <2>1. routes = Sorted(S) /\ Cardinality(S) = n /\ Routed(S)
    BY CompiledIs, RouteSetIs
  <2> HIDE DEF S, n, routes
  <2>2. Ascends(routes, S)
    BY <2>1, SortedIs
  <2> QED BY <2>1, <2>2 DEF Ascends
<1>3. /\ \A r \in S : r.hash \in Nat
      /\ \A q, r \in S : q.path = r.path => q = r
  BY RouteSetIs DEF Routed
<1>4. S = {E(i) : i \in 1 .. n}
  BY DEF RouteSet
<1>5. \A i \in 1 .. n : /\ E(i).path = R.routes[i].path /\ E(i).hash = Hash(R.routes[i].path)
                        /\ E(i).response = CompileResponse(t, R.routes[i].response)
  BY CompiledRoute
<1>6. Len(routes) = n
  <2>1. Len(routes) \in Nat /\ DOMAIN routes = 1 .. Len(routes)
    <3> HIDE DEF S, n, routes
    <3>1. routes \in Seq(S)
      BY <1>1, <1>2, SeqDef
    <3> QED BY <3>1
  <2> HIDE DEF S, n, routes
  <2>2. 1 .. Len(routes) = 1 .. n
    BY <1>2, <2>1
  <2> DEFINE k == Len(routes)
  <2>3. k \in Nat /\ 1 .. k = 1 .. n
    BY <2>1, <2>2
  <2> HIDE DEF k
  <2>4. k = n
    <3>1. k \in 1 .. k \/ k = 0
      BY <2>3
    <3>2. n \in 1 .. n \/ n = 0
      BY <1>1
    <3>3. k <= n /\ n <= k
      BY <1>1, <2>3, <3>1, <3>2
    <3> QED BY <1>1, <2>3, <3>3
  <2> QED BY <2>4 DEF k
<1>7. app0.fallback = CompileResponse(t, R.fallback)
  BY CompiledIs
<1> HIDE DEF E, S, t, n, app0
<1>8. {i \in 1 .. n : routes[i].hash < h} = {i \in 1 .. n : hashes[i] < h}
  OBVIOUS
<1>9. FindRoute(app0, parts) = IF found = {} THEN app0.fallback ELSE routes[Min(found)].response
  <2>1. /\ \A x : x \in 1 + m .. n <=> x \in m + 1 .. n
        /\ 1 + m = m + 1
    <3>1. m \in 0 .. n
      <4> HIDE DEF m
      <4>1. /\ \A i \in 1 .. n : hashes[i] \in Nat
            /\ \A i, j \in 1 .. n : i < j => hashes[i] <= hashes[j]
        BY <1>2, <1>3
      <4> HIDE DEF hashes
      <4> QED BY <1>1, <4>1, BelowIs DEF m
    <3> HIDE DEF m
    <3> QED BY <1>1, <3>1
  <2>2. FindRoute(app0, parts)
          = LET n0 == Len(routes)
                first == 1 + Cardinality({i \in 1 .. n0 : routes[i].hash < h})
                found0 == {i \in first .. n0 : (\A j \in first .. i : routes[j].hash = h) /\ routes[i].path = p}
            IN IF found0 = {} THEN app0.fallback ELSE routes[Min(found0)].response
    BY Zenon DEF FindRoute
  <2> HIDE DEF routes, h, p
  <2> QED BY <1>6, <1>8, <2>1, <2>2
<1>10. m \in 0 .. n /\ \A i \in 1 .. n : routes[i].hash < h <=> i <= m
  <2>1. /\ \A i \in 1 .. n : hashes[i] \in Nat
        /\ \A i, j \in 1 .. n : i < j => hashes[i] <= hashes[j]
    BY <1>2, <1>3
  <2>2. \A i \in 1 .. n : hashes[i] = routes[i].hash
    OBVIOUS
  <2> HIDE DEF hashes, routes, h
  <2>3. m \in 0 .. n /\ \A i \in 1 .. n : hashes[i] < h <=> i <= m
    BY <1>1, <2>1, BelowIs
  <2> QED BY <2>2, <2>3
<1> HIDE DEF m, hashes, routes, h, p
<1> DEFINE here == {i \in 1 .. n : R.routes[i].path = p}
           chosen == CHOOSE i \in here : TRUE
<1>11. Declared(R, parts) = IF here = {} THEN R.fallback ELSE R.routes[chosen].response
  <2>1. {i \in DOMAIN R.routes : R.routes[i].path = parts.path} = here
    BY <1>1 DEF p
  <2> DEFINE own == {i \in DOMAIN R.routes : R.routes[i].path = parts.path}
  <2>2. Declared(R, parts) = CASE parts.kind = "bad" -> R.bad
                               [] parts.kind = "not_allowed" -> R.notAllowed
                               [] parts.kind = "get" -> IF own = {} THEN R.fallback
                                                        ELSE R.routes[CHOOSE i \in own : TRUE].response
    BY Zenon DEF Declared
  <2>3. own = here
    BY <2>1
  <2> HIDE DEF here, own
  <2>4. Declared(R, parts) = IF own = {} THEN R.fallback ELSE R.routes[CHOOSE i \in own : TRUE].response
    BY <2>2
  <2> QED BY <2>3, <2>4
<1>12. CASE here = {}
  <2>1. found = {}
    <3> SUFFICES ASSUME NEW i \in found PROVE FALSE
      OBVIOUS
    <3>1. i \in 1 .. n /\ routes[i].path = p
      BY <1>1, <1>10
    <3>2. PICK k \in 1 .. n : routes[i] = E(k)
      BY <1>2, <1>4, <3>1
    <3> QED BY <1>5, <1>12, <3>1, <3>2
  <2> HIDE DEF found
  <2> QED BY <1>7, <1>9, <1>11, <1>12, <2>1 DEF app0, t
<1>13. CASE here # {}
  <2>1. chosen \in 1 .. n /\ R.routes[chosen].path = p
    BY <1>1, <1>13
  <2> HIDE DEF chosen
  <2> DEFINE e == E(chosen)
  <2>2. e \in S /\ e.path = p /\ e.hash = h /\ e.response = CompileResponse(t, R.routes[chosen].response)
    BY <1>4, <1>5, <2>1 DEF h, p
  <2> HIDE DEF e
  <2>3. PICK k \in 1 .. n : routes[k] = e
    BY <1>2, <2>2
  <2>4. k \in m + 1 .. n
    BY <1>1, <1>10, <2>2, <2>3
  <2>5. ASSUME NEW j \in m + 1 .. k PROVE routes[j].hash = h
    <3>1. j \in 1 .. n /\ ~(j <= m) /\ (j < k \/ j = k)
      BY <1>1, <1>10, <2>4
    <3>2. ~(routes[j].hash < h) /\ routes[j] \in S /\ routes[j].hash \in Nat
      BY <1>2, <1>3, <1>10, <3>1
    <3>3. routes[j].hash <= h
      <4>1. CASE j < k
        BY <1>2, <2>2, <2>3, <3>1, <4>1
      <4>2. CASE j = k
        BY <1>1, <2>2, <2>3, <4>2
      <4> QED BY <3>1, <4>1, <4>2
    <3> QED BY <1>1, <3>2, <3>3
  <2>6. k \in found
    BY <2>2, <2>3, <2>4, <2>5
  <2>7. found \subseteq Nat /\ \A i \in found : i \in 1 .. n /\ routes[i].path = p
    BY <1>1, <1>10
  <2> HIDE DEF found
  <2>8. Min(found) \in found
    BY <2>6, <2>7, MinOf
  <2>9. Min(found) \in 1 .. n /\ routes[Min(found)].path = p
    BY <2>7, <2>8
  <2>10. routes[Min(found)] = e
    BY <1>2, <1>3, <2>2, <2>9
  <2> QED BY <1>9, <1>11, <1>13, <2>2, <2>6, <2>10 DEF app0, t
<1> QED BY <1>12, <1>13

\* The place where a value is found.
LEMMA IdBounds ==
    ASSUME NEW A, NEW t \in Seq(A), NEW x
    PROVE  Id(t, x) \in 0 .. Len(t)
<1> DEFINE I == {i \in 1 .. Len(t) : t[i] = x}
<1>1. Len(t) \in Nat
  OBVIOUS
<1>2. Id(t, x) = IF I # {} THEN Min(I) ELSE 0
  BY Zenon DEF Id, SelectInSeq
<1>3. I # {} => Min(I) \in I
  <2>1. I \subseteq Nat
    BY <1>1
  <2> HIDE DEF I
  <2> QED BY <2>1, MinOf
<1> QED BY <1>1, <1>2, <1>3

\* What a request was split into.
LEMMA PartsTypes ==
    ASSUME NEW path \in Seq(Byte), NEW query \in Seq(Byte), NEW hash \in Nat,
           NEW kind \in {"bad", "not_allowed", "get"}
    PROVE  /\ Parts(kind, path, query, hash) \in PartsSet
           /\ Parts(kind, path, query, hash).kind = kind
           /\ Parts(kind, path, query, hash).path = path
           /\ Parts(kind, path, query, hash).hash = hash
  BY DEF Parts, PartsSet

\* What a request is parsed into.
LEMMA ParseTypes ==
    ASSUME NEW request \in Seq(Byte)
    PROVE  /\ ParseRequest(request) \in PartsSet
           /\ ParseRequest(request).kind = "get" =>
                  /\ ParseRequest(request).hash = Hash(ParseRequest(request).path)
                  /\ ParseRequest(request).path # <<>>
<1> DEFINE B == Seq(Byte)
           end == SelectInSeq(request, LAMBDA b : b = LF)
           raw == SubSeq(request, 1, end - 1)
           line == IF raw # <<>> /\ Last(raw) = CR THEN Front(raw) ELSE raw
           spaces == {i \in DOMAIN line : line[i] = SP}
           first == Min(spaces)
           second == Max(spaces)
           target == SubSeq(line, first + 1, second - 1)
           mark == SelectInSeq(target, LAMBDA b : b = Question)
           path == IF mark = 0 THEN target ELSE SubSeq(target, 1, mark - 1)
           query == IF mark = 0 THEN <<>> ELSE SubSeq(target, mark + 1, Len(target))
           parsed == ParseRequest(request)
           broken == Parts("bad", <<>>, <<>>, 0)
           other == Parts("not_allowed", <<>>, <<>>, 0)
           get == Parts("get", path, query, Hash(path))
           early == end = 0 \/ Cardinality(spaces) # 2
           wrong == \/ SubSeq(line, second + 1, Len(line)) \notin Versions
                    \/ target = <<>> \/ Head(target) # Slash \/ path = <<>>
<1>1. parsed = IF early THEN broken
               ELSE IF SubSeq(line, 1, first - 1) # Get THEN other
               ELSE IF wrong THEN broken ELSE get
  BY Zenon DEF ParseRequest
<1>2. <<>> \in B /\ 0 \in Nat
  BY EmptySeq
<1>3. broken \in PartsSet /\ broken.kind = "bad" /\ other \in PartsSet /\ other.kind = "not_allowed"
  <2>1. "bad" \in {"bad", "not_allowed", "get"} /\ "not_allowed" \in {"bad", "not_allowed", "get"}
    OBVIOUS
  <2>2. broken \in PartsSet /\ broken.kind = "bad"
    BY <1>2 DEF Parts, PartsSet
  <2>3. other \in PartsSet /\ other.kind = "not_allowed"
    BY <1>2 DEF Parts, PartsSet
  <2> QED BY <2>2, <2>3
<1>4. raw \in B
  <2>1. end \in 0 .. Len(request)
    <3>1. end = Id(request, LF)
      BY Zenon DEF Id
    <3> QED BY <3>1, IdBounds
  <2>2. end - 1 \in Int /\ end - 1 <= Len(request)
    BY <2>1
  <2> HIDE DEF end
  <2> QED BY <2>2, PartOf
<1>5. line \in B /\ Len(line) \in Nat /\ DOMAIN line = 1 .. Len(line)
  <2>1. line \in B
    <3> HIDE DEF raw
    <3> QED BY <1>4 DEF Front
  <2> HIDE DEF line
  <2> QED BY <2>1
<1> HIDE DEF raw, line
<1>6. ASSUME ~early PROVE target \in B
  <2>1. spaces \in SUBSET (0 .. Len(line)) /\ spaces \subseteq Nat /\ 0 \notin spaces
    BY <1>5
  <2>2. spaces # {}
    <3>1. Cardinality(spaces) = 2
      BY <1>6
    <3> HIDE DEF spaces
    <3>2. Cardinality({}) = 0
      BY FS_EmptySet
    <3>3. spaces = {} => Cardinality(spaces) = Cardinality({})
      BY Zenon
    <3> QED BY ONLY <3>1, <3>2, <3>3
  <2>3. first \in spaces /\ second \in spaces
    <3> HIDE DEF spaces
    <3> QED BY <1>5, <2>1, <2>2, MinOf, MaxOf
  <2> HIDE DEF first, second
  <2>4. first + 1 \in Nat \ {0} /\ second - 1 \in Int /\ second - 1 <= Len(line)
    BY <1>5, <2>1, <2>3
  <2> QED BY <1>5, <2>4, PartOf
<1> HIDE DEF spaces, first, second, early
<1>7. ASSUME target \in B PROVE path \in B /\ query \in B /\ Hash(path) \in Nat
  <2>1. mark \in 0 .. Len(target) /\ Len(target) \in Nat
    <3> HIDE DEF target
    <3>1. Len(target) \in Nat
      BY <1>7
    <3>2. mark = Id(target, Question)
      BY Zenon DEF Id
    <3> QED BY <1>7, <3>1, <3>2, IdBounds
  <2> HIDE DEF mark, target
  <2>2. mark - 1 \in Int /\ mark - 1 <= Len(target) /\ mark + 1 \in Nat \ {0}
        /\ Len(target) \in Int /\ Len(target) <= Len(target)
    BY <2>1
  <2>3. SubSeq(target, 1, mark - 1) \in B
    BY <1>7, <2>2, PartOf
  <2>4. SubSeq(target, mark + 1, Len(target)) \in B
    BY <1>7, <2>2, PartOf
  <2>5. path \in B /\ query \in B
    BY <1>2, <1>7, <2>3, <2>4
  <2> HIDE DEF path
  <2>6. Hash(path) \in Nat
    BY <2>5, BytesAreNumbers, HashIs
  <2> QED BY <2>5, <2>6
<1> HIDE DEF target, path, query, mark
<1>8. ASSUME ~early PROVE get \in PartsSet /\ get.kind = "get" /\ get.path = path /\ get.hash = Hash(path)
  BY <1>6, <1>7, <1>8, PartsTypes
<1>9. ~wrong => path # <<>>
  OBVIOUS
<1> HIDE DEF broken, other, get, parsed, wrong
<1>10. parsed \in PartsSet /\ (parsed.kind = "get" => parsed.hash = Hash(parsed.path) /\ parsed.path # <<>>)
  <2>1. CASE parsed = broken
    BY <1>3, <2>1
  <2>2. CASE parsed = other
    BY <1>3, <2>2
  <2>3. CASE parsed = get /\ ~early /\ ~wrong
    BY <1>8, <1>9, <2>3
  <2> QED BY <1>1, <2>1, <2>2, <2>3
<1> QED BY <1>10 DEF parsed

\* What the promise says.
LEMMA PromisedIs ==
    ASSUME NEW R, NEW request, NEW b
    PROVE  Promised(R, request, b)
              = LET parts == ParseRequest(request)
                    r == Declared(R, parts)
                IN  BuildResponse(r.status, r.reason, r.contentType,
                                  SayAll(r.calls, parts, Len(request), b), b)
  BY Zenon DEF Promised, SayAll, Pieces, Piece, Wording

\* The processor that evaluates the compiled router answers every request as
\* the router declares it: the string table, the merged literals, the hashes
\* and the order of the routes do not show.
THEOREM CompiledRouterAnswers ==
    ASSUME NEW R \in RouterDeclaration, Compiles(R), NEW request \in Seq(Byte), NEW b
    PROVE  RouteRequest(Compile(R), request, b) = Promised(R, request, b)
<1> DEFINE parts == ParseRequest(request)
           machine == Compile(R)
           t == StringTable(R)
           d == Declared(R, parts)
           len == Len(request)
           r == CASE parts.kind = "get" -> FindRoute(machine, parts)
                  [] parts.kind = "bad" -> machine.bad
                  [] parts.kind = "not_allowed" -> machine.notAllowed
<1>1. RouteRequest(machine, request, b) = RenderResponse(machine, r, parts, len, b)
  BY Zenon DEF RouteRequest
<1>2. parts \in PartsSet /\ (parts.kind = "get" => parts.hash = Hash(parts.path)) /\ len \in Nat
  BY ParseTypes
<1> HIDE DEF parts, len
<1>3. d \in ResponseDeclaration /\ Speaks(t, d)
  BY <1>2, DeclaredIs
<1>4. t \in Seq(Seq(Byte)) /\ machine.strings = t
  BY TableSpeaks, CompiledIs
<1>5. r = CompileResponse(t, d)
  <2>1. parts.kind \in {"bad", "not_allowed", "get"}
    BY <1>2 DEF PartsSet
  <2>2. CASE parts.kind = "get"
    <3>1. r = FindRoute(machine, parts)
      BY <2>2
    <3> QED BY <1>2, <2>2, <3>1, RouteFound
  <2>3. CASE parts.kind = "bad"
    <3>1. r = machine.bad
      BY <2>3
    <3>2. d = R.bad
      BY <2>3 DEF Declared
    <3> QED BY <3>1, <3>2, CompiledIs
  <2>4. CASE parts.kind = "not_allowed"
    <3>1. r = machine.notAllowed
      BY <2>4
    <3>2. d = R.notAllowed
      BY <2>4 DEF Declared
    <3> QED BY <3>1, <3>2, CompiledIs
  <2> QED BY <2>1, <2>2, <2>3, <2>4
<1> HIDE DEF machine, t, d, r
<1>6. RenderResponse(machine, r, parts, len, b)
         = BuildResponse(d.status, d.reason, d.contentType, SayAll(d.calls, parts, len, b), b)
  BY <1>2, <1>3, <1>4, <1>5, Rendered
<1>7. Promised(R, request, b) = BuildResponse(d.status, d.reason, d.contentType, SayAll(d.calls, parts, len, b), b)
  BY PromisedIs DEF d, parts, len
<1> QED BY <1>1, <1>6, <1>7 DEF machine

-----------------------------------------------------------------------------
(* What holds for every backend.                                           *)

CpuAnswers == Ok([i \in DOMAIN batch |-> RouteRequest(app, batch[i], "cpu")])

\* The router stays the one that was compiled; only the GPU maps buffers, and
\* none that it has waited for and maps directly stays mapped; the CPU answers
\* at once.
Ground ==
    /\ router \in Routers /\ Compiles(router) /\ app = Compile(router)
    /\ direct \in BOOLEAN /\ (direct => mapped = {})
    /\ direct /\ phase = "dead" => abandoned # {}
    /\ batch \in Batches \cup {<<>>}
    /\ backend \in {"none", "refused", "cpu", "gpu"}
    /\ backend # "gpu" => mapped = {} /\ abandoned = {} /\ phase \in {"idle", "done"}
    /\ backend \in {"none", "refused"} => phase = "idle"
    /\ backend = "cpu" /\ phase = "done" => result = CpuAnswers

\* The invariant holds when the processor is created.
LEMMA GroundInit == Init => Ground
  BY DEF Init, Ground

\* Every branch of a direct read unmaps what is mapped, all of it and no more.
LEMMA DirectUnmapsAll ==
    ASSUME NEW ok \in SUBSET {"meta", "output"}
    PROVE  DirectReadUnmaps(ok) = ok
  BY DEF DirectReadUnmaps

\* Every action preserves the invariant.
LEMMA GroundNext == Ground /\ [Next]_vars => Ground'
<1> SUFFICES ASSUME Ground, [Next]_vars PROVE Ground'
  OBVIOUS
<1>1. ASSUME NEW choice \in {"cpu", "gpu", "auto"}, Create(choice) PROVE Ground'
  <2>1. UNCHANGED <<router, app, direct, mapped, abandoned, phase, batch, todo, result, left>> /\ backend = "none"
    BY <1>1 DEF Create
  <2>2. backend' \in {"refused", "cpu", "gpu"}
    BY <1>1 DEF Create
  <2>3. phase = "idle" /\ mapped = {}
    BY <2>1 DEF Ground
  <2> QED BY <2>1, <2>2, <2>3 DEF Ground
<1>2. ASSUME NEW requests \in Batches, CpuBatch(requests) PROVE Ground'
  <2>1. /\ batch' = requests /\ phase' = "done" /\ backend = "cpu"
        /\ result' = Ok([i \in DOMAIN requests |-> RouteRequest(app, requests[i], "cpu")])
        /\ UNCHANGED <<router, app, backend, direct, gpu, mapped, abandoned, todo>>
    BY <1>2 DEF CpuBatch
  <2>2. result' = CpuAnswers'
    BY <2>1 DEF CpuAnswers
  <2> QED BY <2>1, <2>2 DEF Ground
<1>3. ASSUME NEW requests \in Batches, GpuBatch(requests) PROVE Ground'
  <2>1. backend = "gpu" /\ batch' = requests /\ UNCHANGED <<router, app, backend, direct, mapped, abandoned>>
    BY <1>3 DEF GpuBatch
  <2>2. phase' \in {"done", "dispatched"}
    BY <1>3 DEF GpuBatch
  <2> QED BY <2>1, <2>2 DEF Ground
<1>4. ASSUME NEW i \in 1 .. MaxBatch, Invoke(i) PROVE Ground'
  <2>1. phase = "dispatched" /\ UNCHANGED <<router, app, backend, direct, mapped, abandoned, phase, batch, result, left>>
    BY <1>4 DEF Invoke
  <2> QED BY <2>1 DEF Ground, CpuAnswers
<1>5. ASSUME NEW outcome, NEW held, NEW unmapped, Finished(outcome, held, unmapped),
             direct => unmapped = held
      PROVE  Ground'
  <2>1. phase = "dispatched" /\ UNCHANGED <<router, app, backend, direct, gpu, abandoned, batch, todo, left>>
    BY <1>5 DEF Finished
  <2>2. backend = "gpu"
    BY <2>1 DEF Ground
  <2>3. CASE unmapped \subseteq held /\ mapped' = held \ unmapped /\ phase' = "done"
    <3>1. direct => mapped' = {}
      BY <1>5, <2>3
    <3> QED BY <2>1, <2>2, <2>3, <3>1 DEF Ground
  <2>4. CASE ~(unmapped \subseteq held) /\ UNCHANGED mapped
    <3>1. ~direct
      BY <1>5, <2>4
    <3> QED BY <2>1, <2>2, <2>4, <3>1 DEF Ground
  <2> QED BY <1>5, <2>3, <2>4 DEF Finished
<1>6. CASE ReadResponses
  BY <1>5, <1>6 DEF ReadResponses
<1>7. CASE ReadbackFails
  BY <1>5, <1>7 DEF ReadbackFails
<1>8. CASE DirectRead
  <2>1. Requested = {"meta", "output"}
    BY <1>8 DEF DirectRead, Requested
  <2> QED BY <1>5, <1>8, <2>1, DirectUnmapsAll DEF DirectRead
<1>12. CASE AbandonWait
  <2>1. /\ phase = "dispatched" /\ phase' = "done"
        /\ UNCHANGED <<router, app, backend, direct, gpu, mapped, batch, left>>
    BY <1>12 DEF AbandonWait
  <2>2. backend = "gpu"
    BY <2>1 DEF Ground
  <2> QED BY <2>1, <2>2 DEF Ground
<1>9. CASE Return
  BY <1>9 DEF Return, Ground, vars
<1>10. CASE Die
  <2>1. /\ mapped \cup abandoned # {} /\ phase' = "dead"
        /\ UNCHANGED <<router, app, backend, direct, gpu, mapped, abandoned, batch, todo, result, left>>
    BY <1>10 DEF Die
  <2>2. direct => abandoned # {}
    BY <2>1 DEF Ground
  <2> QED BY <2>1, <2>2 DEF Ground
<1>11. CASE UNCHANGED vars
  BY <1>11 DEF vars, Ground, CpuAnswers
<1> QED BY <1>1, <1>2, <1>3, <1>4, <1>6, <1>7, <1>8, <1>9, <1>10, <1>11, <1>12 DEF Next

\* The invariant holds in every behaviour of the processor.
THEOREM GroundHolds == Spec => []Ground
<1> QED BY GroundInit, GroundNext, PTL DEF Spec

\* A processor that maps its output directly is stopped by wgpu only after a
\* batch that gave up waiting for the device: whatever else fails, a direct
\* read unmaps what is mapped, and nothing that is not.
THEOREM DirectReadsUnmap == Spec => []DiesOnlyAbandoned
<1>1. Ground => DiesOnlyAbandoned
  BY DEF Ground, DiesOnlyAbandoned
<1> QED BY <1>1, GroundHolds, PTL

\* A batch is a sequence of requests.
LEMMA BatchIs ==
    ASSUME Ground
    PROVE  /\ router \in RouterDeclaration /\ Len(batch) \in Nat /\ DOMAIN batch = 1 .. Len(batch)
           /\ batch \in Seq(Seq(Byte)) /\ Len(batch) <= MaxBatch
           /\ \A i \in DOMAIN batch : batch[i] \in Seq(Byte)
<1>1. router \in RouterDeclaration
  BY ProcessorAssumption DEF Ground
<1>2. batch \in Seq(Seq(Byte)) /\ Len(batch) <= MaxBatch
  <2>1. CASE batch \in Batches
    <3>1. Batches \subseteq Seq(Seq(Byte)) /\ \A requests \in Batches : Len(requests) <= MaxBatch
      BY ProcessorAssumption
    <3> QED BY <2>1, <3>1
  <2>2. CASE batch = <<>>
    <3>1. <<>> \in Seq(Seq(Byte)) /\ Len(<<>>) = 0 /\ MaxBatch \in Nat
      BY ProcessorAssumption, EmptySeq
    <3> QED BY <2>2, <3>1
  <2> QED BY <2>1, <2>2 DEF Ground
<1> QED BY <1>1, <1>2

\* A batch the CPU processor has answered is answered as declared.
LEMMA CpuAnswersDeclared ==
    ASSUME Ground, backend = "cpu"
    PROVE  AnswersAsDeclared
<1> SUFFICES ASSUME phase = "done"
             PROVE  /\ Len(result.responses) = Len(batch)
                    /\ \A i \in DOMAIN batch : result.responses[i] = Promised(router, batch[i], "cpu")
  BY DEF AnswersAsDeclared
<1> DEFINE answers == [i \in DOMAIN batch |-> RouteRequest(app, batch[i], "cpu")]
<1>1. result.responses = answers
  BY DEF Ground, CpuAnswers, Ok
<1>2. Len(batch) \in Nat /\ DOMAIN batch = 1 .. Len(batch)
  BY BatchIs
<1>3. Len(answers) = Len(batch)
  <2> DEFINE n == Len(batch)
             E(i) == RouteRequest(app, batch[i], "cpu")
  <2>1. n \in Nat /\ answers = [i \in 1 .. n |-> E(i)]
    BY <1>2
  <2> HIDE DEF n, E, answers
  <2>2. Len([i \in 1 .. n |-> E(i)]) = n
    BY <2>1
  <2> QED BY <2>1, <2>2 DEF n
<1>4. ASSUME NEW i \in DOMAIN batch PROVE answers[i] = Promised(router, batch[i], "cpu")
  <2>1. app = Compile(router) /\ Compiles(router) /\ router \in RouterDeclaration /\ batch[i] \in Seq(Byte)
    BY BatchIs DEF Ground
  <2>2. answers[i] = RouteRequest(app, batch[i], "cpu")
    OBVIOUS
  <2> QED BY <2>1, <2>2, CompiledRouterAnswers
<1> HIDE DEF answers
<1> QED BY <1>1, <1>3, <1>4

\* The CPU processor answers every batch as the router declares it, whatever
\* batches it was given before.
THEOREM CpuAnswersAsDeclared == Spec => [](backend = "cpu" => AnswersAsDeclared)
<1>1. Ground => (backend = "cpu" => AnswersAsDeclared)
  BY CpuAnswersDeclared
<1> QED BY <1>1, GroundHolds, PTL

-----------------------------------------------------------------------------
(* Concatenations of concatenations.                                       *)

-----------------------------------------------------------------------------
(* The writer.                                                             *)

Writer == [out : Seq(Seq(Byte)), first : Nat, stride : Nat, cursor : Nat, pending : Seq(Byte),
           failed : BOOLEAN]

\* The word q of a slot is the one of flat.
WordIs(word, flat, q) ==
    Len(word) = WordBytes /\ \A k \in 1 .. WordBytes : word[k] = flat[WordBytes * (q - 1) + k]

\* The writer v, after flat was pushed: c words of it are in the slot, the rest
\* is pending; nothing else of the output has changed.
Holds(w, v, flat, c) ==
    /\ w \in Writer /\ w.failed = FALSE /\ w.first = v.first /\ w.stride = v.stride
    /\ c \in Nat /\ w.cursor = Len(flat)
    /\ Len(w.pending) < WordBytes /\ Len(flat) = WordBytes * c + Len(w.pending)
    /\ \A k \in 1 .. Len(w.pending) : w.pending[k] = flat[WordBytes * c + k]
    /\ Len(w.out) = Len(v.out)
    /\ \A j \in 1 .. Len(v.out) : j <= v.first \/ j > v.first + c => w.out[j] = v.out[j]
    /\ \A q \in 1 .. c : WordIs(w.out[v.first + q], flat, q)

\* The parts of a writer.
LEMMA WriterIs ==
    ASSUME NEW w \in Writer
    PROVE  /\ w.out \in Seq(Seq(Byte)) /\ Len(w.out) \in Nat /\ w.first \in Nat /\ w.stride \in Nat
           /\ w.cursor \in Nat /\ w.pending \in Seq(Byte) /\ Len(w.pending) \in Nat /\ w.failed \in BOOLEAN
  BY DEF Writer

\* One push of the writer, of at most a word, that fits the slot.
LEMMA PushHolds ==
    ASSUME NEW v \in Writer, NEW w, NEW flat \in Seq(Byte), NEW c, Holds(w, v, flat, c),
           NEW bytes \in Seq(Byte), Len(bytes) <= WordBytes,
           Len(flat) + Len(bytes) <= WordBytes * v.stride, v.first + v.stride <= Len(v.out)
    PROVE  \E d \in Nat : Holds(Push(w, bytes), v, flat \o bytes, d)
<1>1. PICK W \in Nat : W = WordBytes /\ W > 0
  BY ShaderAssumption
<1>2. /\ w \in Writer /\ w.failed = FALSE /\ w.first = v.first /\ w.stride = v.stride
      /\ c \in Nat /\ w.cursor = Len(flat) /\ Len(w.pending) < W
      /\ Len(flat) = W * c + Len(w.pending)
      /\ \A k \in 1 .. Len(w.pending) : w.pending[k] = flat[W * c + k]
      /\ Len(w.out) = Len(v.out)
      /\ \A j \in 1 .. Len(v.out) : j <= v.first \/ j > v.first + c => w.out[j] = v.out[j]
      /\ \A q \in 1 .. c : WordIs(w.out[v.first + q], flat, q)
  BY <1>1 DEF Holds
<1>3. /\ w.out \in Seq(Seq(Byte)) /\ Len(w.out) \in Nat /\ w.first \in Nat /\ w.stride \in Nat
      /\ w.cursor \in Nat /\ w.pending \in Seq(Byte) /\ Len(w.pending) \in Nat
      /\ v.first \in Nat /\ v.stride \in Nat
  BY <1>2, WriterIs
\* Names for the quantities of this push.
<1>4. PICK s : s = w.pending
  OBVIOUS
<1>5. PICK p \in Nat : p = Len(s)
  BY <1>3, <1>4
<1>6. PICK b \in Nat : b = Len(bytes)
  OBVIOUS
<1>7. PICK n \in Nat : n = Len(flat)
  OBVIOUS
<1>8. PICK base \in Nat : base = W * c
  BY <1>2, Times
<1>9. PICK x \in Seq(Seq(Byte)) : x = w.out
  BY <1>3
<1>10. PICK first \in Nat : first = v.first
  BY <1>3
<1>11. PICK stride \in Nat : stride = v.stride
  BY <1>3
<1>12. PICK room \in Nat : room = W * stride
  BY Times
<1>13. PICK all : all = s \o bytes
  OBVIOUS
<1>14. PICK more : more = flat \o bytes
  OBVIOUS
<1>15. PICK size \in Nat : size = Len(x)
  BY <1>9
<1>16. /\ p < W /\ n = base + p /\ b <= W /\ n + b <= room /\ first + stride <= size
       /\ s \in Seq(Byte) /\ size = Len(v.out) /\ W * (c + 1) = base + W /\ c \in Nat
  <2>1. W * (c + 1) = base + W
    BY <1>1, <1>2, <1>8, Times
  <2>2. Len(flat) + Len(bytes) <= W * stride
    BY <1>1, <1>11
  <2>3. n + b <= room
    BY <1>6, <1>7, <1>12, <2>2
  <2>4. size = Len(v.out)
    BY <1>2, <1>9, <1>15
  <2>5. first + stride <= size
    BY <1>10, <1>11, <2>4
  <2>6. n = base + p
    BY <1>2, <1>4, <1>5, <1>7, <1>8
  <2>7. b <= W
    BY <1>1, <1>6
  <2>8. p < W /\ s \in Seq(Byte)
    BY <1>2, <1>3, <1>4, <1>5
  <2> QED BY <1>2, <2>1, <2>3, <2>4, <2>5, <2>6, <2>7, <2>8
<1>17. /\ \A k \in 1 .. p : s[k] = flat[base + k]
       /\ \A j \in 1 .. size : j <= first \/ j > first + c => x[j] = v.out[j]
       /\ \A q \in 1 .. c : WordIs(x[first + q], flat, q)
  <2>1. \A k \in 1 .. p : s[k] = flat[base + k]
    BY <1>2, <1>4, <1>5, <1>8
  <2> QED BY <1>2, <1>9, <1>10, <1>16, <2>1
<1>18. /\ all \in Seq(Byte) /\ Len(all) = p + b
       /\ \A k \in 1 .. p : all[k] = s[k]
       /\ \A k \in 1 .. b : all[p + k] = bytes[k]
  <2>1. s \in Seq(Byte)
    BY <1>16
  <2>2. /\ s \o bytes \in Seq(Byte) /\ Len(s \o bytes) = Len(s) + Len(bytes)
        /\ \A k \in 1 .. Len(s) : (s \o bytes)[k] = s[k]
        /\ \A k \in 1 .. Len(bytes) : (s \o bytes)[Len(s) + k] = bytes[k]
    BY ONLY <2>1, bytes \in Seq(Byte)
  <2> QED BY <1>5, <1>6, <1>13, <2>2
<1>19. /\ more \in Seq(Byte) /\ Len(more) = n + b
       /\ \A k \in 1 .. n : more[k] = flat[k]
       /\ \A k \in 1 .. b : more[n + k] = bytes[k]
  <2>1. /\ flat \o bytes \in Seq(Byte) /\ Len(flat \o bytes) = Len(flat) + Len(bytes)
        /\ \A k \in 1 .. Len(flat) : (flat \o bytes)[k] = flat[k]
        /\ \A k \in 1 .. Len(bytes) : (flat \o bytes)[Len(flat) + k] = bytes[k]
    BY ONLY flat \in Seq(Byte), bytes \in Seq(Byte)
  <2> QED BY <1>6, <1>7, <1>14, <2>1
<1>20. \A k \in 1 .. p + b : all[k] = more[base + k]
  <2> SUFFICES ASSUME NEW k \in 1 .. p + b PROVE all[k] = more[base + k]
    OBVIOUS
  <2>1. CASE k <= p
    <3>1. k \in 1 .. p /\ base + k \in 1 .. n
      BY <1>16, <2>1
    <3> QED BY <1>17, <1>18, <1>19, <3>1
  <2>2. CASE ~(k <= p)
    <3>1. PICK m \in 1 .. b : k = p + m
      <4>1. k - p \in 1 .. b /\ k = p + (k - p)
        BY <2>2
      <4> QED BY <4>1
    <3>2. n + m = base + k
      BY <1>16, <3>1
    <3>3. all[p + m] = bytes[m] /\ more[n + m] = bytes[m]
      BY <1>18, <1>19
    <3> QED BY <3>1, <3>2, <3>3
  <2> QED BY <2>1, <2>2
<1>21. ASSUME NEW q \in 1 .. c, NEW word0, WordIs(word0, flat, q) PROVE WordIs(word0, more, q)
  <2>1. PICK start \in Nat : start = W * (q - 1) /\ start + W <= base
    <3>1. q - 1 \in Nat /\ q - 1 < c
      BY <1>16
    <3> QED BY <1>1, <1>8, <1>16, <3>1, Times
  <2>2. Len(word0) = W /\ \A k \in 1 .. W : word0[k] = flat[start + k]
    BY <1>1, <1>21, <2>1 DEF WordIs
  <2>3. ASSUME NEW k \in 1 .. W PROVE more[start + k] = flat[start + k]
    <3>1. start \in Nat /\ start + W <= base /\ k <= W /\ k \in Nat /\ k >= 1 /\ base <= n
      <4>1. base <= n
        BY <1>16
      <4>2. start \in Nat /\ start + W <= base
        BY <2>1
      <4> QED BY <4>1, <4>2
    <3>2. start + k \in 1 .. n
      BY <3>1
    <3> QED BY <1>19, <3>2
  <2>4. Len(word0) = W /\ \A k \in 1 .. W : word0[k] = more[start + k]
    BY <2>2, <2>3
  <2> QED BY <1>1, <2>1, <2>4 DEF WordIs
<1>22. ~(w.stride * WordBytes - w.cursor < Len(bytes))
  <2>1. w.stride * WordBytes = room
    BY <1>1, <1>2, <1>11, <1>12
  <2>2. w.cursor = n
    BY <1>2, <1>7
  <2> QED BY <1>6, <1>16, <2>1, <2>2
<1>23. PICK at : at = w.first + (w.cursor \div W) + 1
  OBVIOUS
<1>24. PICK rest : rest = SubSeq(all, W + 1, Len(all))
  OBVIOUS
<1>25. PICK word : word = SubSeq(all, 1, W)
  OBVIOUS
<1>26. Push(w, bytes) = IF Len(all) < W THEN [w EXCEPT !.cursor = @ + b, !.pending = all]
                        ELSE [w EXCEPT !.cursor = @ + b, !.pending = rest, !.out[at] = word]
  BY <1>1, <1>2, <1>4, <1>6, <1>13, <1>22, <1>23, <1>24, <1>25, Zenon DEF Push
<1>27. w.cursor + b \in Nat /\ w.cursor + b = Len(more) /\ w.cursor = n
  <2>1. w.cursor = n
    BY <1>2, <1>7
  <2> QED BY <1>19, <2>1
<1>28. CASE Len(all) < W
  <2>1. PICK new : new = [w EXCEPT !.cursor = @ + b, !.pending = all]
    OBVIOUS
  <2>2. new \in Writer /\ new.cursor = w.cursor + b /\ new.pending = all /\ new.out = w.out
        /\ new.first = w.first /\ new.stride = w.stride /\ new.failed = FALSE
    BY <1>2, <1>18, <1>27, <2>1 DEF Writer
  <2>3. Push(w, bytes) = new
    BY <1>26, <1>28, <2>1
  <2>4. \A k \in 1 .. Len(all) : all[k] = more[base + k]
    BY <1>18, <1>20
  <2>5. \A q \in 1 .. c : WordIs(x[first + q], more, q)
    BY <1>17, <1>21
  <2>6. Len(more) = base + Len(all)
    BY <1>16, <1>18, <1>19
  <2>7. Holds(new, v, more, c)
    BY <1>1, <1>2, <1>8, <1>9, <1>10, <1>16, <1>27, <1>28, <2>2, <2>4, <2>5, <2>6 DEF Holds
  <2> QED BY <1>2, <1>14, <2>3, <2>7
<1>29. CASE ~(Len(all) < W)
  <2>1. w.cursor \div W = c
    <3>0. p \in 0 .. W - 1
      BY <1>16
    <3>1. n = W * c + p
      BY <1>8, <1>16
    <3>2. n \div W = c
      <4>1. W \in Nat /\ W > 0 /\ c \in Nat /\ n \in Nat
        BY <1>1, <1>16
      <4> QED BY ONLY <4>1, <3>0, <3>1, QuotientIs
    <3> QED BY <1>27, <3>2
  <2>2. at = first + (c + 1)
    <3>1. at = first + c + 1
      BY <1>2, <1>10, <1>23, <2>1
    <3> QED BY <1>16, <3>1
  <2>3. c + 1 \in Nat /\ c + 1 <= stride
    <3>0. base + W <= room
      BY <1>16, <1>18, <1>29
    <3>1. W * (c + 1) <= W * stride
      BY <1>12, <1>16, <3>0
    <3>2. c + 1 \in Nat
      BY <1>16
    <3> QED BY <1>1, <3>1, <3>2, Times
  <2>4. at \in 1 .. size
    BY <1>16, <2>2, <2>3
  <2>5. /\ rest \in Seq(Byte) /\ Len(rest) = Len(all) - W /\ \A k \in 1 .. Len(all) - W : rest[k] = all[W + k]
        /\ word \in Seq(Byte) /\ Len(word) = W /\ \A k \in 1 .. W : word[k] = all[k]
    <3>1. PICK m \in Nat : m = Len(all) /\ W <= m
      BY <1>18, <1>29
    <3>2. W \in 0 .. Len(all) /\ W \in Nat /\ W <= Len(all) /\ 1 \in Nat \ {0} /\ W + 1 \in Nat \ {0}
      BY <3>1
    <3>3. SubSeq(all, 1, W) \in Seq(Byte) /\ Len(SubSeq(all, 1, W)) = W
      BY <1>18, <3>2, CutInTwo
    <3>4. \A k \in 1 .. (W - 1) + 1 : SubSeq(all, 1, W)[k] = all[(1 - 1) + k]
      BY <1>18, <3>2, SubSeqFacts
    <3>5. \A k \in 1 .. W : SubSeq(all, 1, W)[k] = all[k]
      BY <3>4
    <3>6. m \in Nat /\ m <= Len(all)
      BY <3>1
    <3>7. /\ SubSeq(all, W + 1, m) \in Seq(Byte)
          /\ Len(SubSeq(all, W + 1, m)) = (IF W + 1 <= m THEN m - (W + 1) + 1 ELSE 0)
          /\ \A k \in 1 .. (m - (W + 1)) + 1 : SubSeq(all, W + 1, m)[k] = all[((W + 1) - 1) + k]
      BY <1>18, <3>2, <3>6, SubSeqFacts
    <3>8. rest \in Seq(Byte) /\ Len(rest) = m - W
      <4>1. (IF W + 1 <= m THEN m - (W + 1) + 1 ELSE 0) = m - W
        BY <3>1
      <4> QED BY <1>24, <3>1, <3>7, <4>1
    <3>9. \A k \in 1 .. m - W : rest[k] = all[W + k]
      <4>1. (m - (W + 1)) + 1 = m - W /\ (W + 1) - 1 = W
        BY <3>1
      <4> QED BY <1>24, <3>1, <3>7, <4>1
    <3> QED BY <1>25, <3>1, <3>3, <3>5, <3>8, <3>9
  <2>6. PICK y : y = [x EXCEPT ![at] = word]
    OBVIOUS
  <2>7. PICK new : new = [w EXCEPT !.cursor = w.cursor + b, !.pending = rest, !.out = y]
    OBVIOUS
  <2>8. Push(w, bytes) = new
    <3>1. Push(w, bytes) = [w EXCEPT !.cursor = @ + b, !.pending = rest, !.out[at] = word]
      BY <1>26, <1>29
    <3>2. [w EXCEPT !.cursor = @ + b, !.pending = rest, !.out[at] = word] = new
      BY <1>2, <1>9, <2>6, <2>7 DEF Writer
    <3> QED BY <3>1, <3>2
  <2>9. /\ y \in Seq(Seq(Byte)) /\ Len(y) = size /\ y[at] = word
        /\ \A j \in 1 .. size : j # at => y[j] = x[j]
    <3>1. at \in 1 .. Len(x) /\ word \in Seq(Byte)
      BY <1>15, <2>4, <2>5
    <3>2. /\ [x EXCEPT ![at] = word] \in Seq(Seq(Byte)) /\ Len([x EXCEPT ![at] = word]) = Len(x)
          /\ [x EXCEPT ![at] = word][at] = word
          /\ \A j \in 1 .. Len(x) : j # at => [x EXCEPT ![at] = word][j] = x[j]
      BY <3>1, Replaced
    <3> QED BY <1>15, <2>6, <3>2
  <2>10. new \in Writer /\ new.cursor = w.cursor + b /\ new.pending = rest /\ new.out = y
         /\ new.first = w.first /\ new.stride = w.stride /\ new.failed = FALSE
    BY <1>2, <1>27, <2>5, <2>7, <2>9 DEF Writer
  <2>11. Len(more) = W * (c + 1) + Len(rest) /\ Len(rest) < W
    BY <1>16, <1>18, <1>19, <1>29, <2>5
  <2>12. \A k \in 1 .. Len(rest) : rest[k] = more[W * (c + 1) + k]
    <3> SUFFICES ASSUME NEW k \in 1 .. Len(rest) PROVE rest[k] = more[W * (c + 1) + k]
      OBVIOUS
    <3>1. W + k \in 1 .. p + b /\ base + (W + k) = W * (c + 1) + k /\ k \in 1 .. Len(all) - W
      BY <1>16, <1>18, <1>29, <2>5
    <3>2. rest[k] = all[W + k] /\ all[W + k] = more[base + (W + k)]
      BY <1>20, <2>5, <3>1
    <3> QED BY <3>1, <3>2
  <2>13. WordIs(word, more, c + 1)
    <3>1. \A k \in 1 .. W : word[k] = more[base + k]
      <4> SUFFICES ASSUME NEW k \in 1 .. W PROVE word[k] = more[base + k]
        OBVIOUS
      <4>1. k \in 1 .. p + b
        BY <1>18, <1>29
      <4> QED BY <1>20, <2>5, <4>1
    <3>2. WordBytes * ((c + 1) - 1) = base
      <4>1. (c + 1) - 1 = c
        BY <1>16
      <4> QED BY <1>1, <1>8, <4>1
    <3> QED BY <1>1, <2>5, <3>1, <3>2 DEF WordIs
  <2>14. ASSUME NEW q \in 1 .. c + 1 PROVE WordIs(y[first + q], more, q)
    <3>1. CASE q = c + 1
      <4>1. first + q = at
        BY <2>2, <3>1
      <4> QED BY <2>9, <2>13, <3>1, <4>1
    <3>2. CASE q # c + 1
      <4>1. q \in 1 .. c /\ first + q \in 1 .. size /\ first + q # at
        BY <1>16, <2>2, <2>3, <3>2
      <4>2. WordIs(x[first + q], flat, q)
        BY <1>17, <4>1
      <4>3. WordIs(x[first + q], more, q)
        BY <1>21, <4>1, <4>2
      <4>4. y[first + q] = x[first + q]
        BY <2>9, <4>1
      <4> QED BY <4>3, <4>4
    <3> QED BY <3>1, <3>2
  <2>15. \A j \in 1 .. size : j <= first \/ j > first + (c + 1) => y[j] = v.out[j]
    <3> SUFFICES ASSUME NEW j \in 1 .. size, j <= first \/ j > first + (c + 1) PROVE y[j] = v.out[j]
      OBVIOUS
    <3>1. j # at /\ (j <= first \/ j > first + c)
      BY <1>16, <2>2
    <3> QED BY <1>17, <2>9, <3>1
  <2>16. Holds(new, v, more, c + 1)
    BY <1>1, <1>2, <1>10, <1>16, <1>27, <2>3, <2>9, <2>10, <2>11, <2>12, <2>14, <2>15 DEF Holds
  <2> QED BY <1>14, <2>3, <2>8, <2>16
<1> QED BY <1>28, <1>29

\* A push keeps the types, also when it does not fit.
LEMMA PushTypes ==
    ASSUME NEW w \in Writer, NEW bytes \in Seq(Byte)
    PROVE  Push(w, bytes) \in Writer
<1>1. PICK W \in Nat : W = WordBytes /\ W > 0
  BY ShaderAssumption
<1>2. PICK all : all = w.pending \o bytes
  OBVIOUS
<1>3. /\ w.pending \in Seq(Byte) /\ w.out \in Seq(Seq(Byte)) /\ w.cursor \in Nat
      /\ all \in Seq(Byte) /\ Len(all) \in Nat
  BY <1>2 DEF Writer
<1>4. PICK at : at = w.first + (w.cursor \div W) + 1
  OBVIOUS
<1>5. PICK rest : rest = SubSeq(all, W + 1, Len(all))
  OBVIOUS
<1>6. PICK word : word = SubSeq(all, 1, W)
  OBVIOUS
<1>7. w.cursor + Len(bytes) \in Nat
  BY <1>3
<1>8. CASE w.failed
  BY <1>8 DEF Push
<1>9. CASE ~w.failed /\ w.stride * WordBytes - w.cursor < Len(bytes)
  <2>1. Push(w, bytes) = [w EXCEPT !.failed = TRUE]
    BY <1>9, Zenon DEF Push
  <2> QED BY <2>1 DEF Writer
<1>10. CASE ~w.failed /\ ~(w.stride * WordBytes - w.cursor < Len(bytes)) /\ Len(all) < WordBytes
  <2>1. Push(w, bytes) = [w EXCEPT !.cursor = @ + Len(bytes), !.pending = all]
    BY <1>2, <1>10, Zenon DEF Push
  <2> QED BY <1>3, <1>7, <2>1 DEF Writer
<1>11. CASE ~w.failed /\ ~(w.stride * WordBytes - w.cursor < Len(bytes)) /\ ~(Len(all) < WordBytes)
  <2>1. Push(w, bytes) = [w EXCEPT !.cursor = @ + Len(bytes), !.pending = rest, !.out[at] = word]
    BY <1>1, <1>2, <1>4, <1>5, <1>6, <1>11, Zenon DEF Push
  <2>2. rest \in Seq(Byte) /\ word \in Seq(Byte)
    <3>1. W \in Nat /\ W <= Len(all) /\ Len(all) \in Nat /\ Len(all) <= Len(all)
          /\ 1 \in Nat \ {0} /\ W + 1 \in Nat \ {0}
      BY <1>1, <1>3, <1>11
    <3> QED BY <1>3, <1>5, <1>6, <3>1, SubSeqFacts
  <2>3. PICK y : y = [w.out EXCEPT ![at] = word]
    OBVIOUS
  <2>4. y \in Seq(Seq(Byte))
    <3>1. PICK x \in Seq(Seq(Byte)) : x = w.out
      BY <1>3
    <3>2. CASE at \in 1 .. Len(x)
      <4>1. [x EXCEPT ![at] = word] \in Seq(Seq(Byte))
        BY <2>2, <3>2, Replaced
      <4> QED BY <2>3, <3>1, <4>1
    <3>3. CASE at \notin 1 .. Len(x)
      <4>1. DOMAIN x = 1 .. Len(x) /\ x = [i \in DOMAIN x |-> x[i]]
        OBVIOUS
      <4>2. [x EXCEPT ![at] = word] = x
        BY <3>3, <4>1
      <4> QED BY <2>3, <3>1, <4>2
    <3> QED BY <3>2, <3>3
  <2>5. [w EXCEPT !.cursor = @ + Len(bytes), !.pending = rest, !.out[at] = word]
           = [w EXCEPT !.cursor = w.cursor + Len(bytes), !.pending = rest, !.out = y]
    BY <2>3 DEF Writer
  <2> QED BY <1>7, <2>1, <2>2, <2>4, <2>5 DEF Writer
<1> QED BY <1>1, <1>8, <1>9, <1>10, <1>11

PushFolds(w, f, s) ==
    f = [t \in SUBSET DOMAIN s |->
            IF t = {} THEN w ELSE Push(f[t \ {Max(t)}], s[Max(t)])]

\* The writer pushes one after the other.
LEMMA PushFold ==
    ASSUME NEW w \in Writer, NEW s \in Seq(Seq(Byte))
    PROVE  \E g \in [0 .. Len(s) -> Writer] :
              /\ g[0] = w /\ PushAll(w, s) = g[Len(s)]
              /\ \A n \in 1 .. Len(s) : g[n] = Push(g[n - 1], s[n])
<1> DEFINE N == Len(s)
           next(v, n) == Push(v, s[n])
           steps == [n \in 1 .. N |-> [v \in Writer |-> next(v, n)]]
<1>1. N \in Nat /\ DOMAIN s = 1 .. N /\ \A n \in 1 .. N : s[n] \in Seq(Byte)
  OBVIOUS
<1>2. ASSUME NEW n \in 1 .. N, NEW v \in Writer PROVE next(v, n) \in Writer
  BY <1>1, PushTypes
<1>3. steps \in [1 .. N -> [Writer -> Writer]]
  <2> HIDE DEF next, N
  <2> QED BY <1>2
<1>4. PICK f : Folds(f, N, Writer, w, steps)
  <2> HIDE DEF steps, N
  <2> QED BY <1>1, <1>3, w \in Writer, FoldsExist
<1>5. PushFolds(w, f, s)
  <2>1. f = [t \in SUBSET DOMAIN s |-> f[t]]
    BY <1>1, <1>4 DEF Folds
  <2>2. ASSUME NEW t \in SUBSET DOMAIN s
        PROVE  f[t] = IF t = {} THEN w ELSE Push(f[t \ {Max(t)}], s[Max(t)])
    <3>1. CASE t = {}
      BY <1>1, <1>4, <3>1 DEF Folds
    <3>2. CASE t # {}
      <4> DEFINE m == Max(t)
      <4>1. t \in SUBSET (0 .. N) /\ t \in SUBSET (1 .. N)
        BY <1>1
      <4>2. m \in 1 .. N /\ t \ {m} \in SUBSET (1 .. N)
        BY <1>1, <3>2, <4>1, MaxOf
      <4>3. f[t] = steps[m][f[t \ {m}]] /\ f[t \ {m}] \in Writer
        <5> HIDE DEF steps, N
        <5> QED BY <1>4, <3>2, <4>1, <4>2 DEF Folds
      <4> HIDE DEF m
      <4>4. steps[m][f[t \ {m}]] = next(f[t \ {m}], m)
        <5> HIDE DEF next, N
        <5> QED BY <4>2, <4>3
      <4> QED BY <3>2, <4>3, <4>4 DEF m
    <3> QED BY <3>1, <3>2
  <2> HIDE DEF steps, next, N
  <2> QED BY <2>1, <2>2 DEF PushFolds
<1> DEFINE h == CHOOSE h : PushFolds(w, h, s)
<1>6. PushAll(w, s) = h[DOMAIN s]
  BY Zenon DEF PushAll, FoldLeft, MapThenFoldSet, PushFolds
<1>7. PushFolds(w, h, s)
  BY <1>5
<1> HIDE DEF h
<1>8. \A t \in SUBSET (1 .. N) :
         h[t] = IF t = {} THEN w ELSE Push(h[t \ {Max(t)}], s[Max(t)])
  BY <1>1, <1>7, ZenonT(20) DEF PushFolds
<1>9. h[1 .. 0] = w
  <2>1. 1 .. 0 = {}
    OBVIOUS
  <2> QED BY <1>8, <2>1
<1>10. ASSUME NEW n \in 1 .. N PROVE h[1 .. n] = next(h[1 .. n - 1], n)
  <2> HIDE DEF N
  <2> QED BY <1>1, <1>8, InitialSegments
<1> DEFINE S == {n \in Nat : n <= N => h[1 .. n] \in Writer}
           g == [n \in 0 .. N |-> h[1 .. n]]
<1>11. 0 \in S
  BY <1>9, w \in Writer
<1>12. ASSUME NEW n \in Nat, n \in S PROVE n + 1 \in S
  <2> SUFFICES ASSUME n + 1 <= N PROVE h[1 .. n + 1] \in Writer
    OBVIOUS
  <2>1. n + 1 \in 1 .. N /\ (n + 1) - 1 = n /\ h[1 .. n] \in Writer
    BY <1>1, <1>12
  <2>2. next(h[1 .. n], n + 1) \in Writer
    BY <1>2, <2>1
  <2>3. h[1 .. n + 1] = next(h[1 .. n], n + 1)
    BY <1>10, <2>1
  <2> HIDE DEF next
  <2> QED BY <2>2, <2>3
<1>13. \A n \in 0 .. N : h[1 .. n] \in Writer
  <2> HIDE DEF S
  <2>1. Nat \subseteq S
    BY <1>11, <1>12, Induction
  <2> QED BY <2>1 DEF S
<1>14. g \in [0 .. N -> Writer] /\ g[0] = w /\ PushAll(w, s) = g[N]
  <2>1. 0 \in 0 .. N /\ N \in 0 .. N
    BY <1>1
  <2> HIDE DEF N
  <2> QED BY <1>1, <1>6, <1>9, <1>13, <2>1
<1>15. ASSUME NEW n \in 1 .. N PROVE g[n] = Push(g[n - 1], s[n])
  <2>1. n \in 0 .. N /\ n - 1 \in 0 .. N
    BY <1>1
  <2>2. g[n] = h[1 .. n] /\ g[n - 1] = h[1 .. n - 1]
    <3> HIDE DEF N
    <3> QED BY <2>1
  <2> HIDE DEF N, g
  <2> QED BY <1>10, <2>2
<1> HIDE DEF g
<1> QED BY <1>14, <1>15

\* Pushes of at most a word each that fit the slot together.
LEMMA PushAllHolds ==
    ASSUME NEW v \in Writer, v.cursor = 0, v.pending = <<>>, v.failed = FALSE,
           NEW s \in Seq(Seq(Byte)), \A k \in 1 .. Len(s) : Len(s[k]) <= WordBytes,
           Len(FlattenSeq(s)) <= WordBytes * v.stride, v.first + v.stride <= Len(v.out)
    PROVE  \E d \in Nat : Holds(PushAll(v, s), v, FlattenSeq(s), d)
<1> DEFINE B == Seq(Byte)
           Flat(n) == FlattenSeq(SubSeq(s, 1, n))
           N == Len(s)
<1>1. N \in Nat
  OBVIOUS
<1>2. PICK g \in [0 .. N -> Writer] : /\ g[0] = v /\ PushAll(v, s) = g[N]
                                      /\ \A n \in 1 .. N : g[n] = Push(g[n - 1], s[n])
  BY PushFold
<1> DEFINE S == {n \in Nat : n <= N => \E d \in Nat : Holds(g[n], v, Flat(n), d)}
<1>3. Flat(0) = <<>>
  <2>1. SubSeq(s, 1, 0) = <<>>
    OBVIOUS
  <2>2. FlattenSeq(<<>>) = <<>>
    BY DEF FlattenSeq
  <2> QED BY <2>1, <2>2
<1>4. 0 \in S
  <2>1. v.first \in Nat /\ WordBytes \in Nat /\ WordBytes > 0
    BY ShaderAssumption DEF Writer
  <2>2. /\ Len(v.pending) = 0 /\ Len(<<>>) = 0 /\ 1 .. 0 = {} /\ WordBytes * 0 = 0
        /\ \A q \in 1 .. 0 : WordIs(v.out[v.first + q], <<>>, q)
    BY <2>1
  <2>3. Holds(v, v, <<>>, 0)
    BY <2>1, <2>2 DEF Holds
  <2> HIDE DEF Flat
  <2> QED BY <1>2, <1>3, <2>3
<1>5. ASSUME NEW n \in Nat, n \in S PROVE n + 1 \in S
  <2> SUFFICES ASSUME n + 1 <= N PROVE \E d \in Nat : Holds(g[n + 1], v, Flat(n + 1), d)
    OBVIOUS
  <2>1. n + 1 \in 1 .. N /\ (n + 1) - 1 = n /\ n <= N
    BY <1>1
  <2>2. PICK c \in Nat : Holds(g[n], v, Flat(n), c)
    BY <1>5, <2>1
  <2>3. /\ Flat(n + 1) = Flat(n) \o s[n + 1] /\ Flat(n) \in Seq(Byte) /\ s[n + 1] \in Seq(Byte)
        /\ Len(Flat(n)) + Len(s[n + 1]) <= Len(FlattenSeq(s)) /\ Len(s[n + 1]) \in Nat
    <3>1. /\ Flat(n + 1) = Flat((n + 1) - 1) \o s[n + 1]
          /\ Flat((n + 1) - 1) \in Seq(Byte) /\ s[n + 1] \in Seq(Byte) /\ Len(s[n + 1]) \in Nat
          /\ Len(Flat((n + 1) - 1)) + Len(s[n + 1]) <= Len(FlattenSeq(s))
      BY <2>1, FlattenPrefix
    <3> HIDE DEF Flat, N
    <3> QED BY <2>1, <3>1
  <2>4. PICK room : room = WordBytes * v.stride
    OBVIOUS
  <2>5. Len(Flat(n)) + Len(s[n + 1]) <= room
    <3>1. Len(FlattenSeq(s)) <= room /\ room \in Nat
      <4>1. v.stride \in Nat /\ WordBytes \in Nat
        BY ShaderAssumption DEF Writer
      <4>2. room \in Nat
        BY <2>4, <4>1, Times
      <4> QED BY <2>4, <4>2
    <3>2. PICK f : f = FlattenSeq(s) /\ f \in Seq(Byte)
      BY FlattenConcat
    <3>3. Len(f) \in Nat /\ Len(Flat(n)) \in Nat
      <4> HIDE DEF Flat
      <4> QED BY <2>3, <3>2
    <3> HIDE DEF Flat
    <3> QED BY <2>3, <3>1, <3>2, <3>3
  <2>6. Len(s[n + 1]) <= WordBytes
    BY <2>1
  <2>7. g[n + 1] = Push(g[n], s[n + 1])
    <3>1. g[n + 1] = Push(g[(n + 1) - 1], s[n + 1])
      BY <1>2, <2>1
    <3> QED BY <2>1, <3>1
  <2> HIDE DEF Flat, S, N
  <2>8. \E d \in Nat : Holds(Push(g[n], s[n + 1]), v, Flat(n) \o s[n + 1], d)
    BY <2>2, <2>3, <2>4, <2>5, <2>6, PushHolds
  <2> QED BY <2>3, <2>7, <2>8
<1>6. \E d \in Nat : Holds(g[N], v, Flat(N), d)
  <2> HIDE DEF S
  <2>1. Nat \subseteq S
    BY <1>4, <1>5, Induction
  <2>2. N \in S
    BY <1>1, <2>1
  <2> QED BY <1>1, <2>2 DEF S
<1>7. Flat(N) = FlattenSeq(s)
  <2>1. SubSeq(s, 1, Len(s)) = s
    OBVIOUS
  <2> QED BY <2>1
<1> HIDE DEF Flat, N
<1> QED BY <1>2, <1>6, <1>7 DEF N

\* The byte r of word q.
LEMMA ByteAtIs ==
    ASSUME NEW words, NEW q \in Nat, NEW r \in 0 .. WordBytes - 1
    PROVE  ByteAt(words, WordBytes * q + r) = words[q + 1][r + 1]
<1>1. WordBytes \in Nat /\ WordBytes > 0
  BY ShaderAssumption
<1> DEFINE index == WordBytes * q + r
<1>2. index \in Nat
  <2>1. PICK x \in Nat : x = WordBytes * q
    BY <1>1, Times
  <2>2. r \in Nat
    BY <1>1
  <2> QED BY <2>1, <2>2
<1>3. index \div WordBytes = q /\ index % WordBytes = r
  BY <1>1, <1>2, QuotientIs
<1> QED BY <1>3 DEF ByteAt

\* All words of a buffer are whole.
Whole(out) == \A j \in 1 .. Len(out) : Len(out[j]) = WordBytes

\* A response was written into the slot of v: flat is in it, the metadata says
\* so, and the other slots are as before.
Written(done, v, flat, status) ==
    /\ done.meta = [len |-> Len(flat), status |-> status, flags |-> FALSE]
    /\ done.out \in Seq(Seq(Byte)) /\ Len(done.out) = Len(v.out) /\ Whole(done.out)
    /\ \A j \in 1 .. Len(v.out) : j <= v.first \/ j > v.first + v.stride => done.out[j] = v.out[j]
    /\ \A k \in 1 .. Len(flat) : ByteAt(done.out, WordBytes * v.first + (k - 1)) = flat[k]

\* Fewer than a word of bytes fill one word.
LEMMA PackedPart ==
    ASSUME NEW s \in Seq(Byte), s # <<>>, Len(s) < WordBytes
    PROVE  /\ Pack(s)[1] \in Seq(Byte) /\ Len(Pack(s)[1]) = WordBytes
           /\ \A k \in 1 .. Len(s) : Pack(s)[1][k] = s[k]
<1>1. PICK W \in Nat : W = WordBytes /\ W > 0
  BY ShaderAssumption
<1>2. PICK p \in Nat : p = Len(s) /\ p > 0 /\ p < W /\ \A k \in 1 .. p : s[k] \in Byte
  BY <1>1
<1>3. WordsForBytes(p) = 1
  <2>1. p + W - 1 \in Nat /\ p - 1 \in 0 .. W - 1 /\ p + W - 1 = W * 1 + (p - 1) /\ 1 \in Nat
    BY <1>1, <1>2
  <2>2. (p + W - 1) \div W = 1
    BY <1>1, <2>1, QuotientIs
  <2> QED BY <1>1, <2>2 DEF WordsForBytes
<1>4. PICK word : word = [k \in 1 .. W |-> IF k <= p THEN s[k] ELSE 0]
  OBVIOUS
<1>5. Pack(s)[1] = word
  <2>1. Pack(s)[1] = [k \in 1 .. W |-> LET at == (1 - 1) * W + k IN IF at <= p THEN s[at] ELSE 0]
    BY <1>1, <1>2, <1>3 DEF Pack
  <2>2. \A k \in 1 .. W : (1 - 1) * W + k = k
    BY <1>1
  <2> QED BY <1>4, <2>1, <2>2
<1>6. word \in Seq(Byte) /\ Len(word) = W
  <2>1. \A k \in 1 .. W : (IF k <= p THEN s[k] ELSE 0) \in Byte
    <3>1. 0 \in Byte
      BY DEF Byte
    <3> QED BY <1>2, <3>1
  <2> QED BY <1>4, <2>1
<1>7. \A k \in 1 .. p : word[k] = s[k]
  BY <1>2, <1>4
<1> QED BY <1>1, <1>2, <1>5, <1>6, <1>7

\* The pending bytes are written last.
LEMMA FinishWrites ==
    ASSUME NEW v \in Writer, NEW w, NEW flat \in Seq(Byte), NEW c \in Nat, Holds(w, v, flat, c),
           NEW status, Len(flat) <= WordBytes * v.stride, v.first + v.stride <= Len(v.out), Whole(v.out)
    PROVE  Written(Finish(w, status), v, flat, status)
<1>1. PICK W \in Nat : W = WordBytes /\ W > 0
  BY ShaderAssumption
<1>2. /\ w \in Writer /\ w.failed = FALSE /\ w.first = v.first /\ w.stride = v.stride
      /\ w.cursor = Len(flat) /\ Len(w.pending) < W
      /\ Len(flat) = W * c + Len(w.pending)
      /\ \A k \in 1 .. Len(w.pending) : w.pending[k] = flat[W * c + k]
      /\ Len(w.out) = Len(v.out)
      /\ \A j \in 1 .. Len(v.out) : j <= v.first \/ j > v.first + c => w.out[j] = v.out[j]
      /\ \A q \in 1 .. c : WordIs(w.out[v.first + q], flat, q)
  BY <1>1 DEF Holds
<1>3. /\ w.out \in Seq(Seq(Byte)) /\ w.pending \in Seq(Byte) /\ v.first \in Nat /\ v.stride \in Nat
  BY <1>2, WriterIs
<1>4. PICK s \in Seq(Byte) : s = w.pending
  BY <1>3
<1>5. PICK p \in Nat : p = Len(s)
  OBVIOUS
<1>6. PICK n \in Nat : n = Len(flat)
  OBVIOUS
<1>7. PICK base \in Nat : base = W * c
  BY Times
<1>8. PICK x \in Seq(Seq(Byte)) : x = w.out
  BY <1>3
<1>9. PICK first \in Nat : first = v.first
  BY <1>3
<1>10. PICK stride \in Nat : stride = v.stride
  BY <1>3
<1>11. PICK size \in Nat : size = Len(x)
  BY <1>8
<1>12. PICK room \in Nat : /\ p < W /\ n = base + p /\ first + stride <= size /\ size = Len(v.out)
                           /\ n <= room /\ room = W * stride
  <2>1. PICK room \in Nat : room = W * stride
    BY Times
  <2>2. n <= room
    BY <1>1, <1>6, <1>10, <2>1
  <2>3. p < W /\ n = base + p
    BY <1>2, <1>4, <1>5, <1>6, <1>7
  <2> QED BY <1>2, <1>8, <1>9, <1>10, <1>11, <2>1, <2>2, <2>3
<1>13. /\ \A k \in 1 .. p : s[k] = flat[base + k]
       /\ \A j \in 1 .. size : j <= first \/ j > first + c => x[j] = v.out[j]
       /\ \A q \in 1 .. c : WordIs(x[first + q], flat, q)
  BY <1>2, <1>4, <1>5, <1>7, <1>8, <1>9, <1>12
<1>14. c <= stride /\ (p > 0 => c + 1 <= stride)
  <2>1. W * c <= W * stride
    <3>1. base <= room
      BY <1>12
    <3> QED BY <1>7, <1>12, <3>1
  <2>2. c <= stride
    BY <1>1, <2>1, Times
  <2>3. ASSUME p > 0 PROVE c # stride
    <3>1. base # room
      BY <1>12, <2>3
    <3> QED BY <1>7, <1>12, <3>1
  <2> QED BY <2>2, <2>3
<1>15. PICK done : done = Finish(w, status)
  OBVIOUS
<1>16. PICK y : y = done.out
  OBVIOUS
<1>17. done.meta = [len |-> n, status |-> status, flags |-> FALSE]
  BY <1>2, <1>6, <1>15 DEF Finish
\* The slot holds the words before base, then the pending bytes.
<1>18. /\ y \in Seq(Seq(Byte)) /\ Len(y) = size
       /\ \A j \in 1 .. size : (p > 0 /\ j = first + (c + 1)) \/ y[j] = x[j]
       /\ p > 0 => Len(y[first + (c + 1)]) = W /\ \A k \in 1 .. p : y[first + (c + 1)][k] = s[k]
  <2>1. CASE p = 0
    <3>1. w.pending = <<>>
      BY <1>4, <1>5, <2>1, EmptySeq
    <3>2. y = x
      BY <1>2, <1>8, <1>15, <1>16, <3>1 DEF Finish
    <3> QED BY <1>8, <1>11, <2>1, <3>2
  <2>2. CASE p > 0
    <3>1. w.pending # <<>> /\ s # <<>>
      BY <1>4, <1>5, <2>2
    <3>2. PICK at : at = first + (w.cursor \div WordBytes) + 1
      OBVIOUS
    <3>3. PICK word : word = Pack(s)[1]
      OBVIOUS
    <3>4. y = [x EXCEPT ![at] = word]
      BY <1>2, <1>4, <1>8, <1>9, <1>15, <1>16, <3>1, <3>2, <3>3, Zenon DEF Finish
    <3>5. at = first + (c + 1)
      <4>1. p \in 0 .. W - 1
        BY <1>12
      <4>2. n = W * c + p
        BY <1>7, <1>12
      <4>3. n \div W = c
        <5>1. W \in Nat /\ W > 0 /\ c \in Nat /\ n \in Nat
          BY <1>1
        <5> QED BY ONLY <5>1, <4>1, <4>2, QuotientIs
      <4>4. w.cursor \div WordBytes = c
        BY <1>1, <1>2, <1>6, <4>3
      <4>5. at = first + c + 1
        BY <3>2, <4>4
      <4> QED BY <4>5
    <3>6. word \in Seq(Byte) /\ Len(word) = W /\ \A k \in 1 .. p : word[k] = s[k]
      BY <1>1, <1>5, <1>12, <3>1, <3>3, PackedPart
    <3>7. at \in 1 .. Len(x)
      BY <1>11, <1>12, <1>14, <2>2, <3>5
    <3>8. /\ [x EXCEPT ![at] = word] \in Seq(Seq(Byte)) /\ Len([x EXCEPT ![at] = word]) = Len(x)
          /\ [x EXCEPT ![at] = word][at] = word
          /\ \A j \in 1 .. Len(x) : j # at => [x EXCEPT ![at] = word][j] = x[j]
      BY <3>6, <3>7, Replaced
    <3> QED BY <1>11, <2>2, <3>4, <3>5, <3>6, <3>8
  <2> QED BY <2>1, <2>2
<1>19. \A j \in 1 .. size : j <= first \/ j > first + stride => y[j] = v.out[j]
  BY <1>12, <1>13, <1>14, <1>18
<1>20. Whole(y)
  <2> SUFFICES ASSUME NEW j \in 1 .. size PROVE Len(y[j]) = W
    BY <1>1, <1>18 DEF Whole
  <2>1. CASE p > 0 /\ j = first + (c + 1)
    BY <1>18, <2>1
  <2>2. CASE y[j] = x[j]
    <3>1. CASE j <= first \/ j > first + c
      <4>1. y[j] = v.out[j]
        BY <1>13, <2>2, <3>1
      <4> QED BY <1>1, <1>12, <4>1 DEF Whole
    <3>2. CASE ~(j <= first \/ j > first + c)
      <4>1. PICK q \in 1 .. c : j = first + q
        <5>1. j - first \in 1 .. c /\ j = first + (j - first)
          BY <3>2
        <5> QED BY <5>1
      <4> QED BY <1>1, <1>13, <2>2, <4>1 DEF WordIs
    <3> QED BY <3>1, <3>2
  <2> QED BY <1>18, <2>1, <2>2
<1>21. ASSUME NEW k \in 1 .. n PROVE ByteAt(y, WordBytes * first + (k - 1)) = flat[k]
  <2>1. PICK q \in Nat, r \in 0 .. W - 1 : k - 1 = W * q + r
    <3>1. k - 1 \in Nat
      OBVIOUS
    <3>2. /\ (k - 1) \div W \in Nat /\ (k - 1) % W \in 0 .. W - 1
          /\ k - 1 = W * ((k - 1) \div W) + ((k - 1) % W)
      BY <1>1, <3>1, Quotient
    <3> QED BY <3>2
  <2>2. PICK o \in Nat : o = W * q
    BY Times
  <2>3. r \in Nat /\ k = o + (r + 1) /\ r + 1 \in 1 .. W
    BY <1>1, <2>1, <2>2
  <2>4. ByteAt(y, WordBytes * first + (k - 1)) = y[(first + q) + 1][r + 1]
    <3>1. W * (first + q) = W * first + o
      BY <2>2
    <3>2. W * first + (k - 1) = W * (first + q) + r
      <4>1. PICK z \in Nat : z = W * first
        BY Times
      <4> QED BY <2>1, <2>2, <3>1, <4>1
    <3>3. first + q \in Nat
      OBVIOUS
    <3>4. PICK index : index = WordBytes * first + (k - 1)
      OBVIOUS
    <3>5. PICK m \in Nat : m = first + q
      BY <3>3
    <3>6. index = WordBytes * m + r /\ r \in 0 .. WordBytes - 1 /\ m \in Nat
      BY <1>1, <3>2, <3>4, <3>5
    <3>7. ByteAt(y, WordBytes * m + r) = y[m + 1][r + 1]
      BY ONLY <3>6, ByteAtIs
    <3> QED BY <3>4, <3>5, <3>6, <3>7
  <2>5. CASE q < c
    <3>1. q + 1 \in 1 .. c /\ (q + 1) - 1 = q /\ (first + q) + 1 = first + (q + 1)
      BY <2>5
    <3>2. x[first + (q + 1)][r + 1] = flat[o + (r + 1)]
      <4>1. WordIs(x[first + (q + 1)], flat, q + 1)
        BY <1>13, <3>1
      <4>2. \A i \in 1 .. W : x[first + (q + 1)][i] = flat[W * ((q + 1) - 1) + i]
        BY <1>1, <4>1 DEF WordIs
      <4> QED BY <2>2, <2>3, <3>1, <4>2
    <3>3. y[first + (q + 1)] = x[first + (q + 1)]
      BY <1>12, <1>14, <1>18, <2>5
    <3> QED BY <2>3, <2>4, <3>1, <3>2, <3>3
  <2>6. CASE q = c
    <3>1. p > 0 /\ r + 1 \in 1 .. p /\ o = base
      BY <1>7, <1>12, <2>2, <2>3, <2>6
    <3>2. y[first + (c + 1)][r + 1] = flat[base + (r + 1)]
      BY <1>13, <1>18, <3>1
    <3>3. (first + q) + 1 = first + (c + 1)
      BY <2>6
    <3> QED BY <2>3, <2>4, <3>1, <3>2, <3>3
  <2>7. CASE q > c
    <3>1. base + W <= o
      BY <1>7, <2>2, <2>7, Times
    <3> QED BY <1>12, <2>3, <3>1
  <2> QED BY <2>5, <2>6, <2>7
<1> QED BY <1>6, <1>9, <1>10, <1>12, <1>15, <1>16, <1>17, <1>18, <1>19, <1>20, <1>21 DEF Written

-----------------------------------------------------------------------------
(* What is pushed.                                                         *)

\* What may be pushed: bytes, at most a word at a time.
Pushes(s) == s \in Seq(Seq(Byte)) /\ \A k \in 1 .. Len(s) : Len(s[k]) <= WordBytes

\* s lies in the words, from byte start on.
Lies(words, start, s) == \A k \in 1 .. Len(s) : ByteAt(words, start + (k - 1)) = s[k]

\* A range is pushed in words and bytes, which make up what lies there.
LEMMA RangePushesAre ==
    ASSUME NEW words, NEW start \in Nat, NEW s \in Seq(Byte), Lies(words, start, s)
    PROVE  /\ Pushes(RangePushes(words, start, Len(s)))
           /\ FlattenSeq(RangePushes(words, start, Len(s))) = s
<1>1. PICK W \in Nat : W = WordBytes /\ W > 0
  BY ShaderAssumption
<1>2. PICK n \in Nat : n = Len(s)
  OBVIOUS
<1>3. PICK whole \in Nat, rest \in 0 .. W - 1 : n = W * whole + rest /\ whole = n \div WordBytes
  <2>1. n \div W \in Nat /\ n % W \in 0 .. W - 1 /\ n = W * (n \div W) + (n % W)
    BY <1>1, Quotient
  <2> QED BY <1>1, <2>1
<1>4. PICK base \in Nat : base = W * whole
  BY Times
<1>5. n = base + rest /\ rest \in Nat /\ rest <= W /\ whole + rest \in Nat
  BY <1>1, <1>3, <1>4
\* The words, then the bytes.
<1>6. PICK big : big = [k \in 1 .. whole |-> WordAt(words, start + (k - 1) * WordBytes)]
  OBVIOUS
<1>7. PICK small : small = [k \in 1 .. rest |-> <<ByteAt(words, start + base + k - 1)>>]
  OBVIOUS
<1>8. RangePushes(words, start, n) = big \o small
  <2>1. n - whole * WordBytes = rest /\ whole * WordBytes = base
    <3>1. whole * WordBytes = base
      BY <1>1, <1>4
    <3> QED BY <1>5, <3>1
  <2>2. RangePushes(words, start, n)
           = [k \in 1 .. whole |-> WordAt(words, start + (k - 1) * WordBytes)]
             \o [k \in 1 .. n - whole * WordBytes |->
                    <<ByteAt(words, start + whole * WordBytes + k - 1)>>]
    BY <1>3, Zenon DEF RangePushes
  <2> QED BY <1>6, <1>7, <2>1, <2>2
<1>9. \A k \in 1 .. n : ByteAt(words, start + (k - 1)) = s[k] /\ s[k] \in Byte
  BY <1>2 DEF Lies
<1>10. ASSUME NEW k \in 1 .. whole
       PROVE  /\ big[k] \in Seq(Byte) /\ Len(big[k]) = W
              /\ \A i \in 1 .. W : big[k][i] = s[W * (k - 1) + i]
  <2>1. PICK o \in Nat : o = W * (k - 1) /\ o + W <= base
    <3>1. k - 1 \in Nat /\ k - 1 < whole
      OBVIOUS
    <3> QED BY <1>1, <1>4, <3>1, Times
  <2>2. big[k] = [i \in 1 .. W |-> ByteAt(words, (start + o) + i - 1)]
    <3>1. (k - 1) * WordBytes = o
      BY <1>1, <2>1
    <3>2. big[k] = WordAt(words, start + o)
      BY <1>6, <3>1
    <3> QED BY <1>1, <3>2 DEF WordAt
  <2>3. ASSUME NEW i \in 1 .. W PROVE ByteAt(words, (start + o) + i - 1) = s[o + i] /\ s[o + i] \in Byte
    <3>1. o + i \in 1 .. n /\ start + ((o + i) - 1) = (start + o) + i - 1
      BY <1>5, <2>1
    <3> QED BY <1>9, <3>1
  <2>4. PICK f : f = [i \in 1 .. W |-> s[o + i]]
    OBVIOUS
  <2>5. f \in Seq(Byte) /\ Len(f) = W /\ \A i \in 1 .. W : f[i] = s[o + i]
    <3>1. \A i \in 1 .. W : s[o + i] \in Byte
      BY <2>3
    <3>2. f \in [1 .. W -> Byte]
      BY <2>4, <3>1
    <3>3. f \in Seq(Byte) /\ Len(f) = W
      BY ONLY <3>2, W \in Nat
    <3>4. \A i \in 1 .. W : f[i] = s[o + i]
      BY <2>4
    <3> QED BY <3>3, <3>4
  <2>6. big[k] = f
    BY <2>2, <2>3, <2>4
  <2> QED BY <2>1, <2>5, <2>6
<1>11. ASSUME NEW k \in 1 .. rest
       PROVE  small[k] \in Seq(Byte) /\ Len(small[k]) = 1 /\ small[k][1] = s[base + k]
  <2>1. base + k \in 1 .. n /\ start + ((base + k) - 1) = start + base + k - 1
    BY <1>5
  <2>2. small[k] = <<s[base + k]>> /\ s[base + k] \in Byte
    BY <1>7, <1>9, <2>1
  <2> QED BY <2>2, OneAppended, EmptySeq
<1>12. big \in Seq(Seq(Byte)) /\ Len(big) = whole /\ small \in Seq(Seq(Byte)) /\ Len(small) = rest
  <2> DEFINE B == Seq(Byte)
  <2>1. (\A k \in 1 .. whole : big[k] \in B) /\ (\A k \in 1 .. rest : small[k] \in B)
    BY <1>10, <1>11
  <2> HIDE DEF B
  <2>2. big \in [1 .. whole -> B] /\ small \in [1 .. rest -> B]
    BY <1>6, <1>7, <2>1
  <2>3. big \in Seq(B) /\ Len(big) = whole
    BY <2>2
  <2>4. small \in Seq(B) /\ Len(small) = rest
    BY <1>5, <2>2
  <2> QED BY <2>3, <2>4 DEF B
<1>13. PICK all : all = big \o small
  OBVIOUS
<1>14. /\ all \in Seq(Seq(Byte)) /\ Len(all) = whole + rest
       /\ \A k \in 1 .. whole : all[k] = big[k]
       /\ \A k \in 1 .. rest : all[whole + k] = small[k]
  <2> DEFINE B == Seq(Byte)
  <2>1. big \in Seq(B) /\ small \in Seq(B)
    BY <1>12
  <2> HIDE DEF B
  <2>2. /\ big \o small \in Seq(B) /\ Len(big \o small) = Len(big) + Len(small)
        /\ \A k \in 1 .. Len(big) : (big \o small)[k] = big[k]
        /\ \A k \in 1 .. Len(small) : (big \o small)[Len(big) + k] = small[k]
    BY ONLY <2>1
  <2> QED BY <1>12, <1>13, <2>2 DEF B
<1>15. PICK t : t = [k \in 0 .. whole + rest |-> IF k <= whole THEN W * k ELSE base + (k - whole)]
  OBVIOUS
<1>16. ASSUME NEW k \in 1 .. whole + rest
       PROVE  /\ Len(all[k]) <= W /\ t[k] = t[k - 1] + Len(all[k])
              /\ \A i \in 1 .. Len(all[k]) : all[k][i] = s[t[k - 1] + i]
  <2>1. CASE k <= whole
    <3>1. k \in 1 .. whole /\ k - 1 \in Nat /\ k - 1 \in 0 .. whole + rest /\ k \in 0 .. whole + rest
      BY <1>5, <2>1
    <3>2. t[k] = W * k /\ t[k - 1] = W * (k - 1)
      BY <1>15, <2>1, <3>1
    <3>3. W * ((k - 1) + 1) = W * (k - 1) + W /\ (k - 1) + 1 = k
      BY <3>1, Times
    <3>4. Len(all[k]) = W /\ \A i \in 1 .. W : all[k][i] = s[W * (k - 1) + i]
      BY <1>10, <1>14, <3>1
    <3> QED BY <3>2, <3>3, <3>4
  <2>2. CASE ~(k <= whole)
    <3>1. PICK m \in 1 .. rest : k = whole + m
      <4>1. k - whole \in 1 .. rest /\ k = whole + (k - whole)
        BY <1>5, <2>2
      <4> QED BY <4>1
    <3>2. k \in 0 .. whole + rest /\ k - 1 \in 0 .. whole + rest /\ m \in Nat /\ k - whole = m
      BY <1>5, <3>1
    <3>3. t[k] = base + m
      BY <1>15, <2>2, <3>1, <3>2
    <3>4. t[k - 1] = base + (m - 1)
      <4>1. CASE k - 1 <= whole
        <5>1. k - 1 = whole /\ m = 1
          BY <3>1, <3>2, <4>1
        <5>2. t[k - 1] = W * whole
          BY <1>15, <3>2, <5>1
        <5> QED BY <1>4, <5>1, <5>2
      <4>2. CASE ~(k - 1 <= whole)
        <5>1. (k - 1) - whole = m - 1
          BY <3>1
        <5> QED BY <1>15, <3>2, <4>2, <5>1
      <4> QED BY <4>1, <4>2
    <3>5. Len(all[k]) = 1 /\ all[k][1] = s[base + m]
      BY <1>11, <1>14, <3>1
    <3>6. base + m = base + (m - 1) + 1
      BY <3>2
    <3> QED BY <1>1, <3>2, <3>3, <3>4, <3>5, <3>6
  <2> QED BY <2>1, <2>2
<1>17. Cuts(t, all, s)
  <2>1. \A k \in 0 .. whole + rest : t[k] \in Nat
    <3> SUFFICES ASSUME NEW k \in 0 .. whole + rest PROVE t[k] \in Nat
      OBVIOUS
    <3>1. CASE k <= whole
      BY <1>15, <3>1, Times
    <3>2. CASE ~(k <= whole)
      BY <1>5, <1>15, <3>2
    <3> QED BY <3>1, <3>2
  <2>2. t \in [0 .. whole + rest -> Nat]
    BY <1>15, <2>1
  <2>3. t[0] = 0
    <3>1. 0 \in 0 .. whole + rest /\ 0 <= whole /\ W * 0 = 0
      BY <1>5
    <3> QED BY <1>15, <3>1
  <2>4. t[whole + rest] = n
    <3>1. whole + rest \in 0 .. whole + rest
      BY <1>5
    <3>2. CASE rest = 0
      <4>1. whole + rest = whole /\ whole <= whole
        BY <3>2
      <4>2. t[whole] = W * whole
        BY <1>15, <3>1, <4>1
      <4> QED BY <1>4, <1>5, <3>2, <4>1, <4>2
    <3>3. CASE rest # 0
      <4>1. ~(whole + rest <= whole) /\ (whole + rest) - whole = rest
        BY <1>5, <3>3
      <4> QED BY <1>5, <1>15, <3>1, <4>1
    <3> QED BY <3>2, <3>3
  <2> QED BY <1>2, <1>14, <1>16, <2>2, <2>3, <2>4 DEF Cuts
<1>18. FlattenSeq(all) = s
  BY <1>14, <1>17, CutUp
<1>19. Pushes(all)
  BY <1>1, <1>14, <1>16 DEF Pushes
<1> QED BY <1>2, <1>8, <1>13, <1>18, <1>19

Chunk == {b \in Seq(Byte) : Len(b) <= WordBytes}

\* What may be pushed is a sequence of chunks.
LEMMA PushesAre ==
    ASSUME NEW s
    PROVE  Pushes(s) <=> s \in Seq(Chunk)
<1>1. ASSUME Pushes(s) PROVE s \in Seq(Chunk)
  <2> DEFINE B == Seq(Byte)
  <2>1. s \in Seq(B) /\ \A k \in 1 .. Len(s) : Len(s[k]) <= WordBytes
    BY <1>1 DEF Pushes
  <2> HIDE DEF B
  <2>2. DOMAIN s = 1 .. Len(s) /\ Len(s) \in Nat /\ \A k \in 1 .. Len(s) : s[k] \in B
    BY <2>1
  <2>3. \A k \in 1 .. Len(s) : s[k] \in Chunk
    BY <2>1, <2>2 DEF Chunk, B
  <2>4. s \in [1 .. Len(s) -> Chunk]
    <3>1. s = [k \in DOMAIN s |-> s[k]]
      BY <2>1
    <3> HIDE DEF B
    <3> QED BY <2>2, <2>3, <3>1
  <2> QED BY <2>2, <2>4, SeqDef
<1>2. ASSUME s \in Seq(Chunk) PROVE Pushes(s)
  <2>1. DOMAIN s = 1 .. Len(s) /\ Len(s) \in Nat /\ \A k \in 1 .. Len(s) : s[k] \in Chunk
    BY <1>2
  <2>2. \A k \in 1 .. Len(s) : s[k] \in Seq(Byte) /\ Len(s[k]) <= WordBytes
    BY <2>1 DEF Chunk
  <2>3. s \in [1 .. Len(s) -> Seq(Byte)]
    <3>1. s = [k \in DOMAIN s |-> s[k]]
      BY <1>2
    <3> QED BY <2>1, <2>2, <3>1
  <2>4. s \in Seq(Seq(Byte))
    BY <2>1, <2>3, SeqDef
  <2> QED BY <2>2, <2>4 DEF Pushes
<1> QED BY <1>1, <1>2

\* Pushes after pushes.
LEMMA PushesConcat ==
    ASSUME NEW s, NEW t, Pushes(s), Pushes(t)
    PROVE  /\ Pushes(s \o t) /\ FlattenSeq(s \o t) = FlattenSeq(s) \o FlattenSeq(t)
           /\ FlattenSeq(s) \in Seq(Byte) /\ FlattenSeq(t) \in Seq(Byte)
<1>1. s \in Seq(Seq(Byte)) /\ t \in Seq(Seq(Byte))
  BY DEF Pushes
<1>2. s \in Seq(Chunk) /\ t \in Seq(Chunk)
  BY PushesAre
<1>3. s \o t \in Seq(Chunk)
  BY <1>2, ConcatProperties
<1>4. Pushes(s \o t)
  BY <1>3, PushesAre
<1>5. /\ FlattenSeq(s) \in Seq(Byte) /\ FlattenSeq(t) \in Seq(Byte)
      /\ FlattenSeq(s \o t) = FlattenSeq(s) \o FlattenSeq(t)
  BY <1>1, FlattenConcat
<1> QED BY <1>4, <1>5

\* A loop of pushes.
LEMMA PushesTogether ==
    ASSUME NEW n \in Nat, NEW pushes, pushes = [k \in 1 .. n |-> pushes[k]],
           \A k \in 1 .. n : Pushes(pushes[k])
    PROVE  /\ Pushes(FlattenSeq(pushes))
           /\ FlattenSeq(FlattenSeq(pushes)) = FlattenSeq([k \in 1 .. n |-> FlattenSeq(pushes[k])])
           /\ [k \in 1 .. n |-> FlattenSeq(pushes[k])] \in Seq(Seq(Byte))
<1>1. \A k \in 1 .. n : pushes[k] \in Seq(Chunk) /\ pushes[k] \in Seq(Seq(Byte))
  BY PushesAre DEF Pushes
<1>2. pushes \in Seq(Seq(Chunk)) /\ pushes \in Seq(Seq(Seq(Byte))) /\ DOMAIN pushes = 1 .. n
  <2> DEFINE C == Seq(Chunk)
             B == Seq(Seq(Byte))
  <2>1. \A k \in 1 .. n : pushes[k] \in C /\ pushes[k] \in B
    BY <1>1
  <2> HIDE DEF C, B
  <2>2. pushes \in [1 .. n -> C] /\ pushes \in [1 .. n -> B]
    BY <2>1
  <2>3. pushes \in Seq(C) /\ pushes \in Seq(B)
    BY <2>2, SeqDef
  <2> QED BY <2>2, <2>3 DEF C, B
<1>3. FlattenSeq(pushes) \in Seq(Chunk)
  BY <1>2, FlattenConcat
<1>4. Flats(pushes) = [k \in 1 .. n |-> FlattenSeq(pushes[k])]
  BY <1>2 DEF Flats
<1>5. Flats(pushes) \in Seq(Seq(Byte)) /\ FlattenSeq(FlattenSeq(pushes)) = FlattenSeq(Flats(pushes))
  BY <1>2, FlattenTwice
<1> QED BY <1>3, <1>4, <1>5, PushesAre

\* Bytes that are pushed one by one.
LEMMA BytesPushed ==
    ASSUME NEW s \in Seq(Byte)
    PROVE  /\ Pushes([k \in DOMAIN s |-> <<s[k]>>])
           /\ FlattenSeq([k \in DOMAIN s |-> <<s[k]>>]) = s
<1>1. PICK n \in Nat : n = Len(s) /\ DOMAIN s = 1 .. n /\ \A k \in 1 .. n : s[k] \in Byte
  OBVIOUS
<1>2. PICK p : p = [k \in 1 .. n |-> <<s[k]>>]
  OBVIOUS
<1>3. ASSUME NEW k \in 1 .. n
      PROVE  p[k] \in Seq(Byte) /\ Len(p[k]) = 1 /\ \A i \in 1 .. 1 : p[k][i] = s[k]
  <2>1. <<s[k]>> \in Seq(Byte) /\ Len(<<s[k]>>) = 1 /\ <<s[k]>>[1] = s[k]
    BY <1>1, OneAppended, EmptySeq
  <2> QED BY <1>2, <2>1
<1>4. p \in Seq(Seq(Byte)) /\ Len(p) = n
  <2> DEFINE B == Seq(Byte)
  <2>1. \A k \in 1 .. n : p[k] \in B
    BY <1>3
  <2> HIDE DEF B
  <2>2. p \in [1 .. n -> B]
    BY <1>2, <2>1
  <2>3. p \in Seq(B) /\ Len(p) = n
    BY <2>2
  <2> QED BY <2>3 DEF B
<1>5. PICK t : t = [k \in 0 .. n |-> k]
  OBVIOUS
<1>6. Cuts(t, p, s)
  <2>1. t \in [0 .. n -> Nat] /\ t[0] = 0 /\ t[n] = n
    BY <1>5
  <2>2. ASSUME NEW k \in 1 .. n PROVE t[k] = t[k - 1] + 1 /\ t[k - 1] + 1 = k
    BY <1>5
  <2>3. ASSUME NEW k \in 1 .. n, NEW i \in 1 .. Len(p[k]) PROVE p[k][i] = s[t[k - 1] + i]
    <3>0. Len(p[k]) = 1
      BY <1>3
    <3>1. i = 1
      BY <3>0
    <3>2. p[k][1] = s[k] /\ t[k - 1] + 1 = k
      BY <1>3, <2>2
    <3> QED BY <3>1, <3>2
  <2>4. \A k \in 1 .. n : t[k] = t[k - 1] + Len(p[k])
    BY <1>3, <2>2
  <2> QED BY <1>1, <1>4, <2>1, <2>3, <2>4 DEF Cuts
<1>7. FlattenSeq(p) = s
  BY <1>4, <1>6, CutUp
<1>8. Pushes(p)
  <2>1. WordBytes \in Nat /\ 1 <= WordBytes
    BY ShaderAssumption
  <2> QED BY <1>3, <1>4, <2>1 DEF Pushes
<1> QED BY <1>1, <1>2, <1>7, <1>8

\* The digits of a number are pushed one by one.
LEMMA DecimalPushesAre ==
    ASSUME NEW n \in Nat
    PROVE  Pushes(DecimalPushes(n)) /\ FlattenSeq(DecimalPushes(n)) = Digits[n] /\ Digits[n] \in Seq(Byte)
<1>1. Digits[n] \in Seq(Byte)
  BY DigitsAre
<1> QED BY <1>1, BytesPushed DEF DecimalPushes

\* A response that fits its slot is written.
LEMMA PushesWrite ==
    ASSUME NEW v \in Writer, v.cursor = 0, v.pending = <<>>, v.failed = FALSE,
           NEW s, Pushes(s), NEW status,
           Len(FlattenSeq(s)) <= WordBytes * v.stride, v.first + v.stride <= Len(v.out), Whole(v.out)
    PROVE  Written(Finish(PushAll(v, s), status), v, FlattenSeq(s), status)
<1>1. s \in Seq(Seq(Byte)) /\ \A k \in 1 .. Len(s) : Len(s[k]) <= WordBytes
  BY DEF Pushes
<1>2. FlattenSeq(s) \in Seq(Byte)
  BY <1>1, FlattenConcat
<1>3. PICK d \in Nat : Holds(PushAll(v, s), v, FlattenSeq(s), d)
  BY <1>1, PushAllHolds
<1> QED BY <1>2, <1>3, FinishWrites

-----------------------------------------------------------------------------
(* What lies in the buffers the shader reads.                              *)

\* The words that bytes are packed into.
LEMMA PackTypes ==
    ASSUME NEW s \in Seq(Byte)
    PROVE  /\ WordsForBytes(Len(s)) \in Nat /\ Pack(s) \in Seq(Seq(Byte))
           /\ Len(Pack(s)) = WordsForBytes(Len(s)) /\ Whole(Pack(s))
<1>1. PICK W \in Nat : W = WordBytes /\ W > 0
  BY ShaderAssumption
<1>2. PICK n \in Nat : n = Len(s) /\ \A k \in 1 .. n : s[k] \in Byte
  OBVIOUS
<1>3. PICK m \in Nat : m = WordsForBytes(n)
  <2>1. n + W - 1 \in Nat
    BY <1>1
  <2>2. (n + W - 1) \div W \in Nat
    BY <1>1, <2>1, Quotient
  <2> QED BY <1>1, <2>2 DEF WordsForBytes
<1> DEFINE E(i, k) == LET at == (i - 1) * W + k IN IF at <= n THEN s[at] ELSE 0
<1>4. PICK p : p = [i \in 1 .. m |-> [k \in 1 .. W |-> E(i, k)]]
  OBVIOUS
<1>5. Pack(s) = p
  BY <1>1, <1>2, <1>3, <1>4 DEF Pack
<1>6. ASSUME NEW i \in 1 .. m, NEW k \in 1 .. W PROVE E(i, k) \in Byte
  <2>1. PICK o \in Nat : o = (i - 1) * W
    <3>1. i - 1 \in Nat
      OBVIOUS
    <3>2. W * (i - 1) \in Nat
      BY <3>1, Times
    <3> QED BY <3>2
  <2>2. o + k \in Nat /\ o + k >= 1 /\ 0 \in Byte
    BY DEF Byte
  <2> QED BY <1>2, <2>1, <2>2
<1> HIDE DEF E
<1>7. ASSUME NEW i \in 1 .. m PROVE p[i] \in Seq(Byte) /\ Len(p[i]) = W
  <2>1. PICK f : f = [k \in 1 .. W |-> E(i, k)]
    OBVIOUS
  <2>2. f \in [1 .. W -> Byte]
    BY <1>6, <2>1
  <2>3. f \in Seq(Byte) /\ Len(f) = W
    BY ONLY <2>2, W \in Nat
  <2> QED BY <1>4, <2>1, <2>3
<1>8. p \in Seq(Seq(Byte)) /\ Len(p) = m
  <2> DEFINE B == Seq(Byte)
  <2>1. \A i \in 1 .. m : p[i] \in B
    BY <1>7
  <2> HIDE DEF B
  <2>2. p \in [1 .. m -> B]
    BY <1>4, <2>1
  <2>3. p \in Seq(B) /\ Len(p) = m
    BY ONLY <2>2, m \in Nat
  <2> QED BY <2>3 DEF B
<1> QED BY <1>1, <1>2, <1>3, <1>5, <1>7, <1>8 DEF Whole

\* Every byte that was packed is in its word.
LEMMA PackedWord ==
    ASSUME NEW s \in Seq(Byte), NEW q \in Nat, NEW r \in 0 .. WordBytes - 1,
           NEW j \in 1 .. Len(s), j = WordBytes * q + (r + 1)
    PROVE  q + 1 \in 1 .. Len(Pack(s)) /\ Pack(s)[q + 1][r + 1] = s[j]
<1>1. PICK W \in Nat : W = WordBytes /\ W > 0
  BY ShaderAssumption
<1>2. PICK n \in Nat : n = Len(s) /\ \A k \in 1 .. n : s[k] \in Byte
  OBVIOUS
<1>3. PICK o \in Nat : o = W * q
  BY Times
<1>4. r \in Nat /\ r < W /\ j \in Nat /\ j <= n /\ j = o + (r + 1)
  BY <1>1, <1>2, <1>3
<1>5. q + 1 \in 1 .. WordsForBytes(n)
  <2>1. PICK x \in Nat : x = n + W - 1
    <3>1. n + W - 1 \in Nat
      BY <1>1
    <3> QED BY <3>1
  <2>2. PICK m \in Nat, l \in 0 .. W - 1 : x = W * m + l /\ m = x \div W
    <3>1. x \div W \in Nat /\ x % W \in 0 .. W - 1 /\ x = W * (x \div W) + (x % W)
      BY <1>1, Quotient
    <3> QED BY <3>1
  <2>3. PICK z \in Nat : z = W * m
    BY Times
  <2>4. l \in Nat /\ l < W /\ x = z + l
    BY <1>1, <2>2, <2>3
  <2>5. o + W <= x
    BY <1>4, <2>1
  <2>6. q < m
    <3> SUFFICES ASSUME m <= q PROVE FALSE
      OBVIOUS
    <3>1. z <= o
      <4>1. CASE m = q
        BY <1>3, <2>3, <4>1
      <4>2. CASE m < q
        <5>1. z + W <= o
          BY <1>3, <2>3, <4>2, Times
        <5> QED BY <5>1
      <4> QED BY <4>1, <4>2
    <3> QED BY <2>4, <2>5, <3>1
  <2>7. m = WordsForBytes(n)
    BY <1>1, <2>1, <2>2 DEF WordsForBytes
  <2> QED BY <2>6, <2>7
<1>6. Pack(s)[q + 1] = [k \in 1 .. W |-> LET at == ((q + 1) - 1) * W + k IN IF at <= n THEN s[at] ELSE 0]
  BY <1>1, <1>2, <1>5 DEF Pack
<1>7. ((q + 1) - 1) * W = o
  <2>1. (q + 1) - 1 = q
    OBVIOUS
  <2> QED BY <1>3, <2>1
<1>8. r + 1 \in 1 .. W
  BY <1>4
<1>9. Pack(s)[q + 1] = [k \in 1 .. W |-> IF o + k <= n THEN s[o + k] ELSE 0]
  BY <1>6, <1>7
<1>10. Pack(s)[q + 1][r + 1] = s[j]
  BY <1>4, <1>8, <1>9
<1>11. Len(Pack(s)) = WordsForBytes(n)
  BY <1>2, PackTypes
<1> QED BY <1>5, <1>10, <1>11

\* The bytes of a buffer that begins with packed bytes.
LEMMA PackedBytes ==
    ASSUME NEW s \in Seq(Byte), NEW words, NEW begin \in Nat,
           \A q \in 1 .. Len(Pack(s)) : words[begin + q] = Pack(s)[q]
    PROVE  Lies(words, begin * WordBytes, s)
<1> SUFFICES ASSUME NEW j \in 1 .. Len(s) PROVE ByteAt(words, begin * WordBytes + (j - 1)) = s[j]
  BY DEF Lies
<1>1. PICK W \in Nat : W = WordBytes /\ W > 0
  BY ShaderAssumption
<1>2. PICK q \in Nat, r \in 0 .. W - 1 : j - 1 = W * q + r
  <2>1. j - 1 \in Nat
    OBVIOUS
  <2>2. /\ (j - 1) \div W \in Nat /\ (j - 1) % W \in 0 .. W - 1
        /\ j - 1 = W * ((j - 1) \div W) + ((j - 1) % W)
    BY <1>1, <2>1, Quotient
  <2> QED BY <2>2
<1>3. PICK o \in Nat : o = W * q
  BY Times
<1>4. PICK z \in Nat : z = W * begin
  BY Times
<1>5. PICK m \in Nat : m = begin + q
  <2>1. begin + q \in Nat
    OBVIOUS
  <2> QED BY <2>1
<1>6. begin * WordBytes + (j - 1) = WordBytes * m + r
  <2>1. W * m = z + o
    <3>1. W * (begin + q) = W * begin + W * q
      OBVIOUS
    <3> QED BY <1>3, <1>4, <1>5, <3>1
  <2>2. begin * W = z
    BY <1>4
  <2>3. z + (j - 1) = (z + o) + r
    BY <1>2, <1>3
  <2> QED BY <1>1, <2>1, <2>2, <2>3
<1>7. m \in Nat /\ r \in 0 .. WordBytes - 1
  BY <1>1
<1>8. ByteAt(words, WordBytes * m + r) = words[m + 1][r + 1]
  BY ONLY <1>7, ByteAtIs
<1>9. q \in Nat /\ j = WordBytes * q + (r + 1) /\ j \in 1 .. Len(s) /\ s \in Seq(Byte)
  <2>1. j = o + (r + 1)
    BY <1>2, <1>3
  <2> QED BY <1>1, <1>3, <2>1
<1>10. q + 1 \in 1 .. Len(Pack(s)) /\ Pack(s)[q + 1][r + 1] = s[j]
  BY ONLY <1>7, <1>9, PackedWord
<1>11. words[begin + (q + 1)] = Pack(s)[q + 1] /\ m + 1 = begin + (q + 1)
  BY <1>5, <1>10
<1> QED BY <1>6, <1>8, <1>10, <1>11

\* What the shader reads as the string of an id.
TextOf(t, i) == IF i = Id(t, TailReserved) THEN TailSent("gpu") ELSE t[i]

StoredText(assets, i, s) ==
    /\ assets.meta[i].len = Len(s) /\ assets.meta[i].offset \in Nat
    /\ Lies(assets.arena, assets.meta[i].offset, s)

\* build_shader_assets: every text lies in the arena where its metadata says.
LEMMA AssetsAre ==
    ASSUME NEW machine, NEW t \in Seq(Seq(Byte)), t # <<>>, machine.strings = t
    PROVE  /\ \A i \in 1 .. Len(t) : /\ TextOf(t, i) \in Seq(Byte)
                                     /\ StoredText(ShaderAssets(machine), i, TextOf(t, i))
           /\ ShaderAssets(machine).httpVersion = Id(t, HttpVersion)
           /\ ShaderAssets(machine).contentType = Id(t, ContentTypeHeader)
           /\ ShaderAssets(machine).contentLength = Id(t, ContentLengthHeader)
           /\ ShaderAssets(machine).tail = Id(t, TailReserved)
           /\ ShaderAssets(machine).backend = Id(t, Name("gpu"))
<1> DEFINE B == Seq(Byte)
<1>1. PICK n \in Nat : n = Len(t) /\ n > 0 /\ DOMAIN t = 1 .. n /\ \A i \in 1 .. n : t[i] \in B
  OBVIOUS
<1>2a. PICK text : text = [i \in DOMAIN machine.strings |->
                  IF i = Id(machine.strings, TailReserved) THEN TailSent("gpu") ELSE machine.strings[i]]
  OBVIOUS
<1>2. text = [i \in DOMAIN t |-> IF i = Id(t, TailReserved) THEN TailSent("gpu") ELSE t[i]]
  BY <1>2a
<1>3. TailSent("gpu") \in B
  BY FixedStrings
<1>4. \A i \in 1 .. n : text[i] = TextOf(t, i) /\ text[i] \in B
  BY <1>1, <1>2, <1>3 DEF TextOf
<1>5. text \in Seq(B) /\ Len(text) = n /\ DOMAIN text = 1 .. n
  <2> HIDE DEF B
  <2>1. text \in [1 .. n -> B]
    BY <1>1, <1>2, <1>4
  <2>2. n \in Nat
    OBVIOUS
  <2> QED BY ONLY <2>1, <2>2
<1>6. text # <<>>
  BY <1>1, <1>5
<1>7. PICK length : length = [i \in 1 .. n |-> Len(text[i])]
  OBVIOUS
<1>8. \A i \in 1 .. Len(text) : length[i] = Len(text[i])
  BY <1>5, <1>7
<1>9. text \in Seq(Seq(Byte))
  BY <1>5
<1>10. /\ \E f : Starts(f, text, length)
       /\ \A f : Starts(f, text, length) => Starting(f, text, Byte)
  BY ONLY <1>6, <1>8, <1>9, StartsAre
<1> DEFINE Recur(f) == f = [k \in 0 .. Len(text) |-> IF k = 0 THEN 0 ELSE f[k - 1] + Len(text[k])]
<1>11. \A f : Recur(f) <=> Starts(f, text, length)
  <2> TAKE f
  <2>1. \A k \in 0 .. Len(text) : k # 0 => length[k] = Len(text[k])
    BY <1>5, <1>8
  <2>2. [k \in 0 .. Len(text) |-> IF k = 0 THEN 0 ELSE f[k - 1] + Len(text[k])]
           = [k \in 0 .. Len(text) |-> IF k = 0 THEN 0 ELSE f[k - 1] + length[k]]
    BY <2>1
  <2> QED BY <2>2 DEF Starts
<1>12. PICK offset : offset = CHOOSE f : Recur(f)
  OBVIOUS
<1>13. Recur(offset)
  BY <1>10, <1>11, <1>12
<1>14. Starting(offset, text, Byte)
  BY <1>10, <1>11, <1>13
<1>15. PICK flat : flat = FlattenSeq(text)
  OBVIOUS
<1>16. PICK arena : arena = Pack(flat)
  OBVIOUS
<1>17. ShaderAssets(machine) =
          [meta |-> [i \in DOMAIN text |-> [offset |-> offset[i - 1], len |-> Len(text[i])]],
           arena |-> arena,
           httpVersion |-> Id(machine.strings, HttpVersion),
           contentType |-> Id(machine.strings, ContentTypeHeader),
           contentLength |-> Id(machine.strings, ContentLengthHeader),
           tail |-> Id(machine.strings, TailReserved),
           backend |-> Id(machine.strings, Name("gpu"))]
  BY <1>2a, <1>12, <1>15, <1>16, Zenon DEF ShaderAssets
<1>18. ASSUME NEW i \in 1 .. n PROVE StoredText(ShaderAssets(machine), i, TextOf(t, i))
  <2>1. ShaderAssets(machine).meta[i] = [offset |-> offset[i - 1], len |-> Len(text[i])]
    BY <1>5, <1>17
  <2>2. ShaderAssets(machine).arena = arena
    BY <1>17
  <2>3. PICK o \in Nat : o = offset[i - 1]
    BY <1>5, <1>14 DEF Starting
  <2>4. flat \in Seq(Byte)
    BY <1>14, <1>15 DEF Starting
  <2>5. \A w \in 1 .. Len(text[i]) : o + w \in 1 .. Len(flat) /\ flat[o + w] = text[i][w]
    BY <1>5, <1>14, <1>15, <2>3 DEF Starting
  <2>6. Lies(arena, o, text[i])
    <3>1. Lies(arena, 0 * WordBytes, flat)
      <4>1. 0 \in Nat /\ \A q \in 1 .. Len(arena) : arena[0 + q] = arena[q]
        <5>1. Len(arena) \in Nat
          BY <1>16, <2>4, PackTypes
        <5> QED BY <5>1
      <4> QED BY <1>16, <2>4, <4>1, PackedBytes
    <3>2. \A k \in 1 .. Len(flat) : ByteAt(arena, k - 1) = flat[k]
      <4>1. WordBytes \in Nat
        BY ShaderAssumption
      <4>2. 0 * WordBytes = 0
        BY <4>1
      <4>3. \A k \in 1 .. Len(flat) : 0 + (k - 1) = k - 1
        BY <2>4
      <4> QED BY <3>1, <4>2, <4>3 DEF Lies
    <3>3. ASSUME NEW k \in 1 .. Len(text[i]) PROVE ByteAt(arena, o + (k - 1)) = text[i][k]
      <4>1. o + (k - 1) = (o + k) - 1
        BY <1>4
      <4> QED BY <2>5, <3>2, <4>1
    <3> QED BY <3>3 DEF Lies
  <2> QED BY <1>4, <2>1, <2>2, <2>3, <2>6 DEF StoredText
<1>19. ASSUME NEW i \in 1 .. n PROVE TextOf(t, i) \in Seq(Byte)
  BY <1>4
<1>20. /\ ShaderAssets(machine).httpVersion = Id(t, HttpVersion)
       /\ ShaderAssets(machine).contentType = Id(t, ContentTypeHeader)
       /\ ShaderAssets(machine).contentLength = Id(t, ContentLengthHeader)
       /\ ShaderAssets(machine).tail = Id(t, TailReserved)
       /\ ShaderAssets(machine).backend = Id(t, Name("gpu"))
  BY <1>17
<1> QED BY <1>1, <1>18, <1>19, <1>20

\* What is pushed for a string.
LEMMA StringSaid ==
    ASSUME NEW assets, NEW i, NEW s \in Seq(Byte), StoredText(assets, i, s)
    PROVE  Pushes(StringPushes(assets, i)) /\ FlattenSeq(StringPushes(assets, i)) = s
BY RangePushesAre DEF StoredText, StringPushes

\* A request as the shader finds it.
Reads(g, i, s) ==
    /\ g.meta[i].len = Len(s) /\ g.meta[i].offset \in Nat
    /\ Lies(g.input, g.meta[i].offset * WordBytes, s)

\* p holds these requests, each where its metadata says.
RequestMeta == [len : Nat, offset : Nat]
Packs(p, requests) ==
    /\ p.words \in Seq(Seq(Byte))
    /\ p.meta \in Seq(RequestMeta) /\ Len(p.meta) = Len(requests)
    /\ \A i \in 1 .. Len(requests) : p.meta[i].len = Len(requests[i]) /\ p.meta[i].offset \in Nat
    /\ \A words : (\A j \in 1 .. Len(p.words) : words[j] = p.words[j]) =>
          \A i \in 1 .. Len(requests) : Lies(words, p.meta[i].offset * WordBytes, requests[i])

\* pack_request_batch: every request lies in the input where its metadata says.
LEMMA RequestsPacked ==
    ASSUME NEW requests \in Seq(Seq(Byte)), requests # <<>>,
           NEW p, p = PackRequests(requests)
    PROVE  Packs(p, requests)
<1> DEFINE B == Seq(Byte)
<1>1. PICK n \in Nat : n = Len(requests) /\ n > 0 /\ DOMAIN requests = 1 .. n /\ \A i \in 1 .. n : requests[i] \in B
  OBVIOUS
<1>2. PICK seqs : seqs = [i \in DOMAIN requests |-> Pack(requests[i])]
  OBVIOUS
<1>3. \A i \in 1 .. n : /\ seqs[i] = Pack(requests[i]) /\ seqs[i] \in Seq(B)
                        /\ Len(seqs[i]) = WordsForBytes(Len(requests[i]))
  BY <1>1, <1>2, PackTypes
<1>4. seqs \in Seq(Seq(B)) /\ Len(seqs) = n /\ DOMAIN seqs = 1 .. n
  <2> DEFINE C == Seq(B)
  <2> HIDE DEF C, B
  <2>1. seqs \in [1 .. n -> C]
    BY <1>1, <1>2, <1>3 DEF C
  <2>2. n \in Nat
    OBVIOUS
  <2>3. seqs \in Seq(C) /\ Len(seqs) = n /\ DOMAIN seqs = 1 .. n
    BY ONLY <2>1, <2>2
  <2> QED BY <2>3 DEF C
<1>5. seqs # <<>>
  BY <1>1, <1>4
<1>6. PICK length : length = [i \in 1 .. n |-> WordsForBytes(Len(requests[i]))]
  OBVIOUS
<1>7. \A i \in 1 .. Len(seqs) : length[i] = Len(seqs[i])
  BY <1>3, <1>4, <1>6
<1>8. /\ \E f : Starts(f, seqs, length)
      /\ \A f : Starts(f, seqs, length) => Starting(f, seqs, B)
  BY ONLY <1>4, <1>5, <1>7, StartsAre
<1> DEFINE Recur(f) == f = [k \in 0 .. Len(requests) |->
              IF k = 0 THEN 0 ELSE f[k - 1] + WordsForBytes(Len(requests[k]))]
<1>9. \A f : Recur(f) <=> Starts(f, seqs, length)
  <2> TAKE f
  <2>1. \A k \in 0 .. n : k # 0 => length[k] = WordsForBytes(Len(requests[k]))
    BY <1>6
  <2>2. [k \in 0 .. n |-> IF k = 0 THEN 0 ELSE f[k - 1] + WordsForBytes(Len(requests[k]))]
           = [k \in 0 .. n |-> IF k = 0 THEN 0 ELSE f[k - 1] + length[k]]
    BY <2>1
  <2> QED BY <1>1, <1>4, <2>2 DEF Starts
<1>10. PICK offset : offset = CHOOSE f : Recur(f)
  OBVIOUS
<1>11. Recur(offset)
  BY <1>8, <1>9, <1>10
<1>12. Starting(offset, seqs, B)
  BY <1>8, <1>9, <1>11
<1>13. PICK flat : flat = FlattenSeq(seqs)
  OBVIOUS
<1>14. p = [meta |-> [i \in DOMAIN requests |-> [len |-> Len(requests[i]), offset |-> offset[i - 1]]],
            words |-> flat]
  BY <1>2, <1>10, <1>13, Zenon DEF PackRequests
<1>15. p.words = flat /\ flat \in Seq(B) /\ Len(p.meta) = n
  BY <1>1, <1>12, <1>13, <1>14 DEF Starting
<1>16. \A i \in 1 .. n : p.meta[i].len = Len(requests[i]) /\ p.meta[i].offset = offset[i - 1] /\ offset[i - 1] \in Nat
  BY <1>1, <1>4, <1>12, <1>14 DEF Starting
<1>17. ASSUME NEW words, \A j \in 1 .. Len(flat) : words[j] = flat[j], NEW i \in 1 .. n
       PROVE  Lies(words, offset[i - 1] * WordBytes, requests[i])
  <2>1. PICK o \in Nat : o = offset[i - 1]
    BY <1>16
  <2>2. PICK s \in Seq(Byte) : s = requests[i]
    BY <1>1
  <2>3. \A q \in 1 .. Len(Pack(s)) : words[o + q] = Pack(s)[q]
    <3> SUFFICES ASSUME NEW q \in 1 .. Len(Pack(s)) PROVE words[o + q] = Pack(s)[q]
      OBVIOUS
    <3>1. seqs[i] = Pack(s) /\ i \in 1 .. Len(seqs)
      BY <1>3, <1>4, <2>2
    <3>2. offset[i - 1] + q \in 1 .. Len(FlattenSeq(seqs)) /\ FlattenSeq(seqs)[offset[i - 1] + q] = seqs[i][q]
      BY <1>12, <3>1, Zenon DEF Starting
    <3>3. o + q \in 1 .. Len(flat) /\ flat[o + q] = Pack(s)[q]
      BY <1>13, <2>1, <3>1, <3>2
    <3> QED BY <1>17, <3>3
  <2> QED BY <2>1, <2>2, <2>3, PackedBytes
<1>18. p.meta \in Seq(RequestMeta)
  <2>1. \A i \in 1 .. n : [len |-> Len(requests[i]), offset |-> offset[i - 1]] \in RequestMeta
    BY <1>1, <1>16 DEF RequestMeta
  <2>2. p.meta = [i \in 1 .. n |-> [len |-> Len(requests[i]), offset |-> offset[i - 1]]]
    BY <1>1, <1>14
  <2>3. p.meta \in [1 .. n -> RequestMeta]
    BY <2>1, <2>2
  <2>4. n \in Nat
    OBVIOUS
  <2> QED BY ONLY <2>3, <2>4
<1>19. /\ p.words \in Seq(B) /\ Len(p.meta) = Len(requests)
       /\ \A i \in 1 .. Len(requests) : p.meta[i].len = Len(requests[i]) /\ p.meta[i].offset \in Nat
  BY <1>1, <1>15, <1>16
<1>20. \A words : (\A j \in 1 .. Len(p.words) : words[j] = p.words[j]) =>
           \A i \in 1 .. Len(requests) : Lies(words, p.meta[i].offset * WordBytes, requests[i])
  BY <1>1, <1>15, <1>16, <1>17
<1> QED BY <1>18, <1>19, <1>20 DEF Packs

-----------------------------------------------------------------------------
(* The program of the shader: its table of routes, and the response that   *)
(* lies at each offset.                                                    *)

\* What the words of the program are made of.
OpCode == {"literal", "path", "query", "backend", "request_bytes", "path_hash", "variant"}
Cell == Nat \cup OpCode
Coded == [op : OpCode, n : Nat, cpu : Nat, gpu : Nat]
CodedResponse(c) ==
    /\ c.status \in Nat /\ c.reason \in Nat /\ c.contentType \in Nat
    /\ c.segments \in Seq(Coded)

\* The fields of a compiled response, and its segments one by one.
LEMMA CompiledTypes ==
    ASSUME NEW r \in ResponseDeclaration, NEW t \in Seq(Seq(Byte))
    PROVE  /\ CodedResponse(CompileResponse(t, r))
           /\ CompileResponse(t, r).status = r.status
           /\ CompileResponse(t, r).reason = Id(t, r.reason)
           /\ CompileResponse(t, r).contentType = Id(t, r.contentType)
           /\ Len(CompileResponse(t, r).segments) = Len(Body(r.calls))
           /\ \A i \in 1 .. Len(Body(r.calls)) :
                 /\ CompileResponse(t, r).segments[i].op = Body(r.calls)[i].op
                 /\ CompileResponse(t, r).segments[i].n = Body(r.calls)[i].n
                 /\ CompileResponse(t, r).segments[i].cpu = Id(t, Body(r.calls)[i].cpu)
                 /\ CompileResponse(t, r).segments[i].gpu = Id(t, Body(r.calls)[i].gpu)
<1>1. PICK body \in Seq(Call) : body = Body(r.calls)
  BY ResponseIs
<1>2. PICK n \in Nat : n = Len(body) /\ DOMAIN body = 1 .. n /\ \A i \in 1 .. n : body[i] \in Call
  BY <1>1
<1>3. PICK segs : segs = [i \in DOMAIN body |-> [body[i] EXCEPT !.cpu = Id(t, @), !.gpu = Id(t, @)]]
  OBVIOUS
<1>4. \A x : Id(t, x) \in Nat
  BY IdBounds
<1>5. ASSUME NEW i \in 1 .. n
      PROVE  /\ segs[i].op = body[i].op /\ segs[i].n = body[i].n
             /\ segs[i].cpu = Id(t, body[i].cpu) /\ segs[i].gpu = Id(t, body[i].gpu)
             /\ segs[i] \in Coded
  <2>1. PICK op \in OpCode, k \in Nat, cputext \in Seq(Byte), gputext \in Seq(Byte) :
           body[i] = [op |-> op, n |-> k, cpu |-> cputext, gpu |-> gputext]
    BY <1>2 DEF Call, OpCode
  <2>2. segs[i] = [op |-> op, n |-> k, cpu |-> Id(t, cputext), gpu |-> Id(t, gputext)]
    <3>1. segs[i] = [body[i] EXCEPT !.cpu = Id(t, body[i].cpu), !.gpu = Id(t, body[i].gpu)]
      BY <1>2, <1>3
    <3>2. body[i].cpu = cputext /\ body[i].gpu = gputext
      BY <2>1
    <3>3. segs[i] = [[op |-> op, n |-> k, cpu |-> cputext, gpu |-> gputext] EXCEPT !.cpu = Id(t, cputext), !.gpu = Id(t, gputext)]
      BY <2>1, <3>1, <3>2
    <3> QED BY <3>3
  <2> QED BY <1>4, <2>1, <2>2 DEF Coded
<1>6. segs \in Seq(Coded) /\ Len(segs) = n
  <2>1. segs \in [1 .. n -> Coded]
    BY <1>2, <1>3, <1>5
  <2>2. n \in Nat
    OBVIOUS
  <2> QED BY ONLY <2>1, <2>2
<1>7. /\ CompileResponse(t, r).status = r.status
      /\ CompileResponse(t, r).reason = Id(t, r.reason)
      /\ CompileResponse(t, r).contentType = Id(t, r.contentType)
      /\ CompileResponse(t, r).segments = segs
  BY <1>1, <1>3 DEF CompileResponse
<1>8. r.status \in Nat
  BY ResponseIs
<1> QED BY <1>1, <1>2, <1>4, <1>5, <1>6, <1>7, <1>8 DEF CodedResponse

\* A body operation has three words, of which the shader reads these.
LEMMA OperationIs ==
    ASSUME NEW seg \in Coded
    PROVE  /\ Operation(seg) \in Seq(Cell) /\ Len(Operation(seg)) = 3 /\ Operation(seg)[1] = seg.op
           /\ seg.op = "literal" => Operation(seg)[2] = seg.cpu
           /\ seg.op \in {"path", "query"} => Operation(seg)[2] = seg.n
           /\ seg.op = "variant" => Operation(seg)[3] = seg.gpu
<1>1. seg.op \in OpCode /\ seg.n \in Nat /\ seg.cpu \in Nat /\ seg.gpu \in Nat
  BY DEF Coded
<1>2. \A a, b \in Nat : /\ <<seg.op, a, b>> \in Seq(Cell) /\ Len(<<seg.op, a, b>>) = 3
                        /\ <<seg.op, a, b>>[1] = seg.op
                        /\ <<seg.op, a, b>>[2] = a /\ <<seg.op, a, b>>[3] = b
  BY <1>1 DEF Cell
<1>3. CASE seg.op = "literal"
  <2>1. Operation(seg) = <<seg.op, seg.cpu, 0>>
    BY <1>3 DEF Operation
  <2> QED BY <1>1, <1>2, <1>3, <2>1
<1>4. CASE seg.op \in {"path", "query"}
  <2>1. Operation(seg) = <<seg.op, seg.n, 0>>
    BY <1>4 DEF Operation
  <2> QED BY <1>1, <1>2, <1>4, <2>1
<1>5. CASE seg.op = "variant"
  <2>1. Operation(seg) = <<seg.op, seg.cpu, seg.gpu>>
    BY <1>5 DEF Operation
  <2> QED BY <1>1, <1>2, <1>5, <2>1
<1>6. CASE seg.op \in {"backend", "request_bytes", "path_hash"}
  <2>1. Operation(seg) = <<seg.op, 0, 0>>
    BY <1>6 DEF Operation
  <2> QED BY <1>1, <1>2, <1>6, <2>1
<1> QED BY <1>1, <1>3, <1>4, <1>5, <1>6 DEF OpCode

\* The response c is described from address a on, in the first l words.
Described(words, a, c, l) ==
    /\ a \in Nat /\ (a + 5) + 3 * Len(c.segments) <= l
    /\ words[a + 1] = c.status /\ words[a + 2] = c.reason /\ words[a + 3] = c.contentType
    /\ words[a + 4] = a + 5 /\ words[a + 5] = Len(c.segments)
    /\ \A k \in 1 .. Len(c.segments) : \A f \in 1 .. 3 :
          words[(a + 5) + (3 * (k - 1) + f)] = Operation(c.segments[k])[f]

\* A response stays described when its words are copied or followed by others.
LEMMA StillDescribed ==
    ASSUME NEW words, NEW a, NEW c, NEW l \in Nat, Described(words, a, c, l), CodedResponse(c),
           NEW others, NEW m \in Nat, l <= m, \A j \in a + 1 .. l : others[j] = words[j]
    PROVE  Described(others, a, c, m)
<1>1. PICK n \in Nat : n = Len(c.segments)
  BY DEF CodedResponse
<1>2. PICK z \in Nat : z = 3 * n
  <2>1. 3 * n \in Nat
    OBVIOUS
  <2> QED BY <2>1
<1>3. a \in Nat /\ (a + 5) + z <= l
  BY <1>1, <1>2 DEF Described
<1>4. a + 1 \in a + 1 .. l /\ a + 2 \in a + 1 .. l /\ a + 3 \in a + 1 .. l /\ a + 4 \in a + 1 .. l /\ a + 5 \in a + 1 .. l
  BY <1>3
<1>5. ASSUME NEW k \in 1 .. n, NEW f \in 1 .. 3
      PROVE  others[(a + 5) + (3 * (k - 1) + f)] = words[(a + 5) + (3 * (k - 1) + f)]
  <2>1. PICK x \in Nat : x = 3 * (k - 1)
    <3>1. 3 * (k - 1) \in Nat
      OBVIOUS
    <3> QED BY <3>1
  <2>2. x + 3 <= z
    BY <1>2, <2>1
  <2>3. (a + 5) + (x + f) \in a + 1 .. l
    BY <1>3, <2>2
  <2> QED BY <2>1, <2>3
<1>6. (a + 5) + 3 * Len(c.segments) <= m
  <2>1. (a + 5) + z <= m
    BY <1>3
  <2> QED BY <1>1, <1>2, <2>1
<1>7. /\ others[a + 1] = c.status /\ others[a + 2] = c.reason /\ others[a + 3] = c.contentType
      /\ others[a + 4] = a + 5 /\ others[a + 5] = Len(c.segments)
  BY <1>4 DEF Described
<1>8. \A k \in 1 .. Len(c.segments) : \A f \in 1 .. 3 :
         others[(a + 5) + (3 * (k - 1) + f)] = Operation(c.segments[k])[f]
  BY <1>1, <1>5 DEF Described
<1> QED BY <1>3, <1>6, <1>7, <1>8 DEF Described

\* Emitting a response appends its descriptor and leaves the program before it alone.
LEMMA EmitIs ==
    ASSUME NEW words \in Seq(Cell), NEW c, CodedResponse(c)
    PROVE  /\ EmitResponse(words, c) \in Seq(Cell) /\ Len(EmitResponse(words, c)) >= Len(words)
           /\ \A j \in 1 .. Len(words) : EmitResponse(words, c)[j] = words[j]
           /\ Described(EmitResponse(words, c), Len(words), c, Len(EmitResponse(words, c)))
<1>1. PICK n \in Nat : n = Len(c.segments) /\ DOMAIN c.segments = 1 .. n /\ \A i \in 1 .. n : c.segments[i] \in Coded
  BY DEF CodedResponse
<1>2. PICK a \in Nat : a = Len(words)
  OBVIOUS
<1>3. PICK ops : ops = [i \in DOMAIN c.segments |-> Operation(c.segments[i])]
  OBVIOUS
<1>4. ops \in Seq(Seq(Cell)) /\ Len(ops) = n /\ \A i \in 1 .. n : Len(ops[i]) = 3 /\ ops[i] = Operation(c.segments[i])
  <2> DEFINE B == Seq(Cell)
  <2>1. \A i \in 1 .. n : ops[i] = Operation(c.segments[i]) /\ ops[i] \in B /\ Len(ops[i]) = 3
    BY <1>1, <1>3, OperationIs
  <2> HIDE DEF B
  <2>2. ops \in [1 .. n -> B]
    BY <1>1, <1>3, <2>1
  <2>3. n \in Nat
    OBVIOUS
  <2>4. ops \in Seq(B) /\ Len(ops) = n
    BY ONLY <2>2, <2>3
  <2> QED BY <2>1, <2>4 DEF B
<1>5. PICK flat \in Seq(Cell) : flat = FlattenSeq(ops)
  BY <1>4, Grid
<1>6. Len(flat) = 3 * n /\ \A k \in 1 .. n : \A f \in 1 .. 3 : flat[3 * (k - 1) + f] = Operation(c.segments[k])[f]
  <2>1. 3 \in Nat /\ ops \in Seq(Seq(Cell)) /\ \A i \in 1 .. Len(ops) : Len(ops[i]) = 3
    BY <1>4
  <2>4. /\ Len(FlattenSeq(ops)) = 3 * Len(ops)
        /\ \A i \in 1 .. Len(ops) : \A f \in 1 .. 3 : FlattenSeq(ops)[3 * (i - 1) + f] = ops[i][f]
    BY ONLY <2>1, Grid, Zenon
  <2>2. /\ Len(flat) = 3 * Len(ops)
        /\ \A i \in 1 .. Len(ops) : \A f \in 1 .. 3 : flat[3 * (i - 1) + f] = ops[i][f]
    BY ONLY <1>5, <2>4
  <2>3. \A i \in 1 .. n : \A f \in 1 .. 3 : flat[3 * (i - 1) + f] = ops[i][f]
    BY <1>4, <2>2
  <2> QED BY <1>4, <2>2, <2>3
<1>7. PICK head \in Seq(Cell) : /\ head = <<c.status, c.reason, c.contentType, a + 5, n>>
                                 /\ Len(head) = 5 /\ head[1] = c.status /\ head[2] = c.reason
                                 /\ head[3] = c.contentType /\ head[4] = a + 5 /\ head[5] = n
  <2>1. c.status \in Cell /\ c.reason \in Cell /\ c.contentType \in Cell /\ a + 5 \in Cell /\ n \in Cell
    BY DEF CodedResponse, Cell
  <2>2. \A x1, x2, x3, x4, x5 \in Cell :
           LET h == <<x1, x2, x3, x4, x5>>
           IN  h \in Seq(Cell) /\ Len(h) = 5 /\ h[1] = x1 /\ h[2] = x2 /\ h[3] = x3 /\ h[4] = x4 /\ h[5] = x5
    OBVIOUS
  <2>3. PICK h : h = <<c.status, c.reason, c.contentType, a + 5, n>>
    OBVIOUS
  <2>4. h \in Seq(Cell) /\ Len(h) = 5 /\ h[1] = c.status /\ h[2] = c.reason /\ h[3] = c.contentType /\ h[4] = a + 5 /\ h[5] = n
    BY ONLY <2>1, <2>2, <2>3
  <2> QED BY <2>3, <2>4
<1>8. PICK e : e = EmitResponse(words, c)
  OBVIOUS
<1>9. e = (words \o head) \o flat
  BY <1>1, <1>2, <1>3, <1>5, <1>7, <1>8 DEF EmitResponse, DescriptorWords
<1>10. PICK z \in Nat : z = Len(flat)
  OBVIOUS
<1>11. /\ e \in Seq(Cell) /\ Len(e) = (a + 5) + z
       /\ \A j \in 1 .. a : e[j] = words[j]
       /\ \A j \in 1 .. 5 : e[a + j] = head[j]
       /\ \A j \in 1 .. z : e[(a + 5) + j] = flat[j]
  <2>1. words \in Seq(Cell) /\ head \in Seq(Cell) /\ flat \in Seq(Cell) /\ Len(head) = 5
    BY <1>7
  <2>2. IsJoined(words \o head, words, head, Cell)
    BY ONLY <2>1, JoinedParts
  <2>3. PICK u : u = words \o head
    OBVIOUS
  <2>4. /\ u \in Seq(Cell) /\ Len(u) = a + 5 /\ (\A j \in 1 .. a : u[j] = words[j])
        /\ (\A j \in 1 .. 5 : u[a + j] = head[j])
    BY ONLY <1>2, <2>1, <2>2, <2>3 DEF IsJoined
  <2>9. IsJoined(u \o flat, u, flat, Cell)
    BY ONLY <2>1, <2>4, JoinedParts
  <2>10. e = u \o flat
    BY <1>9, <2>3
  <2>11. IsJoined(e, u, flat, Cell)
    BY ONLY <2>9, <2>10
  <2>5. e \in Seq(Cell) /\ Len(e) = (a + 5) + z
    BY ONLY <1>10, <2>4, <2>11 DEF IsJoined
  <2>6. (\A j \in 1 .. a + 5 : e[j] = u[j]) /\ (\A j \in 1 .. z : e[(a + 5) + j] = flat[j])
    BY ONLY <1>10, <2>4, <2>11 DEF IsJoined
  <2>7. \A j \in 1 .. a : j \in 1 .. a + 5
    OBVIOUS
  <2>8. \A j \in 1 .. 5 : a + j \in 1 .. a + 5
    OBVIOUS
  <2> QED BY <2>4, <2>5, <2>6, <2>7, <2>8
<1>12. e[a + 1] = c.status /\ e[a + 2] = c.reason /\ e[a + 3] = c.contentType /\ e[a + 4] = a + 5 /\ e[a + 5] = n
  BY <1>7, <1>11
<1>13. ASSUME NEW k \in 1 .. n, NEW f \in 1 .. 3
       PROVE  e[(a + 5) + (3 * (k - 1) + f)] = Operation(c.segments[k])[f]
  <2>1. PICK x \in Nat : x = 3 * (k - 1)
    <3>1. 3 * (k - 1) \in Nat
      OBVIOUS
    <3> QED BY <3>1
  <2>2. x + f \in 1 .. z
    BY <1>6, <1>10, <2>1
  <2>3. flat[x + f] = Operation(c.segments[k])[f]
    BY <1>6, <2>1
  <2> QED BY <1>11, <2>1, <2>2, <2>3
<1>14. (a + 5) + 3 * Len(c.segments) <= Len(e)
  BY <1>1, <1>6, <1>10, <1>11
<1>15. Described(e, a, c, Len(e))
  BY <1>1, <1>12, <1>13, <1>14 DEF Described
<1> QED BY <1>2, <1>8, <1>11, <1>15

EmittedRecur(f, n, cs) ==
    f = [i \in 0 .. Len(cs) |->
            IF i = 0 THEN [a \in 1 .. n * RouteStride |-> 0] ELSE EmitResponse(f[i - 1], cs[i])]

\* The program after each response, unfolded once.
LEMMA EmittedAre ==
    ASSUME NEW n \in Nat, NEW cs, Len(cs) \in Nat, \A i \in 1 .. Len(cs) : CodedResponse(cs[i])
    PROVE  /\ Emitted(n, cs)[0] = [a \in 1 .. 4 * n |-> 0]
           /\ \A i \in 1 .. Len(cs) : Emitted(n, cs)[i] = EmitResponse(Emitted(n, cs)[i - 1], cs[i])
           /\ \A i \in 0 .. Len(cs) : Emitted(n, cs)[i] \in Seq(Cell)
<1>1. PICK N \in Nat : N = Len(cs)
  OBVIOUS
<1>2. PICK z \in Nat : z = 4 * n
  <2>1. 4 * n \in Nat
    OBVIOUS
  <2> QED BY <2>1
<1>3. n * RouteStride = z
  BY <1>2 DEF RouteStride
<1>4. PICK blank \in Seq(Cell) : blank = [a \in 1 .. z |-> 0]
  <2>1. 0 \in Cell
    BY DEF Cell
  <2>2. [a \in 1 .. z |-> 0] \in [1 .. z -> Cell]
    BY <2>1
  <2>3. [a \in 1 .. z |-> 0] \in Seq(Cell)
    BY ONLY <2>2, z \in Nat
  <2> QED BY <2>3
<1> DEFINE C == Seq(Cell)
           steps == [i \in 1 .. N |-> [w \in C |-> EmitResponse(w, cs[i])]]
<1>5. \A i \in 1 .. N : \A w \in C : EmitResponse(w, cs[i]) \in C
  BY <1>1, EmitIs
<1>6. blank \in C
  OBVIOUS
<1> HIDE DEF C
<1>7. steps \in [1 .. N -> [C -> C]]
  BY <1>5
<1>8. PICK g : Iterates(g, N, C, blank, steps)
  BY <1>6, <1>7, Iteration
<1>9. g \in [0 .. N -> C] /\ g[0] = blank /\ \A k \in 0 .. N - 1 : g[k + 1] = steps[k + 1][g[k]]
  BY <1>8 DEF Iterates
<1>10. ASSUME NEW i \in 1 .. N PROVE g[i] = EmitResponse(g[i - 1], cs[i])
  <2>1. PICK k \in 0 .. N - 1 : k = i - 1 /\ i = k + 1
    <3>1. i - 1 \in 0 .. N - 1 /\ i = (i - 1) + 1
      OBVIOUS
    <3> QED BY <3>1
  <2>2. g[k] \in C
    <3>1. k \in 0 .. N
      OBVIOUS
    <3> QED BY <1>9, <3>1
  <2>3. steps[i][g[k]] = EmitResponse(g[k], cs[i])
    BY <2>2
  <2> QED BY <1>9, <2>1, <2>3
<1> DEFINE h == [i \in 0 .. N |-> IF i = 0 THEN blank ELSE EmitResponse(g[i - 1], cs[i])]
<1>11. g = h
  <2>1. \A i \in 0 .. N : g[i] = h[i]
    BY <1>9, <1>10
  <2> HIDE DEF h
  <2>2. h = [i \in 0 .. N |-> h[i]] /\ g = [i \in 0 .. N |-> g[i]]
    BY <1>9 DEF h
  <2> QED BY <2>1, <2>2
<1>12. EmittedRecur(g, n, cs)
  BY <1>1, <1>3, <1>4, <1>11, Zenon DEF EmittedRecur
<1>13. PICK f : f = Emitted(n, cs)
  OBVIOUS
<1>14. EmittedRecur(f, n, cs)
  <2>1. f = CHOOSE k : EmittedRecur(k, n, cs)
    BY <1>13, Zenon DEF Emitted, EmittedRecur
  <2> QED BY <1>12, <2>1
<1>15. f = [i \in 0 .. N |-> IF i = 0 THEN blank ELSE EmitResponse(f[i - 1], cs[i])]
  BY <1>1, <1>3, <1>4, <1>14, Zenon DEF EmittedRecur
<1>16. f[0] = blank
  BY <1>15
<1>17. ASSUME NEW i \in 1 .. N PROVE f[i] = EmitResponse(f[i - 1], cs[i])
  <2>1. i \in 0 .. N /\ i # 0
    OBVIOUS
  <2> QED BY <1>15, <2>1, ZenonT(20)
<1>18. \A i \in 0 .. N : f[i] \in C
  <2> DEFINE T == {i \in Nat : i <= N => f[i] \in C}
  <2>1. 0 \in T
    BY <1>6, <1>16
  <2>2. ASSUME NEW i \in Nat, i \in T PROVE i + 1 \in T
    <3> SUFFICES ASSUME i + 1 <= N PROVE f[i + 1] \in C
      OBVIOUS
    <3>1. f[i] \in C /\ i + 1 \in 1 .. N /\ (i + 1) - 1 = i
      BY <2>2
    <3>2. f[i + 1] = EmitResponse(f[i], cs[i + 1])
      BY <1>17, <3>1
    <3> QED BY <1>5, <3>1, <3>2
  <2>3. Nat \subseteq T
    <3> HIDE DEF T
    <3> QED BY <2>1, <2>2, Induction
  <2> QED BY <2>3
<1> QED BY <1>1, <1>2, <1>4, <1>13, <1>16, <1>17, <1>18 DEF C

\* Every response stays where it was emitted.
LEMMA EmittedStays ==
    ASSUME NEW n \in Nat, NEW cs, Len(cs) \in Nat, \A i \in 1 .. Len(cs) : CodedResponse(cs[i]),
           NEW e, e = Emitted(n, cs), NEW j \in 0 .. Len(cs)
    PROVE  /\ Len(e[j]) \in Nat /\ 4 * n <= Len(e[j])
           /\ \A i \in 1 .. j : /\ Len(e[i - 1]) \in Nat /\ 4 * n <= Len(e[i - 1])
                                /\ Described(e[j], Len(e[i - 1]), cs[i], Len(e[j]))
<1>1. PICK N \in Nat : N = Len(cs)
  OBVIOUS
<1>2. PICK z \in Nat : z = 4 * n
  <2>1. 4 * n \in Nat
    OBVIOUS
  <2> QED BY <2>1
<1>3. /\ e[0] = [a \in 1 .. z |-> 0]
      /\ \A i \in 1 .. N : e[i] = EmitResponse(e[i - 1], cs[i])
      /\ \A i \in 0 .. N : e[i] \in Seq(Cell)
  <2>1. /\ Emitted(n, cs)[0] = [a \in 1 .. 4 * n |-> 0]
        /\ \A i \in 1 .. Len(cs) : Emitted(n, cs)[i] = EmitResponse(Emitted(n, cs)[i - 1], cs[i])
        /\ \A i \in 0 .. Len(cs) : Emitted(n, cs)[i] \in Seq(Cell)
    BY EmittedAre, Zenon
  <2> QED BY <1>1, <1>2, <2>1
<1> DEFINE P(k) == /\ Len(e[k]) \in Nat /\ z <= Len(e[k])
                   /\ \A i \in 1 .. k : /\ Len(e[i - 1]) \in Nat /\ z <= Len(e[i - 1])
                                        /\ Described(e[k], Len(e[i - 1]), cs[i], Len(e[k]))
           T == {k \in Nat : k <= N => P(k)}
<1>4. 0 \in T
  <2>1. Len(e[0]) = z
    <3>1. e[0] \in Seq(Cell) /\ e[0] = [a \in 1 .. z |-> 0]
      BY <1>3
    <3>2. DOMAIN e[0] = 1 .. z
      BY <3>1
    <3> QED BY ONLY <3>1, <3>2, z \in Nat
  <2> QED BY <2>1
<1>5. ASSUME NEW k \in Nat, k \in T PROVE k + 1 \in T
  <2> SUFFICES ASSUME k + 1 <= N PROVE P(k + 1)
    OBVIOUS
  <2>1. P(k) /\ k + 1 \in 1 .. N /\ (k + 1) - 1 = k /\ k \in 0 .. N /\ k + 1 \in 0 .. N
    BY <1>5
  <2>2. PICK x \in Seq(Cell) : x = e[k]
    BY <1>3, <2>1
  <2>3. PICK y \in Seq(Cell) : y = e[k + 1]
    BY <1>3, <2>1
  <2>4. y = EmitResponse(x, cs[k + 1]) /\ CodedResponse(cs[k + 1])
    BY <1>1, <1>3, <2>1, <2>2, <2>3
  <2>5. /\ Len(y) >= Len(x) /\ \A i \in 1 .. Len(x) : y[i] = x[i]
        /\ Described(y, Len(x), cs[k + 1], Len(y))
    BY <2>4, EmitIs
  <2>6. Len(x) \in Nat /\ Len(y) \in Nat /\ z <= Len(x) /\ z <= Len(y)
    BY <2>1, <2>2, <2>5
  <2>7. ASSUME NEW i \in 1 .. k
        PROVE  Len(e[i - 1]) \in Nat /\ z <= Len(e[i - 1]) /\ Described(y, Len(e[i - 1]), cs[i], Len(y))
    <3>1. Len(e[i - 1]) \in Nat /\ z <= Len(e[i - 1]) /\ Described(x, Len(e[i - 1]), cs[i], Len(x))
      BY <2>1, <2>2
    <3>2. CodedResponse(cs[i])
      <4>1. i \in 1 .. N
        BY <2>1
      <4> QED BY <1>1, <4>1
    <3>3. \A q \in Len(e[i - 1]) + 1 .. Len(x) : y[q] = x[q]
      <4>1. \A q \in Len(e[i - 1]) + 1 .. Len(x) : q \in 1 .. Len(x)
        BY <2>6, <3>1
      <4> QED BY <2>5, <4>1
    <3> QED BY <2>5, <2>6, <3>1, <3>2, <3>3, StillDescribed
  <2>8. \A i \in 1 .. k + 1 : i \in 1 .. k \/ i = k + 1
    OBVIOUS
  <2> QED BY <2>1, <2>2, <2>3, <2>5, <2>6, <2>7, <2>8
<1>6. Nat \subseteq T
  <2> HIDE DEF T
  <2> QED BY <1>4, <1>5, Induction
<1> QED BY <1>1, <1>2, <1>6

\* The routes of a compiled router, sorted by hash.
LEMMA RoutesAre ==
    ASSUME NEW R \in RouterDeclaration, Compiles(R)
    PROVE  /\ \A i \in 1 .. Len(R.routes) : \E j \in 1 .. Len(R.routes) :
                  Compile(R).routes[i] = CompileRoute(StringTable(R), R.routes[j])
           /\ \A i \in 1 .. Len(R.routes) :
                  /\ Compile(R).routes[i].path \in Seq(Byte)
                  /\ Compile(R).routes[i].hash \in Nat
                  /\ Compile(R).routes[i].hash = Hash(Compile(R).routes[i].path)
                  /\ CodedResponse(Compile(R).routes[i].response)
           /\ \A j \in 1 .. Len(R.routes) : \E i \in 1 .. Len(R.routes) :
                  Compile(R).routes[i] = CompileRoute(StringTable(R), R.routes[j])
           /\ \A i, j \in 1 .. Len(R.routes) : i < j => Compile(R).routes[i].hash <= Compile(R).routes[j].hash
<1> DEFINE t == StringTable(R)
           S == RouteSet(R)
<1>1. PICK n \in Nat : n = Len(R.routes)
  BY RouterIs
<1>2. PICK routes : routes = Compile(R).routes
  OBVIOUS
<1>3. Ascends(routes, S) /\ Cardinality(S) = n
  <2>1. Routed(S) /\ Cardinality(S) = n /\ routes = Sorted(S)
    BY <1>1, <1>2, RouteSetIs, CompiledIs
  <2> HIDE DEF S
  <2> QED BY <2>1, SortedIs
<1>4. S = {CompileRoute(t, R.routes[i]) : i \in 1 .. n}
  BY <1>1 DEF RouteSet
<1>5. \A i \in 1 .. n : routes[i] \in S
  BY <1>3 DEF Ascends
<1>6. \A r \in S : \E k \in 1 .. n : routes[k] = r
  BY <1>3 DEF Ascends
<1>7. \A i, j \in 1 .. n : i < j => routes[i].hash <= routes[j].hash
  BY <1>3 DEF Ascends
<1>8. \A i \in 1 .. n : \E j \in 1 .. n : routes[i] = CompileRoute(t, R.routes[j])
  BY <1>4, <1>5
<1>9. \A j \in 1 .. n : \E i \in 1 .. n : routes[i] = CompileRoute(t, R.routes[j])
  BY <1>4, <1>6
<1>10. ASSUME NEW i \in 1 .. n
       PROVE  /\ routes[i].path \in Seq(Byte) /\ routes[i].hash \in Nat
              /\ routes[i].hash = Hash(routes[i].path) /\ CodedResponse(routes[i].response)
  <2>1. PICK j \in 1 .. n : routes[i] = CompileRoute(t, R.routes[j])
    BY <1>8
  <2>2. /\ routes[i].path = R.routes[j].path /\ routes[i].hash = Hash(R.routes[j].path)
        /\ routes[i].response = CompileResponse(t, R.routes[j].response)
        /\ Hash(R.routes[j].path) \in Nat
    BY <1>1, <2>1, CompiledRoute
  <2>3. R.routes[j].path \in Seq(Byte) /\ R.routes[j].response \in ResponseDeclaration
    BY <1>1, RouterIs
  <2>4. t \in Seq(Seq(Byte))
    BY TableSpeaks
  <2>5. CodedResponse(CompileResponse(t, R.routes[j].response))
    <3> HIDE DEF t
    <3> QED BY <2>3, <2>4, CompiledTypes
  <2> QED BY <2>2, <2>3, <2>5
<1> QED BY <1>1, <1>2, <1>7, <1>8, <1>9, <1>10

Programmed(m, n, t, cs, at) ==
    /\ \A i \in 1 .. n + 3 : CodedResponse(cs[i]) /\ Described(m.words, at[i], cs[i], Len(m.words))
    /\ \A i \in 1 .. n : cs[i] = m.routes[i].response
    /\ cs[n + 1] = m.fallback /\ cs[n + 2] = m.bad /\ cs[n + 3] = m.notAllowed
    /\ m.layout.routeCount = n /\ m.layout.fallback = at[n + 1]
    /\ m.layout.bad = at[n + 2] /\ m.layout.notAllowed = at[n + 3]
    /\ \A i \in 1 .. n :
          /\ m.words[4 * (i - 1) + 1] = m.routes[i].hash
          /\ m.words[4 * (i - 1) + 2] = Len(m.routes[i].path)
          /\ m.words[4 * (i - 1) + 3] = Id(t, m.routes[i].path)
          /\ m.words[4 * (i - 1) + 4] = at[i]
    /\ m.maxBytes = Max({MaximumResponseBytes(t, cs[i]) : i \in 1 .. n + 3})

\* What the compiler writes.
LEMMA ProgramIs ==
    ASSUME NEW R \in RouterDeclaration, Compiles(R)
    PROVE  \E cs, at : Programmed(Compile(R), Len(R.routes), StringTable(R), cs, at)
<1> DEFINE t == StringTable(R)
<1>1. PICK n \in Nat : n = Len(R.routes)
  BY RouterIs
<1> DEFINE routes == Sorted({CompileRoute(t, R.routes[i]) : i \in 1 .. Len(R.routes)})
           cs == [i \in 1 .. Len(R.routes) |-> routes[i].response]
                 \o <<CompileResponse(t, R.fallback), CompileResponse(t, R.bad), CompileResponse(t, R.notAllowed)>>
           e == Emitted(Len(R.routes), cs)
           at == [i \in DOMAIN cs |-> Len(e[i - 1])]
           rows == [i \in 1 .. Len(R.routes) |->
                       <<routes[i].hash, Len(routes[i].path), Id(t, routes[i].path), at[i]>>]
           table == FlattenSeq(rows)
           words == e[Len(cs)]
           m == Compile(R)
<1>10. m = [routes |-> routes, strings |-> t,
            fallback |-> cs[Len(R.routes) + 1], bad |-> cs[Len(R.routes) + 2], notAllowed |-> cs[Len(R.routes) + 3],
            words |-> table \o SubSeq(words, Len(table) + 1, Len(words)),
            layout |-> [routeCount |-> Len(R.routes), fallback |-> at[Len(R.routes) + 1], bad |-> at[Len(R.routes) + 2],
                        notAllowed |-> at[Len(R.routes) + 3]],
            maxBytes |-> Max({MaximumResponseBytes(t, cs[i]) : i \in DOMAIN cs})]
  BY Zenon DEF Compile
<1>8. words = e[Len(cs)]
  OBVIOUS
<1> HIDE DEF words
<1>7. table = FlattenSeq(rows)
  OBVIOUS
<1> HIDE DEF table
<1>6. rows = [i \in 1 .. Len(R.routes) |->
                 <<routes[i].hash, Len(routes[i].path), Id(t, routes[i].path), at[i]>>]
  OBVIOUS
<1> HIDE DEF rows
<1>5. at = [i \in DOMAIN cs |-> Len(e[i - 1])]
  OBVIOUS
<1> HIDE DEF at
<1>4. e = Emitted(Len(R.routes), cs)
  OBVIOUS
<1> HIDE DEF e
<1>3. cs = [i \in 1 .. Len(R.routes) |-> routes[i].response]
                     \o <<CompileResponse(t, R.fallback), CompileResponse(t, R.bad), CompileResponse(t, R.notAllowed)>>
  OBVIOUS
<1> HIDE DEF cs, routes
<1>9. m = Compile(R)
  OBVIOUS
<1> HIDE DEF m
<1>11. t \in Seq(Seq(Byte)) /\ R.fallback \in ResponseDeclaration /\ R.bad \in ResponseDeclaration
       /\ R.notAllowed \in ResponseDeclaration
  BY TableSpeaks, RouterIs
<1>12. routes = Compile(R).routes
  BY <1>9, <1>10
<1> HIDE DEF t
<1>13. \A i \in 1 .. n : /\ routes[i].path \in Seq(Byte) /\ routes[i].hash \in Nat
                         /\ CodedResponse(routes[i].response)
  BY <1>1, <1>12, RoutesAre
<1>14. /\ Len(cs) = n + 3 /\ DOMAIN cs = 1 .. n + 3
       /\ \A i \in 1 .. n : cs[i] = routes[i].response
       /\ cs[n + 1] = CompileResponse(t, R.fallback) /\ cs[n + 2] = CompileResponse(t, R.bad)
       /\ cs[n + 3] = CompileResponse(t, R.notAllowed)
  <2>1. PICK own : own = [i \in 1 .. n |-> routes[i].response]
    OBVIOUS
  <2>2. PICK others : others = <<CompileResponse(t, R.fallback), CompileResponse(t, R.bad), CompileResponse(t, R.notAllowed)>>
    OBVIOUS
  <2> DEFINE A == {own[i] : i \in 1 .. n} \cup {others[1], others[2], others[3]}
  <2>3. own \in Seq(A) /\ Len(own) = n
    BY <2>1
  <2>4. others \in Seq(A) /\ Len(others) = 3
    <3>1. others[1] \in A /\ others[2] \in A /\ others[3] \in A
      OBVIOUS
    <3> QED BY <2>2, <3>1
  <2> HIDE DEF A
  <2>5. cs = own \o others
    BY <1>1, <1>3, <2>1, <2>2
  <2>6. n \in Nat
    OBVIOUS
  <2>10. IsJoined(cs, own, others, A)
    <3>1. IsJoined(own \o others, own, others, A)
      BY ONLY <2>3, <2>4, JoinedParts
    <3> QED BY ONLY <2>5, <3>1
  <2>7. Len(cs) = n + 3 /\ DOMAIN cs = 1 .. n + 3
    BY ONLY <2>3, <2>4, <2>10 DEF IsJoined
  <2>8. (\A i \in 1 .. n : cs[i] = own[i]) /\ \A i \in 1 .. 3 : cs[n + i] = others[i]
    BY ONLY <2>3, <2>4, <2>10 DEF IsJoined
  <2>9. cs[n + 1] = others[1] /\ cs[n + 2] = others[2] /\ cs[n + 3] = others[3]
    BY <2>8
  <2> QED BY <2>1, <2>2, <2>7, <2>8, <2>9
<1>15. \A i \in 1 .. n + 3 : CodedResponse(cs[i])
  <2>1. /\ CodedResponse(CompileResponse(t, R.fallback)) /\ CodedResponse(CompileResponse(t, R.bad))
        /\ CodedResponse(CompileResponse(t, R.notAllowed))
    BY <1>11, CompiledTypes
  <2>2. \A i \in 1 .. n + 3 : i \in 1 .. n \/ i = n + 1 \/ i = n + 2 \/ i = n + 3
    OBVIOUS
  <2> QED BY <1>13, <1>14, <2>1, <2>2
<1>16. PICK z \in Nat : z = 4 * n
  <2>1. 4 * n \in Nat
    OBVIOUS
  <2> QED BY <2>1
<1>17. /\ \A i \in 1 .. n + 3 : at[i] = Len(e[i - 1]) /\ at[i] \in Nat /\ z <= at[i]
       /\ \A i \in 1 .. n + 3 : Described(words, at[i], cs[i], Len(words))
       /\ words \in Seq(Cell) /\ z <= Len(words) /\ Len(words) \in Nat
  <2>1. Len(cs) \in Nat /\ Len(cs) \in 0 .. Len(cs) /\ Len(cs) = n + 3 /\ \A i \in 1 .. Len(cs) : CodedResponse(cs[i])
    BY <1>14, <1>15
  <2>2. e = Emitted(n, cs)
    BY <1>1, <1>4
  <2>3. /\ z <= Len(words) /\ Len(words) \in Nat
        /\ \A i \in 1 .. Len(cs) : /\ Len(e[i - 1]) \in Nat /\ z <= Len(e[i - 1])
                                   /\ Described(words, Len(e[i - 1]), cs[i], Len(words))
    BY <1>8, <1>16, <2>1, <2>2, EmittedStays
  <2>4. words \in Seq(Cell)
    BY <1>8, <2>1, <2>2, EmittedAre
  <2>5. \A i \in 1 .. n + 3 : at[i] = Len(e[i - 1])
    BY <1>5, <1>14
  <2> QED BY <2>1, <2>3, <2>4, <2>5
<1>18. /\ rows \in Seq(Seq(Cell)) /\ Len(rows) = n
       /\ \A i \in 1 .. n : /\ Len(rows[i]) = 4 /\ rows[i][1] = routes[i].hash /\ rows[i][2] = Len(routes[i].path)
                            /\ rows[i][3] = Id(t, routes[i].path) /\ rows[i][4] = at[i]
  <2> DEFINE B == Seq(Cell)
  <2>1. ASSUME NEW i \in 1 .. n
        PROVE  /\ rows[i] \in B /\ Len(rows[i]) = 4 /\ rows[i][1] = routes[i].hash
               /\ rows[i][2] = Len(routes[i].path)
               /\ rows[i][3] = Id(t, routes[i].path) /\ rows[i][4] = at[i]
    <3>1. rows[i] = <<routes[i].hash, Len(routes[i].path), Id(t, routes[i].path), at[i]>>
      BY <1>1, <1>6
    <3>2. /\ routes[i].hash \in Cell /\ Len(routes[i].path) \in Cell
          /\ Id(t, routes[i].path) \in Cell /\ at[i] \in Cell
      <4>1. Id(t, routes[i].path) \in Nat
        BY <1>11, IdBounds
      <4>2. i \in 1 .. n + 3
        OBVIOUS
      <4>3. Len(routes[i].path) \in Nat
        BY <1>13
      <4> QED BY <1>13, <1>17, <4>1, <4>2, <4>3 DEF Cell
    <3> QED BY <3>1, <3>2
  <2> HIDE DEF B
  <2>2. rows \in [1 .. n -> B]
    BY <1>1, <1>6, <2>1
  <2>3. n \in Nat
    OBVIOUS
  <2>4. rows \in Seq(B) /\ Len(rows) = n
    BY ONLY <2>2, <2>3
  <2> QED BY <2>1, <2>4 DEF B
<1>19. /\ table \in Seq(Cell) /\ Len(table) = z
       /\ \A i \in 1 .. n : \A f \in 1 .. 4 : table[4 * (i - 1) + f] = rows[i][f]
  <2>1. 4 \in Nat
    OBVIOUS
  <2>2. rows \in Seq(Seq(Cell)) /\ \A i \in 1 .. Len(rows) : Len(rows[i]) = 4
    BY <1>18
  <2>3. /\ FlattenSeq(rows) \in Seq(Cell) /\ Len(FlattenSeq(rows)) = 4 * Len(rows)
        /\ \A i \in 1 .. Len(rows) : \A f \in 1 .. 4 : FlattenSeq(rows)[4 * (i - 1) + f] = rows[i][f]
    BY ONLY <2>1, <2>2, Grid, Zenon
  <2> QED BY <1>7, <1>16, <1>18, <2>3
<1>20. PICK rest \in Seq(Cell) : /\ rest = SubSeq(words, z + 1, Len(words)) /\ Len(rest) = Len(words) - z
                                 /\ \A i \in 1 .. Len(words) - z : rest[i] = words[z + i]
  <2>1. z + 1 \in Nat \ {0} /\ Len(words) \in Nat /\ Len(words) <= Len(words)
    BY <1>17
  <2>2. /\ SubSeq(words, z + 1, Len(words)) \in Seq(Cell)
        /\ Len(SubSeq(words, z + 1, Len(words))) = IF z + 1 <= Len(words) THEN Len(words) - (z + 1) + 1 ELSE 0
        /\ \A i \in 1 .. (Len(words) - (z + 1)) + 1 : SubSeq(words, z + 1, Len(words))[i] = words[((z + 1) - 1) + i]
    BY ONLY <1>17, <2>1, SubSeqFacts
  <2>3. (Len(words) - (z + 1)) + 1 = Len(words) - z /\ ((z + 1) - 1) = z
    BY <1>17
  <2>4. PICK rest : rest = SubSeq(words, z + 1, Len(words))
    OBVIOUS
  <2>5. rest \in Seq(Cell)
    BY <2>2, <2>4
  <2>6. Len(rest) = Len(words) - z
    <3>1. CASE z + 1 <= Len(words)
      BY <1>17, <2>2, <2>3, <2>4, <3>1
    <3>2. CASE ~(z + 1 <= Len(words))
      <4>1. Len(words) - z = 0
        BY <1>17, <3>2
      <4>2. Len(rest) = 0
        BY <2>2, <2>4, <3>2
      <4> QED BY <4>1, <4>2
    <3> QED BY <3>1, <3>2
  <2>7. \A i \in 1 .. Len(words) - z : rest[i] = words[z + i]
    BY <2>2, <2>3, <2>4
  <2> QED BY <2>4, <2>5, <2>6, <2>7
<1>21. PICK final : final = table \o rest
  OBVIOUS
<1>22. /\ Len(final) = Len(words)
       /\ \A j \in 1 .. z : final[j] = table[j]
       /\ \A j \in z + 1 .. Len(words) : final[j] = words[j]
  <2>1. PICK l \in Nat : l = Len(words) - z
    <3>1. Len(words) - z \in Nat
      BY <1>17
    <3> QED BY <3>1
  <2>2. Len(final) = z + l /\ (\A j \in 1 .. z : final[j] = table[j]) /\ \A j \in 1 .. l : final[z + j] = rest[j]
    <3>1. table \in Seq(Cell) /\ rest \in Seq(Cell) /\ Len(table) = z /\ Len(rest) = l
      BY <1>19, <1>20, <2>1
    <3>2. IsJoined(table \o rest, table, rest, Cell)
      BY ONLY <3>1, JoinedParts
    <3>3. IsJoined(final, table, rest, Cell)
      BY ONLY <1>21, <3>2
    <3> QED BY ONLY <3>1, <3>3 DEF IsJoined
  <2>3. Len(words) = z + l
    BY <1>17, <2>1
  <2>4. ASSUME NEW j \in z + 1 .. Len(words) PROVE final[j] = words[j]
    <3>1. j - z \in 1 .. l /\ j = z + (j - z)
      BY <2>3
    <3> QED BY <1>20, <2>1, <2>2, <3>1
  <2> QED BY <2>2, <2>3, <2>4
<1>23. m.words = final
  BY <1>10, <1>19, <1>20, <1>21
<1>24. ASSUME NEW i \in 1 .. n + 3 PROVE Described(final, at[i], cs[i], Len(final))
  <2>1. Described(words, at[i], cs[i], Len(words)) /\ CodedResponse(cs[i])
    BY <1>15, <1>17
  <2>2. \A j \in at[i] + 1 .. Len(words) : final[j] = words[j]
    <3>1. \A j \in at[i] + 1 .. Len(words) : j \in z + 1 .. Len(words)
      BY <1>17
    <3> QED BY <1>22, <3>1
  <2>3. Len(words) \in Nat /\ Len(final) = Len(words) /\ Len(words) <= Len(words)
    BY <1>17, <1>22
  <2> QED BY ONLY <2>1, <2>2, <2>3, StillDescribed
<1>25. ASSUME NEW i \in 1 .. n
       PROVE  /\ final[4 * (i - 1) + 1] = routes[i].hash /\ final[4 * (i - 1) + 2] = Len(routes[i].path)
              /\ final[4 * (i - 1) + 3] = Id(t, routes[i].path) /\ final[4 * (i - 1) + 4] = at[i]
  <2>1. PICK x \in Nat : x = 4 * (i - 1)
    <3>1. 4 * (i - 1) \in Nat
      OBVIOUS
    <3> QED BY <3>1
  <2>2. x + 4 <= z
    BY <1>16, <2>1
  <2>3. \A f \in 1 .. 4 : x + f \in 1 .. z
    BY <2>2
  <2>4. \A f \in 1 .. 4 : final[x + f] = rows[i][f]
    BY <1>19, <1>22, <2>1, <2>3
  <2>5. final[x + 1] = rows[i][1] /\ final[x + 2] = rows[i][2] /\ final[x + 3] = rows[i][3] /\ final[x + 4] = rows[i][4]
    BY <2>4
  <2>6. /\ final[x + 1] = routes[i].hash /\ final[x + 2] = Len(routes[i].path)
        /\ final[x + 3] = Id(t, routes[i].path) /\ final[x + 4] = at[i]
    BY <1>18, <2>5
  <2> QED BY ONLY <2>1, <2>6
<1>26. /\ m.routes = routes /\ m.fallback = cs[n + 1] /\ m.bad = cs[n + 2] /\ m.notAllowed = cs[n + 3]
       /\ m.layout.routeCount = n /\ m.layout.fallback = at[n + 1]
       /\ m.layout.bad = at[n + 2] /\ m.layout.notAllowed = at[n + 3]
       /\ m.maxBytes = Max({MaximumResponseBytes(t, cs[i]) : i \in 1 .. n + 3})
  BY <1>1, <1>10, <1>14
<1>27. Programmed(m, n, t, cs, at)
  BY <1>14, <1>15, <1>23, <1>24, <1>25, <1>26 DEF Programmed
<1> QED BY <1>1, <1>9, <1>27 DEF t

-----------------------------------------------------------------------------
(* The request line as the shader reads it.                                *)

\* A supported version at a position of a request, and the end of its line.
VersionAt(s, q) ==
    /\ q + 1 <= Len(s) /\ <<s[q]>> \in Versions
    /\ \/ s[q + 1] = LF
       \/ s[q + 1] = CR /\ q + 2 <= Len(s) /\ s[q + 2] = LF

\* The target of request s ends before byte e, counted from 0, its path before byte p.
ParsedAt(s, e, p) ==
    /\ e \in Nat /\ p \in Nat /\ WordBytes < p /\ p <= e /\ e < Len(s)
    /\ s[WordBytes + 1] = Slash
    /\ s[e + 1] = SP /\ \A k \in WordBytes + 1 .. e : s[k] # SP
    /\ p < e => s[p + 1] = Question
    /\ \A k \in WordBytes + 1 .. p : s[k] # Question
    /\ VersionAt(s, e + 2)

TargetAt(s, e, p) ==
    Target(p - WordBytes, IF p = e THEN e ELSE p + 1, IF p = e THEN 0 ELSE e - p - 1,
           Hash(SubSeq(s, WordBytes + 1, p)), Len(s), TRUE)

\* A byte of a request.
LEMMA ByteRead ==
    ASSUME NEW g, NEW i, NEW s \in Seq(Byte), Reads(g, i, s), NEW k \in Nat, k < Len(s)
    PROVE  RequestByte(g, i, k) = s[k + 1]
<1>1. k + 1 \in 1 .. Len(s) /\ (k + 1) - 1 = k
  OBVIOUS
<1>2. ByteAt(g.input, g.meta[i].offset * WordBytes + ((k + 1) - 1)) = s[k + 1]
  BY <1>1 DEF Reads, Lies
<1> QED BY <1>1, <1>2 DEF RequestByte

\* The shader accepts the version that stands at the end of the line.
LEMMA VersionRead ==
    ASSUME NEW g, NEW i, NEW s \in Seq(Byte), Reads(g, i, s), NEW e \in Nat
    PROVE  HasSupportedHttpVersion(g, i, e + 1, Len(s)) <=> VersionAt(s, e + 2)
<1>1. PICK L \in Nat : L = Len(s)
  OBVIOUS
<1>2. \A k \in Nat : k < L => RequestByte(g, i, k) = s[k + 1]
  BY <1>1, ByteRead
<1>3. CASE e + 2 < L
  <2>1. e + 1 \in Nat /\ e + 1 < L /\ (e + 1) + 1 = e + 2 /\ e + 2 \in Nat /\ (e + 1) + 2 = e + 3
        /\ (e + 2) + 1 = e + 3 /\ (e + 2) + 2 = e + 4 /\ e + 3 \in Nat /\ (e + 3) + 1 = e + 4
        /\ (e + 2) + 1 <= L
    BY <1>3
  <2>2. RequestByte(g, i, e + 1) = s[e + 2]
    BY <1>2, <2>1
  <2>3. RequestByte(g, i, e + 2) = s[e + 3]
    BY <1>2, <1>3, <2>1
  <2>4. e + 3 < L => RequestByte(g, i, e + 3) = s[e + 4]
    BY <1>2, <2>1
  <2>5. e + 3 < L <=> e + 4 <= L
    OBVIOUS
  <2>6. HasSupportedHttpVersion(g, i, e + 1, L) <=>
           /\ <<s[e + 2]>> \in Versions
           /\ s[e + 3] = LF \/ (s[e + 3] = CR /\ e + 3 < L /\ s[e + 4] = LF)
    BY <1>3, <2>1, <2>2, <2>3, <2>4 DEF HasSupportedHttpVersion
  <2>7. VersionAt(s, e + 2) <=>
           /\ <<s[e + 2]>> \in Versions
           /\ s[e + 3] = LF \/ (s[e + 3] = CR /\ e + 4 <= L /\ s[e + 4] = LF)
    BY <1>1, <2>1 DEF VersionAt
  <2> QED BY <1>1, <2>5, <2>6, <2>7
<1>4. CASE ~(e + 2 < L)
  <2>1. ~((e + 1) + 1 < L) /\ ~((e + 2) + 1 <= L)
    BY <1>4
  <2> QED BY <1>1, <2>1 DEF HasSupportedHttpVersion, VersionAt
<1> QED BY <1>3, <1>4

\* The hash of the path is computed byte by byte.
LEMMA HashRead ==
    ASSUME NEW g, NEW i, NEW s \in Seq(Byte), Reads(g, i, s), NEW p \in Nat, WordBytes < p, p <= Len(s)
    PROVE  [k \in 1 .. p - WordBytes |-> RequestByte(g, i, WordBytes + k - 1)] = SubSeq(s, WordBytes + 1, p)
<1>1. PICK W \in Nat : W = WordBytes
  BY ShaderAssumption
<1>2. PICK n \in Nat : n = p - W /\ p = W + n
  <2>1. p - W \in Nat /\ p = W + (p - W)
    BY <1>1
  <2> QED BY <2>1
<1>3. PICK f : f = [k \in 1 .. n |-> RequestByte(g, i, W + k - 1)]
  OBVIOUS
<1>4. PICK h \in Seq(Byte) : h = SubSeq(s, W + 1, p) /\ Len(h) = n /\ \A k \in 1 .. n : h[k] = s[W + k]
  <2>1. W + 1 \in Nat \ {0} /\ p <= Len(s) /\ W + 1 <= p
    BY <1>1
  <2>2. /\ SubSeq(s, W + 1, p) \in Seq(Byte)
        /\ Len(SubSeq(s, W + 1, p)) = IF W + 1 <= p THEN p - (W + 1) + 1 ELSE 0
        /\ \A k \in 1 .. (p - (W + 1)) + 1 : SubSeq(s, W + 1, p)[k] = s[((W + 1) - 1) + k]
    BY ONLY <2>1, s \in Seq(Byte), p \in Nat, SubSeqFacts
  <2>3. (p - (W + 1)) + 1 = n /\ (W + 1) - 1 = W
    BY <1>2
  <2> QED BY <2>1, <2>2, <2>3
<1>5. \A k \in 1 .. n : f[k] = h[k]
  <2> TAKE k \in 1 .. n
  <2>1. PICK j \in Nat : j = W + k - 1 /\ j + 1 = W + k
    <3>1. W + k - 1 \in Nat /\ (W + k - 1) + 1 = W + k
      OBVIOUS
    <3> QED BY <3>1
  <2>2. j < Len(s)
    BY <1>2, <2>1
  <2>3. RequestByte(g, i, j) = s[j + 1]
    BY <2>2, ByteRead
  <2> QED BY <1>3, <1>4, <2>1, <2>3
<1>6. h = [k \in 1 .. n |-> h[k]]
  <2>1. h \in Seq(Byte) /\ Len(h) = n /\ n \in Nat
    BY <1>4
  <2> QED BY ONLY <2>1
<1>7. f = h
  <2>1. f = [k \in 1 .. n |-> f[k]]
    BY <1>3
  <2> QED BY <1>5, <1>6, <2>1
<1> QED BY <1>1, <1>2, <1>3, <1>4, <1>7

\* What the shader's parser finds.
LEMMA ParseFinds ==
    ASSUME NEW g, NEW i, NEW s \in Seq(Byte), Reads(g, i, s)
    PROVE  /\ \A e, p : ParsedAt(s, e, p) => ParseGetTarget(g, i, Len(s)) = TargetAt(s, e, p)
           /\ ~(\E e, p : ParsedAt(s, e, p)) => ParseGetTarget(g, i, Len(s)) = InvalidTarget(Len(s))
<1>1. PICK L \in Nat : L = Len(s)
  OBVIOUS
<1>2. PICK W \in Nat : W = WordBytes /\ W > 0
  BY ShaderAssumption
<1> DEFINE RB(k) == RequestByte(g, i, k)
<1>3. \A k \in Nat : k < L => RB(k) = s[k + 1]
  BY <1>1, ByteRead
<1>4. PICK ends : ends = {c \in W .. L - 1 : RB(c) = SP}
  OBVIOUS
<1>5. PICK end : end = Min(ends)
  OBVIOUS
<1>6. PICK marks : marks = {c \in W .. end - 1 : RB(c) = Question}
  OBVIOUS
<1>7. PICK pathEnd : pathEnd = IF marks = {} THEN end ELSE Min(marks)
  OBVIOUS
<1>8. PICK bytes : bytes = [k \in 1 .. pathEnd - W |-> RB(W + k - 1)]
  OBVIOUS
<1>9. ParseGetTarget(g, i, L) =
        IF L <= W \/ RB(W) # Slash \/ ends = {} \/ pathEnd = W \/ ~HasSupportedHttpVersion(g, i, end + 1, L)
        THEN InvalidTarget(L)
        ELSE Target(pathEnd - W, IF marks = {} THEN end ELSE pathEnd + 1,
                    IF marks = {} THEN 0 ELSE end - pathEnd - 1, Hash(bytes), L, TRUE)
  <2> DEFINE es == {c \in WordBytes .. L - 1 : RB(c) = SP}
             en == Min(es)
             ms == {c \in WordBytes .. en - 1 : RB(c) = Question}
             pe == IF ms = {} THEN en ELSE Min(ms)
             bs == [k \in 1 .. pe - WordBytes |-> RB(WordBytes + k - 1)]
  <2>1. ParseGetTarget(g, i, L) =
          IF L <= WordBytes \/ RB(WordBytes) # Slash \/ es = {} \/ pe = WordBytes
             \/ ~HasSupportedHttpVersion(g, i, en + 1, L)
          THEN InvalidTarget(L)
          ELSE Target(pe - WordBytes, IF ms = {} THEN en ELSE pe + 1,
                      IF ms = {} THEN 0 ELSE en - pe - 1, Hash(bs), L, TRUE)
    BY Zenon DEF ParseGetTarget
  <2>2. es = ends
    BY <1>2, <1>4
  <2> HIDE DEF es
  <2>3. en = end
    BY <1>5, <2>2
  <2> HIDE DEF en
  <2>4. ms = marks
    BY <1>2, <1>6, <2>3
  <2> HIDE DEF ms
  <2>5. pe = pathEnd
    BY <1>7, <2>3, <2>4
  <2> HIDE DEF pe
  <2>6. bs = bytes
    BY <1>2, <1>8, <2>5
  <2> HIDE DEF bs, RB
  <2> QED BY <1>2, <2>1, <2>2, <2>3, <2>4, <2>5, <2>6
<1> HIDE DEF RB
<1>10. ASSUME NEW e, NEW p, ParsedAt(s, e, p) PROVE ParseGetTarget(g, i, L) = TargetAt(s, e, p)
  <2>1. e \in Nat /\ p \in Nat /\ W < p /\ p <= e /\ e < L
    BY <1>1, <1>2, <1>10 DEF ParsedAt
  <2>2. /\ s[W + 1] = Slash /\ s[e + 1] = SP /\ \A k \in W + 1 .. e : s[k] # SP
        /\ p < e => s[p + 1] = Question
        /\ \A k \in W + 1 .. p : s[k] # Question
        /\ VersionAt(s, e + 2)
    BY <1>1, <1>2, <1>10 DEF ParsedAt
  <2>3. end = e /\ ends # {}
    <3>1. ends \subseteq Int
      BY <1>4
    <3>2. e \in ends
      BY <1>3, <1>4, <2>1, <2>2
    <3>3. \A y \in ends : e <= y
      <4> TAKE y \in ends
      <4>1. y \in Nat /\ W <= y /\ y < L /\ s[y + 1] = SP
        BY <1>3, <1>4
      <4>2. ~(y + 1 \in W + 1 .. e)
        BY <2>2, <4>1
      <4> QED BY <2>1, <4>1, <4>2
    <3> QED BY <1>5, <3>1, <3>2, <3>3, MinIs
  <2>4. pathEnd = p /\ (marks = {} <=> p = e)
    <3>1. CASE p = e
      <4>1. marks = {}
        <5> SUFFICES ASSUME NEW c \in marks PROVE FALSE
          OBVIOUS
        <5>1. c \in Nat /\ W <= c /\ c < e /\ RB(c) = Question
          BY <1>6, <2>1, <2>3
        <5>2. s[c + 1] = Question /\ c + 1 \in W + 1 .. p
          BY <1>3, <2>1, <3>1, <5>1
        <5> QED BY <2>2, <5>2
      <4> QED BY <1>7, <2>3, <3>1, <4>1
    <3>2. CASE p < e
      <4>1. marks \subseteq Int
        BY <1>6, <2>1, <2>3
      <4>2. p \in marks
        <5>1. RB(p) = Question
          BY <1>3, <2>1, <2>2, <3>2
        <5> QED BY <1>6, <2>1, <2>3, <3>2, <5>1
      <4>3. \A y \in marks : p <= y
        <5> TAKE y \in marks
        <5>1. y \in Nat /\ W <= y /\ y < e /\ RB(y) = Question
          BY <1>6, <2>1, <2>3
        <5>2. s[y + 1] = Question
          BY <1>3, <2>1, <5>1
        <5>3. ~(y + 1 \in W + 1 .. p)
          BY <2>2, <5>2
        <5> QED BY <2>1, <5>1, <5>3
      <4>4. Min(marks) = p
        BY <4>1, <4>2, <4>3, MinIs
      <4> QED BY <1>7, <2>1, <3>2, <4>2, <4>4
    <3> QED BY <2>1, <3>1, <3>2
  <2>5. RB(W) = Slash /\ ~(L <= W) /\ pathEnd # W
    BY <1>3, <2>1, <2>2, <2>4
  <2>6. HasSupportedHttpVersion(g, i, e + 1, L)
    BY <1>1, <2>1, <2>2, VersionRead
  <2>7. bytes = SubSeq(s, W + 1, p)
    <3>1. p <= Len(s) /\ WordBytes < p
      BY <1>1, <1>2, <2>1
    <3>2. [k \in 1 .. p - WordBytes |-> RequestByte(g, i, WordBytes + k - 1)] = SubSeq(s, WordBytes + 1, p)
      BY <2>1, <3>1, HashRead
    <3> QED BY <1>2, <1>8, <2>4, <3>2 DEF RB
  <2>8. ParseGetTarget(g, i, L) = Target(p - W, IF p = e THEN e ELSE p + 1, IF p = e THEN 0 ELSE e - p - 1,
                                         Hash(SubSeq(s, W + 1, p)), L, TRUE)
    BY <1>9, <2>3, <2>4, <2>5, <2>6, <2>7
  <2> QED BY <1>1, <1>2, <2>8 DEF TargetAt
<1>11. ASSUME ~(\E e, p : ParsedAt(s, e, p)) PROVE ParseGetTarget(g, i, L) = InvalidTarget(L)
  <2> SUFFICES ASSUME ~(L <= W \/ RB(W) # Slash \/ ends = {} \/ pathEnd = W
                        \/ ~HasSupportedHttpVersion(g, i, end + 1, L))
               PROVE  FALSE
    BY <1>9
  <2>1. W < L /\ RB(W) = Slash /\ ends # {} /\ pathEnd # W /\ HasSupportedHttpVersion(g, i, end + 1, L)
    OBVIOUS
  <2>2. /\ end \in Nat /\ W <= end /\ end < L /\ RB(end) = SP
        /\ \A c \in Nat : W <= c /\ c < end => RB(c) # SP
    <3>1. ends \subseteq Nat
      BY <1>4
    <3>2. end \in ends /\ \A y \in ends : end <= y
      BY <1>5, <2>1, <3>1, MinOf
    <3>3. end \in Nat /\ W <= end /\ end < L /\ RB(end) = SP
      BY <1>4, <3>2
    <3>4. ASSUME NEW c \in Nat, W <= c, c < end, RB(c) = SP PROVE FALSE
      <4>1. c \in ends
        BY <1>4, <3>3, <3>4
      <4> QED BY <3>2, <3>3, <3>4, <4>1
    <3> QED BY <3>3, <3>4
  <2>3. /\ pathEnd \in Nat /\ W < pathEnd /\ pathEnd <= end
        /\ pathEnd < end => RB(pathEnd) = Question
        /\ \A c \in Nat : W <= c /\ c < pathEnd => RB(c) # Question
    <3>1. CASE marks = {}
      <4>1. pathEnd = end
        BY <1>7, <3>1
      <4>2. \A c \in Nat : W <= c /\ c < end => RB(c) # Question
        BY <1>6, <2>2, <3>1
      <4> QED BY <2>1, <2>2, <4>1, <4>2
    <3>2. CASE marks # {}
      <4>1. marks \subseteq Nat
        BY <1>6, <2>2
      <4>2. pathEnd \in marks /\ \A y \in marks : pathEnd <= y
        BY <1>7, <3>2, <4>1, MinOf
      <4>3. pathEnd \in Nat /\ W <= pathEnd /\ pathEnd < end /\ RB(pathEnd) = Question
        BY <1>6, <2>2, <4>2
      <4>4. ASSUME NEW c \in Nat, W <= c, c < pathEnd, RB(c) = Question PROVE FALSE
        <5>1. c \in marks
          BY <1>6, <2>2, <4>3, <4>4
        <5> QED BY <4>2, <4>3, <4>4, <5>1
      <4> QED BY <2>1, <2>2, <4>3, <4>4
    <3> QED BY <3>1, <3>2
  <2>4. s[W + 1] = Slash /\ s[end + 1] = SP
    BY <1>3, <2>1, <2>2
  <2>5. pathEnd < end => s[pathEnd + 1] = Question
    BY <1>3, <2>2, <2>3
  <2>6. ASSUME NEW k \in W + 1 .. end PROVE s[k] # SP
    <3>1. k - 1 \in Nat /\ W <= k - 1 /\ k - 1 < end /\ (k - 1) + 1 = k /\ k - 1 < L
      BY <2>2
    <3> QED BY <1>3, <2>2, <3>1
  <2>7. ASSUME NEW k \in W + 1 .. pathEnd PROVE s[k] # Question
    <3>1. k - 1 \in Nat /\ W <= k - 1 /\ k - 1 < pathEnd /\ (k - 1) + 1 = k /\ k - 1 < L
      BY <2>2, <2>3
    <3> QED BY <1>3, <2>3, <3>1
  <2>8. VersionAt(s, end + 2)
    BY <1>1, <2>1, <2>2, VersionRead
  <2>9. ParsedAt(s, end, pathEnd)
    BY <1>1, <1>2, <2>2, <2>3, <2>4, <2>5, <2>6, <2>7, <2>8 DEF ParsedAt
  <2> QED BY <1>11, <2>9
<1> QED BY <1>1, <1>10, <1>11

-----------------------------------------------------------------------------
(* The search for the route of a request.                                  *)

LowerRecur(f, g, n, h) ==
    f = [range \in (0 .. n) \X (0 .. n) |->
            LET lo == range[1]
                hi == range[2]
                middle == lo + ((hi - lo) \div 2)
            IN IF lo >= hi THEN lo
               ELSE IF RouteWord(g, middle, 0) < h THEN f[<<middle + 1, hi>>]
               ELSE f[<<lo, middle>>]]

\* The recursion of the binary search has a solution.
LEMMA LowerExists ==
    ASSUME NEW g, NEW n \in Nat, NEW h
    PROVE  \E f : LowerRecur(f, g, n, h)
<1> DEFINE D == (0 .. n) \X (0 .. n)
           Mid(x) == x[1] + ((x[2] - x[1]) \div 2)
           measure == [x \in D |-> IF x[1] >= x[2] THEN 0 ELSE x[2] - x[1]]
           Step(x, f) == IF x[1] >= x[2] THEN x[1]
                         ELSE IF RouteWord(g, Mid(x), 0) < h THEN f[<<Mid(x) + 1, x[2]>>]
                         ELSE f[<<x[1], Mid(x)>>]
           step == [x \in D |-> [f \in [D -> Nat] |-> Step(x, f)]]
<1>1. ASSUME NEW x \in D PROVE x[1] \in Nat /\ x[2] \in Nat /\ x[1] <= n /\ x[2] <= n
  OBVIOUS
<1>2. ASSUME NEW x \in D, ~(x[1] >= x[2])
      PROVE  /\ Mid(x) \in Nat /\ x[1] <= Mid(x) /\ Mid(x) < x[2]
             /\ <<Mid(x) + 1, x[2]>> \in D /\ <<x[1], Mid(x)>> \in D
  <2>1. PICK lo \in Nat : lo = x[1]
    BY <1>1
  <2>2. PICK hi \in Nat : hi = x[2] /\ lo < hi /\ hi <= n
    BY <1>1, <1>2, <2>1
  <2>3. Mid(x) = lo + ((hi - lo) \div 2)
    BY <2>1, <2>2
  <2> HIDE DEF Mid
  <2>4. Mid(x) \in Nat /\ lo <= Mid(x) /\ Mid(x) < hi
    BY <2>2, <2>3, MiddleIs
  <2>5. Mid(x) + 1 \in 0 .. n /\ hi \in 0 .. n /\ lo \in 0 .. n /\ Mid(x) \in 0 .. n
    BY <2>2, <2>4
  <2> QED BY <2>1, <2>2, <2>4, <2>5
<1>3. ASSUME NEW x \in D, ~(x[1] >= x[2])
      PROVE  measure[<<Mid(x) + 1, x[2]>>] < measure[x] /\ measure[<<x[1], Mid(x)>>] < measure[x]
  <2>1. PICK lo \in Nat : lo = x[1]
    BY <1>1
  <2>2. PICK hi \in Nat : hi = x[2] /\ lo < hi
    BY <1>1, <1>3, <2>1
  <2>3. PICK m \in Nat : m = Mid(x) /\ lo <= m /\ m < hi /\ <<m + 1, hi>> \in D /\ <<lo, m>> \in D
    BY <1>2, <1>3, <2>1, <2>2
  <2> HIDE DEF Mid, D
  <2>4. measure[x] = hi - lo
    BY <1>3, <2>1, <2>2
  <2>5. measure[<<m + 1, hi>>] = IF m + 1 >= hi THEN 0 ELSE hi - (m + 1)
    BY <2>3
  <2>6. measure[<<lo, m>>] = IF lo >= m THEN 0 ELSE m - lo
    BY <2>3
  <2> HIDE DEF measure
  <2>7. measure[<<m + 1, hi>>] < measure[x]
    BY <2>2, <2>3, <2>4, <2>5
  <2>8. measure[<<lo, m>>] < measure[x]
    BY <2>2, <2>3, <2>4, <2>6
  <2> QED BY <2>1, <2>2, <2>3, <2>7, <2>8
<1>4. ASSUME NEW x \in D, NEW f \in [D -> Nat] PROVE Step(x, f) \in Nat
  <2>1. CASE x[1] >= x[2]
    BY <1>1, <2>1
  <2>2. CASE ~(x[1] >= x[2])
    <3>1. <<Mid(x) + 1, x[2]>> \in D /\ <<x[1], Mid(x)>> \in D
      BY <1>2, <2>2
    <3> HIDE DEF D, Mid
    <3>2. f[<<Mid(x) + 1, x[2]>>] \in Nat /\ f[<<x[1], Mid(x)>>] \in Nat
      BY <3>1
    <3> QED BY <2>2, <3>2
  <2> QED BY <2>1, <2>2
<1>5. measure \in [D -> Nat]
  <2>1. \A x \in D : (IF x[1] >= x[2] THEN 0 ELSE x[2] - x[1]) \in Nat
    BY <1>1
  <2> HIDE DEF D
  <2> QED BY <2>1
<1>6. step \in [D -> [[D -> Nat] -> Nat]]
  <2> HIDE DEF D, Step
  <2> QED BY <1>4
<1>7. ASSUME NEW x \in D, NEW f1 \in [D -> Nat], NEW f2 \in [D -> Nat],
             \A y \in D : measure[y] < measure[x] => f1[y] = f2[y]
      PROVE  step[x][f1] = step[x][f2]
  <2>1. step[x][f1] = Step(x, f1) /\ step[x][f2] = Step(x, f2)
    <3> HIDE DEF D, Step
    <3> QED OBVIOUS
  <2>2. CASE x[1] >= x[2]
    BY <2>1, <2>2
  <2>3. CASE ~(x[1] >= x[2])
    <3>1. <<Mid(x) + 1, x[2]>> \in D /\ <<x[1], Mid(x)>> \in D
      BY <1>2, <2>3
    <3>2. measure[<<Mid(x) + 1, x[2]>>] < measure[x] /\ measure[<<x[1], Mid(x)>>] < measure[x]
      BY <1>3, <2>3
    <3> HIDE DEF D, Mid, measure, step
    <3>3. f1[<<Mid(x) + 1, x[2]>>] = f2[<<Mid(x) + 1, x[2]>>] /\ f1[<<x[1], Mid(x)>>] = f2[<<x[1], Mid(x)>>]
      BY <1>7, <3>1, <3>2
    <3> QED BY <2>1, <2>3, <3>3
  <2> QED BY <2>2, <2>3
<1>8. Descends(D, Nat, measure, step)
  <2> HIDE DEF D, measure, step
  <2> QED BY <1>5, <1>6, <1>7 DEF Descends
<1>9. PICK f \in [D -> Nat] : \A x \in D : f[x] = step[x][f]
  <2> HIDE DEF D, measure, step
  <2>1. 0 \in Nat
    OBVIOUS
  <2> QED BY ONLY <1>8, <2>1, Recursion
<1>10. \A x \in D : f[x] = Step(x, f)
  <2> HIDE DEF D, Step
  <2> QED BY <1>9
<1>11. f = [x \in D |-> Step(x, f)]
  <2> HIDE DEF D, Step
  <2>1. f = [x \in D |-> f[x]]
    OBVIOUS
  <2> QED BY <1>10, <2>1
<1> QED BY <1>11, Zenon DEF LowerRecur

\* Below the place k the keys are less than h, from there on they are not.
LEMMA LowerIs ==
    ASSUME NEW g, NEW n \in Nat, NEW h, NEW k \in 0 .. n,
           \A q \in 0 .. n - 1 : RouteWord(g, q, 0) < h <=> q < k,
           NEW f, LowerRecur(f, g, n, h)
    PROVE  f[<<0, n>>] = k
<1> DEFINE P(d) == \A lo, hi \in 0 .. n : lo <= k /\ k <= hi /\ hi - lo <= d => f[<<lo, hi>>] = k
           T == {d \in Nat : P(d)}
<1>1. ASSUME NEW lo \in 0 .. n, NEW hi \in 0 .. n
      PROVE  f[<<lo, hi>>] = IF lo >= hi THEN lo
                             ELSE IF RouteWord(g, lo + ((hi - lo) \div 2), 0) < h THEN f[<<lo + ((hi - lo) \div 2) + 1, hi>>]
                             ELSE f[<<lo, lo + ((hi - lo) \div 2)>>]
  <2>1. PICK x : x = <<lo, hi>>
    OBVIOUS
  <2>2. x \in (0 .. n) \X (0 .. n) /\ x[1] = lo /\ x[2] = hi
    BY <2>1
  <2>3. f[x] = IF x[1] >= x[2] THEN x[1]
               ELSE IF RouteWord(g, x[1] + ((x[2] - x[1]) \div 2), 0) < h THEN f[<<x[1] + ((x[2] - x[1]) \div 2) + 1, x[2]>>]
               ELSE f[<<x[1], x[1] + ((x[2] - x[1]) \div 2)>>]
    BY <2>2, ZenonT(20) DEF LowerRecur
  <2> QED BY ONLY <2>1, <2>2, <2>3
<1>2. 0 \in T
  <2> SUFFICES ASSUME NEW lo \in 0 .. n, NEW hi \in 0 .. n, lo <= k, k <= hi, hi - lo <= 0
               PROVE  f[<<lo, hi>>] = k
    OBVIOUS
  <2>1. lo >= hi /\ lo = k
    OBVIOUS
  <2> QED BY <1>1, <2>1
<1>3. ASSUME NEW d \in Nat, d \in T PROVE d + 1 \in T
  <2> SUFFICES ASSUME NEW lo \in 0 .. n, NEW hi \in 0 .. n, lo <= k, k <= hi, hi - lo <= d + 1
               PROVE  f[<<lo, hi>>] = k
    OBVIOUS
  <2>1. CASE lo >= hi
    <3>1. lo = k
      BY <2>1
    <3> QED BY <1>1, <2>1, <3>1
  <2>2. CASE lo < hi
    <3>1. PICK m \in Nat : m = lo + ((hi - lo) \div 2) /\ lo <= m /\ m < hi
      BY <2>2, MiddleIs
    <3>2. f[<<lo, hi>>] = IF RouteWord(g, m, 0) < h THEN f[<<m + 1, hi>>] ELSE f[<<lo, m>>]
      <4>1. ~(lo >= hi)
        BY <2>2
      <4> HIDE DEF T
      <4> QED BY <1>1, <3>1, <4>1
    <3>3. RouteWord(g, m, 0) < h <=> m < k
      <4>1. m \in 0 .. n - 1
        BY <3>1
      <4> QED BY <4>1
    <3>4. P(d)
      BY <1>3
    <3>5. CASE m < k
      <4>1. m + 1 \in 0 .. n /\ m + 1 <= k /\ hi - (m + 1) <= d
        BY <3>1, <3>5
      <4> QED BY <3>2, <3>3, <3>4, <3>5, <4>1
    <3>6. CASE ~(m < k)
      <4>1. m \in 0 .. n /\ k <= m /\ m - lo <= d
        BY <3>1, <3>6
      <4> QED BY <3>2, <3>3, <3>4, <3>6, <4>1
    <3> QED BY <3>5, <3>6
  <2> QED BY <2>1, <2>2
<1>4. Nat \subseteq T
  <2> HIDE DEF T
  <2> QED BY <1>2, <1>3, Induction
<1>5. P(n)
  BY <1>4
<1>6. 0 \in 0 .. n /\ n \in 0 .. n /\ 0 <= k /\ k <= n /\ n - 0 <= n
  OBVIOUS
<1> QED BY <1>5, <1>6

\* The parts of a request, as the target of the shader points at them.
Spoken(g, i, target, parts, len) ==
    /\ target.pathLen = Len(parts.path) /\ target.pathStart \in Nat
    /\ Lies(g.input, g.meta[i].offset * WordBytes + target.pathStart, parts.path)
    /\ target.queryLen = Len(parts.query) /\ target.queryStart \in Nat
    /\ Lies(g.input, g.meta[i].offset * WordBytes + target.queryStart, parts.query)
    /\ target.hash = parts.hash /\ target.inputLen = len

\* What the shader is bound to for a compiled router.
Bound(g, m) == g.words = m.words /\ g.layout = m.layout /\ g.assets = ShaderAssets(m)

\* A text without a carriage return is not the reserved end of the header, which starts with
\* the end of a line.
LEMMA NotReserved ==
    ASSUME NEW x \in Seq(Byte), 13 \notin ToSet(x)
    PROVE  x # TailReserved
<1>1. PICK s, t : s = <<CR, 75>> /\ t = <<103>>
  OBVIOUS
<1>2. TailReserved = s \o t
  BY <1>1 DEF TailReserved, Name
<1>3. s \in Seq(Nat) /\ t \in Seq(Nat) /\ Len(s) = 2 /\ s[1] = 13
  BY <1>1 DEF CR
<1>4. IsJoined(TailReserved, s, t, Nat)
  <2>1. IsJoined(s \o t, s, t, Nat)
    BY ONLY <1>3, JoinedParts
  <2> QED BY <1>2, <2>1
<1>5. TailReserved[1] = 13 /\ 1 \in DOMAIN TailReserved
  BY ONLY <1>3, <1>4 DEF IsJoined
<1>6. x = TailReserved => TailReserved[1] \in ToSet(x)
  BY <1>5 DEF ToSet
<1> QED BY <1>5, <1>6, Zenon

\* Nor is a printable text.
LEMMA PrintableSent ==
    ASSUME NEW x \in Seq(Byte), Printable(x)
    PROVE  x # TailReserved
<1>1. \A i \in DOMAIN x : x[i] # 13
  <2> SUFFICES ASSUME NEW i \in DOMAIN x PROVE x[i] # 13
    OBVIOUS
  <2>1. x[i] \in 32 .. 126
    BY DEF Printable
  <2>2. 13 \notin 32 .. 126
    OBVIOUS
  <2> QED BY <2>1, <2>2, Zenon
<1>2. 13 \notin ToSet(x)
  BY <1>1 DEF ToSet
<1> QED BY <1>2, NotReserved

\* The paths of routes are none of the strings that are replaced.
LEMMA PathText ==
    ASSUME NEW R \in RouterDeclaration, Compiles(R), NEW i \in 1 .. Len(R.routes),
           NEW path, path = Compile(R).routes[i].path
    PROVE  /\ Id(StringTable(R), path) \in 1 .. Len(StringTable(R))
           /\ TextOf(StringTable(R), Id(StringTable(R), path)) = path
<1>1. PICK t \in Seq(Seq(Byte)) : t = StringTable(R)
  BY TableSpeaks
<1>2. PICK j \in 1 .. Len(R.routes) : Compile(R).routes[i] = CompileRoute(t, R.routes[j])
  BY <1>1, RoutesAre
<1>3. path = R.routes[j].path
  BY <1>1, <1>2, CompiledRoute
<1>4. Knows(t, path)
  BY <1>1, <1>3, TableSpeaks
<1>5. 13 \notin ToSet(path) /\ path \in Seq(Byte)
  <2>1. ValidPath(path)
    <3>1. j \in DOMAIN R.routes
      BY RouterIs
    <3> QED BY <1>3, <3>1 DEF Compiles
  <2>2. path \in Seq(Byte)
    BY <1>3, RouterIs
  <2> QED BY <2>1, <2>2 DEF ValidPath
<1>6. Knows(t, TailReserved)
  <2>1. TailReserved \in Fixed
    BY DEF Fixed
  <2> QED BY <1>1, <2>1, TableSpeaks
<1>7. path # TailReserved
  BY <1>5, NotReserved
<1>8. Id(t, path) # Id(t, TailReserved)
  BY <1>4, <1>6, <1>7 DEF Knows
<1> QED BY <1>1, <1>4, <1>8 DEF Knows, TextOf

\* Bytes lie in a buffer wherever a longer sequence lies.
Alike(words, a, others, b, n) == \A k \in 0 .. n - 1 : ByteAt(words, a + k) = ByteAt(others, b + k)

\* Two texts of one length lie in equal bytes exactly if they are equal.
LEMMA SameBytes ==
    ASSUME NEW s \in Seq(Byte), NEW r \in Seq(Byte), Len(s) = Len(r),
           NEW words, NEW others, NEW a \in Nat, NEW b \in Nat, Lies(words, a, s), Lies(others, b, r)
    PROVE  Alike(words, a, others, b, Len(s)) <=> s = r
<1>1. PICK n \in Nat : n = Len(s) /\ n = Len(r)
  OBVIOUS
<1>2. \A k \in 1 .. n : ByteAt(words, a + (k - 1)) = s[k] /\ ByteAt(others, b + (k - 1)) = r[k]
  BY <1>1 DEF Lies
<1>3. ASSUME \A k \in 0 .. n - 1 : ByteAt(words, a + k) = ByteAt(others, b + k) PROVE s = r
  <2>1. \A k \in 1 .. n : s[k] = r[k]
    <3> TAKE k \in 1 .. n
    <3>1. k - 1 \in 0 .. n - 1
      OBVIOUS
    <3> QED BY <1>2, <1>3, <3>1
  <2>2. s \in Seq(Byte) /\ r \in Seq(Byte)
    OBVIOUS
  <2> QED BY <1>1, <2>1, <2>2, SeqEqual
<1>4. ASSUME s = r, NEW k \in 0 .. n - 1 PROVE ByteAt(words, a + k) = ByteAt(others, b + k)
  <2>1. k + 1 \in 1 .. n /\ (k + 1) - 1 = k
    OBVIOUS
  <2> QED BY <1>2, <1>4, <2>1
<1> QED BY <1>1, <1>3, <1>4 DEF Alike

\* The program's table of routes.
Row(g, m, t, at, q) ==
    /\ RouteWord(g, q, 0) = m.routes[q + 1].hash
    /\ RouteWord(g, q, 1) = Len(m.routes[q + 1].path)
    /\ RouteWord(g, q, 2) = Id(t, m.routes[q + 1].path)
    /\ RouteWord(g, q, 3) = at[q + 1]

\* A row of the route table, as the shader reads it.
LEMMA TableIs ==
    ASSUME NEW m, NEW n \in Nat, NEW t, NEW cs, NEW at, Programmed(m, n, t, cs, at),
           NEW g, Bound(g, m), NEW q \in 0 .. n - 1
    PROVE  Row(g, m, t, at, q)
<1>1. q + 1 \in 1 .. n /\ 4 * ((q + 1) - 1) = 4 * q /\ 4 * q \in Nat
  OBVIOUS
<1>2. PICK x \in Nat : x = 4 * q /\ q * RouteStride = x
  BY <1>1 DEF RouteStride
<1>3. /\ m.words[x + 1] = m.routes[q + 1].hash /\ m.words[x + 2] = Len(m.routes[q + 1].path)
      /\ m.words[x + 3] = Id(t, m.routes[q + 1].path) /\ m.words[x + 4] = at[q + 1]
  BY <1>1, <1>2 DEF Programmed
<1>4. /\ RouteWord(g, q, 0) = m.words[(x + 0) + 1] /\ RouteWord(g, q, 1) = m.words[(x + 1) + 1]
      /\ RouteWord(g, q, 2) = m.words[(x + 2) + 1] /\ RouteWord(g, q, 3) = m.words[(x + 3) + 1]
  BY <1>2 DEF RouteWord, ProgramWord, Bound
<1>5. (x + 0) + 1 = x + 1 /\ (x + 1) + 1 = x + 2 /\ (x + 2) + 1 = x + 3 /\ (x + 3) + 1 = x + 4
  OBVIOUS
<1> QED BY <1>3, <1>4, <1>5 DEF Row

\* A route matches the request of its path.
LEMMA MatchIs ==
    ASSUME NEW R \in RouterDeclaration, Compiles(R), NEW n \in Nat, n = Len(R.routes), NEW cs, NEW at,
           Programmed(Compile(R), n, StringTable(R), cs, at),
           NEW g, Bound(g, Compile(R)), NEW i, g.meta[i].offset \in Nat,
           NEW target, NEW parts \in PartsSet, NEW len, Spoken(g, i, target, parts, len),
           parts.hash = Hash(parts.path), NEW q \in 0 .. n - 1
    PROVE  RouteMatches(g, i, target, q) <=> Compile(R).routes[q + 1].path = parts.path
<1>1. PICK m : m = Compile(R)
  OBVIOUS
<1>2. PICK t : t = StringTable(R) /\ t \in Seq(Seq(Byte))
  BY TableSpeaks
<1>3. PICK path \in Seq(Byte) : path = m.routes[q + 1].path /\ m.routes[q + 1].hash = Hash(path)
  <2>1. q + 1 \in 1 .. Len(R.routes)
    OBVIOUS
  <2> QED BY <1>1, <2>1, RoutesAre
<1>4. PICK id \in 1 .. Len(t) : id = Id(t, path) /\ TextOf(t, id) = path
  <2>1. q + 1 \in 1 .. Len(R.routes)
    OBVIOUS
  <2> QED BY <1>1, <1>2, <1>3, <2>1, PathText
<1>5. StoredText(g.assets, id, path)
  <2>1. m.strings = t
    BY <1>1, <1>2, CompiledIs
  <2>2. t # <<>>
    BY <1>2, <1>4
  <2>3. StoredText(ShaderAssets(m), id, TextOf(t, id))
    BY <1>2, <2>1, <2>2, AssetsAre
  <2> QED BY <1>1, <1>4, <2>3 DEF Bound
<1>6. PICK b \in Nat : b = g.assets.meta[id].offset /\ Lies(g.assets.arena, b, path)
  BY <1>5 DEF StoredText
<1>7. PICK p \in Seq(Byte) : p = parts.path
  BY DEF PartsSet
<1>8. PICK base \in Nat : base = g.meta[i].offset * WordBytes
  <2>1. g.meta[i].offset * WordBytes \in Nat
    <3>1. PICK o \in Nat, W \in Nat : o = g.meta[i].offset /\ W = WordBytes
      BY ShaderAssumption
    <3>2. o * W \in Nat
      BY ONLY o \in Nat, W \in Nat, Times
    <3> QED BY ONLY <3>1, <3>2
  <2> QED BY <2>1
<1>9. PICK s \in Nat : s = target.pathStart
  BY DEF Spoken
<1>10. target.pathLen = Len(p) /\ Lies(g.input, base + s, p) /\ target.hash = Hash(p)
  BY <1>7, <1>8, <1>9 DEF Spoken
<1>11. /\ RouteWord(g, q, 0) = Hash(path) /\ RouteWord(g, q, 1) = Len(path) /\ RouteWord(g, q, 2) = id
  <2>1. /\ RouteWord(g, q, 0) = Compile(R).routes[q + 1].hash
        /\ RouteWord(g, q, 1) = Len(Compile(R).routes[q + 1].path)
        /\ RouteWord(g, q, 2) = Id(StringTable(R), Compile(R).routes[q + 1].path)
    <3>1. Programmed(Compile(R), n, StringTable(R), cs, at) /\ Bound(g, Compile(R)) /\ n \in Nat /\ q \in 0 .. n - 1
      OBVIOUS
    <3>2. Row(g, Compile(R), StringTable(R), at, q)
      BY ONLY <3>1, TableIs
    <3> QED BY ONLY <3>2, Zenon DEF Row
  <2> QED BY <1>1, <1>2, <1>3, <1>4, <2>1
<1>12. RouteMatches(g, i, target, q) <=>
          /\ Hash(path) = Hash(p) /\ Len(path) = Len(p)
          /\ \A k \in 0 .. Len(p) - 1 : RequestByte(g, i, s + k) = ByteAt(g.assets.arena, b + k)
  BY <1>6, <1>9, <1>10, <1>11 DEF RouteMatches
<1>13. \A k \in 0 .. Len(p) - 1 : RequestByte(g, i, s + k) = ByteAt(g.input, (base + s) + k)
  <2> TAKE k \in 0 .. Len(p) - 1
  <2>1. base + (s + k) = (base + s) + k
    OBVIOUS
  <2> QED BY <1>8, <2>1 DEF RequestByte
<1>14. ASSUME Len(path) = Len(p)
       PROVE  Alike(g.input, base + s, g.assets.arena, b, Len(p)) <=> p = path
  <2>1. base + s \in Nat /\ b \in Nat /\ p \in Seq(Byte) /\ path \in Seq(Byte) /\ Len(p) = Len(path)
    BY <1>14
  <2>2. Lies(g.input, base + s, p) /\ Lies(g.assets.arena, b, path)
    BY <1>6, <1>10
  <2> QED BY ONLY <2>1, <2>2, SameBytes
<1>15. RouteMatches(g, i, target, q) <=> path = p
  <2>1. CASE path = p
    <3>1. Alike(g.input, base + s, g.assets.arena, b, Len(p))
      BY <1>14, <2>1
    <3> QED BY <1>12, <1>13, <2>1, <3>1 DEF Alike
  <2>2. CASE path # p
    <3>1. ASSUME RouteMatches(g, i, target, q) PROVE FALSE
      <4>1. Len(path) = Len(p) /\ \A k \in 0 .. Len(p) - 1 : ByteAt(g.input, (base + s) + k) = ByteAt(g.assets.arena, b + k)
        BY <1>12, <1>13, <3>1
      <4> QED BY <1>14, <2>2, <4>1 DEF Alike
    <3> QED BY <2>2, <3>1
  <2> QED BY <2>1, <2>2
<1> QED BY <1>1, <1>3, <1>7, <1>15

\* The shader's search ends at the response of the route that the CPU finds.
LEMMA OffsetFound ==
    ASSUME NEW R \in RouterDeclaration, Compiles(R), NEW n \in Nat, n = Len(R.routes), NEW cs, NEW at,
           Programmed(Compile(R), n, StringTable(R), cs, at),
           NEW g, Bound(g, Compile(R)), NEW i, g.meta[i].offset \in Nat,
           NEW target, NEW parts \in PartsSet, NEW len, Spoken(g, i, target, parts, len),
           parts.hash = Hash(parts.path)
    PROVE  \E x \in 1 .. n + 3 : FindResponseOffset(g, i, target) = at[x] /\ cs[x] = FindRoute(Compile(R), parts)
<1>1. PICK m : m = Compile(R)
  OBVIOUS
<1>2. PICK t : t = StringTable(R)
  OBVIOUS
<1>3. Programmed(m, n, t, cs, at) /\ Bound(g, m)
  BY <1>1, <1>2
<1>4. PICK h \in Nat : h = parts.hash /\ target.hash = h
  BY DEF PartsSet, Spoken
<1>5. PICK path : path = parts.path
  OBVIOUS
<1>6. /\ \A j \in 1 .. n : m.routes[j].hash \in Nat /\ m.routes[j].hash = Hash(m.routes[j].path)
      /\ \A j, k \in 1 .. n : j < k => m.routes[j].hash <= m.routes[k].hash
  BY <1>1, RoutesAre
<1>7. \A q \in 0 .. n - 1 : RouteWord(g, q, 0) = m.routes[q + 1].hash /\ RouteWord(g, q, 3) = at[q + 1]
  <2> TAKE q \in 0 .. n - 1
  <2>1. Programmed(m, n, t, cs, at) /\ Bound(g, m) /\ n \in Nat /\ q \in 0 .. n - 1
    BY <1>3
  <2>2. Row(g, m, t, at, q)
    BY ONLY <2>1, TableIs
  <2> QED BY <2>2 DEF Row
<1>8. \A q \in 0 .. n - 1 : RouteMatches(g, i, target, q) <=> m.routes[q + 1].path = path
  <2> TAKE q \in 0 .. n - 1
  <2>1. RouteMatches(g, i, target, q) <=> Compile(R).routes[q + 1].path = parts.path
    BY MatchIs
  <2> QED BY <1>1, <1>5, <2>1
<1>9. PICK hashes : hashes = [j \in 1 .. n |-> m.routes[j].hash]
  OBVIOUS
<1>10. PICK k : k = Cardinality({j \in 1 .. n : hashes[j] < h})
  OBVIOUS
<1>11. k \in 0 .. n /\ \A j \in 1 .. n : hashes[j] < h <=> j <= k
  <2>1. (\A j \in 1 .. n : hashes[j] \in Nat) /\ \A j, l \in 1 .. n : j < l => hashes[j] <= hashes[l]
    BY <1>6, <1>9
  <2>2. n \in Nat /\ h \in Nat
    OBVIOUS
  <2>3. LET c == Cardinality({j \in 1 .. n : hashes[j] < h})
        IN  c \in 0 .. n /\ \A j \in 1 .. n : hashes[j] < h <=> j <= c
    BY ONLY <2>1, <2>2, BelowIs
  <2> QED BY <1>10, <2>3
<1>12. k = Cardinality({j \in 1 .. n : m.routes[j].hash < h})
  <2>1. {j \in 1 .. n : hashes[j] < h} = {j \in 1 .. n : m.routes[j].hash < h}
    BY <1>9
  <2> QED BY <1>10, <2>1
<1>13. \A q \in 0 .. n - 1 : RouteWord(g, q, 0) < h <=> q < k
  <2> TAKE q \in 0 .. n - 1
  <2>1. q + 1 \in 1 .. n /\ (q + 1 <= k <=> q < k)
    BY <1>11
  <2> QED BY <1>7, <1>9, <1>11, <2>1
<1>14. PICK lower : lower = CHOOSE f : LowerRecur(f, g, n, h)
  OBVIOUS
<1>15. LowerRecur(lower, g, n, h)
  BY <1>14, LowerExists
<1>16. lower[<<0, n>>] = k
  <2>1. k \in 0 .. n
    BY <1>11
  <2> QED BY <1>13, <1>15, <2>1, LowerIs
<1>17. PICK found : found = {r \in k .. n - 1 : /\ \A q \in k .. r : RouteWord(g, q, 0) = h
                                                /\ RouteMatches(g, i, target, r)}
  OBVIOUS
<1>18. FindResponseOffset(g, i, target) = IF found = {} THEN m.layout.fallback ELSE RouteWord(g, Min(found), 3)
  <2> DEFINE n2 == g.layout.routeCount
             h2 == target.hash
             low == CHOOSE f : LowerRecur(f, g, n2, h2)
             first == low[<<0, n2>>]
             found2 == {r \in first .. n2 - 1 : /\ \A q \in first .. r : RouteWord(g, q, 0) = h2
                                                /\ RouteMatches(g, i, target, r)}
  <2>1. FindResponseOffset(g, i, target) = IF found2 = {} THEN g.layout.fallback ELSE RouteWord(g, Min(found2), 3)
    BY Zenon DEF FindResponseOffset, LowerRecur
  <2>2. n2 = n
    BY <1>3 DEF Bound, Programmed
  <2>3. h2 = h
    BY <1>4
  <2> HIDE DEF n2, h2
  <2>4. low = lower
    BY <1>14, <2>2, <2>3
  <2> HIDE DEF low
  <2>5. first = k
    BY <1>16, <2>2, <2>4
  <2> HIDE DEF first
  <2>6. found2 = found
    BY <1>17, <2>2, <2>3, <2>5
  <2> HIDE DEF found2
  <2>7. g.layout.fallback = m.layout.fallback
    BY <1>3 DEF Bound
  <2> QED BY <2>1, <2>6, <2>7
<1>19. PICK there : there = {j \in 1 + k .. n : (\A l \in 1 + k .. j : m.routes[l].hash = h) /\ m.routes[j].path = path}
  OBVIOUS
<1>20. FindRoute(m, parts) = IF there = {} THEN m.fallback ELSE m.routes[Min(there)].response
  <2> DEFINE n3 == Len(m.routes)
             first == 1 + Cardinality({j \in 1 .. n3 : m.routes[j].hash < parts.hash})
             found3 == {j \in first .. n3 : (\A l \in first .. j : m.routes[l].hash = parts.hash)
                                            /\ m.routes[j].path = parts.path}
  <2>1. FindRoute(m, parts) = IF found3 = {} THEN m.fallback ELSE m.routes[Min(found3)].response
    BY Zenon DEF FindRoute
  <2>2. n3 = n
    <3>1. m.routes = Sorted(RouteSet(R)) /\ Routed(RouteSet(R)) /\ Cardinality(RouteSet(R)) = n
      BY <1>1, CompiledIs, RouteSetIs
    <3>2. m.routes \in [1 .. n -> RouteSet(R)]
      BY <3>1, SortedIs DEF Ascends
    <3>3. PICK S : m.routes \in [1 .. n -> S]
      BY <3>2
    <3> QED BY ONLY <3>3, n \in Nat
  <2> HIDE DEF n3
  <2>3. first = 1 + k
    BY <1>4, <1>12, <2>2
  <2> HIDE DEF first
  <2>4. found3 = there
    BY <1>4, <1>5, <1>19, <2>2, <2>3
  <2> HIDE DEF found3
  <2> QED BY <2>1, <2>4
<1>21. \A r \in 0 .. n - 1 : r \in found <=> r + 1 \in there
  <2> TAKE r \in 0 .. n - 1
  <2>1. r + 1 \in 1 .. n
    OBVIOUS
  <2>2. (\A q \in k .. r : RouteWord(g, q, 0) = h) <=> (\A l \in 1 + k .. r + 1 : m.routes[l].hash = h)
    <3>1. ASSUME \A q \in k .. r : RouteWord(g, q, 0) = h, NEW l \in 1 + k .. r + 1 PROVE m.routes[l].hash = h
      <4>1. l - 1 \in k .. r /\ l - 1 \in 0 .. n - 1 /\ (l - 1) + 1 = l
        BY <1>11
      <4> QED BY <1>7, <3>1, <4>1
    <3>2. ASSUME \A l \in 1 + k .. r + 1 : m.routes[l].hash = h, NEW q \in k .. r PROVE RouteWord(g, q, 0) = h
      <4>1. q + 1 \in 1 + k .. r + 1 /\ q \in 0 .. n - 1
        BY <1>11
      <4> QED BY <1>7, <3>2, <4>1
    <3> QED BY <3>1, <3>2
  <2>3. r \in k .. n - 1 <=> r + 1 \in 1 + k .. n
    BY <1>11
  <2>4. RouteMatches(g, i, target, r) <=> m.routes[r + 1].path = path
    BY <1>8
  <2>5. r \in found <=> /\ r \in k .. n - 1 /\ (\A q \in k .. r : RouteWord(g, q, 0) = h) /\ RouteMatches(g, i, target, r)
    BY <1>17
  <2>6. r + 1 \in there <=> /\ r + 1 \in 1 + k .. n
                            /\ (\A l \in 1 + k .. r + 1 : m.routes[l].hash = h) /\ m.routes[r + 1].path = path
    BY <1>19
  <2> QED BY ONLY <2>2, <2>3, <2>4, <2>5, <2>6
<1>22. found \subseteq 0 .. n - 1 /\ \A j \in there : j \in 1 .. n
  BY <1>11, <1>17, <1>19
<1>23. CASE found = {}
  <2>1. there = {}
    <3> SUFFICES ASSUME NEW j \in there PROVE FALSE
      OBVIOUS
    <3>1. j \in 1 .. n /\ j - 1 \in 0 .. n - 1 /\ (j - 1) + 1 = j
      BY <1>22
    <3> QED BY <1>21, <1>23, <3>1
  <2>2. n + 1 \in 1 .. n + 3 /\ m.layout.fallback = at[n + 1] /\ cs[n + 1] = m.fallback
    BY <1>3 DEF Programmed
  <2> QED BY <1>1, <1>18, <1>20, <1>23, <2>1, <2>2
<1>24. CASE found # {}
  <2>1. PICK r \in 0 .. n - 1 : r = Min(found) /\ r \in found /\ \A y \in found : r <= y
    <3>1. found \subseteq Nat
      BY <1>22
    <3>2. Min(found) \in found /\ \A y \in found : Min(found) <= y
      BY <1>24, <3>1, MinOf
    <3> QED BY <1>22, <3>2
  <2>2. Min(there) = r + 1
    <3>1. r + 1 \in there
      BY <1>21, <2>1
    <3>2. there \subseteq Int
      BY <1>22
    <3>3. \A j \in there : r + 1 <= j
      <4> TAKE j \in there
      <4>1. j \in 1 .. n /\ j - 1 \in 0 .. n - 1 /\ (j - 1) + 1 = j
        BY <1>22
      <4>2. j - 1 \in found
        BY <1>21, <4>1
      <4>3. r <= j - 1
        BY <2>1, <4>2
      <4> QED BY <4>1, <4>3
    <3> QED BY <3>1, <3>2, <3>3, MinIs
  <2>3. there # {}
    BY <1>21, <2>1
  <2>4. r + 1 \in 1 .. n /\ r + 1 \in 1 .. n + 3
    OBVIOUS
  <2>5. cs[r + 1] = m.routes[r + 1].response
    BY <1>3, <2>4 DEF Programmed
  <2>6. FindResponseOffset(g, i, target) = at[r + 1]
    BY <1>7, <1>18, <1>24, <2>1
  <2>7. FindRoute(m, parts) = m.routes[r + 1].response
    BY <1>20, <2>2, <2>3
  <2> QED BY <1>1, <2>4, <2>5, <2>6, <2>7
<1> QED BY <1>23, <1>24

-----------------------------------------------------------------------------
(* What the shader says for a compiled response.                           *)

\* Every id a compiled response uses is the id of a string.
WellCoded(t, c) ==
    /\ CodedResponse(c) /\ c.reason \in 1 .. Len(t) /\ c.contentType \in 1 .. Len(t)
    /\ \A k \in 1 .. Len(c.segments) :
          /\ Worded(c.segments[k]) => c.segments[k].gpu \in 1 .. Len(t)
          /\ c.segments[k].op = "literal" => c.segments[k].cpu = c.segments[k].gpu

\* A compiled response refers to texts of the table only.
LEMMA CompiledWell ==
    ASSUME NEW r \in ResponseDeclaration, NEW t \in Seq(Seq(Byte)), Speaks(t, r)
    PROVE  WellCoded(t, CompileResponse(t, r))
<1>1. PICK c : c = CompileResponse(t, r)
  OBVIOUS
<1>2. PICK body : body = Body(r.calls)
  OBVIOUS
<1>3. PICK n \in Nat : n = Len(body) /\ DOMAIN body = 1 .. n /\ \A k \in 1 .. n : body[k] \in Call
  BY <1>2, ResponseIs
<1>4. /\ CodedResponse(c) /\ c.reason = Id(t, r.reason) /\ c.contentType = Id(t, r.contentType)
      /\ Len(c.segments) = n
      /\ \A k \in 1 .. n : /\ c.segments[k].op = body[k].op
                           /\ c.segments[k].cpu = Id(t, body[k].cpu) /\ c.segments[k].gpu = Id(t, body[k].gpu)
  BY <1>1, <1>2, <1>3, CompiledTypes
<1>5. Knows(t, r.reason) /\ Knows(t, r.contentType) /\ \A k \in 1 .. n : Worded(body[k]) => Knows(t, body[k].gpu)
  BY <1>2, <1>3 DEF Speaks
<1>6. \A k \in 1 .. n : body[k].op = "literal" => body[k].cpu = body[k].gpu
  BY <1>3 DEF Call
<1>7. \A k \in 1 .. n : Worded(c.segments[k]) <=> Worded(body[k])
  BY <1>4 DEF Worded
<1>8. c.reason \in 1 .. Len(t) /\ c.contentType \in 1 .. Len(t)
  BY <1>4, <1>5 DEF Knows
<1>9. \A k \in 1 .. n : /\ Worded(c.segments[k]) => c.segments[k].gpu \in 1 .. Len(t)
                        /\ c.segments[k].op = "literal" => c.segments[k].cpu = c.segments[k].gpu
  <2> TAKE k \in 1 .. n
  <2>1. ASSUME Worded(c.segments[k]) PROVE c.segments[k].gpu \in 1 .. Len(t)
    <3>1. Knows(t, body[k].gpu)
      BY <1>5, <1>7, <2>1
    <3> QED BY <1>4, <3>1 DEF Knows
  <2>2. ASSUME c.segments[k].op = "literal" PROVE c.segments[k].cpu = c.segments[k].gpu
    BY <1>4, <1>6, <2>2
  <2> QED BY <2>1, <2>2
<1> QED BY <1>1, <1>4, <1>8, <1>9 DEF WellCoded

Says(t, seg, parts, len) == Said(seg, TextOf(t, seg.gpu), parts, len, "gpu")
SaysBody(t, c, parts, len) == FlattenSeq([k \in 1 .. Len(c.segments) |-> Says(t, c.segments[k], parts, len)])
SaysAll(t, c, parts, len) ==
    BuildResponse(c.status, TextOf(t, c.reason), TextOf(t, c.contentType), SaysBody(t, c, parts, len), "gpu")

\* What the shader reads of a response.
Descriptor(g, a, c) ==
    /\ ProgramWord(g, a) = c.status /\ ProgramWord(g, a + 1) = c.reason
    /\ ProgramWord(g, a + 2) = c.contentType
    /\ Operations(g, a) = 1 .. Len(c.segments)
    /\ \A k \in 1 .. Len(c.segments) :
          /\ BodyOp(g, a, k, 0) = Operation(c.segments[k])[1]
          /\ BodyOp(g, a, k, 1) = Operation(c.segments[k])[2]
          /\ BodyOp(g, a, k, 2) = Operation(c.segments[k])[3]

\* The descriptor of a response, as the shader reads it.
LEMMA DescriptorIs ==
    ASSUME NEW g, NEW a, NEW c, NEW l, Described(g.words, a, c, l)
    PROVE  Descriptor(g, a, c)
<1>1. a \in Nat
  BY DEF Described
<1>2. (a + 1) + 1 = a + 2 /\ (a + 2) + 1 = a + 3 /\ (a + 3) + 1 = a + 4 /\ (a + 4) + 1 = a + 5
  BY <1>1
<1>3. /\ ProgramWord(g, a) = c.status /\ ProgramWord(g, a + 1) = c.reason
      /\ ProgramWord(g, a + 2) = c.contentType /\ ProgramWord(g, a + 3) = a + 5
      /\ ProgramWord(g, a + 4) = Len(c.segments)
  BY <1>2 DEF Described, ProgramWord
<1>4. Operations(g, a) = 1 .. Len(c.segments)
  BY <1>3 DEF Operations
<1>5. ASSUME NEW k \in 1 .. Len(c.segments)
      PROVE  /\ BodyOp(g, a, k, 0) = Operation(c.segments[k])[1]
             /\ BodyOp(g, a, k, 1) = Operation(c.segments[k])[2]
             /\ BodyOp(g, a, k, 2) = Operation(c.segments[k])[3]
  <2>1. PICK x \in Int : x = 3 * (k - 1) /\ x = (k - 1) * BodyOpWords
    <3>1. 3 * (k - 1) \in Int /\ 3 * (k - 1) = (k - 1) * 3
      OBVIOUS
    <3> QED BY <3>1 DEF BodyOpWords
  <2>2. ((a + 5) + x + 0) + 1 = (a + 5) + (x + 1) /\ ((a + 5) + x + 1) + 1 = (a + 5) + (x + 2)
        /\ ((a + 5) + x + 2) + 1 = (a + 5) + (x + 3)
    BY <1>1
  <2>3. /\ g.words[(a + 5) + (x + 1)] = Operation(c.segments[k])[1]
        /\ g.words[(a + 5) + (x + 2)] = Operation(c.segments[k])[2]
        /\ g.words[(a + 5) + (x + 3)] = Operation(c.segments[k])[3]
    BY <2>1 DEF Described
  <2>4. /\ BodyOp(g, a, k, 0) = g.words[((a + 5) + x + 0) + 1]
        /\ BodyOp(g, a, k, 1) = g.words[((a + 5) + x + 1) + 1]
        /\ BodyOp(g, a, k, 2) = g.words[((a + 5) + x + 2) + 1]
    BY <1>3, <2>1 DEF BodyOp, ProgramWord
  <2> QED BY <2>2, <2>3, <2>4
<1> QED BY <1>3, <1>4, <1>5 DEF Descriptor

\* The strings of HTTP are read as they are, but for the end of the header.
LEMMA FixedText ==
    ASSUME NEW R \in RouterDeclaration, NEW t, t = StringTable(R)
    PROVE  /\ TextOf(t, Id(t, HttpVersion)) = HttpVersion /\ TextOf(t, Id(t, ContentTypeHeader)) = ContentTypeHeader
           /\ TextOf(t, Id(t, ContentLengthHeader)) = ContentLengthHeader
           /\ TextOf(t, Id(t, TailReserved)) = TailSent("gpu") /\ TextOf(t, Id(t, Name("gpu"))) = Name("gpu")
           /\ \A x \in Fixed : Id(t, x) \in 1 .. Len(t)
<1>1. \A x \in Fixed : Knows(t, x)
  BY TableSpeaks
<1>2. /\ HttpVersion \in Fixed /\ ContentTypeHeader \in Fixed /\ ContentLengthHeader \in Fixed
      /\ TailReserved \in Fixed /\ Name("gpu") \in Fixed
  BY DEF Fixed
<1>3. \A x \in Fixed : x # TailReserved => TextOf(t, Id(t, x)) = x
  BY <1>1, <1>2 DEF Knows, TextOf
<1>4. /\ Len(TailReserved) = 3 /\ Len(HttpVersion) = 2 /\ Len(ContentTypeHeader) = 2
      /\ Len(ContentLengthHeader) = 2 /\ Len(Name("gpu")) = 1
  BY FixedStrings, NameIs
<1>5. HttpVersion # TailReserved /\ ContentTypeHeader # TailReserved /\ ContentLengthHeader # TailReserved
      /\ Name("gpu") # TailReserved
  BY <1>4
<1>6. TextOf(t, Id(t, TailReserved)) = TailSent("gpu")
  BY DEF TextOf
<1>7. \A x \in Fixed : Id(t, x) \in 1 .. Len(t)
  BY <1>1 DEF Knows
<1> QED BY <1>2, <1>3, <1>5, <1>6, <1>7

\* A shader that reads the strings of table t.
Texts(g, t) ==
    /\ \A id \in 1 .. Len(t) : TextOf(t, id) \in Seq(Byte) /\ StoredText(g.assets, id, TextOf(t, id))
    /\ g.assets.httpVersion = Id(t, HttpVersion) /\ g.assets.contentType = Id(t, ContentTypeHeader)
    /\ g.assets.contentLength = Id(t, ContentLengthHeader) /\ g.assets.tail = Id(t, TailReserved)
    /\ g.assets.backend = Id(t, Name("gpu"))

\* The shader of a dispatch finds all texts of the router.
LEMMA TextsBound ==
    ASSUME NEW R \in RouterDeclaration, Compiles(R), NEW g, Bound(g, Compile(R)),
           NEW t, t = StringTable(R)
    PROVE  Texts(g, t)
<1>1. t \in Seq(Seq(Byte))
  BY TableSpeaks
<1>2. t # <<>>
  <2>1. HttpVersion \in Fixed
    BY DEF Fixed
  <2>2. Id(t, HttpVersion) \in 1 .. Len(t)
    BY <2>1, FixedText
  <2> QED BY <2>2
<1>3. PICK m : m = Compile(R) /\ m.strings = t
  BY CompiledIs
<1>4. g.assets = ShaderAssets(m)
  BY <1>3 DEF Bound
<1>5. /\ \A i \in 1 .. Len(t) : /\ TextOf(t, i) \in Seq(Byte)
                                /\ StoredText(ShaderAssets(m), i, TextOf(t, i))
      /\ ShaderAssets(m).httpVersion = Id(t, HttpVersion)
      /\ ShaderAssets(m).contentType = Id(t, ContentTypeHeader)
      /\ ShaderAssets(m).contentLength = Id(t, ContentLengthHeader)
      /\ ShaderAssets(m).tail = Id(t, TailReserved)
      /\ ShaderAssets(m).backend = Id(t, Name("gpu"))
  BY <1>1, <1>2, <1>3, AssetsAre
<1> QED BY <1>4, <1>5 DEF Texts

\* Pushes that put down these bytes.
PushesOf(pushes, s) == Pushes(pushes) /\ FlattenSeq(pushes) = s /\ s \in Seq(Byte)

\* A text of the table is pushed as it is stored.
LEMMA TextPushed ==
    ASSUME NEW g, NEW t, Texts(g, t), NEW id \in 1 .. Len(t)
    PROVE  PushesOf(StringPushes(g.assets, id), TextOf(t, id)) /\ g.assets.meta[id].len = Len(TextOf(t, id))
<1>1. TextOf(t, id) \in Seq(Byte) /\ StoredText(g.assets, id, TextOf(t, id))
  BY DEF Texts
<1>2. Pushes(StringPushes(g.assets, id)) /\ FlattenSeq(StringPushes(g.assets, id)) = TextOf(t, id)
  BY <1>1, StringSaid
<1> QED BY <1>1, <1>2 DEF PushesOf, StoredText

\* The first bytes of a part of the request.
PartSaid(words, start, s, n) ==
    /\ PushesOf(RangePushes(words, start, Min({Len(s), n})), AtMost(s, n))
    /\ Min({Len(s), n}) = Len(AtMost(s, n))

\* The beginning of a part of the request is pushed as it was received.
LEMMA PartPushed ==
    ASSUME NEW words, NEW start \in Nat, NEW s \in Seq(Byte), Lies(words, start, s), NEW n \in Nat
    PROVE  PartSaid(words, start, s, n)
<1>1. PICK k, u : k = Min({Len(s), n}) /\ u = AtMost(s, n)
  OBVIOUS
<1>2. k \in Nat /\ k <= Len(s) /\ u \in Seq(Byte) /\ Len(u) = k /\ \A i \in 1 .. k : u[i] = s[i]
  <2>1. /\ AtMost(s, n) \in Seq(Byte) /\ Len(AtMost(s, n)) = Min({Len(s), n})
        /\ Min({Len(s), n}) \in Nat /\ Min({Len(s), n}) <= Len(s)
        /\ \A i \in 1 .. Min({Len(s), n}) : AtMost(s, n)[i] = s[i]
    BY AtMostIs
  <2> QED BY ONLY <1>1, <2>1
<1>3. Lies(words, start, u)
  <2>1. ASSUME NEW i \in 1 .. Len(u) PROVE ByteAt(words, start + (i - 1)) = u[i]
    <3>1. i \in 1 .. k /\ i \in 1 .. Len(s)
      BY <1>2
    <3>2. u[i] = s[i]
      BY <1>2, <3>1
    <3> QED BY <3>1, <3>2 DEF Lies
  <2> QED BY <2>1 DEF Lies
<1>4. Pushes(RangePushes(words, start, Len(u))) /\ FlattenSeq(RangePushes(words, start, Len(u))) = u
  BY <1>2, <1>3, RangePushesAre
<1> QED BY <1>1, <1>2, <1>4 DEF PushesOf, PartSaid

\* A number is pushed in decimals, and its width reckoned right.
LEMMA DecimalPushed ==
    ASSUME NEW n \in Nat
    PROVE  PushesOf(DecimalPushes(n), Digits[n]) /\ DecimalWidth[n] = Len(Digits[n])
BY DecimalPushesAre, WidthOfDigits DEF PushesOf

\* What one operation writes, and how long it is.
OperationSays(g, i, a, target, k, s) ==
    PushesOf(OperationPushes(g, i, a, target, k), s) /\ OperationLen(g, a, target, k) = Len(s)

\* Every operation writes what its segment says, and reckons its length.
LEMMA OperationSpeaks ==
    ASSUME NEW R \in RouterDeclaration, NEW t, t = StringTable(R), NEW g, Texts(g, t),
           NEW i, g.meta[i].offset \in Nat,
           NEW a, NEW c, NEW l, Described(g.words, a, c, l), WellCoded(t, c),
           NEW target, NEW parts \in PartsSet, NEW len \in Nat, Spoken(g, i, target, parts, len),
           NEW k \in 1 .. Len(c.segments)
    PROVE  OperationSays(g, i, a, target, k, Says(t, c.segments[k], parts, len))
<1>1. PICK seg \in Coded : seg = c.segments[k]
  BY DEF WellCoded, CodedResponse
<1>2. PICK op, arg0, arg1 : op = BodyOp(g, a, k, 0) /\ arg0 = BodyOp(g, a, k, 1) /\ arg1 = BodyOp(g, a, k, 2)
  OBVIOUS
<1>3. op = Operation(seg)[1] /\ arg0 = Operation(seg)[2] /\ arg1 = Operation(seg)[3]
  <2>1. /\ BodyOp(g, a, k, 0) = Operation(c.segments[k])[1]
        /\ BodyOp(g, a, k, 1) = Operation(c.segments[k])[2]
        /\ BodyOp(g, a, k, 2) = Operation(c.segments[k])[3]
    <3>1. Descriptor(g, a, c)
      BY DescriptorIs
    <3> QED BY <3>1 DEF Descriptor
  <2> QED BY ONLY <1>1, <1>2, <2>1
<1>4. /\ op = seg.op /\ seg.op \in OpCode /\ seg.n \in Nat
      /\ seg.op = "literal" => arg0 = seg.cpu
      /\ seg.op \in {"path", "query"} => arg0 = seg.n
      /\ seg.op = "variant" => arg1 = seg.gpu
  <2>1. seg.op \in OpCode /\ seg.n \in Nat
    BY DEF Coded
  <2> QED BY <1>3, <2>1, OperationIs
<1>5. Worded(seg) => seg.gpu \in 1 .. Len(t)
  BY <1>1 DEF WellCoded
<1>6. seg.op = "literal" => seg.cpu = seg.gpu
  BY <1>1 DEF WellCoded
<1>7. PICK base \in Nat : base = g.meta[i].offset * WordBytes
  <2>1. PICK o \in Nat, W \in Nat : o = g.meta[i].offset /\ W = WordBytes
    BY ShaderAssumption
  <2>2. W * o \in Nat
    BY Times
  <2> QED BY <2>1, <2>2
<1>8. /\ parts.path \in Seq(Byte) /\ parts.query \in Seq(Byte) /\ parts.hash \in Nat
  BY DEF PartsSet
<1>9. /\ base + target.pathStart \in Nat /\ Lies(g.input, base + target.pathStart, parts.path)
      /\ base + target.queryStart \in Nat /\ Lies(g.input, base + target.queryStart, parts.query)
      /\ target.pathLen = Len(parts.path) /\ target.queryLen = Len(parts.query)
      /\ target.hash = parts.hash /\ target.inputLen = len
  <2>1. Spoken(g, i, target, parts, len) /\ base \in Nat
    OBVIOUS
  <2>2. /\ target.pathLen = Len(parts.path) /\ target.pathStart \in Nat
        /\ Lies(g.input, base + target.pathStart, parts.path)
        /\ target.queryLen = Len(parts.query) /\ target.queryStart \in Nat
        /\ Lies(g.input, base + target.queryStart, parts.query)
        /\ target.hash = parts.hash /\ target.inputLen = len
    BY ONLY <1>7, <2>1, Zenon DEF Spoken
  <2> QED BY ONLY <2>1, <2>2
<1>10. CASE seg.op = "literal"
  <2>1. Says(t, seg, parts, len) = TextOf(t, seg.gpu)
    BY <1>10 DEF Says, Said
  <2>2. OperationPushes(g, i, a, target, k) = StringPushes(g.assets, seg.gpu)
    BY <1>2, <1>4, <1>6, <1>10 DEF OperationPushes
  <2>3. OperationLen(g, a, target, k) = g.assets.meta[seg.gpu].len
    BY <1>2, <1>4, <1>6, <1>10 DEF OperationLen
  <2>4. seg.gpu \in 1 .. Len(t)
    BY <1>5, <1>10 DEF Worded
  <2> QED BY <1>1, <2>1, <2>2, <2>3, <2>4, TextPushed DEF OperationSays
<1>11. CASE seg.op = "variant"
  <2>1. Says(t, seg, parts, len) = TextOf(t, seg.gpu)
    BY <1>11 DEF Says, Said
  <2>2. OperationPushes(g, i, a, target, k) = StringPushes(g.assets, seg.gpu)
    BY <1>2, <1>4, <1>11 DEF OperationPushes
  <2>3. OperationLen(g, a, target, k) = g.assets.meta[seg.gpu].len
    BY <1>2, <1>4, <1>11 DEF OperationLen
  <2>4. seg.gpu \in 1 .. Len(t)
    BY <1>5, <1>11 DEF Worded
  <2> QED BY <1>1, <2>1, <2>2, <2>3, <2>4, TextPushed DEF OperationSays
<1>12. CASE seg.op = "path"
  <2>1. Says(t, seg, parts, len) = AtMost(parts.path, seg.n)
    BY <1>12 DEF Says, Said
  <2>2. OperationPushes(g, i, a, target, k) = RangePushes(g.input, base + target.pathStart, Min({Len(parts.path), seg.n}))
    BY <1>2, <1>4, <1>7, <1>9, <1>12 DEF OperationPushes
  <2>3. OperationLen(g, a, target, k) = Min({Len(parts.path), seg.n})
    BY <1>2, <1>4, <1>9, <1>12 DEF OperationLen
  <2>4. PartSaid(g.input, base + target.pathStart, parts.path, seg.n)
    BY <1>4, <1>8, <1>9, PartPushed
  <2> QED BY <1>1, <2>1, <2>2, <2>3, <2>4 DEF OperationSays, PartSaid
<1>13. CASE seg.op = "query"
  <2>1. Says(t, seg, parts, len) = AtMost(parts.query, seg.n)
    BY <1>13 DEF Says, Said
  <2>2. OperationPushes(g, i, a, target, k) = RangePushes(g.input, base + target.queryStart, Min({Len(parts.query), seg.n}))
    BY <1>2, <1>4, <1>7, <1>9, <1>13 DEF OperationPushes
  <2>3. OperationLen(g, a, target, k) = Min({Len(parts.query), seg.n})
    BY <1>2, <1>4, <1>9, <1>13 DEF OperationLen
  <2>4. PartSaid(g.input, base + target.queryStart, parts.query, seg.n)
    BY <1>4, <1>8, <1>9, PartPushed
  <2> QED BY <1>1, <2>1, <2>2, <2>3, <2>4 DEF OperationSays, PartSaid
<1>14. CASE seg.op = "backend"
  <2>1. Says(t, seg, parts, len) = Name("gpu")
    BY <1>14 DEF Says, Said
  <2>2. PICK id \in 1 .. Len(t) : id = g.assets.backend /\ TextOf(t, id) = Name("gpu")
    <3>1. Name("gpu") \in Fixed
      BY DEF Fixed
    <3> QED BY <3>1, FixedText DEF Texts
  <2>3. OperationPushes(g, i, a, target, k) = StringPushes(g.assets, id)
    BY <1>2, <1>4, <1>14, <2>2 DEF OperationPushes
  <2>4. OperationLen(g, a, target, k) = g.assets.meta[id].len
    BY <1>2, <1>4, <1>14, <2>2 DEF OperationLen
  <2> QED BY <1>1, <2>1, <2>2, <2>3, <2>4, TextPushed DEF OperationSays
<1>15. CASE seg.op = "request_bytes"
  <2>1. Says(t, seg, parts, len) = Digits[len]
    BY <1>15 DEF Says, Said
  <2>2. OperationPushes(g, i, a, target, k) = DecimalPushes(len)
    BY <1>2, <1>4, <1>9, <1>15 DEF OperationPushes
  <2>3. OperationLen(g, a, target, k) = DecimalWidth[len]
    BY <1>2, <1>4, <1>9, <1>15 DEF OperationLen
  <2> QED BY <1>1, <2>1, <2>2, <2>3, DecimalPushed DEF OperationSays
<1>16. CASE seg.op = "path_hash"
  <2>1. Says(t, seg, parts, len) = Digits[parts.hash]
    BY <1>16 DEF Says, Said
  <2>2. OperationPushes(g, i, a, target, k) = DecimalPushes(parts.hash)
    BY <1>2, <1>4, <1>9, <1>16 DEF OperationPushes
  <2>3. OperationLen(g, a, target, k) = DecimalWidth[parts.hash]
    BY <1>2, <1>4, <1>9, <1>16 DEF OperationLen
  <2> QED BY <1>1, <1>8, <2>1, <2>2, <2>3, DecimalPushed DEF OperationSays
<1> QED BY <1>4, <1>10, <1>11, <1>12, <1>13, <1>14, <1>15, <1>16 DEF OpCode

\* Pushes one after the other put down their bytes one after the other.
LEMMA PushesAfter ==
    ASSUME NEW p, NEW q, NEW s, NEW u, PushesOf(p, s), PushesOf(q, u)
    PROVE  PushesOf(p \o q, s \o u)
<1>1. Pushes(p) /\ FlattenSeq(p) = s /\ s \in Seq(Byte) /\ Pushes(q) /\ FlattenSeq(q) = u /\ u \in Seq(Byte)
  BY DEF PushesOf
<1>2. Pushes(p \o q) /\ FlattenSeq(p \o q) = FlattenSeq(p) \o FlattenSeq(q)
  BY <1>1, PushesConcat
<1>3. FlattenSeq(p \o q) = s \o u
  BY ONLY <1>1, <1>2
<1>4. s \o u \in Seq(Byte)
  BY <1>1
<1> QED BY <1>2, <1>3, <1>4 DEF PushesOf

\* The body: every operation, one after the other.
BodySays(g, i, a, target, pushes, s) ==
    /\ pushes = [k \in Operations(g, a) |-> OperationPushes(g, i, a, target, k)]
    /\ PushesOf(FlattenSeq(pushes), s) /\ ResponseBodyLen(g, a, target) = Len(s)

\* The body is what its segments say, and its length the one that is sent.
LEMMA BodySpeaks ==
    ASSUME NEW R \in RouterDeclaration, NEW t, t = StringTable(R), NEW g, Texts(g, t),
           NEW i, g.meta[i].offset \in Nat,
           NEW a, NEW c, NEW l, Described(g.words, a, c, l), WellCoded(t, c),
           NEW target, NEW parts \in PartsSet, NEW len \in Nat, Spoken(g, i, target, parts, len)
    PROVE  \E pushes : BodySays(g, i, a, target, pushes, SaysBody(t, c, parts, len))
<1>1. PICK n \in Nat : n = Len(c.segments)
  BY DEF WellCoded, CodedResponse
<1>2. Operations(g, a) = 1 .. n
  <2>1. Descriptor(g, a, c)
    BY DescriptorIs
  <2> QED BY <1>1, <2>1 DEF Descriptor
<1>3. \A k \in 1 .. n : OperationSays(g, i, a, target, k, Says(t, c.segments[k], parts, len))
  <2> TAKE k \in 1 .. n
  <2>1. k \in 1 .. Len(c.segments)
    BY <1>1
  <2> QED BY <2>1, OperationSpeaks
<1>4. PICK pushes : pushes = [k \in 1 .. n |-> OperationPushes(g, i, a, target, k)]
  OBVIOUS
<1>5. PICK says : says = [k \in 1 .. n |-> Says(t, c.segments[k], parts, len)]
  OBVIOUS
<1>6. \A k \in 1 .. n : Pushes(pushes[k]) /\ FlattenSeq(pushes[k]) = says[k] /\ says[k] \in Seq(Byte)
                        /\ OperationLen(g, a, target, k) = Len(says[k])
  <2> TAKE k \in 1 .. n
  <2>1. pushes[k] = OperationPushes(g, i, a, target, k) /\ says[k] = Says(t, c.segments[k], parts, len)
    BY <1>4, <1>5
  <2>2. OperationSays(g, i, a, target, k, says[k])
    BY <1>3, <2>1
  <2> QED BY <2>1, <2>2 DEF OperationSays, PushesOf
<1>7. says \in Seq(Seq(Byte)) /\ Len(says) = n
  <2>1. says \in [1 .. n -> Seq(Byte)]
    BY <1>5, <1>6
  <2> QED BY ONLY <2>1, n \in Nat
<1>8. [k \in 1 .. n |-> FlattenSeq(pushes[k])] = says
  BY <1>5, <1>6
<1>9. Pushes(FlattenSeq(pushes)) /\ FlattenSeq(FlattenSeq(pushes)) = FlattenSeq(says)
  <2>1. pushes = [k \in 1 .. n |-> pushes[k]]
    BY <1>4
  <2>2. /\ Pushes(FlattenSeq(pushes))
        /\ FlattenSeq(FlattenSeq(pushes)) = FlattenSeq([k \in 1 .. n |-> FlattenSeq(pushes[k])])
    BY <1>6, <2>1, PushesTogether
  <2> QED BY <1>8, <2>2
<1>10. PICK lens : lens = [k \in 1 .. Len(says) |-> Len(says[k])]
  OBVIOUS
<1>11. FoldLeft(+, 0, lens) = Len(FlattenSeq(says)) /\ FlattenSeq(says) \in Seq(Byte)
  BY <1>7, <1>10, LengthsSum
<1>12. [k \in Operations(g, a) |-> OperationLen(g, a, target, k)] = lens
  BY <1>2, <1>6, <1>7, <1>10
<1>13. ResponseBodyLen(g, a, target) = Len(FlattenSeq(says))
  BY <1>11, <1>12 DEF ResponseBodyLen
<1>14. SaysBody(t, c, parts, len) = FlattenSeq(says)
  BY <1>1, <1>5 DEF SaysBody
<1>15. pushes = [k \in Operations(g, a) |-> OperationPushes(g, i, a, target, k)]
  BY <1>2, <1>4
<1> QED BY <1>9, <1>11, <1>13, <1>14, <1>15 DEF BodySays, PushesOf

\* All that is pushed for a response is what the response says.
LEMMA ResponseSpeaks ==
    ASSUME NEW R \in RouterDeclaration, NEW t, t = StringTable(R), NEW g, Texts(g, t),
           NEW i, g.meta[i].offset \in Nat,
           NEW a, NEW c, NEW l, Described(g.words, a, c, l), WellCoded(t, c),
           NEW target, NEW parts \in PartsSet, NEW len \in Nat, Spoken(g, i, target, parts, len)
    PROVE  PushesOf(ResponsePushes(g, i, a, target), SaysAll(t, c, parts, len))
<1>1. PICK body : body = SaysBody(t, c, parts, len)
  OBVIOUS
<1>2. PICK pushes : BodySays(g, i, a, target, pushes, body)
  BY <1>1, BodySpeaks
<1>3. /\ pushes = [k \in Operations(g, a) |-> OperationPushes(g, i, a, target, k)]
      /\ PushesOf(FlattenSeq(pushes), body) /\ ResponseBodyLen(g, a, target) = Len(body)
  BY <1>2 DEF BodySays
<1>4. ProgramWord(g, a) = c.status /\ ProgramWord(g, a + 1) = c.reason /\ ProgramWord(g, a + 2) = c.contentType
  <2>1. Descriptor(g, a, c)
    BY DescriptorIs
  <2> QED BY <2>1 DEF Descriptor
<1>5. c.status \in Nat /\ c.reason \in 1 .. Len(t) /\ c.contentType \in 1 .. Len(t)
  BY DEF WellCoded, CodedResponse
<1>6. /\ g.assets.httpVersion \in 1 .. Len(t) /\ TextOf(t, g.assets.httpVersion) = HttpVersion
      /\ g.assets.contentType \in 1 .. Len(t) /\ TextOf(t, g.assets.contentType) = ContentTypeHeader
      /\ g.assets.contentLength \in 1 .. Len(t) /\ TextOf(t, g.assets.contentLength) = ContentLengthHeader
      /\ g.assets.tail \in 1 .. Len(t) /\ TextOf(t, g.assets.tail) = TailSent("gpu")
  <2>1. /\ HttpVersion \in Fixed /\ ContentTypeHeader \in Fixed /\ ContentLengthHeader \in Fixed
        /\ TailReserved \in Fixed
    BY DEF Fixed
  <2> QED BY <2>1, FixedText DEF Texts
<1>7. PICK n \in Nat : n = Len(body)
  BY <1>3 DEF PushesOf
<1>8. PICK p1, p2, p3, p4, p5, p6, p7, p8, p9, p10 :
        /\ p1 = StringPushes(g.assets, g.assets.httpVersion) /\ p2 = DecimalPushes(c.status)
        /\ p3 = << <<SP>> >> /\ p4 = StringPushes(g.assets, c.reason)
        /\ p5 = StringPushes(g.assets, g.assets.contentType) /\ p6 = StringPushes(g.assets, c.contentType)
        /\ p7 = StringPushes(g.assets, g.assets.contentLength) /\ p8 = DecimalPushes(n)
        /\ p9 = StringPushes(g.assets, g.assets.tail) /\ p10 = FlattenSeq(pushes)
  OBVIOUS
<1>9. PICK s2, s4, s6, s8 : /\ s2 = Digits[c.status] /\ s4 = TextOf(t, c.reason)
                            /\ s6 = TextOf(t, c.contentType) /\ s8 = Digits[n]
  OBVIOUS
<1>10. /\ PushesOf(p1, HttpVersion) /\ PushesOf(p4, s4) /\ PushesOf(p5, ContentTypeHeader)
       /\ PushesOf(p6, s6) /\ PushesOf(p7, ContentLengthHeader) /\ PushesOf(p9, TailSent("gpu"))
  <2>1. \A id \in 1 .. Len(t) : PushesOf(StringPushes(g.assets, id), TextOf(t, id))
    BY TextPushed
  <2> QED BY <1>5, <1>6, <1>8, <1>9, <2>1
<1>11. PushesOf(p2, s2) /\ PushesOf(p8, s8)
  BY <1>5, <1>8, <1>9, DecimalPushed
<1>12. PushesOf(p3, <<SP>>)
  <2>1. PICK w : w = <<SP>>
    OBVIOUS
  <2>2. w \in Seq(Byte) /\ DOMAIN w = 1 .. 1 /\ w[1] = SP
    BY <2>1 DEF SP, Byte
  <2>3. [k \in DOMAIN w |-> <<w[k]>>] = << <<SP>> >>
    BY <2>2
  <2>4. Pushes([k \in DOMAIN w |-> <<w[k]>>]) /\ FlattenSeq([k \in DOMAIN w |-> <<w[k]>>]) = w
    BY <2>2, BytesPushed
  <2> QED BY <1>8, <2>1, <2>2, <2>3, <2>4 DEF PushesOf
<1>13. PushesOf(p10, body)
  BY <1>3, <1>8
<1>14. PushesOf(p1 \o p2 \o p3 \o p4, HttpVersion \o s2 \o <<SP>> \o s4)
  <2>1. PushesOf(p1 \o p2, HttpVersion \o s2)
    BY <1>10, <1>11, PushesAfter
  <2>2. PushesOf(p1 \o p2 \o p3, HttpVersion \o s2 \o <<SP>>)
    BY <1>12, <2>1, PushesAfter
  <2> QED BY <1>10, <2>2, PushesAfter
<1>15. PushesOf(p1 \o p2 \o p3 \o p4 \o p5 \o p6, HttpVersion \o s2 \o <<SP>> \o s4 \o ContentTypeHeader \o s6)
  <2>1. PushesOf(p1 \o p2 \o p3 \o p4 \o p5, HttpVersion \o s2 \o <<SP>> \o s4 \o ContentTypeHeader)
    BY <1>10, <1>14, PushesAfter
  <2> QED BY <1>10, <2>1, PushesAfter
<1>16. PushesOf(p1 \o p2 \o p3 \o p4 \o p5 \o p6 \o p7 \o p8,
                HttpVersion \o s2 \o <<SP>> \o s4 \o ContentTypeHeader \o s6 \o ContentLengthHeader \o s8)
  <2>1. PushesOf(p1 \o p2 \o p3 \o p4 \o p5 \o p6 \o p7,
                 HttpVersion \o s2 \o <<SP>> \o s4 \o ContentTypeHeader \o s6 \o ContentLengthHeader)
    BY <1>10, <1>15, PushesAfter
  <2> QED BY <1>11, <2>1, PushesAfter
<1>17. PushesOf(p1 \o p2 \o p3 \o p4 \o p5 \o p6 \o p7 \o p8 \o p9 \o p10,
                HttpVersion \o s2 \o <<SP>> \o s4 \o ContentTypeHeader \o s6 \o ContentLengthHeader \o s8
                \o TailSent("gpu") \o body)
  <2>1. PushesOf(p1 \o p2 \o p3 \o p4 \o p5 \o p6 \o p7 \o p8 \o p9,
                 HttpVersion \o s2 \o <<SP>> \o s4 \o ContentTypeHeader \o s6 \o ContentLengthHeader \o s8
                 \o TailSent("gpu"))
    BY <1>10, <1>16, PushesAfter
  <2> QED BY <1>13, <2>1, PushesAfter
<1>18. ResponsePushes(g, i, a, target)
         = p1 \o p2 \o p3 \o p4 \o p5 \o p6 \o p7 \o p8 \o p9 \o p10
  BY <1>3, <1>4, <1>7, <1>8, Zenon DEF ResponsePushes
<1>19. SaysAll(t, c, parts, len)
         = HttpVersion \o s2 \o <<SP>> \o s4 \o ContentTypeHeader \o s6 \o ContentLengthHeader \o s8
           \o TailSent("gpu") \o body
  BY <1>1, <1>7, <1>9, Zenon DEF SaysAll, BuildResponse
<1> QED BY <1>17, <1>18, <1>19, Zenon

-----------------------------------------------------------------------------
(* No response is longer than the compiler reckons.                        *)

\* What the shader stores of a string is no longer than the string.
LEMMA TextFits ==
    ASSUME NEW R \in RouterDeclaration, NEW t, t = StringTable(R), NEW x \in Seq(Byte), Knows(t, x)
    PROVE  TextOf(t, Id(t, x)) \in Seq(Byte) /\ Len(TextOf(t, Id(t, x))) <= Len(x)
<1>1. Len(TailReserved) = 3 /\ Len(TailSent("gpu")) = 2 /\ TailSent("gpu") \in Seq(Byte)
  BY FixedStrings
<1>2. Knows(t, TailReserved)
  <2>1. TailReserved \in Fixed
    BY DEF Fixed
  <2> QED BY <2>1, TableSpeaks
<1>3. CASE Id(t, x) = Id(t, TailReserved)
  <2>1. x = TailReserved
    BY <1>2, <1>3 DEF Knows
  <2>2. TextOf(t, Id(t, x)) = TailSent("gpu")
    BY <1>3 DEF TextOf
  <2> QED BY <1>1, <2>1, <2>2
<1>4. CASE Id(t, x) # Id(t, TailReserved)
  <2>1. TextOf(t, Id(t, x)) = x
    BY <1>4 DEF TextOf, Knows
  <2> QED BY <2>1
<1> QED BY <1>3, <1>4

\* The numbers of a response have no more digits than the compiler makes
\* room for.
LEMMA DigitsFit ==
    ASSUME NEW n \in Nat, n < HashRange
    PROVE  MaxDigits \in Nat /\ Len(Digits[n]) \in Nat /\ Len(Digits[n]) <= MaxDigits
<1>1. HashRange - 1 \in Nat /\ n <= HashRange - 1
  BY RouterAssumption
<1>2. Len(Digits[n]) <= Len(Digits[HashRange - 1])
  BY <1>1, WidthGrows
<1> QED BY <1>1, <1>2, WidthOfDigits DEF MaxDigits

\* What a segment says is no longer than the compiler reckons.
SegmentFits(s, call) == s \in Seq(Byte) /\ MaxSegment(call) \in Nat /\ Len(s) <= MaxSegment(call)

\* Every segment, however long path, query and numbers are, fits its reckoning.
LEMMA SaysFits ==
    ASSUME NEW R \in RouterDeclaration, NEW t, t = StringTable(R), NEW call \in Call,
           Worded(call) => Knows(t, call.gpu),
           NEW seg, seg.op = call.op, seg.n = call.n, seg.gpu = Id(t, call.gpu),
           NEW parts \in PartsSet, parts.hash < HashRange, NEW len \in Nat, len < HashRange
    PROVE  SegmentFits(Says(t, seg, parts, len), call)
<1>1. /\ call.op \in {"literal", "path", "query", "backend", "request_bytes", "path_hash", "variant"}
      /\ call.n \in Nat /\ call.gpu \in Seq(Byte)
  BY CallIs
<1>2. parts.path \in Seq(Byte) /\ parts.query \in Seq(Byte) /\ parts.hash \in Nat
  BY DEF PartsSet
<1>3. CASE Worded(call)
  <2>1. call.op \in {"literal", "variant"}
    BY <1>3 DEF Worded
  <2>2. TextOf(t, seg.gpu) \in Seq(Byte) /\ Len(TextOf(t, seg.gpu)) <= Len(call.gpu)
    <3>1. Knows(t, call.gpu)
      BY <1>3
    <3> QED BY <1>1, <3>1, TextFits
  <2>3. Says(t, seg, parts, len) = TextOf(t, seg.gpu)
    BY <2>1 DEF Says, Said
  <2>4. MaxSegment(call) = Len(call.gpu)
    BY <2>1 DEF MaxSegment
  <2> QED BY <1>1, <2>2, <2>3, <2>4 DEF SegmentFits
<1>4. \A s \in Seq(Byte) : AtMost(s, call.n) \in Seq(Byte) /\ Len(AtMost(s, call.n)) <= call.n
  <2> TAKE s \in Seq(Byte)
  <2>1. /\ AtMost(s, call.n) \in Seq(Byte) /\ Len(AtMost(s, call.n)) = Min({Len(s), call.n})
        /\ Min({Len(s), call.n}) <= call.n
    BY <1>1, AtMostIs
  <2> QED BY <2>1
<1>5. CASE call.op = "path"
  <2>1. Says(t, seg, parts, len) = AtMost(parts.path, call.n) /\ MaxSegment(call) = call.n
    BY <1>5 DEF Says, Said, MaxSegment
  <2> QED BY <1>1, <1>2, <1>4, <2>1 DEF SegmentFits
<1>6. CASE call.op = "query"
  <2>1. Says(t, seg, parts, len) = AtMost(parts.query, call.n) /\ MaxSegment(call) = call.n
    BY <1>6 DEF Says, Said, MaxSegment
  <2> QED BY <1>1, <1>2, <1>4, <2>1 DEF SegmentFits
<1>7. CASE call.op = "backend"
  <2>1. Says(t, seg, parts, len) = Name("gpu") /\ MaxSegment(call) = Len(Name("gpu"))
    BY <1>7 DEF Says, Said, MaxSegment
  <2>2. Name("gpu") \in Seq(Byte) /\ Len(Name("gpu")) = 1
    BY NameIs
  <2> QED BY <2>1, <2>2 DEF SegmentFits
<1>8. CASE call.op = "request_bytes"
  <2>1. Says(t, seg, parts, len) = Digits[len] /\ MaxSegment(call) = MaxDigits
    BY <1>8 DEF Says, Said, MaxSegment
  <2>2. Digits[len] \in Seq(Byte)
    BY DigitsAre
  <2> QED BY <2>1, <2>2, DigitsFit DEF SegmentFits
<1>9. CASE call.op = "path_hash"
  <2>1. Says(t, seg, parts, len) = Digits[parts.hash] /\ MaxSegment(call) = MaxDigits
    BY <1>9 DEF Says, Said, MaxSegment
  <2>2. Digits[parts.hash] \in Seq(Byte)
    BY <1>2, DigitsAre
  <2> QED BY <1>2, <2>1, <2>2, DigitsFit DEF SegmentFits
<1> QED BY <1>1, <1>3, <1>5, <1>6, <1>7, <1>8, <1>9 DEF Worded

\* ... and neither is the body.
LEMMA BodyFits ==
    ASSUME NEW R \in RouterDeclaration, NEW t, t = StringTable(R),
           NEW r \in ResponseDeclaration, Speaks(t, r), NEW c, c = CompileResponse(t, r),
           NEW parts \in PartsSet, parts.hash < HashRange, NEW len \in Nat, len < HashRange
    PROVE  /\ c.maxBody \in Nat /\ SaysBody(t, c, parts, len) \in Seq(Byte)
           /\ Len(SaysBody(t, c, parts, len)) <= c.maxBody
<1>1. PICK body : body = Body(r.calls)
  OBVIOUS
<1>2. PICK n \in Nat : n = Len(body) /\ DOMAIN body = 1 .. n /\ \A k \in 1 .. n : body[k] \in Call
  BY <1>1, ResponseIs
<1>3. t \in Seq(Seq(Byte))
  BY TableSpeaks
<1>4. /\ Len(c.segments) = n
      /\ \A k \in 1 .. n : /\ c.segments[k].op = body[k].op /\ c.segments[k].n = body[k].n
                           /\ c.segments[k].gpu = Id(t, body[k].gpu)
  BY <1>1, <1>2, <1>3, CompiledTypes
<1>5. \A k \in 1 .. n : Worded(body[k]) => Knows(t, body[k].gpu)
  BY <1>1, <1>2 DEF Speaks
<1>6. PICK says, room : /\ says = [k \in 1 .. n |-> Says(t, c.segments[k], parts, len)]
                        /\ room = [k \in 1 .. n |-> MaxSegment(body[k])]
  OBVIOUS
<1>7. \A k \in 1 .. n : SegmentFits(says[k], body[k])
  <2> TAKE k \in 1 .. n
  <2>1. says[k] = Says(t, c.segments[k], parts, len)
    BY <1>6
  <2> QED BY <1>2, <1>4, <1>5, <2>1, SaysFits
<1>8. \A k \in 1 .. n : says[k] \in Seq(Byte) /\ room[k] \in Nat /\ Len(says[k]) <= room[k]
  BY <1>6, <1>7 DEF SegmentFits
<1>9. says \in Seq(Seq(Byte)) /\ Len(says) = n
  <2>1. says \in [1 .. n -> Seq(Byte)]
    BY <1>6, <1>8
  <2> QED BY ONLY <2>1, n \in Nat
<1>10. room \in Seq(Nat) /\ Len(room) = n
  <2>1. room \in [1 .. n -> Nat]
    BY <1>6, <1>8
  <2> QED BY ONLY <2>1, n \in Nat
<1>11. PICK lens : lens = [k \in 1 .. Len(says) |-> Len(says[k])]
  OBVIOUS
<1>12. lens \in Seq(Nat) /\ Len(lens) = n /\ \A k \in 1 .. n : lens[k] <= room[k]
  <2>1. \A k \in 1 .. n : lens[k] = Len(says[k]) /\ Len(says[k]) \in Nat
    BY <1>8, <1>9, <1>11
  <2>2. lens \in [1 .. n -> Nat]
    BY <1>9, <1>11, <2>1
  <2>3. lens \in Seq(Nat) /\ Len(lens) = n
    BY ONLY <2>2, n \in Nat
  <2> QED BY <1>8, <2>1, <2>3
<1>13. FoldLeft(+, 0, lens) = Len(FlattenSeq(says)) /\ FlattenSeq(says) \in Seq(Byte)
  BY <1>9, <1>11, LengthsSum
<1>14. FoldLeft(+, 0, room) \in Nat /\ FoldLeft(+, 0, lens) <= FoldLeft(+, 0, room)
  BY <1>10, <1>12, SumsGrow
<1>15. SaysBody(t, c, parts, len) = FlattenSeq(says)
  BY <1>4, <1>6 DEF SaysBody
<1>16. c.maxBody = FoldLeft(+, 0, room)
  BY <1>1, <1>2, <1>6 DEF CompileResponse
<1> QED BY <1>13, <1>14, <1>15, <1>16

\* Three byte strings one after the other.
ThreeJoined(u, s, p, q) ==
    /\ u = s \o p \o q /\ u \in Seq(Byte)
    /\ Len(u) = Len(s) + Len(p) + Len(q) /\ Len(s) \in Nat /\ Len(p) \in Nat /\ Len(q) \in Nat

\* Three byte strings one after the other have the sum of their lengths.
LEMMA JoinThree ==
    ASSUME NEW s \in Seq(Byte), NEW p \in Seq(Byte), NEW q \in Seq(Byte)
    PROVE  ThreeJoined(s \o p \o q, s, p, q)
<1>1. PICK u : u = s \o p
  OBVIOUS
<1>2. u \in Seq(Byte) /\ Len(u) = Len(s) + Len(p)
  BY <1>1
<1>3. u \o q \in Seq(Byte) /\ Len(u \o q) = Len(u) + Len(q)
  <2>1. IsJoined(u \o q, u, q, Byte)
    BY <1>2, JoinedParts
  <2> QED BY <2>1 DEF IsJoined
<1> QED BY <1>1, <1>2, <1>3 DEF ThreeJoined

\* The header of the response and its body, against what is reckoned.
LEMMA Reckoned ==
    ASSUME NEW x2 \in Nat, NEW x4 \in Nat, NEW x6 \in Nat, NEW x8 \in Nat, NEW x9 \in Nat,
           NEW m4 \in Nat, NEW m6 \in Nat, NEW m8 \in Nat, NEW m9 \in Nat,
           x4 <= m4, x6 <= m6, x8 <= m8, x9 <= m9,
           NEW x, x = 2 + x2 + 1 + x4 + 2 + x6 + 2 + x8 + 2 + x9,
           NEW m, m = 2 + x2 + 1 + m4 + 2 + m6 + 2 + m8 + 3 + m9
    PROVE  x \in Nat /\ m \in Nat /\ 1 <= x /\ x <= m
OBVIOUS

\* ... and neither is the response.
LEMMA ResponseFits ==
    ASSUME NEW R \in RouterDeclaration, NEW t, t = StringTable(R),
           NEW r \in ResponseDeclaration, Speaks(t, r), NEW c, c = CompileResponse(t, r),
           NEW parts \in PartsSet, parts.hash < HashRange, NEW len \in Nat, len < HashRange
    PROVE  /\ MaximumResponseBytes(t, c) \in Nat /\ SaysAll(t, c, parts, len) \in Seq(Byte)
           /\ Len(SaysAll(t, c, parts, len)) \in 1 .. MaximumResponseBytes(t, c)
<1>1. PICK body : body = SaysBody(t, c, parts, len)
  OBVIOUS
<1>2. c.maxBody \in Nat /\ body \in Seq(Byte) /\ Len(body) \in Nat /\ Len(body) <= c.maxBody
  BY <1>1, BodyFits
<1>3. t \in Seq(Seq(Byte))
  BY TableSpeaks
<1>4. c.status = r.status /\ c.reason = Id(t, r.reason) /\ c.contentType = Id(t, r.contentType)
  BY <1>3, CompiledTypes
<1>5. r.status \in Nat /\ r.reason \in Seq(Byte) /\ r.contentType \in Seq(Byte)
  BY ResponseIs
<1>6. Knows(t, r.reason) /\ Knows(t, r.contentType)
  BY DEF Speaks
<1>7. t[c.reason] = r.reason /\ t[c.contentType] = r.contentType
  BY <1>4, <1>6 DEF Knows
<1>8. PICK s2, s4, s6, s8 : /\ s2 = Digits[c.status] /\ s4 = TextOf(t, c.reason)
                            /\ s6 = TextOf(t, c.contentType) /\ s8 = Digits[Len(body)]
  OBVIOUS
<1>9. s4 \in Seq(Byte) /\ Len(s4) <= Len(r.reason) /\ s6 \in Seq(Byte) /\ Len(s6) <= Len(r.contentType)
  BY <1>4, <1>5, <1>6, <1>8, TextFits
<1>10. s2 \in Seq(Byte) /\ s8 \in Seq(Byte) /\ Len(Digits[c.maxBody]) \in Nat /\ Len(s8) <= Len(Digits[c.maxBody])
  <2>1. s2 \in Seq(Byte) /\ s8 \in Seq(Byte)
    BY <1>2, <1>4, <1>5, <1>8, DigitsAre
  <2>2. Len(s8) <= Len(Digits[c.maxBody])
    BY <1>2, <1>8, WidthGrows
  <2>3. Len(Digits[c.maxBody]) \in Nat
    BY <1>2, WidthOfDigits
  <2> QED BY <2>1, <2>2, <2>3
<1>11. PICK h, y, z, e, sp : /\ h = HttpVersion /\ y = ContentTypeHeader /\ z = ContentLengthHeader
                             /\ e = TailSent("gpu") /\ sp = <<SP>>
  OBVIOUS
<1>12. /\ h \in Seq(Byte) /\ Len(h) = 2 /\ y \in Seq(Byte) /\ Len(y) = 2 /\ z \in Seq(Byte) /\ Len(z) = 2
       /\ e \in Seq(Byte) /\ Len(e) = 2 /\ Len(TailReserved) = 3 /\ sp \in Seq(Byte) /\ Len(sp) = 1
  <2>1. sp \in Seq(Byte) /\ Len(sp) = 1
    BY <1>11 DEF SP, Byte
  <2> QED BY <1>11, <2>1, FixedStrings
<1>13. PICK all : all = h \o s2 \o sp \o s4 \o y \o s6 \o z \o s8 \o e \o body
  OBVIOUS
<1>14. SaysAll(t, c, parts, len) = all
  BY <1>1, <1>8, <1>11, <1>13, Zenon DEF SaysAll, BuildResponse
<1>15. /\ all \in Seq(Byte)
       /\ Len(all) = Len(h) + Len(s2) + Len(sp) + Len(s4) + Len(y) + Len(s6) + Len(z) + Len(s8) + Len(e) + Len(body)
  <2>1. PICK a1, a2, a3, a4 : /\ a1 = h \o s2 \o sp /\ a2 = a1 \o s4 \o y /\ a3 = a2 \o s6 \o z
                              /\ a4 = a3 \o s8 \o e
    OBVIOUS
  <2>2. ThreeJoined(a1, h, s2, sp)
    BY <1>10, <1>12, <2>1, JoinThree
  <2>3. a1 \in Seq(Byte) /\ Len(a1) = Len(h) + Len(s2) + Len(sp)
    BY <2>2 DEF ThreeJoined
  <2>4. ThreeJoined(a2, a1, s4, y)
    BY <1>9, <1>12, <2>1, <2>3, JoinThree
  <2>5. a2 \in Seq(Byte) /\ Len(a2) = Len(a1) + Len(s4) + Len(y)
    BY <2>4 DEF ThreeJoined
  <2>6. ThreeJoined(a3, a2, s6, z)
    BY <1>9, <1>12, <2>1, <2>5, JoinThree
  <2>7. a3 \in Seq(Byte) /\ Len(a3) = Len(a2) + Len(s6) + Len(z)
    BY <2>6 DEF ThreeJoined
  <2>8. ThreeJoined(a4, a3, s8, e)
    BY <1>10, <1>12, <2>1, <2>7, JoinThree
  <2>9. a4 \in Seq(Byte) /\ Len(a4) = Len(a3) + Len(s8) + Len(e)
    BY <2>8 DEF ThreeJoined
  <2>10. a4 \o body \in Seq(Byte) /\ Len(a4 \o body) = Len(a4) + Len(body)
    BY <1>2, <2>9
  <2>11. all = a4 \o body
    BY <1>13, <2>1, Zenon
  <2> QED BY <2>3, <2>5, <2>7, <2>9, <2>10, <2>11
<1>16. /\ Len(s2) \in Nat /\ Len(s4) \in Nat /\ Len(s6) \in Nat /\ Len(s8) \in Nat /\ Len(r.reason) \in Nat
       /\ Len(r.contentType) \in Nat
  BY <1>5, <1>9, <1>10
<1>17. PICK x2 \in Nat, x4 \in Nat, x6 \in Nat, x8 \in Nat, x9 \in Nat :
          x2 = Len(s2) /\ x4 = Len(s4) /\ x6 = Len(s6) /\ x8 = Len(s8) /\ x9 = Len(body)
  BY <1>2, <1>16
<1>18. PICK m4 \in Nat, m6 \in Nat, m8 \in Nat, m9 \in Nat :
          m4 = Len(r.reason) /\ m6 = Len(r.contentType) /\ m8 = Len(Digits[c.maxBody]) /\ m9 = c.maxBody
  BY <1>2, <1>10, <1>16
<1>19. x4 <= m4 /\ x6 <= m6 /\ x8 <= m8 /\ x9 <= m9
  BY <1>2, <1>9, <1>10, <1>17, <1>18
<1>20. Len(all) = 2 + x2 + 1 + x4 + 2 + x6 + 2 + x8 + 2 + x9
  BY <1>12, <1>15, <1>17
<1>21. MaximumResponseBytes(t, c) = 2 + x2 + 1 + m4 + 2 + m6 + 2 + m8 + 3 + m9
  BY <1>7, <1>8, <1>11, <1>12, <1>17, <1>18 DEF MaximumResponseBytes
<1>22. /\ Len(all) \in Nat /\ MaximumResponseBytes(t, c) \in Nat /\ 1 <= Len(all)
       /\ Len(all) <= MaximumResponseBytes(t, c)
  BY <1>19, <1>20, <1>21, Reckoned
<1> QED BY <1>14, <1>15, <1>22

\* Every response of the program is compiled from a declared one.
LEMMA ProgramResponses ==
    ASSUME NEW R \in RouterDeclaration, Compiles(R), NEW n \in Nat, n = Len(R.routes), NEW cs, NEW at,
           NEW t, t = StringTable(R), Programmed(Compile(R), n, t, cs, at), NEW x \in 1 .. n + 3
    PROVE  \E r \in ResponseDeclaration : Speaks(t, r) /\ cs[x] = CompileResponse(t, r)
<1>1. /\ Len(Responses(R)) = n + 3
      /\ \A i \in 1 .. n : Responses(R)[i] = R.routes[i].response
      /\ Responses(R)[n + 1] = R.fallback /\ Responses(R)[n + 2] = R.bad /\ Responses(R)[n + 3] = R.notAllowed
      /\ Responses(R) \in Seq(ResponseDeclaration)
  BY ResponsesAre
<1>2. \A i \in 1 .. n + 3 : Responses(R)[i] \in ResponseDeclaration /\ Speaks(t, Responses(R)[i])
  <2>1. \A i \in 1 .. Len(Responses(R)) : Speaks(t, Responses(R)[i])
    BY TableSpeaks
  <2>2. \A i \in 1 .. Len(Responses(R)) : Responses(R)[i] \in ResponseDeclaration
    BY ONLY <1>1
  <2> QED BY ONLY <1>1, <2>1, <2>2
<1>3. CASE x \in 1 .. n
  <2>1. cs[x] = Compile(R).routes[x].response
    BY <1>3 DEF Programmed
  <2>2. PICK j \in 1 .. n : Compile(R).routes[x] = CompileRoute(t, R.routes[j])
    BY <1>3, RoutesAre
  <2>3. cs[x] = CompileResponse(t, Responses(R)[j])
    BY <1>1, <2>1, <2>2 DEF CompileRoute
  <2>4. j \in 1 .. n + 3
    OBVIOUS
  <2> QED BY <1>2, <2>3, <2>4
<1>4. CASE x \in n + 1 .. n + 3
  <2>1. /\ cs[n + 1] = Compile(R).fallback /\ cs[n + 2] = Compile(R).bad /\ cs[n + 3] = Compile(R).notAllowed
    BY DEF Programmed
  <2>2. /\ Compile(R).fallback = CompileResponse(t, R.fallback) /\ Compile(R).bad = CompileResponse(t, R.bad)
        /\ Compile(R).notAllowed = CompileResponse(t, R.notAllowed)
    BY CompiledIs
  <2>3. cs[x] = CompileResponse(t, Responses(R)[x])
    <3>1. x = n + 1 \/ x = n + 2 \/ x = n + 3
      BY <1>4
    <3> QED BY <1>1, <2>1, <2>2, <3>1
  <2> QED BY <1>2, <2>3
<1> QED BY <1>3, <1>4

\* A number of bytes fits into the words reckoned for it.
LEMMA WordsSuffice ==
    ASSUME NEW n \in Nat
    PROVE  WordsForBytes(n) \in Nat /\ WordsForBytes(n) * WordBytes \in Nat
           /\ n <= WordsForBytes(n) * WordBytes /\ n <= WordBytes * WordsForBytes(n)
<1>1. PICK W \in Nat : W = WordBytes /\ W > 0
  BY ShaderAssumption
<1>2. PICK x \in Nat : x = n + W - 1
  <2>1. n + W - 1 \in Nat
    BY <1>1
  <2> QED BY <2>1
<1>3. PICK m \in Nat, l \in 0 .. W - 1 : x = W * m + l /\ m = x \div W
  <2>1. x \div W \in Nat /\ x % W \in 0 .. W - 1 /\ x = W * (x \div W) + (x % W)
    BY <1>1, Quotient
  <2> QED BY <2>1
<1>4. PICK z \in Nat : z = W * m
  BY Times
<1>5. n <= z
  BY <1>1, <1>2, <1>3, <1>4
<1>6. m = WordsForBytes(n) /\ m * W = z
  <2>1. m = WordsForBytes(n)
    BY <1>1, <1>2, <1>3 DEF WordsForBytes
  <2>2. m * W = W * m
    OBVIOUS
  <2> QED BY <1>4, <2>1, <2>2
<1> QED BY <1>1, <1>4, <1>5, <1>6

\* Every response fits the slot the compiler computes.
LEMMA SlotFits ==
    ASSUME NEW R \in RouterDeclaration, Compiles(R), NEW n \in Nat, n = Len(R.routes), NEW cs, NEW at,
           NEW t, t = StringTable(R), Programmed(Compile(R), n, t, cs, at), NEW x \in 1 .. n + 3,
           NEW parts \in PartsSet, parts.hash < HashRange, NEW len \in Nat, len < HashRange
    PROVE  /\ WellCoded(t, cs[x]) /\ Compile(R).maxBytes \in Nat
           /\ SaysAll(t, cs[x], parts, len) \in Seq(Byte)
           /\ Len(SaysAll(t, cs[x], parts, len)) \in 1 .. Compile(R).maxBytes
<1>1. t \in Seq(Seq(Byte))
  BY TableSpeaks
<1>2. PICK r \in ResponseDeclaration : Speaks(t, r) /\ cs[x] = CompileResponse(t, r)
  BY ProgramResponses
<1>3. PICK b : b = [i \in 1 .. n + 3 |-> MaximumResponseBytes(t, cs[i])]
  OBVIOUS
<1>4. \A i \in 1 .. n + 3 : b[i] \in Nat
  <2> TAKE i \in 1 .. n + 3
  <2>1. PICK q \in ResponseDeclaration : Speaks(t, q) /\ cs[i] = CompileResponse(t, q)
    BY ProgramResponses
  <2>2. MaximumResponseBytes(t, cs[i]) \in Nat
    BY <2>1, ResponseFits
  <2> QED BY <1>3, <2>2
<1>5. Compile(R).maxBytes = Max({b[i] : i \in 1 .. n + 3})
  <2>1. Compile(R).maxBytes = Max({MaximumResponseBytes(t, cs[i]) : i \in 1 .. n + 3})
    BY DEF Programmed
  <2>2. {MaximumResponseBytes(t, cs[i]) : i \in 1 .. n + 3} = {b[i] : i \in 1 .. n + 3}
    BY <1>3
  <2> QED BY <2>1, <2>2
<1>6. Compile(R).maxBytes \in Nat /\ b[x] <= Compile(R).maxBytes
  <2>1. n + 3 \in Nat \ {0}
    OBVIOUS
  <2>2. Max({b[i] : i \in 1 .. n + 3}) \in Nat /\ \A i \in 1 .. n + 3 : b[i] <= Max({b[i2] : i2 \in 1 .. n + 3})
    BY <1>4, <2>1, Greatest
  <2> QED BY <1>5, <2>2
<1>7. /\ SaysAll(t, cs[x], parts, len) \in Seq(Byte)
      /\ Len(SaysAll(t, cs[x], parts, len)) \in 1 .. MaximumResponseBytes(t, cs[x])
  BY <1>2, ResponseFits
<1>8. MaximumResponseBytes(t, cs[x]) = b[x]
  BY <1>3
<1>9. WellCoded(t, cs[x])
  BY <1>1, <1>2, CompiledWell
<1>10. Len(SaysAll(t, cs[x], parts, len)) \in 1 .. Compile(R).maxBytes
  BY <1>4, <1>6, <1>7, <1>8
<1> QED BY <1>6, <1>7, <1>9, <1>10

-----------------------------------------------------------------------------
(* What the shader makes of a request.                                     *)

\* The first word is the method and a space.
SaysGet(s) == [k \in 1 .. WordBytes |-> s[k]] = Get \o <<SP>>

Nothing(kind) == Parts(kind, <<>>, <<>>, 0)

PartsAt(s, e, p) ==
    Parts("get", SubSeq(s, WordBytes + 1, p), IF p = e THEN <<>> ELSE SubSeq(s, p + 2, e),
          Hash(SubSeq(s, WordBytes + 1, p)))

\* What the shader takes a request for.
TakenAs(s, parts) ==
    \/ Len(s) < WordBytes /\ parts = Nothing("bad")
    \/ Len(s) >= WordBytes /\ ~SaysGet(s) /\ parts = Nothing("not_allowed")
    \/ Len(s) >= WordBytes /\ SaysGet(s) /\ ~(\E e, p : ParsedAt(s, e, p)) /\ parts = Nothing("bad")
    \/ Len(s) >= WordBytes /\ SaysGet(s) /\ \E e, p : ParsedAt(s, e, p) /\ parts = PartsAt(s, e, p)

\* Part of the bytes that lie somewhere.
LEMMA LiesPart ==
    ASSUME NEW words, NEW start \in Nat, NEW s \in Seq(Byte), Lies(words, start, s),
           NEW a \in Nat, NEW b \in Nat, a <= b, b <= Len(s)
    PROVE  /\ SubSeq(s, a + 1, b) \in Seq(Byte) /\ Len(SubSeq(s, a + 1, b)) = b - a
           /\ Lies(words, start + a, SubSeq(s, a + 1, b))
<1>1. PICK u : u = SubSeq(s, a + 1, b)
  OBVIOUS
<1>2. u \in Seq(Byte) /\ Len(u) = b - a /\ \A k \in 1 .. b - a : u[k] = s[a + k]
  <2>1. a + 1 \in Nat \ {0} /\ b \in Int
    OBVIOUS
  <2>2. u \in Seq(Byte) /\ Len(u) = IF a + 1 <= b THEN b - (a + 1) + 1 ELSE 0
    BY <1>1, <2>1, PartOf
  <2>3. Len(u) = b - a
    BY <2>2
  <2>4. ASSUME NEW k \in 1 .. b - a PROVE u[k] = s[a + k]
    <3>1. (a + 1) + k - 1 = a + k /\ k \in 1 .. b - (a + 1) + 1
      OBVIOUS
    <3> QED BY <1>1, <3>1
  <2> QED BY <2>2, <2>3, <2>4
<1>3. ASSUME NEW k \in 1 .. Len(u) PROVE ByteAt(words, (start + a) + (k - 1)) = u[k]
  <2>1. a + k \in 1 .. Len(s) /\ start + ((a + k) - 1) = (start + a) + (k - 1) /\ k \in 1 .. b - a
    BY <1>2
  <2>2. ByteAt(words, start + ((a + k) - 1)) = s[a + k]
    BY <2>1 DEF Lies
  <2>3. u[k] = s[a + k]
    BY <1>2, <2>1
  <2> QED BY <2>1, <2>2, <2>3
<1> QED BY <1>1, <1>2, <1>3 DEF Lies

\* A target that was not found says nothing of the request.
LEMMA NothingSpoken ==
    ASSUME NEW g, NEW i, NEW len \in Nat, NEW kind \in {"bad", "not_allowed", "get"}
    PROVE  Spoken(g, i, InvalidTarget(len), Nothing(kind), len) /\ Nothing(kind) \in PartsSet
<1>1. WordBytes \in Nat
  BY ShaderAssumption
<1>2. <<>> \in Seq(Byte) /\ Len(<<>>) = 0
  OBVIOUS
<1>3. Nothing(kind) \in PartsSet
  BY <1>2 DEF Nothing, Parts, PartsSet
<1>4. \A words, start : Lies(words, start, <<>>)
  BY <1>2 DEF Lies
<1> QED BY <1>1, <1>2, <1>3, <1>4 DEF Spoken, InvalidTarget, Target, Nothing, Parts

\* A target that was found speaks of its path and its query.
LEMMA TargetSpoken ==
    ASSUME NEW g, NEW i, NEW s \in Seq(Byte), Reads(g, i, s), NEW e, NEW p, ParsedAt(s, e, p)
    PROVE  /\ Spoken(g, i, TargetAt(s, e, p), PartsAt(s, e, p), Len(s)) /\ PartsAt(s, e, p) \in PartsSet
           /\ PartsAt(s, e, p).path # <<>> /\ PartsAt(s, e, p).kind = "get"
           /\ PartsAt(s, e, p).hash = Hash(PartsAt(s, e, p).path)
<1>1. PICK W \in Nat : W = WordBytes /\ W > 0
  BY ShaderAssumption
<1>2. e \in Nat /\ p \in Nat /\ W < p /\ p <= e /\ e < Len(s)
  BY <1>1 DEF ParsedAt
<1>3. PICK base \in Nat : base = g.meta[i].offset * WordBytes
  <2>1. PICK o \in Nat : o = g.meta[i].offset
    BY DEF Reads
  <2>2. W * o \in Nat
    BY Times
  <2> QED BY <1>1, <2>1, <2>2
<1>4. Lies(g.input, base, s)
  BY <1>3 DEF Reads
<1>5. PICK path : path = SubSeq(s, W + 1, p)
  OBVIOUS
<1>6. path \in Seq(Byte) /\ Len(path) = p - W /\ Lies(g.input, base + W, path)
  <2>1. W <= p /\ p <= Len(s)
    BY <1>2
  <2> QED BY <1>2, <1>4, <1>5, <2>1, LiesPart
<1>7. PICK query : query = IF p = e THEN <<>> ELSE SubSeq(s, p + 2, e)
  OBVIOUS
<1>8. PICK from : from = IF p = e THEN e ELSE p + 1
  OBVIOUS
<1>9. /\ query \in Seq(Byte) /\ Len(query) = (IF p = e THEN 0 ELSE e - p - 1) /\ from \in Nat
      /\ Lies(g.input, base + from, query)
  <2>1. CASE p = e
    <3>1. query = <<>> /\ from = e
      BY <1>7, <1>8, <2>1
    <3>2. query \in Seq(Byte) /\ Len(query) = 0
      BY <3>1
    <3>3. Lies(g.input, base + from, query)
      BY <3>2 DEF Lies
    <3> QED BY <1>2, <2>1, <3>1, <3>2, <3>3
  <2>2. CASE p # e
    <3>1. p + 1 \in Nat /\ p + 1 <= e /\ e <= Len(s) /\ (p + 1) + 1 = p + 2 /\ e - (p + 1) = e - p - 1
      BY <1>2, <2>2
    <3>2. query = SubSeq(s, (p + 1) + 1, e) /\ from = p + 1
      BY <1>7, <1>8, <2>2, <3>1
    <3>3. query \in Seq(Byte) /\ Len(query) = e - (p + 1) /\ Lies(g.input, base + (p + 1), query)
      <4>1. PICK q \in Nat : q = p + 1 /\ q <= e /\ e <= Len(s) /\ query = SubSeq(s, q + 1, e)
        BY <3>1, <3>2
      <4>2. query \in Seq(Byte) /\ Len(query) = e - q /\ Lies(g.input, base + q, query)
        <5>1. e \in Nat /\ q <= e /\ e <= Len(s) /\ Lies(g.input, base, s)
          BY <1>2, <1>4, <4>1
        <5>2. /\ SubSeq(s, q + 1, e) \in Seq(Byte) /\ Len(SubSeq(s, q + 1, e)) = e - q
              /\ Lies(g.input, base + q, SubSeq(s, q + 1, e))
          BY <5>1, LiesPart
        <5> QED BY <4>1, <5>2
      <4> QED BY <4>1, <4>2
    <3> QED BY <2>2, <3>1, <3>2, <3>3
  <2> QED BY <2>1, <2>2
<1>10. Hash(path) \in Nat
  BY <1>6, HashIs, BytesAreNumbers
<1>11. PartsAt(s, e, p) = Parts("get", path, query, Hash(path))
  BY <1>1, <1>5, <1>7 DEF PartsAt
<1>12. TargetAt(s, e, p) = Target(p - W, from, Len(query), Hash(path), Len(s), TRUE)
  BY <1>1, <1>5, <1>8, <1>9 DEF TargetAt
<1>13. path # <<>>
  BY <1>2, <1>6
<1>14. Len(s) \in Nat
  OBVIOUS
<1>15. PartsAt(s, e, p) \in PartsSet
  BY <1>6, <1>9, <1>10, <1>11 DEF Parts, PartsSet
<1>16. Spoken(g, i, TargetAt(s, e, p), PartsAt(s, e, p), Len(s))
  BY <1>1, <1>3, <1>6, <1>9, <1>11, <1>12 DEF Spoken, Target, Parts
<1> QED BY <1>11, <1>13, <1>15, <1>16 DEF Parts

\* The method is read from the first word.
LEMMA MethodRead ==
    ASSUME NEW g, NEW i, NEW s \in Seq(Byte), Reads(g, i, s), WordBytes <= Len(s)
    PROVE  IsGetRequest(g, i) <=> SaysGet(s)
<1>1. PICK W \in Nat : W = WordBytes /\ W > 0
  BY ShaderAssumption
<1>2. PICK base \in Nat : base = g.meta[i].offset * WordBytes
  <2>1. PICK o \in Nat : o = g.meta[i].offset
    BY DEF Reads
  <2>2. W * o \in Nat
    BY Times
  <2> QED BY <1>1, <2>1, <2>2
<1>3. Lies(g.input, base, s)
  BY <1>2 DEF Reads
<1>4. \A k \in 1 .. W : ByteAt(g.input, base + k - 1) = s[k]
  <2> TAKE k \in 1 .. W
  <2>1. k \in 1 .. Len(s) /\ base + (k - 1) = base + k - 1
    BY <1>1
  <2>2. ByteAt(g.input, base + (k - 1)) = s[k]
    BY <1>3, <2>1 DEF Lies
  <2> QED BY <2>1, <2>2
<1>5. WordAt(g.input, base) = [k \in 1 .. W |-> s[k]]
  BY <1>1, <1>4 DEF WordAt
<1> QED BY <1>1, <1>2, <1>5 DEF IsGetRequest, SaysGet

\* The compiled response to a request that is taken for these parts.
Chosen(machine, parts) ==
    CASE parts.kind = "get" -> FindRoute(machine, parts)
      [] parts.kind = "bad" -> machine.bad
      [] parts.kind = "not_allowed" -> machine.notAllowed

\* The shader finds what it takes the request for, and the response to it.
Answers(g, i, s, parts, cs, at, n, machine, target, x) ==
    /\ x \in 1 .. n + 3 /\ cs[x] = Chosen(machine, parts)
    /\ TakenAs(s, parts) /\ parts \in PartsSet /\ parts.hash < HashRange
    /\ Spoken(g, i, target, parts, Len(s))
    /\ \A out : ProcessRequest(g, out, i) = WriteResponse(g, out, i, at[x], target)

\* process_requests: every request is taken for something and gets its response.
LEMMA RequestAnswered ==
    ASSUME NEW R \in RouterDeclaration, Compiles(R), NEW n \in Nat, n = Len(R.routes), NEW cs, NEW at,
           Programmed(Compile(R), n, StringTable(R), cs, at), NEW g, Bound(g, Compile(R)),
           NEW i, NEW s \in Seq(Byte), Reads(g, i, s)
    PROVE  \E parts, target, x : Answers(g, i, s, parts, cs, at, n, Compile(R), target, x)
<1>1. PICK m : m = Compile(R)
  OBVIOUS
<1>2. PICK len \in Nat : len = Len(s)
  OBVIOUS
<1>3. g.meta[i].len = len /\ g.meta[i].offset \in Nat
  BY <1>2 DEF Reads
<1>4. /\ cs[n + 2] = m.bad /\ cs[n + 3] = m.notAllowed
      /\ g.layout.bad = at[n + 2] /\ g.layout.notAllowed = at[n + 3]
  BY <1>1 DEF Programmed, Bound
<1>5. 0 < HashRange /\ n + 2 \in 1 .. n + 3 /\ n + 3 \in 1 .. n + 3
  BY RouterAssumption
<1>6. \A kind : Nothing(kind).hash = 0 /\ Nothing(kind).kind = kind
  BY DEF Nothing, Parts
<1>7. \A out, target, a :
        /\ target = (IF len < WordBytes \/ ~IsGetRequest(g, i) THEN InvalidTarget(len) ELSE ParseGetTarget(g, i, len))
        /\ a = (IF len < WordBytes THEN g.layout.bad
                ELSE IF ~IsGetRequest(g, i) THEN g.layout.notAllowed
                ELSE IF ~target.valid THEN g.layout.bad
                ELSE FindResponseOffset(g, i, target))
        => ProcessRequest(g, out, i) = WriteResponse(g, out, i, a, target)
  BY <1>3, Zenon DEF ProcessRequest
<1>8. InvalidTarget(len).valid = FALSE
  BY DEF InvalidTarget, Target
<1>9. CASE len < WordBytes
  <2>1. PICK target : target = InvalidTarget(len)
    OBVIOUS
  <2>2. PICK parts : parts = Nothing("bad")
    OBVIOUS
  <2>3. \A out : ProcessRequest(g, out, i) = WriteResponse(g, out, i, at[n + 2], target)
    BY <1>4, <1>7, <1>9, <2>1, Zenon
  <2>4. Spoken(g, i, target, parts, Len(s)) /\ parts \in PartsSet
    BY <1>2, <2>1, <2>2, NothingSpoken
  <2>5. TakenAs(s, parts)
    BY <1>2, <1>9, <2>2 DEF TakenAs
  <2>6. cs[n + 2] = Chosen(m, parts)
    BY <1>4, <1>6, <2>2 DEF Chosen
  <2>7. Answers(g, i, s, parts, cs, at, n, m, target, n + 2)
    BY <1>5, <1>6, <2>2, <2>3, <2>4, <2>5, <2>6 DEF Answers
  <2> QED BY <1>1, <2>7
<1>10. ASSUME ~(len < WordBytes) PROVE WordBytes <= Len(s) /\ (IsGetRequest(g, i) <=> SaysGet(s)) /\ Len(s) >= WordBytes
  <2>1. WordBytes <= Len(s) /\ Len(s) >= WordBytes
    BY <1>2, <1>10, ShaderAssumption
  <2> QED BY <2>1, MethodRead
<1>11. CASE ~(len < WordBytes) /\ ~IsGetRequest(g, i)
  <2>1. PICK target : target = InvalidTarget(len)
    OBVIOUS
  <2>2. PICK parts : parts = Nothing("not_allowed")
    OBVIOUS
  <2>3. \A out : ProcessRequest(g, out, i) = WriteResponse(g, out, i, at[n + 3], target)
    BY <1>4, <1>7, <1>11, <2>1, Zenon
  <2>4. Spoken(g, i, target, parts, Len(s)) /\ parts \in PartsSet
    BY <1>2, <2>1, <2>2, NothingSpoken
  <2>5. TakenAs(s, parts)
    BY <1>10, <1>11, <2>2 DEF TakenAs
  <2>6. cs[n + 3] = Chosen(m, parts)
    BY <1>4, <1>6, <2>2 DEF Chosen
  <2>7. Answers(g, i, s, parts, cs, at, n, m, target, n + 3)
    BY <1>5, <1>6, <2>2, <2>3, <2>4, <2>5, <2>6 DEF Answers
  <2> QED BY <1>1, <2>7
<1>12. CASE ~(len < WordBytes) /\ IsGetRequest(g, i) /\ ~(\E e, p : ParsedAt(s, e, p))
  <2>1. PICK target : target = InvalidTarget(len)
    OBVIOUS
  <2>2. PICK parts : parts = Nothing("bad")
    OBVIOUS
  <2>3. ParseGetTarget(g, i, len) = target
    BY <1>2, <1>12, <2>1, ParseFinds
  <2>4. \A out : ProcessRequest(g, out, i) = WriteResponse(g, out, i, at[n + 2], target)
    BY <1>4, <1>7, <1>8, <1>12, <2>1, <2>3, Zenon
  <2>5. Spoken(g, i, target, parts, Len(s)) /\ parts \in PartsSet
    BY <1>2, <2>1, <2>2, NothingSpoken
  <2>6. TakenAs(s, parts)
    BY <1>10, <1>12, <2>2 DEF TakenAs
  <2>7. cs[n + 2] = Chosen(m, parts)
    BY <1>4, <1>6, <2>2 DEF Chosen
  <2>8. Answers(g, i, s, parts, cs, at, n, m, target, n + 2)
    BY <1>5, <1>6, <2>2, <2>4, <2>5, <2>6, <2>7 DEF Answers
  <2> QED BY <1>1, <2>8
<1>13. CASE ~(len < WordBytes) /\ IsGetRequest(g, i) /\ \E e, p : ParsedAt(s, e, p)
  <2>1. PICK e, p : ParsedAt(s, e, p)
    BY <1>13
  <2>2. PICK target : target = TargetAt(s, e, p)
    OBVIOUS
  <2>3. PICK parts : parts = PartsAt(s, e, p)
    OBVIOUS
  <2>4. ParseGetTarget(g, i, len) = target
    BY <1>2, <2>1, <2>2, ParseFinds
  <2>5. target.valid
    BY <2>2 DEF TargetAt, Target
  <2>6. /\ Spoken(g, i, target, parts, Len(s)) /\ parts \in PartsSet
        /\ parts.path # <<>> /\ parts.kind = "get" /\ parts.hash = Hash(parts.path)
    BY <2>1, <2>2, <2>3, TargetSpoken
  <2>7. PICK x \in 1 .. n + 3 : FindResponseOffset(g, i, target) = at[x] /\ cs[x] = FindRoute(m, parts)
    <3>1. \E x \in 1 .. n + 3 : FindResponseOffset(g, i, target) = at[x] /\ cs[x] = FindRoute(Compile(R), parts)
      BY <1>3, <2>6, OffsetFound
    <3> QED BY <1>1, <3>1
  <2>8. \A out : ProcessRequest(g, out, i) = WriteResponse(g, out, i, at[x], target)
    BY <1>7, <1>13, <2>4, <2>5, <2>7, Zenon
  <2>9. parts.hash < HashRange
    <3>1. parts.path \in Seq(Nat)
      BY <2>6, BytesAreNumbers DEF PartsSet
    <3>2. Hash(parts.path) \in 0 .. HashRange - 1
      BY <2>6, <3>1, HashIs
    <3> QED BY <2>6, <3>2, RouterAssumption
  <2>10. TakenAs(s, parts)
    BY <1>10, <1>13, <2>1, <2>3 DEF TakenAs
  <2>11. cs[x] = Chosen(m, parts)
    BY <2>6, <2>7 DEF Chosen
  <2>12. Answers(g, i, s, parts, cs, at, n, m, target, x)
    BY <2>6, <2>8, <2>9, <2>10, <2>11 DEF Answers
  <2> QED BY <1>1, <2>12
<1> QED BY <1>9, <1>11, <1>12, <1>13

-----------------------------------------------------------------------------
(* One invocation writes the response into its slot.                       *)

\* The response to a request, as the shader takes it.
ShaderSays(R, s, parts, text) ==
    /\ TakenAs(s, parts) /\ parts \in PartsSet
    /\ text = SaysAll(StringTable(R), Chosen(Compile(R), parts), parts, Len(s)) /\ text \in Seq(Byte)

\* One invocation fills its slot with the response, which fits, and no other.
LEMMA InvocationWrites ==
    ASSUME NEW R \in RouterDeclaration, Compiles(R), NEW g, Bound(g, Compile(R)),
           g.stride = WordsForBytes(Compile(R).maxBytes),
           NEW i \in Nat \ {0}, NEW s \in Seq(Byte), Reads(g, i, s), Len(s) < HashRange,
           NEW out \in Seq(Seq(Byte)), Whole(out), (i - 1) * g.stride + g.stride <= Len(out)
    PROVE  \E parts, text, status :
              /\ ShaderSays(R, s, parts, text)
              /\ Len(text) \in 1 .. Compile(R).maxBytes
              /\ Written(ProcessRequest(g, out, i), WriterNew(out, (i - 1) * g.stride, g.stride), text, status)
<1>1. PICK m, t : m = Compile(R) /\ t = StringTable(R)
  OBVIOUS
<1>2. PICK n \in Nat : n = Len(R.routes)
  BY RouterIs
<1>3. PICK cs, at : Programmed(m, n, t, cs, at)
  BY <1>1, <1>2, ProgramIs
<1>4. PICK parts, target, x : Answers(g, i, s, parts, cs, at, n, m, target, x)
  BY <1>1, <1>2, <1>3, RequestAnswered
<1>5. /\ x \in 1 .. n + 3 /\ cs[x] = Chosen(m, parts) /\ TakenAs(s, parts) /\ parts \in PartsSet
      /\ parts.hash < HashRange /\ Spoken(g, i, target, parts, Len(s))
      /\ ProcessRequest(g, out, i) = WriteResponse(g, out, i, at[x], target)
  BY <1>4 DEF Answers
<1>6. PICK len \in Nat : len = Len(s) /\ len < HashRange
  OBVIOUS
<1>7. PICK text : text = SaysAll(t, cs[x], parts, len)
  OBVIOUS
<1>8. WellCoded(t, cs[x]) /\ m.maxBytes \in Nat /\ text \in Seq(Byte) /\ Len(text) \in 1 .. m.maxBytes
  BY <1>1, <1>2, <1>3, <1>5, <1>6, <1>7, SlotFits
<1>9. Texts(g, t)
  BY <1>1, TextsBound
<1>10. g.meta[i].offset \in Nat
  BY DEF Reads
<1>11. PICK l : l = Len(m.words)
  OBVIOUS
<1>12. Described(g.words, at[x], cs[x], l)
  BY <1>1, <1>3, <1>5, <1>11 DEF Programmed, Bound
<1>13. PICK pushes : pushes = ResponsePushes(g, i, at[x], target)
  OBVIOUS
<1>14. PushesOf(pushes, text)
  BY <1>1, <1>5, <1>6, <1>7, <1>8, <1>9, <1>10, <1>12, <1>13, ResponseSpeaks
<1>15. PICK stride \in Nat : stride = g.stride /\ stride = WordsForBytes(m.maxBytes)
  BY <1>1, <1>8, WordsSuffice
<1>16. PICK first \in Nat : first = (i - 1) * stride
  <2>1. i - 1 \in Nat
    OBVIOUS
  <2>2. stride * (i - 1) \in Nat /\ stride * (i - 1) = (i - 1) * stride
    BY <2>1, Times
  <2> QED BY <2>2
<1>17. PICK v : v = WriterNew(out, first, stride)
  OBVIOUS
<1>18. /\ v \in Writer /\ v.cursor = 0 /\ v.pending = <<>> /\ v.failed = FALSE
       /\ v.out = out /\ v.first = first /\ v.stride = stride
  <2>1. <<>> \in Seq(Byte)
    OBVIOUS
  <2> QED BY <1>17, <2>1 DEF WriterNew, Writer
<1>19. Len(text) <= WordBytes * v.stride /\ v.first + v.stride <= Len(v.out)
  <2>1. m.maxBytes <= WordBytes * stride
    BY <1>8, <1>15, WordsSuffice
  <2>2. PICK top \in Nat : top = WordBytes * stride
    BY ShaderAssumption, Times
  <2>3. Len(text) <= top
    BY <1>8, <2>1, <2>2
  <2> QED BY <1>15, <1>16, <1>18, <2>2, <2>3
<1>20. PICK status : status = ProgramWord(g, at[x])
  OBVIOUS
<1>21. ProcessRequest(g, out, i) = Finish(PushAll(v, pushes), status)
  BY <1>5, <1>13, <1>15, <1>16, <1>17, <1>20 DEF WriteResponse
<1>22. Written(Finish(PushAll(v, pushes), status), v, text, status)
  <2>1. Pushes(pushes) /\ FlattenSeq(pushes) = text
    BY <1>14 DEF PushesOf
  <2>2. Whole(v.out)
    BY <1>18
  <2>3. Len(FlattenSeq(pushes)) <= WordBytes * v.stride
    BY <1>19, <2>1
  <2>4. Written(Finish(PushAll(v, pushes), status), v, FlattenSeq(pushes), status)
    BY <1>18, <1>19, <2>1, <2>2, <2>3, PushesWrite
  <2> QED BY <2>1, <2>4
<1>23. ShaderSays(R, s, parts, text)
  BY <1>1, <1>5, <1>6, <1>7, <1>8 DEF ShaderSays
<1> QED BY <1>1, <1>8, <1>15, <1>16, <1>17, <1>21, <1>22, <1>23

-----------------------------------------------------------------------------
(* Buffers: what is written to the front of one, what stays in a slot of   *)
(* the output, and what the host reads there.                              *)

\* A buffer begins with what was written last.
BeginsWith(u, s, A) == u \in Seq(A) /\ \A j \in 1 .. Len(s) : u[j] = s[j]

\* A buffer begins with what was written to its front.
LEMMA FrontWritten ==
    ASSUME NEW A, NEW buffer \in Seq(A), NEW words \in Seq(A)
    PROVE  BeginsWith(Overwritten(buffer, words), words, A)
<1>1. PICK rest : rest = SubSeq(buffer, Len(words) + 1, Len(buffer))
  OBVIOUS
<1>2. rest \in Seq(A)
  <2>1. Len(words) + 1 \in Nat \ {0} /\ Len(buffer) \in Int /\ Len(buffer) <= Len(buffer)
    OBVIOUS
  <2> QED BY <1>1, <2>1, PartOf
<1>3. IsJoined(words \o rest, words, rest, A)
  BY <1>2, JoinedParts
<1> QED BY <1>1, <1>3 DEF Overwritten, IsJoined, BeginsWith

\* The place of a byte of a slot, word by word.
Place(b, stride, x, q, r) ==
    /\ q \in 0 .. stride - 1 /\ r \in 0 .. WordBytes - 1
    /\ x = WordBytes * q + r /\ b + q \in Nat
    /\ WordBytes * b + x = WordBytes * (b + q) + r

\* Every byte of a slot is in a word of it.
LEMMA PlaceInSlot ==
    ASSUME NEW b \in Nat, NEW stride \in Nat, NEW x \in Nat, x < WordBytes * stride
    PROVE  \E q, r : Place(b, stride, x, q, r)
<1>1. PICK W \in Nat : W = WordBytes /\ W > 0
  BY ShaderAssumption
<1>2. PICK q \in Nat, r \in 0 .. W - 1 : x = W * q + r
  <2>1. x \div W \in Nat /\ x % W \in 0 .. W - 1 /\ x = W * (x \div W) + (x % W)
    BY <1>1, Quotient
  <2> QED BY <2>1
<1>3. q < stride
  <2> SUFFICES ASSUME stride <= q PROVE FALSE
    OBVIOUS
  <2>1. PICK u \in Nat, v \in Nat : u = W * stride /\ v = W * q
    BY Times
  <2>2. u <= v
    <3>1. CASE stride = q
      BY <2>1, <3>1
    <3>2. CASE stride < q
      <4>1. u + W <= v
        BY <2>1, <3>2, Times
      <4> QED BY <4>1
    <3> QED BY <3>1, <3>2
  <2>3. x < u /\ x = v + r /\ r \in Nat
    BY <1>1, <1>2, <2>1
  <2> QED BY <2>2, <2>3
<1>4. W * b + x = W * (b + q) + r
  <2>1. W * (b + q) = W * b + W * q
    OBVIOUS
  <2>2. PICK u \in Nat, v \in Nat : u = W * b /\ v = W * q
    BY Times
  <2>3. r \in Nat
    BY <1>1
  <2> QED BY <1>2, <2>1, <2>2, <2>3
<1>5. q \in 0 .. stride - 1 /\ b + q \in Nat
  BY <1>3
<1> QED BY <1>1, <1>2, <1>4, <1>5 DEF Place

\* What lies in a slot stays there when no word of the slot is written.
LEMMA SlotStays ==
    ASSUME NEW words, NEW others, NEW b \in Nat, NEW stride \in Nat,
           \A j \in 1 .. stride : others[b + j] = words[b + j],
           NEW s \in Seq(Byte), Len(s) <= WordBytes * stride, Lies(words, WordBytes * b, s)
    PROVE  Lies(others, WordBytes * b, s)
<1> SUFFICES ASSUME NEW k \in 1 .. Len(s) PROVE ByteAt(others, WordBytes * b + (k - 1)) = s[k]
  BY DEF Lies
<1>1. ByteAt(words, WordBytes * b + (k - 1)) = s[k]
  BY DEF Lies
<1>2. PICK top \in Nat : top = WordBytes * stride
  BY ShaderAssumption, Times
<1>3. PICK x \in Nat : x = k - 1 /\ x < WordBytes * stride
  BY <1>2
<1>4. PICK q \in 0 .. stride - 1, r \in 0 .. WordBytes - 1 :
         b + q \in Nat /\ WordBytes * b + x = WordBytes * (b + q) + r
  <2>1. PICK q, r : Place(b, stride, x, q, r)
    BY <1>3, PlaceInSlot
  <2> QED BY <2>1 DEF Place
<1>5. ByteAt(words, WordBytes * (b + q) + r) = words[(b + q) + 1][r + 1]
  BY <1>4, ByteAtIs
<1>6. ByteAt(others, WordBytes * (b + q) + r) = others[(b + q) + 1][r + 1]
  BY <1>4, ByteAtIs
<1>7. q + 1 \in 1 .. stride /\ (b + q) + 1 = b + (q + 1)
  BY <1>4
<1>8. others[b + (q + 1)] = words[b + (q + 1)]
  BY <1>7
<1>9. ByteAt(others, WordBytes * (b + q) + r) = ByteAt(words, WordBytes * (b + q) + r)
  BY <1>5, <1>6, <1>7, <1>8
<1> QED BY <1>1, <1>3, <1>4, <1>9

\* The host reads the bytes of a slot that the shader wrote.
LEMMA SlotRead ==
    ASSUME NEW out \in Seq(Seq(Byte)), Whole(out), NEW b \in Nat, NEW stride \in Nat, b + stride <= Len(out),
           NEW s \in Seq(Byte), Len(s) <= WordBytes * stride, Lies(out, WordBytes * b, s)
    PROVE  SubSeq(FlattenSeq(out), WordBytes * b + 1, WordBytes * b + Len(s)) = s
<1>1. PICK W \in Nat : W = WordBytes /\ W > 0
  BY ShaderAssumption
<1>2. PICK flat : flat = FlattenSeq(out)
  OBVIOUS
<1>3. PICK n \in Nat : n = Len(out)
  OBVIOUS
<1>4. \A i \in 1 .. n : Len(out[i]) = W
  BY <1>1, <1>3 DEF Whole
<1>5. /\ flat \in Seq(Byte) /\ Len(flat) = W * n
      /\ \A i \in 1 .. n : \A f \in 1 .. W : flat[W * (i - 1) + f] = out[i][f]
  <2>1. \A i \in 1 .. Len(out) : Len(out[i]) = W
    BY <1>3, <1>4
  <2>2. FlattenSeq(out) \in Seq(Byte) /\ Len(FlattenSeq(out)) = W * Len(out)
    BY <2>1, Grid
  <2>3. \A i \in 1 .. Len(out) : \A f \in 1 .. W : FlattenSeq(out)[W * (i - 1) + f] = out[i][f]
    BY <2>1, Grid
  <2> QED BY <1>2, <1>3, <2>2, <2>3
<1>6. PICK begin \in Nat, top \in Nat, all \in Nat : begin = W * b /\ top = W * stride /\ all = W * n
  BY Times
<1>7. begin + top <= all
  <2>1. W * (b + stride) = begin + top
    BY <1>6
  <2>2. b + stride \in Nat /\ b + stride <= n
    BY <1>3
  <2>3. CASE b + stride = n
    BY <1>6, <2>1, <2>3
  <2>4. CASE b + stride < n
    <3>1. W * (b + stride) + W <= W * n
      BY <2>2, <2>4, Times
    <3> QED BY <1>6, <2>1, <3>1
  <2> QED BY <2>2, <2>3, <2>4
<1>8. PICK len \in Nat : len = Len(s) /\ len <= top
  BY <1>1, <1>6
<1>9. begin + len \in Nat /\ begin + len <= Len(flat) /\ begin <= begin + len
  <2>1. Len(flat) = all
    BY <1>5, <1>6
  <2> QED BY <1>7, <1>8, <2>1
<1>10. PICK u, end : u = SubSeq(flat, begin + 1, end) /\ end = begin + len
  OBVIOUS
<1>11. u \in Seq(Byte) /\ Len(u) = len /\ \A k \in 1 .. len : u[k] = flat[begin + k]
  <2>1. end \in Nat /\ begin <= end /\ end <= Len(flat) /\ end - begin = len
    BY <1>9, <1>10
  <2>2. IsPart(u, flat, begin, end, Byte)
    BY <1>5, <1>10, <2>1, PartIs
  <2> QED BY <2>1, <2>2 DEF IsPart
<1>12. ASSUME NEW k \in 1 .. len PROVE u[k] = s[k]
  <2>1. u[k] = flat[begin + k]
    BY <1>11
  <2>2. PICK x \in Nat : x = k - 1 /\ x < WordBytes * stride
    BY <1>1, <1>6, <1>8
  <2>3. PICK q \in 0 .. stride - 1, r \in 0 .. WordBytes - 1 :
           b + q \in Nat /\ WordBytes * b + x = WordBytes * (b + q) + r
    <3>1. PICK q, r : Place(b, stride, x, q, r)
      BY <2>2, PlaceInSlot
    <3> QED BY <3>1 DEF Place
  <2>4. r + 1 \in 1 .. W /\ (b + q) + 1 \in 1 .. n /\ ((b + q) + 1) - 1 = b + q
    BY <1>1, <1>3, <2>3
  <2>5. flat[W * (b + q) + (r + 1)] = out[(b + q) + 1][r + 1]
    BY <1>5, <2>4
  <2>6. PICK z \in Nat : z = W * (b + q)
    BY <2>3, Times
  <2>7. begin + k = z + (r + 1)
    <3>1. begin + x = z + r
      BY <1>1, <1>6, <2>3, <2>6
    <3>2. r \in Nat
      BY <1>1
    <3> QED BY <2>2, <3>1, <3>2
  <2>8. ByteAt(out, WordBytes * (b + q) + r) = out[(b + q) + 1][r + 1]
    BY <2>3, ByteAtIs
  <2>9. ByteAt(out, WordBytes * b + (k - 1)) = s[k]
    BY <1>8 DEF Lies
  <2> QED BY <2>1, <2>2, <2>3, <2>5, <2>6, <2>7, <2>8, <2>9
<1>13. u = s
  <2>1. Len(u) = Len(s) /\ \A k \in 1 .. Len(s) : u[k] = s[k]
    BY <1>8, <1>11, <1>12
  <2> QED BY <1>11, <2>1, SameString
<1> QED BY <1>1, <1>2, <1>6, <1>8, <1>10, <1>13

-----------------------------------------------------------------------------
(* What holds for the GPU.                                                 *)

\* A request was answered: the response lies in its slot, its metadata says
\* how long it is.
Delivered(R, out, meta, at, s) ==
    \E parts, text, status :
        /\ ShaderSays(R, s, parts, text) /\ Len(text) \in 1 .. Compile(R).maxBytes
        /\ meta = [len |-> Len(text), status |-> status, flags |-> FALSE]
        /\ Lies(out, WordBytes * at, text)

\* The buffers, whatever earlier batches left in them.
Buffers(g, words) ==
    /\ g = [input |-> g.input, meta |-> g.meta, output |-> g.output, responses |-> g.responses]
    /\ g.input \in Seq(Seq(Byte)) /\ g.meta \in Seq(RequestMeta)
    /\ g.output \in Seq(Seq(Byte)) /\ Whole(g.output) /\ Len(g.output) = words
    /\ g.responses = [i \in 1 .. MaxBatch |-> g.responses[i]]

\* The shader reads the batch, and what it has answered stays answered until
\* the host reads it.
Dispatched ==
    /\ todo \subseteq DOMAIN batch
    /\ \A i \in DOMAIN batch :
          /\ Reads(Bindings, i, batch[i]) /\ Len(batch[i]) <= MaxRequestBytes
          /\ i \notin todo => Delivered(router, gpu.output, gpu.responses[i], (i - 1) * Stride, batch[i])

\* What the host has read.
Returned(R, requests, responses) ==
    /\ Len(responses) = Len(requests)
    /\ \A i \in DOMAIN requests : \E parts : ShaderSays(R, requests[i], parts, responses[i])

Device ==
    /\ result.why \notin {"shader", "length"}
    /\ backend = "gpu" =>
          /\ Buffers(gpu, MaxBatch * Stride)
          /\ phase = "dispatched" => Dispatched
          /\ phase = "done" /\ result.ok => Returned(router, batch, result.responses)

\* What a dispatch binds is the compiled router, with a slot for its longest response.
LEMMA BoundIs ==
    ASSUME Ground
    PROVE  /\ router \in RouterDeclaration /\ Compiles(router) /\ Bound(Bindings, Compile(router))
           /\ Bindings.stride = Stride /\ Stride = WordsForBytes(Compile(router).maxBytes)
           /\ Compile(router).maxBytes \in Nat /\ Stride \in Nat
           /\ Compile(router).maxBytes <= Stride * WordBytes
<1>1. router \in RouterDeclaration /\ Compiles(router) /\ app = Compile(router)
  BY BatchIs DEF Ground
<1>2. Compile(router).maxBytes \in Nat
  <2>1. PICK R \in RouterDeclaration : R = router /\ Compiles(R)
    BY <1>1
  <2>2. PICK n, t : n \in Nat /\ n = Len(R.routes) /\ t = StringTable(R)
    BY RouterIs
  <2>3. PICK cs, at : Programmed(Compile(R), n, t, cs, at)
    BY <2>1, <2>2, ProgramIs
  <2>4. Nothing("bad") \in PartsSet /\ Nothing("bad").hash = 0
    BY NothingSpoken DEF Nothing, Parts
  <2>5. n + 3 \in 1 .. n + 3 /\ 0 < HashRange /\ 0 \in Nat
    BY <2>2, RouterAssumption
  <2>6. Compile(R).maxBytes \in Nat
    BY <2>1, <2>2, <2>3, <2>4, <2>5, SlotFits
  <2> QED BY <2>1, <2>6
<1>3. Stride = WordsForBytes(Compile(router).maxBytes)
  BY <1>1 DEF Stride
<1>4. Stride \in Nat /\ Compile(router).maxBytes <= Stride * WordBytes
  BY <1>2, <1>3, WordsSuffice
<1>5. Bound(Bindings, Compile(router)) /\ Bindings.stride = Stride
  BY <1>1 DEF Bound, Bindings
<1> QED BY <1>1, <1>2, <1>3, <1>4, <1>5

\* A buffer of zeros.
LEMMA BlankIs ==
    ASSUME NEW n \in Nat
    PROVE  Blank(n) \in Seq(Seq(Byte)) /\ Len(Blank(n)) = n /\ Whole(Blank(n))
<1>1. PICK W \in Nat : W = WordBytes
  BY ShaderAssumption
<1>2. PICK zero : zero = ZeroWord
  OBVIOUS
<1>3. zero \in Seq(Byte) /\ Len(zero) = W
  <2>1. 0 \in Byte
    BY DEF Byte
  <2>2. zero \in [1 .. W -> Byte]
    BY <1>1, <1>2, <2>1 DEF ZeroWord
  <2>3. W \in Nat
    OBVIOUS
  <2> QED BY ONLY <2>2, <2>3
<1>4. PICK b : b = Blank(n)
  OBVIOUS
<1>5. b = [i \in 1 .. n |-> zero]
  BY <1>2, <1>4 DEF Blank
<1>6. b \in Seq(Seq(Byte)) /\ Len(b) = n
  <2> DEFINE B == Seq(Byte)
  <2>1. zero \in B
    BY <1>3
  <2> HIDE DEF B
  <2>2. b \in [1 .. n -> B]
    BY <1>5, <2>1
  <2>3. b \in Seq(B) /\ Len(b) = n
    BY ONLY <2>2, n \in Nat
  <2> QED BY <2>3 DEF B
<1>7. \A i \in 1 .. n : b[i] = zero
  BY <1>5
<1> QED BY <1>1, <1>3, <1>4, <1>6, <1>7 DEF Whole

\* The invariant holds before the processor is created.
LEMMA DeviceInit == Init => Device
  BY DEF Init, Device, None

\* Creating the processor allocates the buffers it will use.
LEMMA DeviceCreates ==
    ASSUME Ground, Device, NEW choice, Create(choice)
    PROVE  Device'
<1>1. UNCHANGED <<router, app, direct, mapped, phase, batch, todo, result, left>> /\ backend = "none"
  BY DEF Create
<1>2. phase = "idle"
  BY <1>1 DEF Ground
<1>3. phase' = "idle" /\ result'.why \notin {"shader", "length"} /\ Stride' = Stride
  BY <1>1, <1>2 DEF Device, Stride
<1>4. CASE backend' = "gpu"
  <2>1. gpu' = [input |-> Blank(MaxBatch * WordsForBytes(MaxRequestBytes)),
                meta |-> <<>>, output |-> Blank(MaxBatch * Stride),
                responses |-> [i \in 1 .. MaxBatch |-> [len |-> 0, status |-> 0, flags |-> FALSE]]]
    BY <1>4 DEF Create
  <2>2. MaxBatch * WordsForBytes(MaxRequestBytes) \in Nat /\ MaxBatch * Stride \in Nat
    <3>1. MaxBatch \in Nat /\ MaxRequestBytes \in Nat
      BY ProcessorAssumption, RouterAssumption
    <3>2. WordsForBytes(MaxRequestBytes) \in Nat /\ Stride \in Nat
      BY <3>1, WordsSuffice, BoundIs
    <3> QED BY <3>1, <3>2, Times
  <2>3. PICK a, b : a = Blank(MaxBatch * WordsForBytes(MaxRequestBytes)) /\ b = Blank(MaxBatch * Stride)
    OBVIOUS
  <2>4. a \in Seq(Seq(Byte)) /\ b \in Seq(Seq(Byte)) /\ Whole(b) /\ Len(b) = MaxBatch * Stride
    BY <2>2, <2>3, BlankIs
  <2>5. <<>> \in Seq(RequestMeta)
    OBVIOUS
  <2>6. /\ gpu'.input = a /\ gpu'.meta = <<>> /\ gpu'.output = b
        /\ gpu'.responses = [i \in 1 .. MaxBatch |-> [len |-> 0, status |-> 0, flags |-> FALSE]]
        /\ gpu' = [input |-> gpu'.input, meta |-> gpu'.meta, output |-> gpu'.output, responses |-> gpu'.responses]
    BY <2>1, <2>3
  <2>7. gpu'.responses = [i \in 1 .. MaxBatch |-> gpu'.responses[i]]
    BY <2>6
  <2>8. Buffers(gpu', MaxBatch * Stride)
    BY <2>4, <2>5, <2>6, <2>7 DEF Buffers
  <2> QED BY <1>3, <1>4, <2>8 DEF Device
<1>5. CASE backend' # "gpu"
  BY <1>3, <1>5 DEF Device
<1> QED BY <1>4, <1>5

\* A dispatch binds all requests, whatever the buffers held before.
LEMMA DeviceDispatches ==
    ASSUME Ground, Device, NEW requests \in Batches, GpuBatch(requests)
    PROVE  Device'
<1>1. backend = "gpu" /\ backend' = "gpu" /\ batch' = requests /\ UNCHANGED <<router, app>>
  BY DEF GpuBatch
<1>2. Stride' = Stride /\ Buffers(gpu, MaxBatch * Stride)
  BY <1>1 DEF Device, Stride
<1>3. CASE /\ requests = <<>>
           /\ result' = Ok(<<>>) /\ phase' = "done" /\ UNCHANGED <<gpu, todo>>
  <2>1. result'.why = "none" /\ result'.responses = <<>>
    BY <1>3 DEF Ok
  <2>2. Returned(router, batch', result'.responses)
    BY <1>1, <1>3, <2>1 DEF Returned
  <2> QED BY <1>1, <1>2, <1>3, <2>1, <2>2 DEF Device
<1>4. CASE result' = Failed("too_large") /\ phase' = "done" /\ UNCHANGED <<gpu, todo>>
  <2>1. result'.why = "too_large" /\ result'.ok = FALSE
    BY <1>4 DEF Failed
  <2> QED BY <1>1, <1>2, <1>4, <2>1 DEF Device
<1>5. CASE /\ requests # <<>> /\ \A i \in DOMAIN requests : Len(requests[i]) <= MaxRequestBytes
           /\ LET packed == PackRequests(requests) IN
              gpu' = [gpu EXCEPT !.input = Overwritten(@, packed.words),
                                 !.meta = Overwritten(@, packed.meta)]
           /\ phase' = "dispatched" /\ todo' = DOMAIN requests /\ UNCHANGED result
  <2>1. PICK p : p = PackRequests(requests)
    OBVIOUS
  <2>2. requests \in Seq(Seq(Byte))
    BY ProcessorAssumption
  <2>3. Packs(p, requests)
    BY <1>5, <2>1, <2>2, RequestsPacked
  <2>4. p.words \in Seq(Seq(Byte)) /\ p.meta \in Seq(RequestMeta) /\ Len(p.meta) = Len(requests)
    BY <2>3 DEF Packs
  <2>5. PICK input, meta : input = Overwritten(gpu.input, p.words) /\ meta = Overwritten(gpu.meta, p.meta)
    OBVIOUS
  <2>6. gpu.input \in Seq(Seq(Byte)) /\ gpu.meta \in Seq(RequestMeta)
    BY <1>2 DEF Buffers
  <2>7. input \in Seq(Seq(Byte)) /\ \A j \in 1 .. Len(p.words) : input[j] = p.words[j]
    <3>1. BeginsWith(input, p.words, Seq(Byte))
      BY <2>4, <2>5, <2>6, FrontWritten
    <3> QED BY <3>1 DEF BeginsWith
  <2>8. meta \in Seq(RequestMeta) /\ \A j \in 1 .. Len(p.meta) : meta[j] = p.meta[j]
    <3>1. BeginsWith(meta, p.meta, RequestMeta)
      BY <2>4, <2>5, <2>6, FrontWritten
    <3> QED BY <3>1 DEF BeginsWith
  <2>9. gpu' = [gpu EXCEPT !.input = input, !.meta = meta]
    BY <1>5, <2>1, <2>5
  <2>10. gpu' = [input |-> input, meta |-> meta, output |-> gpu.output, responses |-> gpu.responses]
    <3>1. PICK a, b, c, d : /\ a = gpu.input /\ b = gpu.meta /\ c = gpu.output /\ d = gpu.responses
                            /\ gpu = [input |-> a, meta |-> b, output |-> c, responses |-> d]
      BY <1>2 DEF Buffers
    <3> QED BY <2>9, <3>1
  <2>11. Buffers(gpu', MaxBatch * Stride)
    BY <1>2, <2>7, <2>8, <2>10 DEF Buffers
  <2>12. ASSUME NEW i \in DOMAIN requests
         PROVE  Reads(Bindings', i, requests[i])
    <3>1. i \in 1 .. Len(requests)
      BY <2>2
    <3>2. Bindings'.meta = meta /\ Bindings'.input = input
      BY <2>10 DEF Bindings
    <3>3. meta[i].len = Len(requests[i]) /\ meta[i].offset \in Nat /\ meta[i] = p.meta[i]
      BY <2>3, <2>4, <2>8, <3>1 DEF Packs
    <3>4. Lies(input, p.meta[i].offset * WordBytes, requests[i])
      BY <2>3, <2>7, <3>1 DEF Packs
    <3> QED BY <3>2, <3>3, <3>4 DEF Reads
  <2>13. Dispatched'
    BY <1>1, <1>5, <2>12 DEF Dispatched
  <2> QED BY <1>1, <1>2, <1>5, <2>11, <2>13 DEF Device
<1> QED BY <1>3, <1>4, <1>5 DEF GpuBatch

\* Where the slot of an invocation is.
LEMMA SlotIs ==
    ASSUME NEW stride \in Nat, NEW i \in 1 .. MaxBatch
    PROVE  /\ (i - 1) * stride \in Nat /\ MaxBatch * stride \in Nat
           /\ (i - 1) * stride + stride <= MaxBatch * stride
<1>1. MaxBatch \in Nat /\ i - 1 \in Nat /\ i - 1 < MaxBatch
  BY ProcessorAssumption
<1>2. /\ stride * (i - 1) \in Nat /\ stride * MaxBatch \in Nat
      /\ stride * (i - 1) + stride <= stride * MaxBatch
  BY <1>1, Times
<1>3. stride * (i - 1) = (i - 1) * stride /\ stride * MaxBatch = MaxBatch * stride
  BY <1>1
<1> QED BY <1>2, <1>3

\* Slots do not overlap.
LEMMA SlotsApart ==
    ASSUME NEW stride \in Nat, NEW i \in Nat \ {0}, NEW k \in Nat \ {0}, i # k, NEW j \in 1 .. stride
    PROVE  LET a == (i - 1) * stride
               b == (k - 1) * stride
           IN  b + j <= a \/ b + j > a + stride
<1>1. i - 1 \in Nat /\ k - 1 \in Nat
  OBVIOUS
<1>2. PICK a \in Nat, b \in Nat : a = stride * (i - 1) /\ b = stride * (k - 1)
  BY <1>1, Times
<1>3. a = (i - 1) * stride /\ b = (k - 1) * stride
  BY <1>2
<1>4. CASE k < i
  <2>1. b + stride <= a
    BY <1>1, <1>2, <1>4, Times
  <2>2. b + j <= a
    BY <2>1
  <2> QED BY <1>3, <2>2
<1>5. CASE i < k
  <2>1. a + stride <= b
    BY <1>1, <1>2, <1>5, Times
  <2>2. b + j > a + stride
    BY <2>1
  <2> QED BY <1>3, <2>2
<1> QED BY <1>4, <1>5

\* An invocation writes its own slot and leaves those that are done alone.
LEMMA DeviceInvokes ==
    ASSUME Ground, Device, NEW i \in 1 .. MaxBatch, Invoke(i)
    PROVE  Device'
<1>1. /\ phase = "dispatched" /\ i \in todo /\ todo' = todo \ {i}
      /\ UNCHANGED <<router, app, backend, direct, mapped, phase, batch, result, left>>
  BY DEF Invoke
<1>2. CASE backend # "gpu"
  BY <1>1, <1>2 DEF Device
<1>3. CASE backend = "gpu"
  <2>1. Buffers(gpu, MaxBatch * Stride) /\ Dispatched
    BY <1>1, <1>3 DEF Device
  <2>2. PICK stride \in Nat : stride = Stride /\ stride = WordsForBytes(Compile(router).maxBytes)
    BY BoundIs
  <2>3. /\ router \in RouterDeclaration /\ Compiles(router) /\ Bound(Bindings, Compile(router))
        /\ Bindings.stride = stride /\ Compile(router).maxBytes \in Nat
    BY <2>2, BoundIs
  <2>4. PICK done : done = ProcessRequest(Bindings, gpu.output, i)
    OBVIOUS
  <2>5. gpu' = [gpu EXCEPT !.output = done.out, !.responses[i] = done.meta]
    BY <2>4 DEF Invoke
  <2>6. PICK out : out = gpu.output /\ out \in Seq(Seq(Byte)) /\ Whole(out) /\ Len(out) = MaxBatch * stride
    BY <2>1, <2>2 DEF Buffers
  <2>7. PICK first \in Nat : first = (i - 1) * stride /\ first + stride <= Len(out)
    BY <2>6, SlotIs
  <2>8. PICK rs : rs = [gpu.responses EXCEPT ![i] = done.meta]
    OBVIOUS
  <2>9. gpu' = [input |-> gpu.input, meta |-> gpu.meta, output |-> done.out, responses |-> rs]
    <3>1. PICK a, b, c, d : /\ a = gpu.input /\ b = gpu.meta /\ c = gpu.output /\ d = gpu.responses
                            /\ gpu = [input |-> a, meta |-> b, output |-> c, responses |-> d]
      BY <2>1 DEF Buffers
    <3> QED BY <2>5, <2>8, <3>1
  <2>10. /\ rs = [k \in 1 .. MaxBatch |-> rs[k]] /\ rs[i] = done.meta
         /\ \A k \in 1 .. MaxBatch : k # i => rs[k] = gpu.responses[k]
    <3>1. PICK d : d = gpu.responses /\ d = [k \in 1 .. MaxBatch |-> d[k]]
      BY <2>1 DEF Buffers
    <3>2. rs = [d EXCEPT ![i] = done.meta] /\ DOMAIN d = 1 .. MaxBatch
      BY <2>8, <3>1
    <3> QED BY <3>1, <3>2
  <2>11. \A k \in DOMAIN batch :
            /\ k \in 1 .. MaxBatch /\ k \in Nat \ {0} /\ batch[k] \in Seq(Byte)
            /\ Reads(Bindings, k, batch[k]) /\ Len(batch[k]) <= MaxRequestBytes
    <3> TAKE k \in DOMAIN batch
    <3>1. Len(batch) <= MaxBatch /\ DOMAIN batch = 1 .. Len(batch) /\ Len(batch) \in Nat /\ batch[k] \in Seq(Byte)
      BY BatchIs
    <3>2. MaxBatch \in Nat
      BY ProcessorAssumption
    <3> QED BY <2>1, <3>1, <3>2 DEF Dispatched
  <2>12. i \in DOMAIN batch
    BY <1>1, <2>1 DEF Dispatched
  <2>13. Device'
    <3>1. PICK s \in Seq(Byte) : s = batch[i] /\ Reads(Bindings, i, s) /\ Len(s) < HashRange
      <4>1. Len(batch[i]) <= MaxRequestBytes /\ MaxRequestBytes \in Nat /\ MaxRequestBytes < HashRange
            /\ HashRange \in Nat
        BY <2>11, <2>12, ProcessorAssumption, RouterAssumption
      <4>2. batch[i] \in Seq(Byte) /\ Reads(Bindings, i, batch[i])
        BY <2>11, <2>12
      <4>3. Len(batch[i]) < HashRange
        BY <4>1, <4>2
      <4> QED BY <4>2, <4>3
    <3>2. i \in Nat \ {0}
      OBVIOUS
    <3>3. PICK parts, text, status :
             /\ ShaderSays(router, s, parts, text)
             /\ Len(text) \in 1 .. Compile(router).maxBytes
             /\ Written(done, WriterNew(out, first, stride), text, status)
      <4>1. PICK R \in RouterDeclaration : R = router /\ Compiles(R)
        BY <2>3
      <4>2. PICK g : /\ g = Bindings /\ Bound(g, Compile(R)) /\ g.stride = WordsForBytes(Compile(R).maxBytes)
                     /\ g.stride = stride /\ Reads(g, i, s)
        BY <2>2, <2>3, <3>1, <4>1
      <4>3. (i - 1) * g.stride + g.stride <= Len(out)
        BY <2>7, <4>2
      <4>4. \E parts, text, status :
              /\ ShaderSays(R, s, parts, text)
              /\ Len(text) \in 1 .. Compile(R).maxBytes
              /\ Written(ProcessRequest(g, out, i), WriterNew(out, (i - 1) * g.stride, g.stride), text, status)
        BY <2>6, <3>1, <3>2, <4>1, <4>2, <4>3, InvocationWrites
      <4>5. done = ProcessRequest(g, out, i) /\ first = (i - 1) * g.stride
        BY <2>4, <2>6, <2>7, <4>2
      <4> QED BY <4>1, <4>2, <4>4, <4>5
    <3>4. PICK v : v = WriterNew(out, first, stride)
      OBVIOUS
    <3>11. v.out = out /\ v.first = first /\ v.stride = stride
      BY <3>4 DEF WriterNew
    <3>5. /\ done.meta = [len |-> Len(text), status |-> status, flags |-> FALSE]
          /\ done.out \in Seq(Seq(Byte)) /\ Len(done.out) = Len(out) /\ Whole(done.out)
          /\ \A j \in 1 .. Len(out) : j <= first \/ j > first + stride => done.out[j] = out[j]
          /\ \A k \in 1 .. Len(text) : ByteAt(done.out, WordBytes * first + (k - 1)) = text[k]
      BY <3>3, <3>4, <3>11 DEF Written
    <3>6. Delivered(router, done.out, rs[i], first, s)
      <4>1. Lies(done.out, WordBytes * first, text)
        BY <3>5 DEF Lies
      <4> QED BY <2>10, <3>3, <3>5, <4>1 DEF Delivered
    <3>7. ASSUME NEW k \in DOMAIN batch, k \notin todo', k # i
          PROVE  Delivered(router, done.out, rs[k], (k - 1) * stride, batch[k])
      <4>1. Delivered(router, out, gpu.responses[k], (k - 1) * stride, batch[k])
        BY <1>1, <2>1, <2>2, <2>6, <3>7 DEF Dispatched
      <4>2. PICK p2, t2, s2 :
               /\ ShaderSays(router, batch[k], p2, t2) /\ Len(t2) \in 1 .. Compile(router).maxBytes
               /\ gpu.responses[k] = [len |-> Len(t2), status |-> s2, flags |-> FALSE]
               /\ Lies(out, WordBytes * ((k - 1) * stride), t2)
        BY <4>1 DEF Delivered
      <4>3. k \in 1 .. MaxBatch /\ k \in Nat \ {0}
        BY <2>11
      <4>4. PICK b \in Nat : b = (k - 1) * stride /\ b + stride <= Len(out)
        BY <2>6, <4>3, SlotIs
      <4>5. \A j \in 1 .. stride : done.out[b + j] = out[b + j]
        <5> TAKE j \in 1 .. stride
        <5>1. b + j <= first \/ b + j > first + stride
          BY <2>7, <3>2, <3>7, <4>3, <4>4, SlotsApart
        <5>2. b + j \in 1 .. Len(out)
          BY <2>6, <4>4
        <5> QED BY <3>5, <5>1, <5>2
      <4>6. t2 \in Seq(Byte)
        BY <4>2 DEF ShaderSays
      <4>7. Len(t2) <= WordBytes * stride
        <5>1. Compile(router).maxBytes <= WordBytes * stride
          BY <2>2, <2>3, WordsSuffice
        <5>2. PICK top \in Nat : top = WordBytes * stride
          BY ShaderAssumption, Times
        <5> QED BY <2>3, <4>2, <5>1, <5>2
      <4>8. Lies(done.out, WordBytes * b, t2)
        BY <4>2, <4>4, <4>5, <4>6, <4>7, SlotStays
      <4>9. rs[k] = gpu.responses[k]
        BY <2>10, <3>7, <4>3
      <4> QED BY <4>2, <4>4, <4>8, <4>9 DEF Delivered
    <3>8. Stride' = stride /\ Bindings' = Bindings
      <4>1. gpu'.meta = gpu.meta /\ gpu'.input = gpu.input
        BY <2>9
      <4>2. Stride' = stride
        BY <1>1, <2>2 DEF Stride
      <4> QED BY <1>1, <2>2, <4>1, <4>2 DEF Bindings
    <3>9. Buffers(gpu', MaxBatch * stride)
      BY <2>1, <2>6, <2>9, <2>10, <3>5 DEF Buffers
    <3>10. Dispatched'
      <4>1. gpu'.output = done.out /\ gpu'.responses = rs
        BY <2>9
      <4>2. ASSUME NEW k \in DOMAIN batch PROVE Reads(Bindings', k, batch[k]) /\ Len(batch[k]) <= MaxRequestBytes
        BY <2>11, <3>8
      <4>3. ASSUME NEW k \in DOMAIN batch, k \notin todo'
            PROVE  Delivered(router, done.out, rs[k], (k - 1) * stride, batch[k])
        <5>1. CASE k = i
          BY <2>7, <3>1, <3>6, <5>1
        <5>2. CASE k # i
          BY <3>7, <4>3, <5>2
        <5> QED BY <5>1, <5>2
      <4>4. todo' \subseteq DOMAIN batch
        BY <1>1, <2>1 DEF Dispatched
      <4> QED BY <1>1, <3>8, <4>1, <4>2, <4>3, <4>4 DEF Dispatched
    <3> QED BY <1>1, <3>8, <3>9, <3>10 DEF Device
  <2> QED BY <2>13
<1> QED BY <1>2, <1>3

\* What the host decodes when every invocation has run.
LEMMA DecodedIs ==
    ASSUME Ground, Buffers(gpu, MaxBatch * Stride), Dispatched, todo = {}
    PROVE  Decode.why = "none" /\ Returned(router, batch, Decode.responses)
<1>1. PICK stride \in Nat : stride = Stride
  BY BoundIs
<1>2. Compile(router).maxBytes \in Nat /\ Compile(router).maxBytes <= stride * WordBytes
  BY <1>1, BoundIs
<1>3. PICK W \in Nat : W = WordBytes /\ W > 0
  BY ShaderAssumption
<1>4. PICK slot \in Nat : slot = stride * WordBytes /\ slot = WordBytes * stride
  <2>1. W * stride \in Nat /\ stride * W = W * stride
    BY Times
  <2> QED BY <1>3, <2>1
<1>5. PICK out : out = gpu.output /\ out \in Seq(Seq(Byte)) /\ Whole(out) /\ Len(out) = MaxBatch * stride
  BY <1>1 DEF Buffers
<1>6. PICK n \in Nat : n = Len(batch) /\ DOMAIN batch = 1 .. n /\ n <= MaxBatch
  BY BatchIs
<1>7. MaxBatch \in Nat
  BY ProcessorAssumption
<1>8. PICK bytes : bytes = FlattenSeq(out)
  OBVIOUS
<1>9. ASSUME NEW i \in 1 .. n
      PROVE  /\ gpu.responses[i].flags = FALSE /\ gpu.responses[i].len \in 1 .. slot
             /\ \E parts : ShaderSays(router, batch[i], parts,
                              SubSeq(bytes, ((i - 1) * slot) + 1, ((i - 1) * slot) + gpu.responses[i].len))
  <2>1. Delivered(router, out, gpu.responses[i], (i - 1) * stride, batch[i])
    BY <1>1, <1>5, <1>6 DEF Dispatched
  <2>2. PICK parts, text, status :
           /\ ShaderSays(router, batch[i], parts, text) /\ Len(text) \in 1 .. Compile(router).maxBytes
           /\ gpu.responses[i] = [len |-> Len(text), status |-> status, flags |-> FALSE]
           /\ Lies(out, WordBytes * ((i - 1) * stride), text)
    BY <2>1 DEF Delivered
  <2>3. gpu.responses[i].flags = FALSE /\ gpu.responses[i].len = Len(text)
    BY <2>2
  <2>4. text \in Seq(Byte)
    BY <2>2 DEF ShaderSays
  <2>5. Len(text) \in 1 .. slot /\ Len(text) <= WordBytes * stride
    <3>1. Len(text) <= slot /\ Len(text) \in Nat /\ 1 <= Len(text)
      BY <1>2, <1>4, <2>2
    <3> QED BY <1>4, <3>1
  <2>6. i \in 1 .. MaxBatch
    BY <1>6, <1>7
  <2>7. PICK b \in Nat : b = (i - 1) * stride /\ b + stride <= Len(out)
    BY <1>5, <2>6, SlotIs
  <2>8. SubSeq(bytes, WordBytes * b + 1, WordBytes * b + Len(text)) = text
    BY <1>5, <1>8, <2>2, <2>4, <2>5, <2>7, SlotRead
  <2>9. WordBytes * b = (i - 1) * slot
    <3>1. PICK y \in Nat : y = i - 1
      OBVIOUS
    <3>2. W * (y * stride) = y * (W * stride)
      OBVIOUS
    <3> QED BY <1>3, <1>4, <2>7, <3>1, <3>2
  <2> QED BY <2>2, <2>3, <2>5, <2>8, <2>9
<1>10. PICK answers : answers = [i \in DOMAIN batch |->
           SubSeq(bytes, ((i - 1) * slot) + 1, ((i - 1) * slot) + gpu.responses[i].len)]
  OBVIOUS
<1>11. Decode = Ok(answers)
  <2>1. ~(\E i \in DOMAIN batch : gpu.responses[i].flags)
    BY <1>6, <1>9
  <2>2. ~(\E i \in DOMAIN batch : gpu.responses[i].len \notin 1 .. slot)
    BY <1>6, <1>9
  <2> QED BY <1>1, <1>4, <1>5, <1>8, <1>10, <2>1, <2>2 DEF Decode
<1>12. Decode.why = "none" /\ Decode.responses = answers
  BY <1>11 DEF Ok
<1>13. Len(answers) = n
  <2>1. DOMAIN answers = 1 .. n
    BY <1>6, <1>10
  <2>2. answers = [i \in 1 .. n |-> answers[i]]
    BY <1>6, <1>10
  <2>3. n \in Nat
    OBVIOUS
  <2> QED BY ONLY <2>2, <2>3
<1>14. \A i \in DOMAIN batch : \E parts : ShaderSays(router, batch[i], parts, answers[i])
  BY <1>6, <1>9, <1>10
<1> QED BY <1>6, <1>12, <1>13, <1>14 DEF Returned

\* What is read back are the responses of this batch.
LEMMA DeviceFinishes ==
    ASSUME Ground, Device, NEW outcome, NEW held, NEW unmapped, Finished(outcome, held, unmapped),
           outcome = Decode \/ outcome = Failed("map")
    PROVE  Device'
<1>1. /\ phase = "dispatched" /\ todo = {}
      /\ UNCHANGED <<router, app, backend, direct, gpu, batch, todo, left>>
  BY DEF Finished
<1>2. backend = "gpu" /\ backend' = "gpu"
  BY <1>1 DEF Ground
<1>3. Buffers(gpu, MaxBatch * Stride) /\ Dispatched
  BY <1>1, <1>2 DEF Device
<1>4. Buffers(gpu', MaxBatch * Stride')
  BY <1>1, <1>3 DEF Stride
<1>5. CASE outcome = Decode /\ result' = outcome /\ phase' = "done"
  <2>1. Decode.why = "none" /\ Returned(router, batch, Decode.responses)
    BY <1>1, <1>3, DecodedIs
  <2>2. result'.why = "none" /\ Returned(router', batch', result'.responses)
    BY <1>1, <1>5, <2>1
  <2> QED BY <1>1, <1>2, <1>4, <1>5, <2>2 DEF Device
<1>6. CASE outcome = Failed("map") /\ result' = outcome /\ phase' = "done"
  <2>1. result'.why = "map" /\ result'.ok = FALSE
    BY <1>6 DEF Failed
  <2> QED BY <1>1, <1>2, <1>4, <1>6, <2>1 DEF Device
<1>7. CASE phase' = "dead" /\ UNCHANGED result
  BY <1>1, <1>2, <1>4, <1>7 DEF Device
<1> QED BY <1>5, <1>6, <1>7 DEF Finished

\* Every action preserves the invariant of the device.
LEMMA DeviceNext == Ground /\ Device /\ [Next]_vars => Device'
<1> SUFFICES ASSUME Ground, Device, [Next]_vars PROVE Device'
  OBVIOUS
<1>1. ASSUME NEW choice \in {"cpu", "gpu", "auto"}, Create(choice) PROVE Device'
  BY <1>1, DeviceCreates
<1>2. ASSUME NEW requests \in Batches, CpuBatch(requests) PROVE Device'
  <2>1. backend = "cpu" /\ backend' = "cpu"
    BY <1>2 DEF CpuBatch
  <2>2. result'.why = "none"
    BY <1>2 DEF CpuBatch, Ok
  <2> QED BY <2>1, <2>2 DEF Device
<1>3. ASSUME NEW requests \in Batches, GpuBatch(requests) PROVE Device'
  BY <1>3, DeviceDispatches
<1>4. ASSUME NEW i \in 1 .. MaxBatch, Invoke(i) PROVE Device'
  BY <1>4, DeviceInvokes
<1>5. CASE ReadResponses
  BY <1>5, DeviceFinishes DEF ReadResponses
<1>6. CASE ReadbackFails
  BY <1>6, DeviceFinishes DEF ReadbackFails
<1>7. CASE DirectRead
  BY <1>7, DeviceFinishes DEF DirectRead
<1>11. CASE AbandonWait
  <2>1. /\ phase = "dispatched" /\ phase' = "done" /\ result' = Failed("wait")
        /\ UNCHANGED <<router, app, backend, gpu>>
    BY <1>11 DEF AbandonWait
  <2>2. result'.why = "wait" /\ result'.ok = FALSE
    BY <2>1 DEF Failed
  <2>3. Stride' = Stride
    BY <2>1 DEF Stride
  <2> QED BY <2>1, <2>2, <2>3 DEF Device
<1>8. CASE Return
  <2>1. /\ phase' = "idle" /\ result' = None
        /\ UNCHANGED <<router, app, backend, direct, gpu, mapped, abandoned, todo, left>>
    BY <1>8 DEF Return
  <2>2. result'.why = "none"
    BY <2>1 DEF None
  <2>3. Stride' = Stride
    BY <2>1 DEF Stride
  <2> QED BY <2>1, <2>2, <2>3 DEF Device
<1>9. CASE Die
  <2>1. phase' = "dead" /\ UNCHANGED <<router, app, backend, direct, gpu, mapped, abandoned, batch, todo, result, left>>
    BY <1>9 DEF Die
  <2>2. Stride' = Stride
    BY <2>1 DEF Stride
  <2> QED BY <2>1, <2>2 DEF Device
<1>10. CASE UNCHANGED vars
  BY <1>10 DEF vars, Device, Dispatched, Stride, Bindings
<1> QED BY <1>1, <1>2, <1>3, <1>4, <1>5, <1>6, <1>7, <1>8, <1>9, <1>10, <1>11 DEF Next

\* In every behaviour the buffers have their sizes, and the slots of the
\* invocations that have run hold the responses to the requests of this batch.
THEOREM DeviceHolds == Spec => [](Ground /\ Device)
<1>1. Init => Ground /\ Device
  BY GroundInit, DeviceInit
<1>2. (Ground /\ Device) /\ [Next]_vars => (Ground /\ Device)'
  BY GroundNext, DeviceNext
<1> QED BY <1>1, <1>2, PTL DEF Spec

\* The slot the compiler computes is large enough for every request: no batch
\* fails for an overflow in the shader or a response length out of range.
THEOREM SlotsSuffice == Spec => []SlotSuffices
<1>1. Ground /\ Device => SlotSuffices
  BY DEF Device, SlotSuffices
<1> QED BY <1>1, DeviceHolds, PTL

-----------------------------------------------------------------------------
(* What the shader says of a request is what the router promises.          *)

\* The compiler has looked at every response.
LEMMA ResponsesValid ==
    ASSUME NEW R \in RouterDeclaration, Compiles(R), NEW k \in 1 .. Len(Responses(R))
    PROVE  ValidResponse(Responses(R)[k])
<1>1. PICK n \in Nat : n = Len(R.routes) /\ DOMAIN R.routes = 1 .. n
  BY RouterIs
<1>2. /\ Len(Responses(R)) = n + 3
      /\ \A i \in 1 .. n : R.routes[i].response = Responses(R)[i]
      /\ R.fallback = Responses(R)[n + 1] /\ R.bad = Responses(R)[n + 2] /\ R.notAllowed = Responses(R)[n + 3]
  BY <1>1, ResponsesAre
<1>3. k \in 1 .. n \/ k = n + 1 \/ k = n + 2 \/ k = n + 3
  BY <1>1, <1>2
<1>4. CASE k \in 1 .. n
  BY <1>1, <1>2, <1>4 DEF Compiles
<1>5. CASE k = n + 1 \/ k = n + 2 \/ k = n + 3
  BY <1>2, <1>5 DEF Compiles
<1> QED BY <1>3, <1>4, <1>5

\* Any other text of the table is sent as it is declared.
LEMMA TextSent ==
    ASSUME NEW t, NEW x, Knows(t, x), Knows(t, TailReserved), x # TailReserved
    PROVE  TextOf(t, Id(t, x)) = x
  BY DEF Knows, TextOf

\* The compiled response to a request is that of the declared one.
LEMMA ChosenIs ==
    ASSUME NEW R \in RouterDeclaration, Compiles(R), NEW parts \in PartsSet,
           parts.kind = "get" => parts.hash = Hash(parts.path)
    PROVE  Chosen(Compile(R), parts) = CompileResponse(StringTable(R), Declared(R, parts))
<1>1. parts.kind \in {"bad", "not_allowed", "get"}
  BY DEF PartsSet
<1>2. CASE parts.kind = "get"
  <2>1. Chosen(Compile(R), parts) = FindRoute(Compile(R), parts)
    BY <1>2 DEF Chosen
  <2> QED BY <1>2, <2>1, RouteFound
<1>3. CASE parts.kind = "bad"
  <2>1. Chosen(Compile(R), parts) = Compile(R).bad
    BY <1>3 DEF Chosen
  <2>2. Declared(R, parts) = R.bad
    BY <1>3 DEF Declared
  <2> QED BY <2>1, <2>2, CompiledIs
<1>4. CASE parts.kind = "not_allowed"
  <2>1. Chosen(Compile(R), parts) = Compile(R).notAllowed
    BY <1>4 DEF Chosen
  <2>2. Declared(R, parts) = R.notAllowed
    BY <1>4 DEF Declared
  <2> QED BY <2>1, <2>2, CompiledIs
<1> QED BY <1>1, <1>2, <1>3, <1>4

\* The shader says of a compiled response what was declared.
LEMMA ShaderRenders ==
    ASSUME NEW r \in ResponseDeclaration, NEW t \in Seq(Seq(Byte)), Speaks(t, r),
           Knows(t, TailReserved), ValidResponse(r), Unreserved(r), NEW parts \in PartsSet, NEW len \in Nat
    PROVE  SaysAll(t, CompileResponse(t, r), parts, len)
              = BuildResponse(r.status, r.reason, r.contentType, SayAll(r.calls, parts, len, "gpu"), "gpu")
<1>1. PICK body \in Seq(Call) : body = Body(r.calls)
  BY ResponseIs
<1>2. PICK n \in Nat : n = Len(body) /\ DOMAIN body = 1 .. n /\ \A k \in 1 .. n : body[k] \in Call
  BY <1>1
<1>3. PICK c : c = CompileResponse(t, r)
  OBVIOUS
<1>4. /\ c.status = r.status /\ c.reason = Id(t, r.reason) /\ c.contentType = Id(t, r.contentType)
      /\ Len(c.segments) = n
      /\ \A k \in 1 .. n : /\ c.segments[k].op = body[k].op /\ c.segments[k].n = body[k].n
                           /\ c.segments[k].gpu = Id(t, body[k].gpu)
  BY <1>1, <1>2, <1>3, CompiledTypes
<1>5. TextOf(t, c.reason) = r.reason /\ TextOf(t, c.contentType) = r.contentType
  <2>1. Knows(t, r.reason) /\ Knows(t, r.contentType)
    BY DEF Speaks
  <2>2. r.reason # TailReserved /\ r.contentType # TailReserved
    <3>1. r.reason \in Seq(Byte) /\ r.contentType \in Seq(Byte)
      BY DEF ResponseDeclaration
    <3> QED BY <3>1, PrintableSent DEF ValidResponse
  <2> QED BY <1>4, <2>1, <2>2, TextSent
<1>6. ASSUME NEW k \in 1 .. n PROVE Says(t, c.segments[k], parts, len) = Piece(body[k], parts, len, "gpu")
  <2>1. PICK call \in Call : call = body[k]
    BY <1>2
  <2>2. PICK seg : seg = c.segments[k]
    OBVIOUS
  <2>3. seg.op = call.op /\ seg.n = call.n /\ seg.gpu = Id(t, call.gpu)
    BY <1>4, <2>1, <2>2
  <2>4. Worded(call) => TextOf(t, seg.gpu) = call.gpu
    <3>1. Worded(call) => Knows(t, call.gpu) /\ call.gpu # TailReserved
      BY <1>1, <1>2, <2>1 DEF Speaks, Unreserved
    <3> QED BY <2>3, <3>1, TextSent
  <2>5. Says(t, seg, parts, len) = Piece(call, parts, len, "gpu")
    <3>1. CASE Worded(call)
      <4>1. Says(t, seg, parts, len) = TextOf(t, seg.gpu)
        BY <2>3, <3>1 DEF Says, Said, Worded
      <4>2. Piece(call, parts, len, "gpu") = call.gpu
        BY <3>1 DEF Piece, Said, Worded, Wording
      <4> QED BY <2>4, <3>1, <4>1, <4>2
    <3>2. CASE ~Worded(call)
      BY <2>1, <2>3, <3>2, CallIs DEF Says, Said, Piece, Worded
    <3> QED BY <3>1, <3>2
  <2> QED BY <2>1, <2>2, <2>5
<1>7. [k \in 1 .. Len(c.segments) |-> Says(t, c.segments[k], parts, len)] = Pieces(body, parts, len, "gpu")
  <2>1. Pieces(body, parts, len, "gpu") = [k \in 1 .. n |-> Piece(body[k], parts, len, "gpu")]
    BY <1>2 DEF Pieces
  <2>2. [k \in 1 .. n |-> Says(t, c.segments[k], parts, len)] = [k \in 1 .. n |-> Piece(body[k], parts, len, "gpu")]
    BY <1>6, Zenon
  <2> QED BY <1>4, <2>1, <2>2
<1>8. SaysBody(t, c, parts, len) = SayAll(body, parts, len, "gpu")
  BY <1>7, Zenon DEF SaysBody, SayAll
<1>9. SayAll(body, parts, len, "gpu") = SayAll(r.calls, parts, len, "gpu")
  BY <1>1, SayBody, ResponseIs
<1> QED BY <1>3, <1>4, <1>5, <1>8, <1>9 DEF SaysAll

\* A request that is taken for what it is gets the promised answer.
LEMMA TakenAnswers ==
    ASSUME NEW R \in RouterDeclaration, Compiles(R), NEW s \in Seq(Byte), NEW parts, NEW text,
           ShaderSays(R, s, parts, text), parts = ParseRequest(s), Unreserved(Declared(R, parts))
    PROVE  text = Promised(R, s, "gpu")
<1>1. PICK t, d : t = StringTable(R) /\ d = Declared(R, parts)
  OBVIOUS
<1>2. parts \in PartsSet /\ (parts.kind = "get" => parts.hash = Hash(parts.path))
  BY ParseTypes
<1>3. d \in ResponseDeclaration /\ Speaks(t, d)
  BY <1>1, <1>2, DeclaredIs
<1>4. t \in Seq(Seq(Byte)) /\ Knows(t, TailReserved)
  <2>1. TailReserved \in Fixed
    BY DEF Fixed
  <2> QED BY <1>1, <2>1, TableSpeaks
<1>5. ValidResponse(d)
  <2>1. PICK k \in 1 .. Len(Responses(R)) : d = Responses(R)[k]
    BY <1>1, <1>2, DeclaredAmong
  <2> QED BY <2>1, ResponsesValid
<1>6. PICK len \in Nat : len = Len(s)
  OBVIOUS
<1>7. text = SaysAll(t, Chosen(Compile(R), parts), parts, len)
  BY <1>1, <1>6 DEF ShaderSays
<1>8. Chosen(Compile(R), parts) = CompileResponse(t, d)
  BY <1>1, <1>2, ChosenIs
<1>9. Unreserved(d)
  BY <1>1
<1>10. text = BuildResponse(d.status, d.reason, d.contentType, SayAll(d.calls, parts, len, "gpu"), "gpu")
  BY <1>2, <1>3, <1>4, <1>5, <1>7, <1>8, <1>9, ShaderRenders
<1> QED BY <1>1, <1>6, <1>10, PromisedIs

-----------------------------------------------------------------------------
(* parse_request, in terms of the places of a line feed and two spaces.    *)

\* The place of the first x in s, or 0.
FirstAt(s, x, k) ==
    \/ k = 0 /\ \A j \in 1 .. Len(s) : s[j] # x
    \/ k \in 1 .. Len(s) /\ s[k] = x /\ \A j \in 1 .. k - 1 : s[j] # x

\* An id is the place of the first.
LEMMA IdIsFirst ==
    ASSUME NEW A, NEW s \in Seq(A), NEW x
    PROVE  FirstAt(s, x, Id(s, x))
<1> DEFINE I == {i \in 1 .. Len(s) : s[i] = x}
<1>1. PICK n \in Nat : n = Len(s)
  OBVIOUS
<1>2. Id(s, x) = IF I # {} THEN Min(I) ELSE 0
  BY Zenon DEF Id, SelectInSeq
<1>3. I # {} => Min(I) \in I /\ \A y \in I : Min(I) <= y
  <2>1. I \subseteq Nat
    BY <1>1
  <2> HIDE DEF I
  <2> QED BY <2>1, MinOf
<1>4. CASE I = {}
  <2>1. Id(s, x) = 0
    BY <1>2, <1>4
  <2> QED BY <1>4, <2>1 DEF FirstAt
<1>5. CASE I # {}
  <2>1. PICK k : k = Id(s, x) /\ k \in I /\ \A y \in I : k <= y
    BY <1>2, <1>3, <1>5
  <2>2. k \in 1 .. n /\ s[k] = x
    BY <1>1, <2>1
  <2>3. ASSUME NEW j \in 1 .. k - 1 PROVE s[j] # x
    <3>1. j \in 1 .. n /\ j < k
      BY <1>1, <2>2
    <3> QED BY <1>1, <2>1, <3>1
  <2> QED BY <1>1, <2>1, <2>2, <2>3 DEF FirstAt
<1> QED BY <1>4, <1>5

\* There is one first place.
LEMMA FirstIsOne ==
    ASSUME NEW s, Len(s) \in Nat, NEW x, NEW j, NEW k, FirstAt(s, x, j), FirstAt(s, x, k)
    PROVE  j = k
  BY DEF FirstAt

\* A line without its carriage return.
Stripped(raw) == IF raw # <<>> /\ Last(raw) = CR THEN Front(raw) ELSE raw

\* Path and query of a target.
TargetPath(target) ==
    IF Id(target, Question) = 0 THEN target ELSE SubSeq(target, 1, Id(target, Question) - 1)
TargetQuery(target) ==
    IF Id(target, Question) = 0 THEN <<>> ELSE SubSeq(target, Id(target, Question) + 1, Len(target))

\* The steps of parse_request.
Stages(s, end, line, spaces, target, path, query) ==
    /\ end = Id(s, LF) /\ line = Stripped(SubSeq(s, 1, end - 1))
    /\ spaces = {i \in DOMAIN line : line[i] = SP}
    /\ target = SubSeq(line, Min(spaces) + 1, Max(spaces) - 1)
    /\ path = TargetPath(target) /\ query = TargetQuery(target)

Outcome(end, line, spaces, target, path, query) ==
    IF end = 0 \/ Cardinality(spaces) # 2 THEN Nothing("bad")
    ELSE IF SubSeq(line, 1, Min(spaces) - 1) # Get THEN Nothing("not_allowed")
    ELSE IF \/ SubSeq(line, Max(spaces) + 1, Len(line)) \notin Versions
            \/ target = <<>> \/ Head(target) # Slash \/ path = <<>>
         THEN Nothing("bad")
    ELSE Parts("get", path, query, Hash(path))

\* parse_request takes these steps.
LEMMA StagesAre ==
    ASSUME NEW s
    PROVE  \E end, line, spaces, target, path, query :
              /\ Stages(s, end, line, spaces, target, path, query)
              /\ ParseRequest(s) = Outcome(end, line, spaces, target, path, query)
<1> DEFINE end == Id(s, LF)
           line == Stripped(SubSeq(s, 1, end - 1))
           spaces == {i \in DOMAIN line : line[i] = SP}
           target == SubSeq(line, Min(spaces) + 1, Max(spaces) - 1)
           path == TargetPath(target)
           query == TargetQuery(target)
<1>1. ParseRequest(s) = Outcome(end, line, spaces, target, path, query)
  BY Zenon DEF ParseRequest, Outcome, Id, Stripped, Nothing, TargetPath, TargetQuery
<1>2. Stages(s, end, line, spaces, target, path, query)
  BY Zenon DEF Stages
<1> HIDE DEF end, line, spaces, target, path, query
<1> QED BY <1>1, <1>2

\* The first line of s ends before byte end, and has L bytes.
LineOf(s, end, L) ==
    /\ end \in 1 .. Len(s) /\ FirstAt(s, LF, end)
    /\ L = IF end > 1 /\ s[end - 1] = CR THEN end - 2 ELSE end - 1

\* The line, without its end.
LEMMA LineIs ==
    ASSUME NEW s \in Seq(Byte), NEW end, NEW L, LineOf(s, end, L)
    PROVE  L \in Nat /\ L < end /\ end <= Len(s) /\ IsPart(Stripped(SubSeq(s, 1, end - 1)), s, 0, L, Byte)
<1>1. PICK n \in Nat : n = Len(s)
  OBVIOUS
<1>2. end \in 1 .. n /\ L = IF end > 1 /\ s[end - 1] = CR THEN end - 2 ELSE end - 1
  BY <1>1 DEF LineOf
<1>3. PICK m \in Nat : m = end - 1 /\ m <= n
  BY <1>2
<1>4. PICK raw : raw = SubSeq(s, 1, end - 1)
  OBVIOUS
<1>5. raw \in Seq(Byte) /\ Len(raw) = m /\ \A k \in 1 .. m : raw[k] = s[k]
  <2>1. IsPart(SubSeq(s, 0 + 1, m), s, 0, m, Byte)
    BY <1>1, <1>3, PartIs
  <2>2. SubSeq(s, 0 + 1, m) = raw
    BY <1>3, <1>4
  <2> QED BY <2>1, <2>2 DEF IsPart
<1>6. CASE m = 0
  <2>1. raw = <<>> /\ L = 0
    BY <1>2, <1>3, <1>5, <1>6
  <2>2. Stripped(raw) = raw
    BY <2>1 DEF Stripped
  <2> QED BY <1>1, <1>2, <1>3, <1>4, <1>5, <1>6, <2>1, <2>2 DEF IsPart
<1>7. CASE m > 0
  <2>1. raw # <<>> /\ Last(raw) = s[end - 1]
    BY <1>3, <1>5, <1>7 DEF Last
  <2>2. CASE s[end - 1] = CR
    <3>1. Stripped(raw) = Front(raw) /\ L = m - 1
      BY <1>2, <1>3, <1>7, <2>1, <2>2 DEF Stripped
    <3>2. Front(raw) \in Seq(Byte) /\ Len(Front(raw)) = m - 1 /\ \A k \in 1 .. m - 1 : Front(raw)[k] = raw[k]
      <4>1. PICK w \in Nat : w = m - 1 /\ w <= Len(raw)
        BY <1>5, <1>7
      <4>2. IsPart(SubSeq(raw, 0 + 1, w), raw, 0, w, Byte)
        BY <1>5, <4>1, PartIs
      <4>3. Front(raw) = SubSeq(raw, 0 + 1, w)
        BY <1>5, <4>1 DEF Front
      <4> QED BY <4>1, <4>2, <4>3 DEF IsPart
    <3> QED BY <1>1, <1>2, <1>3, <1>4, <1>5, <1>7, <3>1, <3>2 DEF IsPart
  <2>3. CASE s[end - 1] # CR
    <3>1. Stripped(raw) = raw /\ L = m
      BY <1>2, <1>3, <1>7, <2>1, <2>3 DEF Stripped
    <3>2. IsPart(raw, s, 0, L, Byte)
      BY <1>5, <3>1 DEF IsPart
    <3>3. L \in Nat /\ L < end /\ end <= Len(s)
      BY <1>1, <1>2, <1>3, <3>1
    <3> QED BY <1>4, <3>1, <3>2, <3>3
  <2> QED BY <2>2, <2>3
<1>8. m = 0 \/ m > 0
  BY ONLY m \in Nat
<1> QED BY <1>6, <1>7, <1>8

\* The spaces of the first L bytes of s are at a and b.
SpacesAt(s, L, a, b) ==
    /\ a \in 1 .. L /\ b \in 1 .. L /\ a < b /\ s[a] = SP /\ s[b] = SP
    /\ \A j \in 1 .. L : s[j] = SP => j = a \/ j = b

\* The least and the greatest of two numbers.
LEMMA PairEnds ==
    ASSUME NEW a \in Nat, NEW b \in Nat, a < b
    PROVE  Cardinality({a, b}) = 2 /\ Min({a, b}) = a /\ Max({a, b}) = b
<1>1. Cardinality({a, b}) = 2
  <2>1. IsFiniteSet({a}) /\ Cardinality({a}) = 1
    BY FS_Singleton
  <2>2. Cardinality({a} \cup {b}) = Cardinality({a}) + 1
    <3>1. b \notin {a}
      OBVIOUS
    <3> QED BY <2>1, <3>1, FS_AddElement
  <2>3. {a} \cup {b} = {a, b}
    OBVIOUS
  <2> QED BY <2>1, <2>2, <2>3
<1>2. Min({a, b}) = a
  <2>1. {a, b} \subseteq Int /\ a \in {a, b} /\ \A y \in {a, b} : a <= y
    OBVIOUS
  <2> QED BY <2>1, MinIs
<1>3. Max({a, b}) = b
  <2>1. {a, b} \in SUBSET (0 .. b) /\ {a, b} # {}
    OBVIOUS
  <2>2. Max({a, b}) \in {a, b} /\ \A y \in {a, b} : Max({a, b}) >= y
    BY <2>1, MaxOf
  <2>3. PICK x : x = Max({a, b})
    OBVIOUS
  <2>4. x \in {a, b} /\ x >= b
    BY <2>2, <2>3
  <2> QED BY <2>3, <2>4
<1> QED BY <1>1, <1>2, <1>3

\* Two numbers, the smaller first.
LEMMA TwoNumbers ==
    ASSUME NEW N \in Nat, NEW S \in SUBSET (1 .. N), Cardinality(S) = 2
    PROVE  \E a, b \in 1 .. N : a < b /\ S = {a, b}
<1>1. IsFiniteSet(S)
  <2>1. IsFiniteSet(1 .. N)
    BY FS_Interval
  <2> QED BY <2>1, FS_Subset
<1>2. S # {}
  <2>1. Cardinality({}) = 0
    BY FS_EmptySet
  <2> QED BY <2>1
<1>3. PICK x : x \in S
  BY <1>2
<1>4. IsFiniteSet(S \ {x}) /\ Cardinality(S \ {x}) = 1
  <2>1. IsFiniteSet(S \ {x}) /\ Cardinality(S \ {x}) = IF x \in S THEN Cardinality(S) - 1 ELSE Cardinality(S)
    BY <1>1, FS_RemoveElement
  <2> QED BY <1>3, <2>1
<1>5. PICK y : S \ {x} = {y}
  BY <1>4, FS_Singleton
<1>6. S = {x, y} /\ x # y
  BY <1>3, <1>5
<1>7. x \in 1 .. N /\ y \in 1 .. N
  BY <1>6
<1>8. x < y \/ y < x
  BY <1>6, <1>7
<1> QED BY <1>6, <1>7, <1>8

\* The spaces of a line.
LEMMA SpacesAre ==
    ASSUME NEW s, NEW L \in Nat, NEW line, IsPart(line, s, 0, L, Byte),
           NEW spaces, spaces = {i \in DOMAIN line : line[i] = SP}
    PROVE  /\ Cardinality(spaces) = 2 => \E a, b : SpacesAt(s, L, a, b)
           /\ \A a, b : SpacesAt(s, L, a, b) =>
                 Cardinality(spaces) = 2 /\ Min(spaces) = a /\ Max(spaces) = b
<1>1. DOMAIN line = 1 .. L /\ \A j \in 1 .. L : line[j] = s[j]
  <2>1. line \in Seq(Byte) /\ Len(line) = L - 0 /\ \A k \in 1 .. L - 0 : line[k] = s[0 + k]
    BY DEF IsPart
  <2>2. L - 0 = L /\ \A k \in 1 .. L : 0 + k = k
    OBVIOUS
  <2> QED BY <2>1, <2>2
<1>2. spaces = {j \in 1 .. L : s[j] = SP}
  BY <1>1
<1>3. ASSUME Cardinality(spaces) = 2 PROVE \E a, b : SpacesAt(s, L, a, b)
  <2>1. spaces \in SUBSET (1 .. L)
    BY <1>2
  <2>2. PICK a, b \in 1 .. L : a < b /\ spaces = {a, b}
    BY <1>3, <2>1, TwoNumbers
  <2>3. s[a] = SP /\ s[b] = SP /\ \A j \in 1 .. L : s[j] = SP => j = a \/ j = b
    BY <1>2, <2>2
  <2> QED BY <2>2, <2>3 DEF SpacesAt
<1>4. ASSUME NEW a, NEW b, SpacesAt(s, L, a, b)
      PROVE  Cardinality(spaces) = 2 /\ Min(spaces) = a /\ Max(spaces) = b
  <2>1. a \in 1 .. L /\ b \in 1 .. L /\ a < b
    BY <1>4 DEF SpacesAt
  <2>2. spaces = {a, b}
    BY <1>2, <1>4 DEF SpacesAt
  <2>3. a \in Nat /\ b \in Nat
    BY <2>1
  <2> QED BY <2>1, <2>2, <2>3, PairEnds
<1> QED BY <1>3, <1>4

\* Where a request has a first line with two spaces in it.
Split(s, end, L, a, b) == LineOf(s, end, L) /\ SpacesAt(s, L, a, b)

\* Without it a request is malformed.
LEMMA UnsplitIsBad ==
    ASSUME NEW s \in Seq(Byte), ~(\E end, L, a, b : Split(s, end, L, a, b))
    PROVE  ParseRequest(s) = Nothing("bad")
<1>1. PICK end, line, spaces, target, path, query :
         /\ Stages(s, end, line, spaces, target, path, query)
         /\ ParseRequest(s) = Outcome(end, line, spaces, target, path, query)
  BY StagesAre
<1>2. CASE end = 0
  BY <1>1, <1>2 DEF Outcome
<1>3. CASE end # 0
  <2>1. FirstAt(s, LF, end) /\ line = Stripped(SubSeq(s, 1, end - 1))
    BY <1>1, IdIsFirst DEF Stages
  <2>2. end \in 1 .. Len(s)
    BY <1>3, <2>1 DEF FirstAt
  <2>3. PICK L : L = IF end > 1 /\ s[end - 1] = CR THEN end - 2 ELSE end - 1
    OBVIOUS
  <2>4. LineOf(s, end, L)
    BY <2>1, <2>2, <2>3 DEF LineOf
  <2>5. L \in Nat /\ IsPart(line, s, 0, L, Byte)
    BY <2>1, <2>4, LineIs
  <2>6. Cardinality(spaces) # 2
    <3>1. ~(\E a, b : SpacesAt(s, L, a, b))
      BY <2>4 DEF Split
    <3>2. spaces = {i \in DOMAIN line : line[i] = SP}
      BY <1>1 DEF Stages
    <3> QED BY <2>5, <3>1, <3>2, SpacesAre
  <2> QED BY <1>1, <2>6 DEF Outcome
<1> QED BY <1>2, <1>3

\* The path of a target between a and b ends before m.
PathTo(s, a, b, m) ==
    /\ m \in a + 1 .. b
    /\ m < b => s[m] = Question
    /\ \A k \in a + 1 .. m - 1 : s[k] # Question

QueryOf(s, b, m) == IF m = b THEN <<>> ELSE SubSeq(s, m + 1, b - 1)

\* A part of a part.
CutOf(u, s, a, c, d) == SubSeq(u, c + 1, d) = SubSeq(s, (a + c) + 1, a + d)

\* A part of a part is a part of the whole.
LEMMA PartOfPart ==
    ASSUME NEW s \in Seq(Byte), NEW a \in Nat, NEW b \in Nat, a <= b, b <= Len(s), NEW u, IsPart(u, s, a, b, Byte),
           NEW c \in Nat, NEW d \in Nat, c <= d, d <= b - a
    PROVE  CutOf(u, s, a, c, d)
<1>1. u \in Seq(Byte) /\ Len(u) = b - a /\ \A k \in 1 .. b - a : u[k] = s[a + k]
  BY DEF IsPart
<1>2. PICK x, y : x = SubSeq(u, c + 1, d) /\ y = SubSeq(s, (a + c) + 1, a + d)
  OBVIOUS
<1>3. x \in Seq(Byte) /\ Len(x) = d - c /\ \A k \in 1 .. d - c : x[k] = u[c + k]
  <2>1. IsPart(SubSeq(u, c + 1, d), u, c, d, Byte)
    BY <1>1, PartIs
  <2> QED BY <1>2, <2>1 DEF IsPart
<1>4. y \in Seq(Byte) /\ Len(y) = d - c /\ \A k \in 1 .. d - c : y[k] = s[a + (c + k)]
  <2>1. PICK p, q \in Nat : p = a + c /\ q = a + d /\ p <= q /\ q <= Len(s)
    OBVIOUS
  <2>2. IsPart(SubSeq(s, p + 1, q), s, p, q, Byte)
    BY <2>1, PartIs
  <2>3. y \in Seq(Byte) /\ Len(y) = q - p /\ \A k \in 1 .. q - p : y[k] = s[p + k]
    BY <1>2, <2>1, <2>2 DEF IsPart
  <2>4. q - p = d - c /\ \A k \in 1 .. d - c : p + k = a + (c + k)
    BY <2>1
  <2> QED BY <2>3, <2>4
<1>5. \A k \in 1 .. d - c : x[k] = y[k]
  <2> TAKE k \in 1 .. d - c
  <2>1. c + k \in 1 .. b - a
    OBVIOUS
  <2> QED BY <1>1, <1>3, <1>4, <2>1
<1>6. x = y
  BY <1>3, <1>4, <1>5, SameString
<1> QED BY <1>2, <1>6 DEF CutOf

\* The path ends at the first question mark, or with the target.
LEMMA PathIs ==
    ASSUME NEW s \in Seq(Byte), NEW a \in Nat, NEW b \in Nat, a < b, b <= Len(s),
           NEW target, IsPart(target, s, a, b - 1, Byte)
    PROVE  \E m : /\ PathTo(s, a, b, m) /\ TargetPath(target) = SubSeq(s, a + 1, m - 1)
                  /\ TargetQuery(target) = QueryOf(s, b, m)
<1> DEFINE path == TargetPath(target)
           query == TargetQuery(target)
<1>0. /\ path = (IF Id(target, Question) = 0 THEN target ELSE SubSeq(target, 1, Id(target, Question) - 1))
      /\ query = (IF Id(target, Question) = 0 THEN <<>>
                  ELSE SubSeq(target, Id(target, Question) + 1, Len(target)))
  BY Zenon DEF TargetPath, TargetQuery
<1> HIDE DEF path, query
<1>1. PICK e \in Nat : e = b - 1 /\ a <= e /\ e <= Len(s)
  OBVIOUS
<1>2. target \in Seq(Byte) /\ Len(target) = e - a /\ \A k \in 1 .. e - a : target[k] = s[a + k]
  BY <1>1 DEF IsPart
<1>3. PICK mark : mark = Id(target, Question) /\ FirstAt(target, Question, mark)
  BY <1>2, IdIsFirst
<1>4. IsPart(target, s, a, e, Byte)
  BY <1>1
<1>5. CASE mark = 0
  <2>1. \A k \in 1 .. e - a : s[a + k] # Question
    <3>1. \A j \in 1 .. Len(target) : target[j] # Question
      BY <1>3, <1>5 DEF FirstAt
    <3> QED BY <1>2, <3>1
  <2>2. \A k \in a + 1 .. b - 1 : s[k] # Question
    <3> TAKE k \in a + 1 .. b - 1
    <3>1. k - a \in 1 .. e - a /\ a + (k - a) = k
      BY <1>1
    <3> QED BY <2>1, <3>1
  <2>3. PathTo(s, a, b, b)
    BY <2>2 DEF PathTo
  <2>4. query = QueryOf(s, b, b)
    BY <1>0, <1>3, <1>5 DEF QueryOf
  <2>5. path = SubSeq(s, a + 1, b - 1)
    <3>1. IsPart(SubSeq(s, a + 1, e), s, a, e, Byte)
      BY <1>1, PartIs
    <3>2. PICK u : u = SubSeq(s, a + 1, e) /\ u \in Seq(Byte) /\ Len(u) = e - a /\ \A k \in 1 .. e - a : u[k] = s[a + k]
      BY <3>1 DEF IsPart
    <3>3. target = u
      BY <1>2, <3>2, SameString
    <3> QED BY <1>0, <1>1, <1>3, <1>5, <3>2, <3>3
  <2> QED BY <2>3, <2>4, <2>5 DEF path, query
<1>6. CASE mark # 0
  <2>1. mark \in 1 .. e - a /\ target[mark] = Question /\ \A j \in 1 .. mark - 1 : target[j] # Question
    BY <1>2, <1>3, <1>6 DEF FirstAt
  <2>2. PICK m \in Nat : m = a + mark
    BY <2>1
  <2>3. m \in a + 1 .. e /\ s[m] = Question
    BY <1>1, <1>2, <2>1, <2>2
  <2>4. \A k \in a + 1 .. m - 1 : s[k] # Question
    <3> TAKE k \in a + 1 .. m - 1
    <3>1. k - a \in 1 .. mark - 1 /\ a + (k - a) = k /\ k - a \in 1 .. e - a
      BY <2>1, <2>2
    <3> QED BY <1>2, <2>1, <3>1
  <2>5. PathTo(s, a, b, m) /\ m # b
    BY <1>1, <2>3, <2>4 DEF PathTo
  <2>6. path = SubSeq(s, a + 1, m - 1)
    <3>1. PICK d \in Nat : d = mark - 1 /\ 0 <= d /\ d <= e - a
      BY <2>1
    <3>2. PICK c \in Nat : c = 0 /\ c <= d
      BY <3>1
    <3>3. SubSeq(target, c + 1, d) = SubSeq(s, (a + c) + 1, a + d)
      <4>1. a \in Nat /\ e \in Nat /\ a <= e /\ e <= Len(s) /\ c <= d /\ d <= e - a /\ c \in Nat /\ d \in Nat
        BY <1>1, <3>1, <3>2
      <4>2. s \in Seq(Byte)
        OBVIOUS
      <4>3. CutOf(target, s, a, c, d)
        BY ONLY <1>4, <4>1, <4>2, PartOfPart
      <4> QED BY ONLY <4>3, Zenon DEF CutOf
    <3>4. a + d = m - 1 /\ (a + c) + 1 = a + 1 /\ c + 1 = 1
      BY <2>1, <2>2, <3>1, <3>2
    <3>5. SubSeq(target, 1, d) = SubSeq(s, a + 1, m - 1)
      BY ONLY <3>3, <3>4
    <3> QED BY <1>0, <1>3, <1>6, <3>1, <3>5
  <2>7. query = QueryOf(s, b, m)
    <3>1. PICK d \in Nat : d = e - a /\ mark <= d
      BY <1>1, <2>1
    <3>2. SubSeq(target, mark + 1, d) = SubSeq(s, (a + mark) + 1, a + d)
      <4>1. /\ a \in Nat /\ e \in Nat /\ a <= e /\ e <= Len(s) /\ mark <= d /\ d <= e - a
            /\ mark \in Nat /\ d \in Nat
        BY <1>1, <2>1, <3>1
      <4>2. s \in Seq(Byte)
        OBVIOUS
      <4>3. CutOf(target, s, a, mark, d)
        BY ONLY <1>4, <4>1, <4>2, PartOfPart
      <4> QED BY ONLY <4>3, Zenon DEF CutOf
    <3>3. a + d = b - 1 /\ (a + mark) + 1 = m + 1 /\ Len(target) = d
      BY <1>1, <1>2, <2>2, <3>1
    <3> QED BY <1>0, <1>3, <1>6, <2>5, <3>2, <3>3 DEF QueryOf
  <2> QED BY <2>5, <2>6, <2>7 DEF path, query
<1> QED BY <1>5, <1>6 DEF path, query

\* It ends in one place.
LEMMA PathIsOne ==
    ASSUME NEW s, NEW a \in Nat, NEW b \in Nat, NEW m, NEW p, PathTo(s, a, b, m), PathTo(s, a, b, p)
    PROVE  m = p
<1>1. /\ m \in a + 1 .. b
      /\ m < b => s[m] = Question
      /\ \A k \in a + 1 .. m - 1 : s[k] # Question
  BY DEF PathTo
<1>2. /\ p \in a + 1 .. b
      /\ p < b => s[p] = Question
      /\ \A k \in a + 1 .. p - 1 : s[k] # Question
  BY DEF PathTo
<1>3. CASE m < p
  <2>1. m \in a + 1 .. p - 1 /\ m < b
    BY <1>1, <1>2, <1>3
  <2> QED BY <1>1, <1>2, <2>1
<1>4. CASE p < m
  <2>1. p \in a + 1 .. m - 1 /\ p < b
    BY <1>1, <1>2, <1>4
  <2> QED BY <1>1, <1>2, <2>1
<1>5. m < p \/ p < m \/ m = p
  BY <1>1, <1>2
<1> QED BY <1>3, <1>4, <1>5

Single(u, s, a, b, x) == u = <<x>> <=> b = a + 1 /\ s[a + 1] = x

\* A part of one byte.
LEMMA OneByte ==
    ASSUME NEW u, NEW s, NEW a \in Nat, NEW b \in Nat, a <= b, IsPart(u, s, a, b, Byte), NEW x
    PROVE  Single(u, s, a, b, x)
<1>1. u \in Seq(Byte) /\ Len(u) = b - a /\ \A k \in 1 .. b - a : u[k] = s[a + k]
  BY DEF IsPart
<1>2. ASSUME u = <<x>> PROVE b = a + 1 /\ s[a + 1] = x
  <2>1. Len(u) = 1 /\ u[1] = x
    BY <1>2
  <2>2. PICK n \in Nat : n = b - a /\ b = a + n
    OBVIOUS
  <2>3. n = 1
    BY <1>1, <2>1, <2>2
  <2>4. b - a = 1 /\ 1 \in 1 .. b - a /\ b = a + 1
    BY <2>2, <2>3
  <2> QED BY <1>1, <2>1, <2>4
<1>3. ASSUME b = a + 1, s[a + 1] = x PROVE u = <<x>>
  <2>1. b - a = 1 /\ 1 \in 1 .. b - a
    BY <1>3
  <2>2. Len(u) = 1 /\ u[1] = x /\ u \in Seq(Byte)
    BY <1>1, <1>3, <2>1
  <2>3. x \in Byte
    BY <2>2
  <2>4. <<x>> \in Seq(Byte) /\ Len(<<x>>) = 1 /\ <<x>>[1] = x
    BY <2>3
  <2>5. Len(u) = Len(<<x>>) /\ \A k \in 1 .. Len(<<x>>) : u[k] = <<x>>[k]
    BY <2>2, <2>4
  <2> QED BY <2>2, <2>4, <2>5, SameString
<1> QED BY <1>2, <1>3 DEF Single

\* The method of a request whose first space is at a.
MethodAt(s, a) == a = 2 /\ s[1] = 71

\* The rest of a line with its spaces at a and b is as it should be.
Proper(s, L, a, b, m) ==
    /\ L = b + 1 /\ <<s[L]>> \in Versions /\ s[a + 1] = Slash
    /\ PathTo(s, a, b, m) /\ m > a + 1

\* The stages of a request that is split.
LEMMA SplitStages ==
    ASSUME NEW s \in Seq(Byte), NEW end, NEW L, NEW a, NEW b, Split(s, end, L, a, b),
           NEW e, NEW line, NEW spaces, NEW target, NEW path, NEW query,
           Stages(s, e, line, spaces, target, path, query)
    PROVE  /\ e # 0 /\ Cardinality(spaces) = 2 /\ Min(spaces) = a /\ Max(spaces) = b
           /\ a \in Nat \ {0} /\ b \in Nat /\ L \in Nat /\ a < b /\ b <= L /\ L <= Len(s)
           /\ IsPart(line, s, 0, L, Byte) /\ IsPart(target, s, a, b - 1, Byte)
<1>1. LineOf(s, end, L) /\ SpacesAt(s, L, a, b)
  BY DEF Split
<1>2. FirstAt(s, LF, end) /\ end \in 1 .. Len(s)
  BY <1>1 DEF LineOf
<1>3. e = end
  <2>1. FirstAt(s, LF, e)
    BY IdIsFirst DEF Stages
  <2>2. Len(s) \in Nat
    OBVIOUS
  <2> QED BY <1>2, <2>1, <2>2, FirstIsOne
<1>4. L \in Nat /\ L < end /\ end <= Len(s) /\ IsPart(line, s, 0, L, Byte)
  <2>1. line = Stripped(SubSeq(s, 1, end - 1))
    BY <1>3 DEF Stages
  <2> QED BY <1>1, <2>1, LineIs
<1>5. a \in 1 .. L /\ b \in 1 .. L /\ a < b
  BY <1>1 DEF SpacesAt
<1>6. Cardinality(spaces) = 2 /\ Min(spaces) = a /\ Max(spaces) = b
  <2>1. spaces = {i \in DOMAIN line : line[i] = SP}
    BY DEF Stages
  <2> QED BY <1>1, <1>4, <2>1, SpacesAre
<1>7. IsPart(target, s, a, b - 1, Byte)
  <2>1. target = SubSeq(line, a + 1, b - 1)
    BY <1>6 DEF Stages
  <2>2. line \in Seq(Byte) /\ Len(line) = L /\ \A k \in 1 .. L : line[k] = s[k]
    <3>1. line \in Seq(Byte) /\ Len(line) = L - 0 /\ \A k \in 1 .. L - 0 : line[k] = s[0 + k]
      BY <1>4 DEF IsPart
    <3>2. L - 0 = L /\ \A k \in 1 .. L : 0 + k = k
      BY <1>4
    <3> QED BY <3>1, <3>2
  <2>3. PICK d \in Nat : d = b - 1 /\ a <= d /\ d <= L
    BY <1>4, <1>5
  <2>4. a \in Nat
    BY <1>5
  <2>5. IsPart(SubSeq(line, a + 1, d), line, a, d, Byte)
    BY <2>2, <2>3, <2>4, PartIs
  <2>6. target \in Seq(Byte) /\ Len(target) = d - a /\ \A k \in 1 .. d - a : target[k] = line[a + k]
    BY <2>1, <2>3, <2>5 DEF IsPart
  <2>7. \A k \in 1 .. d - a : target[k] = s[a + k]
    <3> TAKE k \in 1 .. d - a
    <3>1. a + k \in 1 .. L
      BY <1>4, <2>3, <2>4
    <3> QED BY <2>2, <2>6, <3>1
  <2> QED BY <2>3, <2>6, <2>7 DEF IsPart
<1>8. e # 0 /\ L <= Len(s) /\ a \in Nat \ {0} /\ b \in Nat /\ b <= L
  BY <1>2, <1>3, <1>4, <1>5
<1> QED BY <1>4, <1>5, <1>6, <1>7, <1>8

\* What a request with two spaces in its first line is.
LEMMA SplitParsed ==
    ASSUME NEW s \in Seq(Byte), NEW end, NEW L, NEW a, NEW b, Split(s, end, L, a, b)
    PROVE  /\ ~MethodAt(s, a) => ParseRequest(s) = Nothing("not_allowed")
           /\ MethodAt(s, a) /\ ~(\E m : Proper(s, L, a, b, m)) => ParseRequest(s) = Nothing("bad")
           /\ \A m : MethodAt(s, a) /\ Proper(s, L, a, b, m) =>
                 ParseRequest(s) = Parts("get", SubSeq(s, a + 1, m - 1), QueryOf(s, b, m),
                                         Hash(SubSeq(s, a + 1, m - 1)))
<1>1. PICK e, line, spaces, target, path, query :
         /\ Stages(s, e, line, spaces, target, path, query)
         /\ ParseRequest(s) = Outcome(e, line, spaces, target, path, query)
  BY StagesAre
<1>2. /\ e # 0 /\ Cardinality(spaces) = 2 /\ Min(spaces) = a /\ Max(spaces) = b
      /\ a \in Nat \ {0} /\ b \in Nat /\ L \in Nat /\ a < b /\ b <= L /\ L <= Len(s)
      /\ IsPart(line, s, 0, L, Byte) /\ IsPart(target, s, a, b - 1, Byte)
  BY <1>1, SplitStages
<1>3. line \in Seq(Byte) /\ Len(line) = L /\ \A k \in 1 .. L : line[k] = s[k]
  <2>1. line \in Seq(Byte) /\ Len(line) = L - 0 /\ \A k \in 1 .. L - 0 : line[k] = s[0 + k]
    BY <1>2 DEF IsPart
  <2>2. L - 0 = L /\ \A k \in 1 .. L : 0 + k = k
    BY <1>2
  <2> QED BY <2>1, <2>2
<1>4. SubSeq(line, 1, a - 1) = Get <=> MethodAt(s, a)
  <2>1. PICK c, d \in Nat : c = 0 /\ d = a - 1 /\ c <= d /\ d <= L /\ 1 \in 1 .. L
    BY <1>2
  <2>2. IsPart(SubSeq(line, c + 1, d), line, c, d, Byte)
    BY <1>3, <2>1, PartIs
  <2>3. SubSeq(line, c + 1, d) = <<71>> <=> d = c + 1 /\ line[c + 1] = 71
    <3>1. Single(SubSeq(line, c + 1, d), line, c, d, 71)
      BY <2>1, <2>2, OneByte
    <3> QED BY <3>1, Zenon DEF Single
  <2>4. c + 1 = 1 /\ (d = c + 1 <=> a = 2) /\ line[1] = s[1]
    BY <1>2, <1>3, <2>1
  <2>5. SubSeq(line, 1, a - 1) = <<71>> <=> a = 2 /\ s[1] = 71
    BY <2>1, <2>3, <2>4
  <2> QED BY <2>5 DEF Get, MethodAt
<1>5. SubSeq(line, b + 1, Len(line)) \in Versions <=> L = b + 1 /\ <<s[L]>> \in Versions
  <2>1. PICK u : u = SubSeq(line, b + 1, L)
    OBVIOUS
  <2>2. IsPart(u, line, b, L, Byte)
    BY <1>2, <1>3, <2>1, PartIs
  <2>3. \A x : u = <<x>> <=> L = b + 1 /\ line[b + 1] = x
    <3>1. \A x : Single(u, line, b, L, x)
      BY <1>2, <2>2, OneByte
    <3> QED BY <3>1, Zenon DEF Single
  <2>4. L = b + 1 => line[b + 1] = s[L]
    BY <1>2, <1>3
  <2>5. \A x, y : <<x>> = <<y>> <=> x = y
    OBVIOUS
  <2>6. u \in Versions <=> u = <<86>> \/ u = <<87>>
    BY DEF Versions
  <2>7. <<s[L]>> \in Versions <=> s[L] = 86 \/ s[L] = 87
    BY <2>5 DEF Versions
  <2> QED BY <1>3, <2>1, <2>3, <2>4, <2>6, <2>7
<1>6. PICK m : PathTo(s, a, b, m) /\ path = SubSeq(s, a + 1, m - 1) /\ query = QueryOf(s, b, m)
  <2>1. path = TargetPath(target) /\ query = TargetQuery(target)
    BY <1>1 DEF Stages
  <2>2. a \in Nat /\ b \in Nat /\ a < b /\ b <= Len(s) /\ IsPart(target, s, a, b - 1, Byte)
    BY <1>2
  <2> QED BY <2>1, <2>2, PathIs
<1>7. m \in a + 1 .. b
  BY <1>6 DEF PathTo
<1>8. path = <<>> <=> m = a + 1
  <2>1. PICK d \in Nat : d = m - 1 /\ a <= d /\ d <= Len(s)
    BY <1>2, <1>7
  <2>2. IsPart(SubSeq(s, a + 1, d), s, a, d, Byte)
    BY <1>2, <2>1, PartIs
  <2>3. path \in Seq(Byte) /\ Len(path) = d - a
    BY <1>6, <2>1, <2>2 DEF IsPart
  <2>4. path = <<>> <=> d - a = 0
    BY <2>3
  <2> QED BY <1>2, <1>7, <2>1, <2>4
<1>9. /\ target = <<>> <=> b = a + 1
      /\ target # <<>> => Head(target) = s[a + 1]
  <2>1. target \in Seq(Byte) /\ Len(target) = (b - 1) - a /\ \A k \in 1 .. (b - 1) - a : target[k] = s[a + k]
    BY <1>2 DEF IsPart
  <2>2. target = <<>> <=> b = a + 1
    BY <1>2, <2>1
  <2>3. ASSUME target # <<>> PROVE Head(target) = s[a + 1]
    <3>1. Head(target) = target[1] /\ 1 \in 1 .. (b - 1) - a
      BY <1>2, <2>1, <2>2, <2>3
    <3> QED BY <2>1, <3>1
  <2> QED BY <2>2, <2>3
<1>10. /\ ParseRequest(s) = (IF ~MethodAt(s, a) THEN Nothing("not_allowed")
                             ELSE IF ~Proper(s, L, a, b, m) THEN Nothing("bad")
                             ELSE Parts("get", path, query, Hash(path)))
  <2>1. Proper(s, L, a, b, m) <=> ~(\/ SubSeq(line, b + 1, Len(line)) \notin Versions
                                    \/ target = <<>> \/ Head(target) # Slash \/ path = <<>>)
    <3>1. m > a + 1 <=> m # a + 1
      BY <1>2, <1>7
    <3>2. b = a + 1 => m = a + 1
      BY <1>2, <1>7
    <3> QED BY ONLY <1>5, <1>6, <1>8, <1>9, <3>1, <3>2, Zenon DEF Proper
  <2>2. ParseRequest(s) = (IF SubSeq(line, 1, a - 1) # Get THEN Nothing("not_allowed")
                           ELSE IF \/ SubSeq(line, b + 1, Len(line)) \notin Versions
                                   \/ target = <<>> \/ Head(target) # Slash \/ path = <<>>
                           THEN Nothing("bad") ELSE Parts("get", path, query, Hash(path)))
    BY ONLY <1>1, <1>2, Zenon DEF Outcome
  <2> QED BY ONLY <1>4, <2>1, <2>2
<1>11. \A q : Proper(s, L, a, b, q) => q = m
  <2>1. a \in Nat /\ b \in Nat
    BY <1>2
  <2> QED BY <1>6, <2>1, PathIsOne DEF Proper
<1> QED BY ONLY <1>6, <1>10, <1>11

-----------------------------------------------------------------------------
(* The shader takes a request for what the CPU parses it into.             *)

\* How a GET request begins.
LEMMA GetIs ==
    ASSUME NEW s \in Seq(Byte)
    PROVE  /\ WordBytes = 2 /\ (SaysGet(s) <=> s[1] = 71 /\ s[2] = SP)
           /\ IsPrefix(Get \o <<SP>>, s) <=> (2 <= Len(s) /\ s[1] = 71 /\ s[2] = SP)
<1>1. PICK n \in Nat : n = Len(s)
  OBVIOUS
<1>2. PICK method : method = <<71>> \o <<SP>>
  OBVIOUS
<1>3. SP \in Nat /\ <<71>> \in Seq(Nat) /\ <<SP>> \in Seq(Nat) /\ Len(<<71>>) = 1 /\ Len(<<SP>>) = 1
  BY DEF SP
<1>4. method \in Seq(Nat) /\ Len(method) = 2 /\ method[1] = 71 /\ method[2] = SP
  <2>1. IsJoined(<<71>> \o <<SP>>, <<71>>, <<SP>>, Nat)
    BY <1>3, JoinedParts
  <2>2. IsJoined(method, <<71>>, <<SP>>, Nat)
    BY <1>2, <2>1
  <2> QED BY <1>3, <2>2 DEF IsJoined
<1>5. method = Get \o <<SP>>
  BY <1>2 DEF Get
<1>6. WordBytes = 2
  <2>1. Len(Get) = 1
    BY DEF Get
  <2> QED BY <2>1, MethodAssumption
<1>7. method = [k \in 1 .. 2 |-> method[k]]
  BY <1>4
<1>8. SaysGet(s) <=> s[1] = 71 /\ s[2] = SP
  <2>1. SaysGet(s) <=> [k \in 1 .. 2 |-> s[k]] = [k \in 1 .. 2 |-> method[k]]
    BY <1>5, <1>6, <1>7 DEF SaysGet
  <2>2. [k \in 1 .. 2 |-> s[k]] = [k \in 1 .. 2 |-> method[k]] <=> s[1] = method[1] /\ s[2] = method[2]
    <3>1. ASSUME [k \in 1 .. 2 |-> s[k]] = [k \in 1 .. 2 |-> method[k]] PROVE s[1] = method[1] /\ s[2] = method[2]
      <4>1. [k \in 1 .. 2 |-> s[k]][1] = s[1] /\ [k \in 1 .. 2 |-> s[k]][2] = s[2]
        OBVIOUS
      <4>2. [k \in 1 .. 2 |-> method[k]][1] = method[1] /\ [k \in 1 .. 2 |-> method[k]][2] = method[2]
        OBVIOUS
      <4> QED BY <3>1, <4>1, <4>2
    <3>2. ASSUME s[1] = method[1], s[2] = method[2] PROVE [k \in 1 .. 2 |-> s[k]] = [k \in 1 .. 2 |-> method[k]]
      <4>1. \A k \in 1 .. 2 : s[k] = method[k]
        BY <3>2
      <4> QED BY <4>1
    <3> QED BY <3>1, <3>2
  <2> QED BY <1>4, <2>1, <2>2
<1>9. IsPrefix(method, s) <=> 2 <= n /\ s[1] = 71 /\ s[2] = SP
  <2>1. IsPrefix(method, s) <=> 2 <= n /\ SubSeq(method, 1, 2) = SubSeq(s, 1, 2)
    BY <1>1, <1>4 DEF IsPrefix
  <2>2. SubSeq(method, 1, 2) = method
    <3>1. SubSeq(method, 1, 2) = [k \in 1 .. 2 |-> method[k]]
      BY <1>4
    <3> QED BY <1>7, <3>1
  <2>3. ASSUME 2 <= n PROVE SubSeq(s, 1, 2) = method <=> s[1] = 71 /\ s[2] = SP
    <3>1. SubSeq(s, 1, 2) \in Seq(Byte) /\ Len(SubSeq(s, 1, 2)) = 2
          /\ SubSeq(s, 1, 2)[1] = s[1] /\ SubSeq(s, 1, 2)[2] = s[2]
      BY <1>1, <2>3
    <3>2. SubSeq(s, 1, 2) \in Seq(Nat)
      BY <3>1, BytesAreNumbers
    <3>3. ASSUME s[1] = 71, s[2] = SP PROVE SubSeq(s, 1, 2) = method
      <4>1. PICK u \in Seq(Nat) : u = SubSeq(s, 1, 2) /\ Len(u) = 2 /\ u[1] = method[1] /\ u[2] = method[2]
        BY <1>4, <3>1, <3>2, <3>3
      <4>2. Len(u) = Len(method) /\ \A k \in 1 .. Len(method) : u[k] = method[k]
        BY <1>4, <4>1
      <4> QED BY <1>4, <4>1, <4>2, SameString
    <3>4. ASSUME SubSeq(s, 1, 2) = method PROVE s[1] = 71 /\ s[2] = SP
      BY <1>4, <3>1, <3>4
    <3> QED BY <3>3, <3>4
  <2> QED BY <2>1, <2>2, <2>3
<1> QED BY <1>1, <1>5, <1>6, <1>8, <1>9

\* A split request that begins with the method has its first space after it.
LEMMA MethodSplit ==
    ASSUME NEW s \in Seq(Byte), NEW end, NEW L, NEW a, NEW b, Split(s, end, L, a, b)
    PROVE  /\ MethodAt(s, a) <=> SaysGet(s)
           /\ a \in Nat \ {0} /\ b \in Nat /\ L \in Nat /\ a < b /\ b <= L /\ L < end /\ end <= Len(s)
<1>1. a \in 1 .. L /\ b \in 1 .. L /\ a < b /\ s[a] = SP
      /\ \A j \in 1 .. L : s[j] = SP => j = a \/ j = b
  BY DEF Split, SpacesAt
<1>2. L \in Nat /\ L < end /\ end <= Len(s)
  BY LineIs DEF Split
<1>3. SaysGet(s) <=> s[1] = 71 /\ s[2] = SP
  BY GetIs
<1>4. ASSUME s[1] = 71, s[2] = SP PROVE a = 2
  <2>1. a # 1
    BY <1>1, <1>4 DEF SP
  <2>2. 2 \in 1 .. L /\ a >= 2
    BY <1>1, <1>2, <2>1
  <2>3. 2 = a \/ 2 = b
    BY <1>1, <1>4, <2>2
  <2> QED BY <1>1, <2>2, <2>3
<1>5. MethodAt(s, a) <=> SaysGet(s)
  BY <1>1, <1>3, <1>4 DEF MethodAt
<1>6. a \in Nat \ {0} /\ b \in Nat /\ b <= L
  BY <1>1, <1>2
<1> QED BY <1>1, <1>2, <1>5, <1>6

\* What ReadAlike leaves out, place by place.
LEMMA AlikeIs ==
    ASSUME NEW s \in Seq(Byte), ReadAlike(s)
    PROVE  /\ ~(2 <= Len(s) /\ SaysGet(s)) /\ ParseRequest(s).kind = "bad" => Len(s) < 2
           /\ 2 <= Len(s) /\ SaysGet(s) =>
                 \A i \in 3 .. Len(s) : s[i] = SP =>
                    \/ \E j \in 3 .. i - 1 : s[j] = SP
                    \/ \A k \in 3 .. i - 1 : s[k] # LF
<1>1. /\ (~IsPrefix(Get \o <<SP>>, s) /\ ParseRequest(s).kind = "bad") => Len(s) < WordBytes
      /\ IsPrefix(Get \o <<SP>>, s) =>
            \A i \in WordBytes + 1 .. Len(s) : (i \in DOMAIN s /\ s[i] = SP) =>
               \/ \E j \in WordBytes + 1 .. i - 1 : j \in DOMAIN s /\ s[j] = SP
               \/ \A k \in WordBytes + 1 .. i - 1 : ~(k \in DOMAIN s /\ s[k] = LF)
  BY Zenon DEF ReadAlike
<1>2. WordBytes = 2 /\ (IsPrefix(Get \o <<SP>>, s) <=> 2 <= Len(s) /\ SaysGet(s))
  BY GetIs
<1>3. PICK n \in Nat : n = Len(s) /\ DOMAIN s = 1 .. n
  OBVIOUS
<1>4. ~(2 <= Len(s) /\ SaysGet(s)) /\ ParseRequest(s).kind = "bad" => Len(s) < 2
  BY <1>1, <1>2
<1>5. ASSUME 2 <= Len(s) /\ SaysGet(s), NEW i \in 3 .. n, s[i] = SP
      PROVE  (\E j \in 3 .. i - 1 : s[j] = SP) \/ (\A k \in 3 .. i - 1 : s[k] # LF)
  <2>1. WordBytes + 1 = 3
    BY <1>2
  <2>2. i \in DOMAIN s
    BY <1>3
  <2>3. \/ \E j \in 3 .. i - 1 : j \in DOMAIN s /\ s[j] = SP
        \/ \A k \in 3 .. i - 1 : ~(k \in DOMAIN s /\ s[k] = LF)
    BY <1>1, <1>2, <1>3, <1>5, <2>1, <2>2
  <2>4. \A k \in 3 .. i - 1 : k \in DOMAIN s
    BY <1>3
  <2> QED BY <2>3, <2>4
<1> QED BY <1>3, <1>4, <1>5

\* What the CPU reads in a line the shader reads as well.
LEMMA ProperIsParsed ==
    ASSUME NEW s \in Seq(Byte), NEW end, NEW L, NEW a, NEW b, Split(s, end, L, a, b), a = 2,
           NEW m, Proper(s, L, a, b, m)
    PROVE  ParsedAt(s, b - 1, m - 1)
<1>1. PICK n \in Nat : n = Len(s)
  OBVIOUS
<1>2. b \in Nat /\ L \in Nat /\ 2 < b /\ L < end /\ end <= n
  BY <1>1, MethodSplit
<1>3. L = b + 1 /\ <<s[L]>> \in Versions /\ s[3] = Slash /\ m \in 3 .. b /\ m > 3
      /\ (m < b => s[m] = Question) /\ \A k \in 3 .. m - 1 : s[k] # Question
  <2>1. a + 1 = 3
    OBVIOUS
  <2> QED BY <2>1 DEF Proper, PathTo
<1>4. s[b] = SP /\ \A j \in 3 .. b - 1 : s[j] # SP
  <2>1. s[b] = SP /\ \A j \in 1 .. L : s[j] = SP => j = 2 \/ j = b
    BY DEF Split, SpacesAt
  <2>2. \A j \in 3 .. b - 1 : j \in 1 .. L /\ j # 2 /\ j # b
    BY <1>2, <1>3
  <2> QED BY <2>1, <2>2
<1>5. end \in Nat /\ s[end] = LF /\ L = IF end > 1 /\ s[end - 1] = CR THEN end - 2 ELSE end - 1
  <2>1. end \in 1 .. n /\ FirstAt(s, LF, end) /\ L = IF end > 1 /\ s[end - 1] = CR THEN end - 2 ELSE end - 1
    BY <1>1 DEF Split, LineOf
  <2> QED BY <2>1 DEF FirstAt
<1>6. PICK e, p \in Nat : e = b - 1 /\ p = m - 1 /\ e + 1 = b /\ p + 1 = m /\ e + 2 = b + 1
  BY <1>2, <1>3
<1>7. VersionAt(s, b + 1)
  <2>1. CASE L = end - 1
    <3>1. (b + 1) + 1 = end /\ (b + 1) + 1 <= n
      BY <1>2, <1>3, <1>5, <2>1
    <3> QED BY <1>1, <1>3, <1>5, <3>1 DEF VersionAt
  <2>2. CASE L = end - 2 /\ s[end - 1] = CR
    <3>1. (b + 1) + 1 = end - 1 /\ (b + 1) + 2 = end /\ (b + 1) + 1 <= n
      BY <1>2, <1>3, <1>5, <2>2
    <3> QED BY <1>1, <1>2, <1>3, <1>5, <2>2, <3>1 DEF VersionAt
  <2> QED BY <1>5, <2>1, <2>2
<1>8. WordBytes = 2 /\ WordBytes + 1 = 3
  BY GetIs
<1>9. 2 < p /\ p <= e /\ e < n
  BY <1>2, <1>3, <1>5, <1>6
<1>10. /\ s[e + 1] = SP /\ \A k \in 3 .. e : s[k] # SP
       /\ p < e => s[p + 1] = Question
       /\ \A k \in 3 .. p : s[k] # Question
  <2>1. p < e => m < b
    BY <1>6
  <2> QED BY <1>3, <1>4, <1>6, <2>1
<1>11. ParsedAt(s, e, p)
  BY <1>1, <1>3, <1>6, <1>7, <1>8, <1>9, <1>10 DEF ParsedAt
<1> QED BY <1>6, <1>11

\* A line the shader reads is one the CPU reads, if no line feed is in its target.
LEMMA ParsedIsProper ==
    ASSUME NEW s \in Seq(Byte), SaysGet(s), ReadAlike(s), NEW e, NEW p, ParsedAt(s, e, p)
    PROVE  \E end : Split(s, end, e + 2, 2, e + 1) /\ Proper(s, e + 2, 2, e + 1, p + 1)
<1>1. PICK n \in Nat : n = Len(s)
  OBVIOUS
<1>2. WordBytes = 2 /\ WordBytes + 1 = 3 /\ s[1] = 71 /\ s[2] = SP
  BY GetIs
<1>3. /\ e \in Nat /\ p \in Nat /\ 2 < p /\ p <= e /\ e < n
      /\ s[3] = Slash
      /\ s[e + 1] = SP /\ \A k \in 3 .. e : s[k] # SP
      /\ p < e => s[p + 1] = Question
      /\ \A k \in 3 .. p : s[k] # Question
      /\ VersionAt(s, e + 2)
  BY <1>1, <1>2 DEF ParsedAt
<1>4. PICK L \in Nat : L = e + 2
  BY <1>3
<1>5. /\ L + 1 <= n /\ <<s[L]>> \in Versions
      /\ \/ s[L + 1] = LF
         \/ s[L + 1] = CR /\ L + 2 <= n /\ s[L + 2] = LF
  BY <1>1, <1>3, <1>4 DEF VersionAt
<1>6. s[L] = 86 \/ s[L] = 87
  <2>1. \A x, y : <<x>> = <<y>> <=> x = y
    OBVIOUS
  <2> QED BY <1>5, <2>1 DEF Versions
<1>7. \A k \in 3 .. e : s[k] # LF
  <2>1. e + 1 \in 3 .. n /\ (e + 1) - 1 = e /\ 2 <= n
    BY <1>3
  <2>2. (\E j \in 3 .. (e + 1) - 1 : s[j] = SP) \/ (\A k \in 3 .. (e + 1) - 1 : s[k] # LF)
    BY <1>1, <1>3, <2>1, AlikeIs
  <2> QED BY <1>3, <2>1, <2>2
<1>8. \A k \in 1 .. L : s[k] # LF
  <2> TAKE k \in 1 .. L
  <2>1. k = 1 \/ k = 2 \/ k \in 3 .. e \/ k = e + 1 \/ k = L
    BY <1>3, <1>4
  <2> QED BY <1>2, <1>3, <1>6, <1>7, <2>1 DEF LF, SP
<1>9. \E end : LineOf(s, end, L)
  <2>1. CASE s[L + 1] = LF
    <3>1. PICK end \in Nat : end = L + 1 /\ end - 1 = L
      OBVIOUS
    <3>2. end \in 1 .. n /\ s[end] = LF /\ \A j \in 1 .. end - 1 : s[j] # LF
      BY <1>5, <1>8, <2>1, <3>1
    <3>3. FirstAt(s, LF, end)
      BY <1>1, <3>2 DEF FirstAt
    <3>4. s[end - 1] # CR
      BY <1>6, <3>1 DEF CR
    <3>5. L = IF end > 1 /\ s[end - 1] = CR THEN end - 2 ELSE end - 1
      BY <3>1, <3>4
    <3> QED BY <1>1, <3>2, <3>3, <3>5 DEF LineOf
  <2>2. CASE s[L + 1] = CR /\ L + 2 <= n /\ s[L + 2] = LF
    <3>1. PICK end \in Nat : end = L + 2 /\ end - 1 = L + 1 /\ end - 2 = L /\ end > 1
      OBVIOUS
    <3>2. \A j \in 1 .. end - 1 : s[j] # LF
      <4> TAKE j \in 1 .. end - 1
      <4>1. j \in 1 .. L \/ j = L + 1
        BY <3>1
      <4> QED BY <1>8, <2>2, <4>1 DEF LF, CR
    <3>3. end \in 1 .. n /\ s[end] = LF
      BY <2>2, <3>1
    <3>4. FirstAt(s, LF, end)
      BY <1>1, <3>2, <3>3 DEF FirstAt
    <3>5. L = IF end > 1 /\ s[end - 1] = CR THEN end - 2 ELSE end - 1
      BY <2>2, <3>1
    <3> QED BY <1>1, <3>3, <3>4, <3>5 DEF LineOf
  <2> QED BY <1>5, <2>1, <2>2
<1>10. PICK b, m \in Nat : b = e + 1 /\ m = p + 1 /\ L = b + 1
  BY <1>3, <1>4
<1>11. SpacesAt(s, L, 2, b)
  <2>1. 2 \in 1 .. L /\ b \in 1 .. L /\ 2 < b /\ s[b] = SP
    BY <1>3, <1>4, <1>10
  <2>2. ASSUME NEW j \in 1 .. L, s[j] = SP PROVE j = 2 \/ j = b
    <3>1. j = 1 \/ j = 2 \/ j \in 3 .. e \/ j = e + 1 \/ j = L
      BY <1>3, <1>4
    <3> QED BY <1>2, <1>3, <1>6, <1>10, <2>2, <3>1 DEF SP
  <2> QED BY <1>2, <2>1, <2>2 DEF SpacesAt
<1>12. Proper(s, L, 2, b, m)
  <2>1. m \in 3 .. b /\ m > 3 /\ (m < b => s[m] = Question) /\ \A k \in 3 .. m - 1 : s[k] # Question
    BY <1>3, <1>10
  <2>2. 2 + 1 = 3
    OBVIOUS
  <2> QED BY <1>3, <1>5, <1>10, <2>1, <2>2 DEF Proper, PathTo
<1> QED BY <1>4, <1>9, <1>10, <1>11, <1>12 DEF Split

\* Where ReadAlike holds, the shader takes a request for what the CPU parses it
\* into.
LEMMA TakenIsParsed ==
    ASSUME NEW s \in Seq(Byte), ReadAlike(s), NEW parts, TakenAs(s, parts)
    PROVE  parts = ParseRequest(s)
<1>1. PICK n \in Nat : n = Len(s)
  OBVIOUS
<1>2. WordBytes = 2
  BY GetIs
<1>3. \A kind : Nothing(kind).kind = kind
  BY DEF Nothing, Parts
<1>4. \/ n < 2 /\ parts = Nothing("bad")
      \/ n >= 2 /\ ~SaysGet(s) /\ parts = Nothing("not_allowed")
      \/ n >= 2 /\ SaysGet(s) /\ ~(\E e, p : ParsedAt(s, e, p)) /\ parts = Nothing("bad")
      \/ n >= 2 /\ SaysGet(s) /\ \E e, p : ParsedAt(s, e, p) /\ parts = PartsAt(s, e, p)
  BY <1>1, <1>2 DEF TakenAs
<1>5. CASE n < 2 /\ parts = Nothing("bad")
  <2>1. ~(\E end, L, a, b : Split(s, end, L, a, b))
    <3> SUFFICES ASSUME NEW end, NEW L, NEW a, NEW b, Split(s, end, L, a, b) PROVE FALSE
      OBVIOUS
    <3>1. a \in Nat \ {0} /\ b \in Nat /\ L \in Nat /\ a < b /\ b <= L /\ L < end /\ end <= Len(s)
      BY MethodSplit
    <3>2. end \in Nat
      BY DEF Split, LineOf
    <3> QED BY <1>1, <1>5, <3>1, <3>2
  <2> QED BY <1>5, <2>1, UnsplitIsBad
<1>6. CASE n >= 2 /\ ~SaysGet(s) /\ parts = Nothing("not_allowed")
  <2>1. ParseRequest(s).kind # "bad"
    BY <1>1, <1>6, AlikeIs
  <2>2. PICK end, L, a, b : Split(s, end, L, a, b)
    <3>1. ParseRequest(s) # Nothing("bad")
      BY <1>3, <2>1
    <3> QED BY <3>1, UnsplitIsBad
  <2>3. ~MethodAt(s, a)
    BY <1>6, <2>2, MethodSplit
  <2> QED BY <1>6, <2>2, <2>3, SplitParsed
<1>7. CASE n >= 2 /\ SaysGet(s) /\ ~(\E e, p : ParsedAt(s, e, p)) /\ parts = Nothing("bad")
  <2>1. ASSUME NEW end, NEW L, NEW a, NEW b, Split(s, end, L, a, b) PROVE ParseRequest(s) = Nothing("bad")
    <3>1. MethodAt(s, a)
      BY <1>7, <2>1, MethodSplit
    <3>2. a = 2
      BY <3>1 DEF MethodAt
    <3>3. ~(\E m : Proper(s, L, a, b, m))
      BY <1>7, <2>1, <3>2, ProperIsParsed
    <3> QED BY <2>1, <3>1, <3>3, SplitParsed
  <2> QED BY <1>7, <2>1, UnsplitIsBad
<1>8. CASE n >= 2 /\ SaysGet(s) /\ \E e, p : ParsedAt(s, e, p) /\ parts = PartsAt(s, e, p)
  <2>1. PICK e, p : ParsedAt(s, e, p) /\ parts = PartsAt(s, e, p)
    BY <1>8
  <2>2. PICK L, b, m, a : L = e + 2 /\ b = e + 1 /\ m = p + 1 /\ a = 2
    OBVIOUS
  <2>3. PICK end : Split(s, end, L, a, b) /\ Proper(s, L, a, b, m)
    <3>1. \E end : Split(s, end, e + 2, 2, e + 1) /\ Proper(s, e + 2, 2, e + 1, p + 1)
      BY <1>8, <2>1, ParsedIsProper
    <3> QED BY <2>2, <3>1
  <2>4. MethodAt(s, a)
    BY <1>8, <2>3, MethodSplit
  <2>5. ParseRequest(s) = Parts("get", SubSeq(s, a + 1, m - 1), QueryOf(s, b, m), Hash(SubSeq(s, a + 1, m - 1)))
    BY <2>3, <2>4, SplitParsed
  <2>6. /\ a + 1 = WordBytes + 1 /\ m - 1 = p /\ b - 1 = e /\ m + 1 = p + 2 /\ (m = b <=> p = e)
    <3>1. e \in Nat /\ p \in Nat
      BY <2>1 DEF ParsedAt
    <3> QED BY <1>2, <2>2, <3>1
  <2>7. QueryOf(s, b, m) = IF p = e THEN <<>> ELSE SubSeq(s, p + 2, e)
    BY <2>6 DEF QueryOf
  <2>8. PartsAt(s, e, p) = Parts("get", SubSeq(s, a + 1, m - 1), QueryOf(s, b, m), Hash(SubSeq(s, a + 1, m - 1)))
    BY <2>6, <2>7 DEF PartsAt
  <2> QED BY <2>1, <2>5, <2>8
<1> QED BY <1>4, <1>5, <1>6, <1>7, <1>8

-----------------------------------------------------------------------------
(* Every backend answers as declared.                                      *)

\* "CPU and GPU application processors consuming the same compiled router":
\* every batch is answered as its router is declared, byte for byte, on either
\* backend and whatever batches came before.
THEOREM EveryBackendAnswers == Spec => []AnswersAsDeclared
<1>1. ASSUME Ground, Device PROVE AnswersAsDeclared
  <2>1. CASE backend = "gpu" /\ phase = "done" /\ result.ok
    <3>1. Returned(router, batch, result.responses)
      BY <1>1, <2>1 DEF Device
    <3>2. Len(result.responses) = Len(batch)
      BY <3>1 DEF Returned
    <3>3. ASSUME NEW i \in DOMAIN batch, AnsweredAlike(batch[i])
          PROVE  result.responses[i] = Promised(router, batch[i], "gpu")
      <4>1. router \in RouterDeclaration /\ Compiles(router) /\ batch[i] \in Seq(Byte)
        BY <1>1, BatchIs DEF Ground
      <4>2. PICK parts : ShaderSays(router, batch[i], parts, result.responses[i])
        BY <3>1, <3>3 DEF Returned
      <4>3. ReadAlike(batch[i]) /\ Unreserved(Declared(router, ParseRequest(batch[i])))
        BY <3>3 DEF AnsweredAlike
      <4>4. parts = ParseRequest(batch[i])
        BY <4>1, <4>2, <4>3, TakenIsParsed DEF ShaderSays
      <4>5. Unreserved(Declared(router, parts))
        BY <4>3, <4>4
      <4> QED BY <4>1, <4>2, <4>4, <4>5, TakenAnswers
    <3> QED BY <2>1, <3>2, <3>3 DEF AnswersAsDeclared
  <2>2. CASE backend = "cpu"
    BY <1>1, <2>2, CpuAnswersDeclared
  <2>3. CASE ~(phase = "done" /\ result.ok)
    BY <2>3 DEF AnswersAsDeclared
  <2>4. phase = "done" => backend \in {"cpu", "gpu"}
    BY <1>1 DEF Ground
  <2> QED BY <2>1, <2>2, <2>3, <2>4
<1>2. Ground /\ Device => AnswersAsDeclared
  BY <1>1
<1> QED BY <1>2, GroundHolds, DeviceHolds, PTL

-----------------------------------------------------------------------------
(* The length a client reads.                                              *)

\* A text that ends no line, and one that ends a line only before the header
\* of the content type.
Unbroken(s) == \A i \in 1 .. Len(s) : s[i] # CR
Quiet(s) == \A i \in 1 .. Len(s) : s[i] = CR => i < Len(s) /\ s[i + 1] = 84

\* What is printable ends no line.
LEMMA PrintableUnbroken ==
    ASSUME NEW s \in Seq(Byte), Printable(s)
    PROVE  Unbroken(s)
<1>1. ASSUME NEW i \in 1 .. Len(s) PROVE s[i] # CR
  <2>1. i \in DOMAIN s
    OBVIOUS
  <2>2. s[i] \in 32 .. 126
    BY <2>1 DEF Printable
  <2>3. CR \notin 32 .. 126
    BY DEF CR
  <2> QED BY <2>2, <2>3
<1> QED BY <1>1 DEF Unbroken

\* Neither does a number.
LEMMA DigitsUnbroken ==
    ASSUME NEW n \in Nat
    PROVE  Unbroken(Digits[n])
<1> DEFINE S == {k \in Nat : \A m \in Nat : m < k => Unbroken(Digits[m])}
<1>1. ASSUME NEW s \in Seq(Byte), Unbroken(s), NEW d \in Byte, d # CR PROVE Unbroken(Append(s, d)) /\ Unbroken(<<d>>)
  BY <1>1 DEF Unbroken
<1>2. 0 \in S
  OBVIOUS
<1>3. ASSUME NEW k \in Nat, k \in S PROVE k + 1 \in S
  <2> SUFFICES ASSUME NEW m \in Nat, m < k + 1 PROVE Unbroken(Digits[m])
    OBVIOUS
  <2>1. <<>> \in Seq(Byte) /\ Unbroken(<<>>)
    BY DEF Unbroken
  <2>2. CASE m < 10
    <3>1. PICK d : d = Zero + m
      OBVIOUS
    <3>2. d \in Byte /\ d # CR
      BY <2>2, <3>1 DEF Zero, Byte, CR
    <3>3. Digits[m] = <<d>>
      BY <2>2, <3>1, DigitsAre
    <3> QED BY <1>1, <2>1, <3>2, <3>3
  <2>3. CASE m >= 10
    <3>1. PICK d : d = Zero + (m % 10)
      OBVIOUS
    <3>2. d \in Byte /\ d # CR
      <4>1. m % 10 \in 0 .. 9
        OBVIOUS
      <4> QED BY <3>1, <4>1 DEF Zero, Byte, CR
    <3>3. PICK q \in Nat : q = m \div 10 /\ q < k
      <4>1. m \div 10 \in Nat /\ m \div 10 < m
        BY <2>3
      <4> QED BY <4>1
    <3>4. Digits[q] \in Seq(Byte) /\ Unbroken(Digits[q])
      BY <1>3, <3>3, DigitsAre
    <3>5. Digits[m] = Append(Digits[q], d)
      <4>1. ~(m < 10)
        BY <2>3
      <4> QED BY <3>1, <3>3, <4>1, DigitsAre
    <3> QED BY <1>1, <3>2, <3>4, <3>5
  <2> QED BY <2>2, <2>3
<1>4. Nat \subseteq S
  <2> HIDE DEF S
  <2> QED BY <1>2, <1>3, Induction
<1>5. n + 1 \in Nat /\ n < n + 1
  OBVIOUS
<1>6. n + 1 \in S
  BY <1>4, <1>5
<1> QED BY <1>5, <1>6

\* Quiet texts one behind the other.
LEMMA QuietJoined ==
    ASSUME NEW s \in Seq(Byte), NEW t \in Seq(Byte), Quiet(s), Quiet(t)
    PROVE  s \o t \in Seq(Byte) /\ Quiet(s \o t)
<1>1. PICK u : u = s \o t
  OBVIOUS
<1>2. IsJoined(u, s, t, Byte)
  BY <1>1, JoinedParts
<1>3. PICK m \in Nat, n \in Nat : m = Len(s) /\ n = Len(t)
  OBVIOUS
<1>4. u \in Seq(Byte) /\ Len(u) = m + n /\ (\A j \in 1 .. m : u[j] = s[j]) /\ \A j \in 1 .. n : u[m + j] = t[j]
  BY <1>2, <1>3 DEF IsJoined
<1>5. ASSUME NEW i \in 1 .. m + n, u[i] = CR PROVE i < m + n /\ u[i + 1] = 84
  <2>1. CASE i \in 1 .. m
    <3>1. s[i] = CR
      BY <1>4, <1>5, <2>1
    <3>2. i < m /\ s[i + 1] = 84
      BY <1>3, <2>1, <3>1 DEF Quiet
    <3> QED BY <1>3, <1>4, <3>2, <2>1
  <2>2. CASE i \notin 1 .. m
    <3>1. PICK j \in 1 .. n : i = m + j
      <4>1. i - m \in 1 .. n /\ i = m + (i - m)
        BY <1>3, <2>2
      <4> QED BY <4>1
    <3>2. t[j] = CR
      BY <1>4, <1>5, <3>1
    <3>3. j < n /\ t[j + 1] = 84
      BY <1>3, <3>2 DEF Quiet
    <3>4. u[m + (j + 1)] = 84
      <4>1. j + 1 \in 1 .. n
        BY <3>3
      <4> QED BY <1>4, <3>3, <4>1
    <3>5. m + (j + 1) = i + 1 /\ i < m + n
      BY <1>3, <3>1, <3>3
    <3> QED BY <3>4, <3>5
  <2> QED BY <2>1, <2>2
<1>6. Quiet(u)
  BY <1>4, <1>5 DEF Quiet
<1> QED BY <1>1, <1>4, <1>6

\* A response up to the header of its length.
HeadOf(status, reason, contentType) ==
    HttpVersion \o Digits[status] \o <<SP>> \o reason \o ContentTypeHeader \o contentType

\* It does not contain that header.
LEMMA HeadQuiet ==
    ASSUME NEW status \in Nat, NEW reason \in Seq(Byte), NEW contentType \in Seq(Byte),
           Printable(reason), Printable(contentType)
    PROVE  HeadOf(status, reason, contentType) \in Seq(Byte) /\ Quiet(HeadOf(status, reason, contentType))
<1>1. ASSUME NEW s \in Seq(Byte), Unbroken(s) PROVE Quiet(s)
  BY <1>1 DEF Unbroken, Quiet
<1>2. HttpVersion \in Seq(Byte) /\ Quiet(HttpVersion)
  BY FixedStrings DEF HttpVersion, Quiet, CR, SP
<1>3. Digits[status] \in Seq(Byte) /\ Quiet(Digits[status])
  BY <1>1, DigitsAre, DigitsUnbroken
<1>4. <<SP>> \in Seq(Byte) /\ Quiet(<<SP>>)
  BY DEF Byte, SP, Quiet, CR
<1>5. Quiet(reason) /\ Quiet(contentType)
  BY <1>1, PrintableUnbroken
<1>6. ContentTypeHeader \in Seq(Byte) /\ Quiet(ContentTypeHeader)
  BY FixedStrings DEF ContentTypeHeader, Quiet, CR
<1>7. PICK a : a = HttpVersion \o Digits[status]
  OBVIOUS
<1>8. a \in Seq(Byte) /\ Quiet(a)
  BY <1>2, <1>3, <1>7, QuietJoined
<1>9. PICK b : b = a \o <<SP>>
  OBVIOUS
<1>10. b \in Seq(Byte) /\ Quiet(b)
  BY <1>4, <1>8, <1>9, QuietJoined
<1>11. PICK c : c = b \o reason
  OBVIOUS
<1>12. c \in Seq(Byte) /\ Quiet(c)
  BY <1>5, <1>10, <1>11, QuietJoined
<1>13. PICK d : d = c \o ContentTypeHeader
  OBVIOUS
<1>14. d \in Seq(Byte) /\ Quiet(d)
  BY <1>6, <1>12, <1>13, QuietJoined
<1>15. d \o contentType \in Seq(Byte) /\ Quiet(d \o contentType)
  BY <1>5, <1>14, QuietJoined
<1>16. HeadOf(status, reason, contentType) = d \o contentType
  BY <1>7, <1>9, <1>11, <1>13 DEF HeadOf
<1> QED BY <1>15, <1>16

\* A text of two bytes, and two bytes at a place of a text.
IsPair(p, c, d) == p \in Seq(Byte) /\ Len(p) = 2 /\ p[1] = c /\ p[2] = d
Pair(s, i, c, d) == i + 1 <= Len(s) /\ s[i] = c /\ s[i + 1] = d

\* What Framed looks for, byte by byte.
LEMMA PairAt ==
    ASSUME NEW s \in Seq(Byte), NEW i \in Nat \ {0}, NEW p, NEW c, NEW d, IsPair(p, c, d)
    PROVE  (i + Len(p) - 1 <= Len(s) /\ SubSeq(s, i, i + Len(p) - 1) = p) <=> Pair(s, i, c, d)
<1>1. p \in Seq(Byte) /\ Len(p) = 2 /\ p[1] = c /\ p[2] = d
  BY DEF IsPair
<1>2. PICK n \in Nat : n = Len(s)
  OBVIOUS
<1>3. i + Len(p) - 1 = i + 1
  BY <1>1
<1>4. CASE i + 1 <= n
  <2>1. PICK a \in Nat, b \in Nat : a = i - 1 /\ b = i + 1 /\ a <= b /\ b <= Len(s)
    BY <1>2, <1>4
  <2>2. PICK u : u = SubSeq(s, a + 1, b)
    OBVIOUS
  <2>3. IsPart(SubSeq(s, a + 1, b), s, a, b, Byte)
    BY <2>1, PartIs
  <2>4. u \in Seq(Byte) /\ Len(u) = 2 /\ u[1] = s[i] /\ u[2] = s[i + 1]
    <3>1. b - a = 2 /\ a + 1 = i /\ a + 2 = i + 1 /\ 1 \in 1 .. b - a /\ 2 \in 1 .. b - a
      BY <2>1
    <3> QED BY <2>2, <2>3, <3>1 DEF IsPart
  <2>5. u = p => s[i] = c /\ s[i + 1] = d
    BY <1>1, <2>4
  <2>6. ASSUME s[i] = c, s[i + 1] = d PROVE u = p
    <3>1. \A k \in 1 .. Len(p) : u[k] = p[k]
      BY <1>1, <2>4, <2>6
    <3>2. Len(u) = Len(p)
      BY <1>1, <2>4
    <3> QED BY <1>1, <2>4, <3>1, <3>2, SameString
  <2>7. SubSeq(s, i, i + Len(p) - 1) = u
    <3>1. a + 1 = i
      BY <2>1
    <3> QED BY <1>3, <2>1, <2>2, <3>1
  <2> QED BY <1>2, <1>3, <1>4, <2>5, <2>6, <2>7 DEF Pair
<1>5. CASE ~(i + 1 <= n)
  BY <1>2, <1>3, <1>5 DEF Pair
<1> QED BY <1>4, <1>5

\* The parts of a response, one behind the other: the head, the header of the
\* length, the length, the end of the header and the body.
Sections(text, head, num, x, len) ==
    /\ text \in Seq(Byte)
    /\ Len(text) = Len(head) + 2 + Len(num) + 2 + len
    /\ \A j \in 1 .. Len(head) : text[j] = head[j]
    /\ text[Len(head) + 1] = CR /\ text[Len(head) + 2] = 76
    /\ \A j \in 1 .. Len(num) : text[Len(head) + 2 + j] = num[j]
    /\ text[Len(head) + 2 + Len(num) + 1] = CR /\ text[Len(head) + 2 + Len(num) + 2] = x

\* The end of the header is a pair of bytes.
LEMMA TailIs ==
    ASSUME NEW b
    PROVE  \E x : IsPair(TailSent(b), CR, x)
<1>1. PICK s, t : s = <<CR>> /\ t = Name(b)
  OBVIOUS
<1>2. s \in Seq(Byte) /\ Len(s) = 1 /\ s[1] = CR /\ t \in Seq(Byte) /\ Len(t) = 1
  <2>1. CR \in Byte
    BY DEF CR, Byte
  <2> QED BY <1>1, <2>1, NameIs
<1>3. TailSent(b) = s \o t
  BY <1>1 DEF TailSent
<1>4. IsJoined(TailSent(b), s, t, Byte)
  BY <1>2, <1>3, JoinedParts
<1>5. TailSent(b) \in Seq(Byte) /\ Len(TailSent(b)) = 2 /\ TailSent(b)[1] = CR
  BY <1>2, <1>4 DEF IsJoined
<1> QED BY <1>5 DEF IsPair

\* A response is laid out like that.
LEMMA SectionsLaid ==
    ASSUME NEW head \in Seq(Byte), NEW num \in Seq(Byte), NEW body \in Seq(Byte),
           NEW p, NEW x, IsPair(p, CR, x)
    PROVE  Sections(head \o ContentLengthHeader \o num \o p \o body, head, num, x, Len(body))
<1>1. PICK a \in Nat, n \in Nat, len \in Nat : a = Len(head) /\ n = Len(num) /\ len = Len(body)
  OBVIOUS
<1>2. /\ ContentLengthHeader \in Seq(Byte) /\ Len(ContentLengthHeader) = 2
      /\ ContentLengthHeader[1] = CR /\ ContentLengthHeader[2] = 76
  BY FixedStrings DEF ContentLengthHeader
<1>3. p \in Seq(Byte) /\ Len(p) = 2 /\ p[1] = CR /\ p[2] = x
  BY DEF IsPair
<1>4. PICK u : u = head \o ContentLengthHeader
  OBVIOUS
<1>5. IsJoined(u, head, ContentLengthHeader, Byte)
  BY <1>2, <1>4, JoinedParts
<1>6. /\ u \in Seq(Byte) /\ Len(u) = a + 2 /\ \A j \in 1 .. a : u[j] = head[j]
      /\ u[a + 1] = CR /\ u[a + 2] = 76
  BY <1>1, <1>2, <1>5 DEF IsJoined
<1>7. PICK v : v = u \o num
  OBVIOUS
<1>8. IsJoined(v, u, num, Byte)
  BY <1>6, <1>7, JoinedParts
<1>9. /\ v \in Seq(Byte) /\ Len(v) = a + 2 + n /\ (\A j \in 1 .. a + 2 : v[j] = u[j])
      /\ \A j \in 1 .. n : v[a + 2 + j] = num[j]
  BY <1>1, <1>6, <1>8 DEF IsJoined
<1>10. PICK w : w = v \o p
  OBVIOUS
<1>11. IsJoined(w, v, p, Byte)
  BY <1>3, <1>9, <1>10, JoinedParts
<1>12. /\ w \in Seq(Byte) /\ Len(w) = a + 2 + n + 2 /\ (\A j \in 1 .. a + 2 + n : w[j] = v[j])
       /\ w[a + 2 + n + 1] = CR /\ w[a + 2 + n + 2] = x
  BY <1>1, <1>3, <1>9, <1>11 DEF IsJoined
<1>13. PICK text : text = w \o body
  OBVIOUS
<1>14. IsJoined(text, w, body, Byte)
  BY <1>12, <1>13, JoinedParts
<1>15. /\ text \in Seq(Byte) /\ Len(text) = a + 2 + n + 2 + len
       /\ \A j \in 1 .. a + 2 + n + 2 : text[j] = w[j]
  BY <1>1, <1>12, <1>14 DEF IsJoined
<1>16. \A j \in 1 .. a + 2 : text[j] = u[j]
  BY <1>1, <1>9, <1>12, <1>15
<1>17. \A j \in 1 .. n : text[a + 2 + j] = num[j]
  <2> TAKE j \in 1 .. n
  <2>1. a + 2 + j \in 1 .. a + 2 + n /\ a + 2 + j \in 1 .. a + 2 + n + 2
    BY <1>1
  <2> QED BY <1>9, <1>12, <1>15, <2>1
<1>18. Sections(text, head, num, x, Len(body))
  BY <1>1, <1>6, <1>12, <1>15, <1>16, <1>17 DEF Sections
<1> QED BY <1>4, <1>7, <1>10, <1>13, <1>18

\* The first end of a line after the header of the length ends the length.
LEMMA SectionsFramed ==
    ASSUME NEW head \in Seq(Byte), Quiet(head), NEW num \in Seq(Byte), Unbroken(num),
           NEW text, NEW x, NEW len \in Nat, Sections(text, head, num, x, len), num = Digits[len],
           IsPair(TailSent(backend), CR, x)
    PROVE  Framed(text)
<1> DEFINE At(t, i) == i + Len(t) - 1 <= Len(text) /\ SubSeq(text, i, i + Len(t) - 1) = t
           starts == {i \in DOMAIN text : At(ContentLengthHeader, i)}
           digits == Min(starts) + Len(ContentLengthHeader)
           ends == {i \in digits .. Len(text) : text[i] = CR}
           tail == Min(ends)
           body == tail + Len(TailSent(backend))
<1>1. PICK a \in Nat, n \in Nat : a = Len(head) /\ n = Len(num)
  OBVIOUS
<1>2. /\ text \in Seq(Byte) /\ (\A j \in 1 .. a : text[j] = head[j])
      /\ text[a + 1] = CR /\ text[a + 2] = 76 /\ (\A j \in 1 .. n : text[a + 2 + j] = num[j])
      /\ text[a + 2 + n + 1] = CR /\ text[a + 2 + n + 2] = x
  BY <1>1 DEF Sections
<1>3. PICK m \in Nat : m = Len(text) /\ m = a + 2 + n + 2 + len /\ DOMAIN text = 1 .. m
  <2>1. text \in Seq(Byte) /\ Len(text) = a + 2 + n + 2 + len
    BY <1>1 DEF Sections
  <2>2. Len(text) \in Nat /\ DOMAIN text = 1 .. Len(text)
    BY ONLY <2>1
  <2> QED BY <2>1, <2>2
<1>4. IsPair(ContentLengthHeader, CR, 76)
  BY FixedStrings DEF ContentLengthHeader, IsPair
<1>5. ASSUME NEW i \in Nat \ {0} PROVE At(ContentLengthHeader, i) <=> Pair(text, i, CR, 76)
  <2>1. PICK p : p = ContentLengthHeader
    OBVIOUS
  <2> QED BY <1>2, <1>4, <2>1, PairAt
<1>6. Min(starts) = a + 1
  <2>1. Pair(text, a + 1, CR, 76)
    <3>1. a + 1 + 1 <= Len(text) /\ a + 1 + 1 = a + 2
      BY ONLY <1>3, a \in Nat, n \in Nat, len \in Nat
    <3> QED BY <1>2, <3>1 DEF Pair
  <2>2. a + 1 \in starts
    <3>1. a + 1 \in Nat \ {0} /\ a + 1 \in 1 .. m
      BY <1>3
    <3> QED BY <1>3, <1>5, <2>1, <3>1
  <2>3. ASSUME NEW y \in starts PROVE a + 1 <= y
    <3>1. y \in 1 .. m /\ y \in Nat \ {0} /\ Pair(text, y, CR, 76)
      <4>1. y \in 1 .. m /\ At(ContentLengthHeader, y)
        BY <1>3, <2>3
      <4>2. y \in Nat \ {0}
        BY ONLY <4>1, m \in Nat
      <4> QED BY <1>5, <4>1, <4>2
    <3>2. ASSUME y \in 1 .. a PROVE FALSE
      <4>1. head[y] = CR
        BY <1>2, <3>1, <3>2 DEF Pair
      <4>2. y < a /\ head[y + 1] = 84
        BY <1>1, <3>2, <4>1 DEF Quiet
      <4>3. y + 1 \in 1 .. a
        BY <1>1, <3>2, <4>2
      <4>4. text[y + 1] = 84
        BY <1>2, <4>2, <4>3
      <4>5. text[y + 1] = 76
        BY <3>1 DEF Pair
      <4> QED BY <4>4, <4>5
    <3> QED BY <1>1, <3>1, <3>2
  <2>4. starts \subseteq Int
    BY <1>3
  <2> HIDE DEF starts
  <2> QED BY <2>2, <2>3, <2>4, MinIs
<1>7. digits = a + 3
  <2> HIDE DEF starts
  <2>1. Len(ContentLengthHeader) = 2
    BY <1>4 DEF IsPair
  <2> QED BY <1>6, <2>1
<1>8. tail = a + 2 + n + 1
  <2> HIDE DEF digits
  <2>1. a + 2 + n + 1 \in ends
    <3>1. a + 2 + n + 1 \in a + 3 .. m
      BY <1>3
    <3> QED BY <1>2, <1>3, <1>7, <3>1
  <2>2. ASSUME NEW y \in ends PROVE a + 2 + n + 1 <= y
    <3>1. y \in a + 3 .. m /\ text[y] = CR
      BY <1>3, <1>7, <2>2
    <3>2. ASSUME y <= a + 2 + n PROVE FALSE
      <4>1. PICK j \in 1 .. n : y = a + 2 + j
        <5>1. y - (a + 2) \in 1 .. n /\ y = a + 2 + (y - (a + 2))
          BY ONLY <3>1, <3>2, a \in Nat, n \in Nat, m \in Nat
        <5> QED BY <5>1
      <4>2. num[j] = CR
        BY <1>2, <3>1, <4>1
      <4> QED BY <1>1, <4>1, <4>2 DEF Unbroken
    <3> QED BY ONLY <3>1, <3>2, a \in Nat, n \in Nat, m \in Nat
  <2>3. ends \subseteq Int
    BY <1>3, <1>7
  <2> HIDE DEF ends
  <2> QED BY <2>1, <2>2, <2>3, MinIs
<1>9. At(TailSent(backend), tail)
  <2>1. PICK i \in Nat \ {0} : i = a + 2 + n + 1
    OBVIOUS
  <2>2. Pair(text, i, CR, x)
    <3>1. i + 1 = a + 2 + n + 2 /\ i + 1 <= Len(text)
      BY ONLY <1>3, <2>1, a \in Nat, n \in Nat, len \in Nat
    <3> QED BY <1>2, <2>1, <3>1 DEF Pair
  <2>3. PICK p : p = TailSent(backend)
    OBVIOUS
  <2>4. i + Len(p) - 1 <= Len(text) /\ SubSeq(text, i, i + Len(p) - 1) = p
    <3>1. IsPair(p, CR, x) /\ text \in Seq(Byte)
      BY <1>2, <2>3
    <3>2. Pair(text, i, CR, x) => i + Len(p) - 1 <= Len(text) /\ SubSeq(text, i, i + Len(p) - 1) = p
      BY ONLY <3>1, i \in Nat \ {0}, PairAt
    <3> QED BY <2>2, <3>2
  <2> HIDE DEF tail
  <2> QED BY <1>8, <2>1, <2>3, <2>4
<1>10. SubSeq(text, digits, tail - 1) = num
  <2>1. PICK c \in Nat, d \in Nat : c = a + 2 /\ d = a + 2 + n /\ c <= d /\ d <= Len(text)
    <3>1. a + 2 \in Nat /\ a + 2 + n \in Nat /\ a + 2 <= a + 2 + n /\ a + 2 + n <= Len(text)
      BY ONLY <1>3, a \in Nat, n \in Nat, len \in Nat
    <3> QED BY <3>1
  <2>2. PICK u : u = SubSeq(text, c + 1, d)
    OBVIOUS
  <2>3. IsPart(SubSeq(text, c + 1, d), text, c, d, Byte)
    BY <1>2, <2>1, PartIs
  <2>4. d - c = n
    BY <2>1
  <2>5. u \in Seq(Byte) /\ Len(u) = n /\ \A k \in 1 .. n : u[k] = text[c + k]
    BY <2>2, <2>3, <2>4 DEF IsPart
  <2>6. \A k \in 1 .. Len(num) : u[k] = num[k]
    BY <1>1, <1>2, <2>1, <2>5
  <2>7. u = num
    BY <1>1, <2>5, <2>6, SameString
  <2>8. digits = c + 1 /\ tail - 1 = d
    <3> HIDE DEF digits, tail
    <3> QED BY <1>7, <1>8, <2>1
  <2> HIDE DEF digits, tail
  <2> QED BY <2>2, <2>7, <2>8
<1>11. Len(text) - body + 1 = len
  <2>1. Len(TailSent(backend)) = 2
    BY DEF IsPair
  <2> HIDE DEF tail
  <2> QED BY <1>3, <1>8, <2>1
<1>12. At(TailSent(backend), tail) /\ SubSeq(text, digits, tail - 1) = Digits[Len(text) - body + 1]
  <2> HIDE DEF At, digits, tail, body
  <2> QED BY <1>9, <1>10, <1>11
<1> QED BY <1>12 DEF Framed

\* A response that was built: its texts are printable, so no line of it ends
\* where it should not.
Built(text, b) ==
    \E status \in Nat : \E reason \in Seq(Byte), contentType \in Seq(Byte), body \in Seq(Byte) :
        /\ Printable(reason) /\ Printable(contentType)
        /\ text = BuildResponse(status, reason, contentType, body, b)

\* Every such response is framed.
LEMMA BuiltFramed ==
    ASSUME NEW text, Built(text, backend)
    PROVE  Framed(text)
<1>1. PICK status \in Nat : \E reason \in Seq(Byte), contentType \in Seq(Byte), body \in Seq(Byte) :
          /\ Printable(reason) /\ Printable(contentType)
          /\ text = BuildResponse(status, reason, contentType, body, backend)
  BY DEF Built
<1>2. PICK reason \in Seq(Byte), contentType \in Seq(Byte), body \in Seq(Byte) :
          /\ Printable(reason) /\ Printable(contentType)
          /\ text = BuildResponse(status, reason, contentType, body, backend)
  BY <1>1
<1>3. PICK head : head = HeadOf(status, reason, contentType)
  OBVIOUS
<1>4. head \in Seq(Byte) /\ Quiet(head)
  BY <1>2, <1>3, HeadQuiet
<1>5. PICK len \in Nat : len = Len(body)
  OBVIOUS
<1>6. PICK num : num = Digits[len]
  OBVIOUS
<1>7. num \in Seq(Byte) /\ Unbroken(num)
  BY <1>5, <1>6, DigitsAre, DigitsUnbroken
<1>8. PICK x : IsPair(TailSent(backend), CR, x)
  BY TailIs
<1>9. text = head \o ContentLengthHeader \o num \o TailSent(backend) \o body
  BY <1>2, <1>3, <1>5, <1>6 DEF BuildResponse, HeadOf
<1>10. PICK p : p = TailSent(backend)
  OBVIOUS
<1>11. Sections(head \o ContentLengthHeader \o num \o p \o body, head, num, x, Len(body))
  BY <1>4, <1>7, <1>8, <1>10, SectionsLaid
<1>12. Sections(text, head, num, x, len)
  BY <1>5, <1>9, <1>10, <1>11
<1> QED BY <1>4, <1>6, <1>7, <1>8, <1>12, SectionsFramed

\* Whatever the shader took a request for, it knows the hash of its path.
LEMMA TakenHash ==
    ASSUME NEW s, NEW parts, TakenAs(s, parts), parts.kind = "get"
    PROVE  parts.hash = Hash(parts.path)
<1>1. \A kind : Nothing(kind).kind = kind
  BY DEF Nothing, Parts
<1>2. PICK e, p : parts = PartsAt(s, e, p)
  BY <1>1 DEF TakenAs
<1>3. PartsAt(s, e, p).hash = Hash(PartsAt(s, e, p).path)
  <2>1. PICK path : path = SubSeq(s, WordBytes + 1, p)
    OBVIOUS
  <2>2. PICK query : query = IF p = e THEN <<>> ELSE SubSeq(s, p + 2, e)
    OBVIOUS
  <2>3. PartsAt(s, e, p) = Parts("get", path, query, Hash(path))
    BY <2>1, <2>2 DEF PartsAt
  <2> QED BY <2>3 DEF Parts
<1> QED BY <1>2, <1>3

\* The body the shader says is a string.
LEMMA SaysBodyType ==
    ASSUME NEW r \in ResponseDeclaration, NEW t \in Seq(Seq(Byte)), Speaks(t, r),
           NEW parts \in PartsSet, NEW len \in Nat
    PROVE  SaysBody(t, CompileResponse(t, r), parts, len) \in Seq(Byte)
<1>1. PICK body \in Seq(Call) : body = Body(r.calls)
  BY ResponseIs
<1>2. PICK n \in Nat : n = Len(body) /\ DOMAIN body = 1 .. n /\ \A k \in 1 .. n : body[k] \in Call
  BY <1>1
<1>3. PICK c : c = CompileResponse(t, r)
  OBVIOUS
<1>4. /\ Len(c.segments) = n
      /\ \A k \in 1 .. n : /\ c.segments[k].op = body[k].op /\ c.segments[k].n = body[k].n
                           /\ c.segments[k].gpu = Id(t, body[k].gpu)
  BY <1>1, <1>2, <1>3, CompiledTypes
<1>5. ASSUME NEW k \in 1 .. n PROVE Says(t, c.segments[k], parts, len) \in Seq(Byte)
  <2>1. PICK call \in Call : call = body[k]
    BY <1>2
  <2>2. PICK seg : seg = c.segments[k]
    OBVIOUS
  <2>3. seg.op = call.op /\ seg.n = call.n /\ seg.gpu = Id(t, call.gpu)
    BY <1>4, <2>1, <2>2
  <2>4. CASE Worded(call)
    <3>1. Says(t, seg, parts, len) = TextOf(t, seg.gpu)
      BY <2>3, <2>4 DEF Says, Said, Worded
    <3>2. Knows(t, call.gpu)
      BY <1>1, <1>2, <2>1, <2>4 DEF Speaks
    <3>3. seg.gpu \in 1 .. Len(t)
      BY <2>3, <3>2 DEF Knows
    <3>4. TextOf(t, seg.gpu) \in Seq(Byte)
      <4>1. t[seg.gpu] \in Seq(Byte)
        BY <3>3
      <4> QED BY <4>1, FixedStrings DEF TextOf
    <3> QED BY <2>2, <3>1, <3>4
  <2>5. CASE ~Worded(call)
    <3>1. Says(t, seg, parts, len) = Piece(call, parts, len, "gpu")
      BY <2>1, <2>3, <2>5, CallIs DEF Says, Said, Piece, Worded
    <3> QED BY <2>2, <3>1, PieceTypes
  <2> QED BY <2>4, <2>5
<1>6. PICK says : says = [k \in 1 .. n |-> Says(t, c.segments[k], parts, len)]
  OBVIOUS
<1>7. says \in Seq(Seq(Byte))
  <2>1. says \in [1 .. n -> Seq(Byte)]
    BY <1>5, <1>6
  <2> QED BY ONLY <2>1, n \in Nat
<1>8. FlattenSeq(says) \in Seq(Byte)
  <2>1. <<>> \in Seq(Byte)
    OBVIOUS
  <2> QED BY <1>7, <2>1, FlattenAppend
<1>9. SaysBody(t, c, parts, len) = FlattenSeq(says)
  BY <1>4, <1>6 DEF SaysBody
<1> QED BY <1>3, <1>8, <1>9

\* A response the shader says is built of texts the compiler has looked at.
LEMMA SaidIsBuilt ==
    ASSUME NEW R \in RouterDeclaration, Compiles(R), NEW s \in Seq(Byte), NEW parts, NEW text,
           ShaderSays(R, s, parts, text)
    PROVE  Built(text, "gpu")
<1>1. PICK t, d : t = StringTable(R) /\ d = Declared(R, parts)
  OBVIOUS
<1>2. parts \in PartsSet /\ (parts.kind = "get" => parts.hash = Hash(parts.path))
  BY TakenHash DEF ShaderSays
<1>3. d \in ResponseDeclaration /\ Speaks(t, d)
  BY <1>1, <1>2, DeclaredIs
<1>4. t \in Seq(Seq(Byte)) /\ Knows(t, TailReserved)
  <2>1. TailReserved \in Fixed
    BY DEF Fixed
  <2> QED BY <1>1, <2>1, TableSpeaks
<1>5. ValidResponse(d)
  <2>1. PICK k \in 1 .. Len(Responses(R)) : d = Responses(R)[k]
    BY <1>1, <1>2, DeclaredAmong
  <2> QED BY <2>1, ResponsesValid
<1>6. PICK len \in Nat : len = Len(s)
  OBVIOUS
<1>7. PICK c : c = CompileResponse(t, d)
  OBVIOUS
<1>8. Chosen(Compile(R), parts) = c
  BY <1>1, <1>2, <1>7, ChosenIs
<1>9. text = SaysAll(t, c, parts, len)
  BY <1>1, <1>6, <1>8 DEF ShaderSays
<1>10. c.status = d.status /\ c.reason = Id(t, d.reason) /\ c.contentType = Id(t, d.contentType)
  BY <1>3, <1>4, <1>7, CompiledTypes
<1>11. TextOf(t, c.reason) = d.reason /\ TextOf(t, c.contentType) = d.contentType
  <2>1. Knows(t, d.reason) /\ Knows(t, d.contentType)
    BY <1>3 DEF Speaks
  <2>2. d.reason # TailReserved /\ d.contentType # TailReserved
    <3>1. d.reason \in Seq(Byte) /\ d.contentType \in Seq(Byte)
      BY <1>3 DEF ResponseDeclaration
    <3> QED BY <1>5, <3>1, PrintableSent DEF ValidResponse
  <2> QED BY <1>4, <1>10, <2>1, <2>2, TextSent
<1>12. PICK body : body = SaysBody(t, c, parts, len)
  OBVIOUS
<1>13. body \in Seq(Byte)
  BY <1>2, <1>3, <1>4, <1>7, <1>12, SaysBodyType
<1>14. text = BuildResponse(d.status, d.reason, d.contentType, body, "gpu")
  BY <1>9, <1>10, <1>11, <1>12 DEF SaysAll
<1>15. d.status \in Nat /\ d.reason \in Seq(Byte) /\ d.contentType \in Seq(Byte)
  BY <1>3 DEF ResponseDeclaration
<1>16. Printable(d.reason) /\ Printable(d.contentType)
  BY <1>5 DEF ValidResponse
<1> QED BY <1>13, <1>14, <1>15, <1>16 DEF Built

\* So is a promised one.
LEMMA PromisedIsBuilt ==
    ASSUME NEW R \in RouterDeclaration, Compiles(R), NEW s \in Seq(Byte), NEW b
    PROVE  Built(Promised(R, s, b), b)
<1>1. PICK parts, d : parts = ParseRequest(s) /\ d = Declared(R, parts)
  OBVIOUS
<1>2. parts \in PartsSet
  BY <1>1, ParseTypes
<1>3. d \in ResponseDeclaration
  BY <1>1, <1>2, DeclaredIs
<1>4. ValidResponse(d)
  <2>1. PICK k \in 1 .. Len(Responses(R)) : d = Responses(R)[k]
    BY <1>1, <1>2, DeclaredAmong
  <2> QED BY <2>1, ResponsesValid
<1>5. PICK len \in Nat : len = Len(s)
  OBVIOUS
<1>6. PICK body : body = SayAll(d.calls, parts, len, b)
  OBVIOUS
<1>7. body \in Seq(Byte)
  BY <1>2, <1>3, <1>5, <1>6, PiecesTypes DEF ResponseDeclaration
<1>8. Promised(R, s, b) = BuildResponse(d.status, d.reason, d.contentType, body, b)
  BY <1>1, <1>5, <1>6, PromisedIs
<1>9. d.status \in Nat /\ d.reason \in Seq(Byte) /\ d.contentType \in Seq(Byte)
  BY <1>3 DEF ResponseDeclaration
<1>10. Printable(d.reason) /\ Printable(d.contentType)
  BY <1>4 DEF ValidResponse
<1> QED BY <1>7, <1>8, <1>9, <1>10 DEF Built

-----------------------------------------------------------------------------
(* Lengths hold on every backend.                                          *)

\* The Content-Length of every response, also to a malformed request, is the
\* length of the body that follows: a client is never out of step on its
\* connection, for any router, any batches and either backend.
THEOREM LengthsHold == Spec => []ContentLengthHolds
<1>1. ASSUME Ground, Device, phase = "done", result.ok, NEW i \in DOMAIN batch
      PROVE  Framed(result.responses[i])
  <2>1. router \in RouterDeclaration /\ Compiles(router) /\ router \in Routers
    BY <1>1, BatchIs DEF Ground
  <2>2. CASE backend = "gpu"
    <3>1. Returned(router, batch, result.responses)
      BY <1>1, <2>2 DEF Device
    <3>2. PICK parts : ShaderSays(router, batch[i], parts, result.responses[i])
      BY <1>1, <3>1 DEF Returned
    <3>3. batch[i] \in Seq(Byte)
      BY <1>1, BatchIs
    <3>4. Built(result.responses[i], backend)
      BY <2>1, <2>2, <3>2, <3>3, SaidIsBuilt
    <3> QED BY <3>4, BuiltFramed
  <2>3. CASE backend = "cpu"
    <3>1. AnswersAsDeclared
      BY <1>1, <2>3, CpuAnswersDeclared
    <3>2. result.responses[i] = Promised(router, batch[i], backend)
      BY <1>1, <2>3, <3>1 DEF AnswersAsDeclared
    <3>3. batch[i] \in Seq(Byte)
      BY <1>1, BatchIs
    <3>4. Built(result.responses[i], backend)
      BY <2>1, <3>2, <3>3, PromisedIsBuilt
    <3> QED BY <3>4, BuiltFramed
  <2>4. backend \in {"cpu", "gpu"}
    BY <1>1 DEF Ground
  <2> QED BY <2>2, <2>3, <2>4
<1>2. Ground /\ Device => ContentLengthHolds
  BY <1>1 DEF ContentLengthHolds
<1> QED BY <1>2, GroundHolds, DeviceHolds, PTL
================================================================================
