------------------------------ MODULE Inductions ------------------------------
(***************************************************************************)
(* Induction over the naturals for sets instead of predicates, and what it *)
(* gives for functions defined by recursion, folds and concatenations; and *)
(* the parts of sequences.  The modules that prove facts about such        *)
(* definitions cite these lemmas.                                          *)
(* Nothing here is about the program.                                      *)
(***************************************************************************)
EXTENDS SequencesExt, SequenceTheorems, WellFoundedInduction, TLAPS

\* A set of naturals that is not empty has a least element.
LEMMA Least ==
    ASSUME NEW T, T \subseteq Nat, T # {}
    PROVE  \E n \in T : \A m \in T : n <= m
<1> DEFINE R == {p \in Nat \X Nat : p[1] < p[2]}
<1>1. OpToRel(<, Nat) = R
  BY DEF OpToRel
<1>2. IsWellFoundedOn(R, Nat)
  BY <1>1, NatLessThanWellFounded
<1>3. PICK x \in T : \A y \in T : <<y, x>> \notin R
  <2> HIDE DEF R
  <2> QED BY <1>2, WFMin
<1>4. \A y \in T : ~(y < x)
  BY <1>3
<1> QED BY <1>4

\* Induction, for the members of a set.
LEMMA Induction ==
    ASSUME NEW S, 0 \in S, \A n \in Nat : n \in S => n + 1 \in S
    PROVE  Nat \subseteq S
<1> SUFFICES ASSUME Nat \ S # {} PROVE FALSE
  OBVIOUS
<1>1. PICK n \in Nat \ S : \A m \in Nat \ S : n <= m
  <2> DEFINE T == Nat \ S
  <2>1. T \subseteq Nat /\ T # {}
    OBVIOUS
  <2> HIDE DEF T
  <2>2. \E n \in T : \A m \in T : n <= m
    BY <2>1, Least
  <2> QED BY <2>2 DEF T
<1>2. n # 0 /\ n - 1 \in Nat /\ n - 1 \in S
  <2>1. n # 0
    OBVIOUS
  <2>2. n - 1 \in Nat
    BY <2>1
  <2> QED BY <1>1, <2>1, <2>2
<1>3. (n - 1) + 1 \in S
  BY <1>2
<1> QED BY <1>3

\* Steps[n + 1] leads from the n-th value to the next: g is the function on
\* 0 .. N that starts at a and takes these steps.
Iterates(g, N, A, a, steps) ==
    /\ g \in [0 .. N -> A]
    /\ g[0] = a
    /\ \A n \in 0 .. N - 1 : g[n + 1] = steps[n + 1][g[n]]

\* ... and there is one.  A function that is defined by recursion over 0 .. N
\* is therefore what its definition says: the CHOOSE it stands for has a value.
LEMMA Iteration ==
    ASSUME NEW A, NEW a \in A, NEW N \in Nat, NEW steps \in [1 .. N -> [A -> A]]
    PROVE  \E g : Iterates(g, N, A, a, steps)
<1> DEFINE Good == {n \in Nat : n <= N => \E g : Iterates(g, n, A, a, steps)}
<1>1. 0 \in Good
  <2> DEFINE g == [k \in 0 .. 0 |-> a]
  <2>1. Iterates(g, 0, A, a, steps)
    BY DEF Iterates
  <2> QED BY <2>1
<1>2. ASSUME NEW n \in Nat, n \in Good PROVE n + 1 \in Good
  <2> SUFFICES ASSUME n + 1 <= N PROVE \E g : Iterates(g, n + 1, A, a, steps)
    OBVIOUS
  <2>1. PICK g : Iterates(g, n, A, a, steps)
    BY <1>2
  <2> DEFINE h == [k \in 0 .. n + 1 |-> IF k = n + 1 THEN steps[n + 1][g[n]] ELSE g[k]]
  <2>2. g \in [0 .. n -> A] /\ g[0] = a /\ g[n] \in A
    BY <2>1 DEF Iterates
  <2>3. n + 1 \in 1 .. N
    OBVIOUS
  <2>4. steps[n + 1][g[n]] \in A
    BY <2>2, <2>3
  <2>5. \A k \in 0 .. n + 1 : h[k] \in A
    BY <2>2, <2>4
  <2>6. h[0] = a
    BY <2>2
  <2>7. ASSUME NEW k \in 0 .. (n + 1) - 1 PROVE h[k + 1] = steps[k + 1][h[k]]
    <3>1. CASE k = n
      BY <3>1
    <3>2. CASE k # n
      <4>1. k \in 0 .. n - 1 /\ k + 1 \in 0 .. n + 1 /\ k \in 0 .. n + 1 /\ k + 1 # n + 1 /\ k # n + 1
        BY <3>2
      <4>2. g[k + 1] = steps[k + 1][g[k]]
        BY <2>1, <4>1 DEF Iterates
      <4> QED BY <4>1, <4>2
    <3> QED BY <3>1, <3>2
  <2> HIDE DEF h
  <2>8. h \in [0 .. n + 1 -> A]
    BY <2>5 DEF h
  <2>9. Iterates(h, n + 1, A, a, steps)
    BY <2>6, <2>7, <2>8 DEF Iterates
  <2> QED BY <2>9
<1> HIDE DEF Good
<1>3. Nat \subseteq Good
  BY <1>1, <1>2, Induction
<1> QED BY <1>3 DEF Good

-----------------------------------------------------------------------------
\* Adding up: f[n] is the sum of the first n numbers.
SumsUp(f, N, numbers) ==
    f = [n \in 0 .. N |-> IF n = 0 THEN 0 ELSE f[n - 1] + numbers[n]]

Sums(f, N, numbers) == N \in Nat /\ numbers \in [1 .. N -> Nat] /\ SumsUp(f, N, numbers)

LEMMA SumsExist ==
    ASSUME NEW N \in Nat, NEW numbers \in [1 .. N -> Nat]
    PROVE  \E f : SumsUp(f, N, numbers)
<1> DEFINE steps == [n \in 1 .. N |-> [x \in Nat |-> x + numbers[n]]]
<1>1. \A n \in 1 .. N : \A x \in Nat : x + numbers[n] \in Nat
  OBVIOUS
<1>2. steps \in [1 .. N -> [Nat -> Nat]]
  BY <1>1
<1>3. PICK g : Iterates(g, N, Nat, 0, steps)
  <2> HIDE DEF steps
  <2> QED BY <1>2, Iteration
<1> DEFINE h == [n \in 0 .. N |-> IF n = 0 THEN 0 ELSE g[n - 1] + numbers[n]]
<1>4. g \in [0 .. N -> Nat] /\ g[0] = 0
  BY <1>3 DEF Iterates
<1>5. ASSUME NEW n \in 0 .. N PROVE g[n] = h[n]
  <2>1. CASE n = 0
    BY <1>4, <2>1
  <2>2. CASE n # 0
    <3>1. n - 1 \in 0 .. N - 1 /\ n - 1 \in 0 .. N /\ (n - 1) + 1 = n /\ n \in 1 .. N
      BY <2>2
    <3>2. g[(n - 1) + 1] = steps[(n - 1) + 1][g[n - 1]]
      <4> HIDE DEF steps
      <4> QED BY <1>3, <3>1 DEF Iterates
    <3>3. g[n - 1] \in Nat
      BY <1>4, <3>1
    <3>4. steps[n][g[n - 1]] = g[n - 1] + numbers[n]
      BY <3>1, <3>3
    <3> HIDE DEF steps
    <3> QED BY <2>2, <3>1, <3>2, <3>4
  <2> QED BY <2>1, <2>2
<1>6. g = h
  <2> HIDE DEF steps
  <2> QED BY <1>4, <1>5
<1> QED BY <1>6 DEF SumsUp

LEMMA SumsTypes ==
    ASSUME NEW N, NEW numbers, NEW f, Sums(f, N, numbers)
    PROVE  /\ f[0] = 0
           /\ \A n \in 0 .. N : f[n] \in Nat
           /\ \A n \in 1 .. N : f[n] = f[n - 1] + numbers[n]
<1>1. \A n \in 0 .. N : f[n] = IF n = 0 THEN 0 ELSE f[n - 1] + numbers[n]
  BY ZenonT(20) DEF Sums, SumsUp
<1>0. N \in Nat /\ numbers \in [1 .. N -> Nat]
  BY DEF Sums
<1> DEFINE S == {n \in Nat : n <= N => f[n] \in Nat}
<1>2. f[0] = 0
  BY <1>0, <1>1
<1>3. \A n \in 1 .. N : f[n] = f[n - 1] + numbers[n]
  BY <1>0, <1>1
<1>4. 0 \in S
  BY <1>2
<1>5. ASSUME NEW n \in Nat, n \in S PROVE n + 1 \in S
  <2> SUFFICES ASSUME n + 1 <= N PROVE f[n + 1] \in Nat
    OBVIOUS
  <2>1. f[n] \in Nat /\ n + 1 \in 1 .. N /\ (n + 1) - 1 = n
    BY <1>0, <1>5
  <2>2. numbers[n + 1] \in Nat
    BY <1>0, <2>1
  <2> QED BY <1>3, <2>1, <2>2
<1> HIDE DEF S
<1>6. Nat \subseteq S
  BY <1>4, <1>5, Induction
<1> QED BY <1>0, <1>2, <1>3, <1>6 DEF S

\* Sums of the same numbers are the same, whatever follows these.
FirstOf(M, others, numbers) == \A n \in 1 .. M : others[n] = numbers[n]

LEMMA SumsAgree ==
    ASSUME NEW N, NEW numbers, NEW f, Sums(f, N, numbers),
           NEW M, NEW others, NEW g, Sums(g, M, others), M <= N, FirstOf(M, others, numbers)
    PROVE  g[M] = f[M]
<1>0. N \in Nat /\ M \in Nat
  BY DEF Sums
<1>1. f[0] = 0 /\ \A n \in 1 .. N : f[n] = f[n - 1] + numbers[n]
  BY SumsTypes
<1>2. g[0] = 0 /\ \A n \in 1 .. M : g[n] = g[n - 1] + others[n]
  BY SumsTypes
<1> DEFINE S == {n \in Nat : n <= M => f[n] = g[n]}
<1>3. 0 \in S
  BY <1>1, <1>2
<1>4. ASSUME NEW n \in Nat, n \in S PROVE n + 1 \in S
  <2> SUFFICES ASSUME n + 1 <= M PROVE f[n + 1] = g[n + 1]
    OBVIOUS
  <2>1. f[n] = g[n] /\ n + 1 \in 1 .. M /\ n + 1 \in 1 .. N /\ (n + 1) - 1 = n
    BY <1>0, <1>4
  <2> QED BY <1>1, <1>2, <2>1 DEF FirstOf
<1> HIDE DEF S
<1>5. Nat \subseteq S
  BY <1>3, <1>4, Induction
<1> QED BY <1>0, <1>5 DEF S

LEMMA SumsNext ==
    ASSUME NEW N, NEW numbers, NEW f, Sums(f, N, numbers),
           NEW others, NEW g, Sums(g, N + 1, others), FirstOf(N, numbers, others)
    PROVE  g[N + 1] = f[N] + others[N + 1]
<1> DEFINE M == N + 1
<1>1. N \in Nat /\ M \in Nat /\ N <= M /\ M \in 1 .. M /\ M - 1 = N
  BY DEF Sums
<1>2. Sums(g, M, others)
  OBVIOUS
<1> HIDE DEF M
<1>3. f[N] = g[N]
  BY <1>1, <1>2, SumsAgree
<1>4. \A n \in 1 .. M : g[n] = g[n - 1] + others[n]
  BY <1>2, SumsTypes
<1>5. g[M] = g[M - 1] + others[M]
  BY <1>1, <1>4
<1>6. g[M] = f[N] + others[M]
  BY <1>1, <1>3, <1>5
<1> QED BY <1>6 DEF M

-----------------------------------------------------------------------------
(* Quotients.                                                              *)

LEMMA Quotient ==
    ASSUME NEW n \in Nat, NEW N \in Nat, N > 0
    PROVE  n \div N \in Nat /\ n % N \in 0 .. N - 1 /\ n = N * (n \div N) + (n % N)
<1> DEFINE q == n \div N
           r == n % N
<1>1. q \in Nat /\ r \in 0 .. N - 1 /\ n = N * q + r
  OBVIOUS
<1> QED BY <1>1

LEMMA QuotientIs ==
    ASSUME NEW n \in Nat, NEW N \in Nat, N > 0, NEW q \in Nat, NEW r \in 0 .. N - 1, n = N * q + r
    PROVE  n \div N = q /\ n % N = r
<1> DEFINE p == n \div N
           t == n % N
<1>1. p \in Nat /\ t \in 0 .. N - 1 /\ n = N * p + t
  OBVIOUS
<1> HIDE DEF p, t
<1>2. N * p + t = N * q + r
  BY <1>1
<1>3. CASE p > q
  <2>1. N * (p - q) >= N
    BY <1>1, <1>3
  <2> QED BY <1>1, <1>2, <2>1
<1>4. CASE p < q
  <2>1. N * (q - p) >= N
    BY <1>1, <1>4
  <2> QED BY <1>1, <1>2, <2>1
<1>5. p = q
  BY <1>1, <1>3, <1>4
<1>6. t = r
  BY <1>1, <1>2, <1>5
<1> QED BY <1>5, <1>6 DEF p, t

-----------------------------------------------------------------------------
(* Concatenations.                                                         *)

\* The unfinished concatenations of FlattenSeq.
Flattens(f, seqs) ==
    f = [i \in 1 .. Len(seqs) |-> IF i = 1 THEN seqs[i] ELSE f[i - 1] \o seqs[i]]

LEMMA FlattensExist ==
    ASSUME NEW A, NEW seqs \in Seq(Seq(A))
    PROVE  \E f : Flattens(f, seqs)
<1> DEFINE N == Len(seqs)
           B == Seq(A)
           step(n) == [x \in B |-> IF n = 1 THEN seqs[n] ELSE x \o seqs[n]]
           steps == [n \in 1 .. N |-> step(n)]
<1>1. N \in Nat /\ <<>> \in B /\ \A n \in 1 .. N : seqs[n] \in B
  OBVIOUS
<1>2. ASSUME NEW n \in 1 .. N PROVE step(n) \in [B -> B]
  <2>1. seqs[n] \in B /\ \A x \in B : x \o seqs[n] \in B
    BY <1>1
  <2> HIDE DEF B
  <2> QED BY <2>1
<1>3. steps \in [1 .. N -> [B -> B]]
  <2> HIDE DEF step, B
  <2> QED BY <1>2
<1>4. PICK g : Iterates(g, N, B, <<>>, steps)
  <2> HIDE DEF steps, B, N
  <2> QED BY <1>1, <1>3, Iteration
<1>5. g \in [0 .. N -> B]
  BY <1>4 DEF Iterates
<1>6. ASSUME NEW n \in 1 .. N
      PROVE  g[n] = IF n = 1 THEN seqs[n] ELSE g[n - 1] \o seqs[n]
  <2>1. n - 1 \in 0 .. N - 1 /\ (n - 1) + 1 = n /\ n - 1 \in 0 .. N
    BY <1>1
  <2>2. g[(n - 1) + 1] = steps[(n - 1) + 1][g[n - 1]]
    <3> HIDE DEF steps, B, N
    <3> QED BY <1>4, <2>1 DEF Iterates
  <2>3. g[n - 1] \in B
    <3> HIDE DEF B, N
    <3> QED BY <1>5, <2>1
  <2>4. steps[n] = step(n)
    <3> HIDE DEF step
    <3> QED OBVIOUS
  <2>5. step(n)[g[n - 1]] = IF n = 1 THEN seqs[n] ELSE g[n - 1] \o seqs[n]
    <3> HIDE DEF B, N
    <3> QED BY <2>3
  <2> HIDE DEF steps, step, B, N
  <2> QED BY <2>1, <2>2, <2>4, <2>5
<1> DEFINE f == [i \in 1 .. N |-> g[i]]
           h == [i \in 1 .. N |-> IF i = 1 THEN seqs[i] ELSE f[i - 1] \o seqs[i]]
<1>7. ASSUME NEW n \in 1 .. N PROVE f[n] = h[n]
  <2>1. CASE n = 1
    BY <1>6, <2>1
  <2>2. CASE n # 1
    <3>1. n - 1 \in 1 .. N
      BY <1>1, <2>2
    <3>2. f[n - 1] = g[n - 1]
      BY <3>1
    <3> QED BY <1>6, <2>2, <3>2
  <2> QED BY <2>1, <2>2
<1>8. f = h
  BY <1>7
<1> QED BY <1>8 DEF Flattens

\* A part of a part.
LEMMA SubSeqFacts ==
    ASSUME NEW A, NEW p \in Seq(A), NEW j \in Nat \ {0}, NEW k \in Nat, k <= Len(p)
    PROVE  /\ SubSeq(p, j, k) \in Seq(A)
           /\ Len(SubSeq(p, j, k)) = IF j <= k THEN k - j + 1 ELSE 0
           /\ \A i \in 1 .. (k - j) + 1 : SubSeq(p, j, k)[i] = p[(j - 1) + i]
<1>1. SubSeq(p, j, k) \in Seq(A) /\ Len(SubSeq(p, j, k)) = IF j <= k THEN k - j + 1 ELSE 0
  OBVIOUS
<1>2. ASSUME NEW i \in 1 .. (k - j) + 1 PROVE SubSeq(p, j, k)[i] = p[(j - 1) + i]
  <2>1. SubSeq(p, j, k)[i] = p[j + i - 1] /\ j + i - 1 = (j - 1) + i
    OBVIOUS
  <2> QED BY <2>1, Zenon
<1> QED BY <1>1, <1>2

\* The concatenation is the last of the unfinished ones.
LEMMA FlattenIs ==
    ASSUME NEW A, NEW seqs \in Seq(Seq(A))
    PROVE  \E f : /\ \A n \in 1 .. Len(seqs) : f[n] = IF n = 1 THEN seqs[n] ELSE f[n - 1] \o seqs[n]
                  /\ FlattenSeq(seqs) = IF Len(seqs) = 0 THEN seqs ELSE f[Len(seqs)]
<1> DEFINE flatten == CHOOSE f : f = [i \in 1 .. Len(seqs) |-> IF i = 1 THEN seqs[i] ELSE f[i - 1] \o seqs[i]]
<1>1. Flattens(flatten, seqs)
  <2>1. PICK f : Flattens(f, seqs)
    BY FlattensExist
  <2> QED BY <2>1 DEF Flattens
<1>2. CASE Len(seqs) = 0
  BY <1>2, SMT DEF FlattenSeq
<1>3. CASE Len(seqs) # 0
  <2>1. FlattenSeq(seqs) = flatten[Len(seqs)]
    BY <1>3 DEF FlattenSeq
  <2> HIDE DEF flatten
  <2>2. \A n \in 1 .. Len(seqs) : flatten[n] = IF n = 1 THEN seqs[n] ELSE flatten[n - 1] \o seqs[n]
    BY <1>1, ZenonT(20) DEF Flattens
  <2> QED BY <1>3, <2>1, <2>2
<1> QED BY <1>2, <1>3

\* Another sequence is laid behind the others.
LEMMA FlattenAppend ==
    ASSUME NEW A, NEW seqs \in Seq(Seq(A)), NEW t \in Seq(A)
    PROVE  /\ FlattenSeq(seqs) \in Seq(A)
           /\ FlattenSeq(Append(seqs, t)) = FlattenSeq(seqs) \o t
<1> DEFINE N == Len(seqs)
           more == Append(seqs, t)
<1>1. /\ N \in Nat /\ more \in Seq(Seq(A)) /\ Len(more) = N + 1 /\ more[N + 1] = t
      /\ \A n \in 1 .. N : seqs[n] \in Seq(A) /\ more[n] = seqs[n]
  OBVIOUS
<1>2. PICK f : /\ \A n \in 1 .. N : f[n] = IF n = 1 THEN seqs[n] ELSE f[n - 1] \o seqs[n]
               /\ FlattenSeq(seqs) = IF N = 0 THEN seqs ELSE f[N]
  BY FlattenIs
<1> HIDE DEF more
<1>3. PICK g : /\ \A n \in 1 .. Len(more) : g[n] = IF n = 1 THEN more[n] ELSE g[n - 1] \o more[n]
               /\ FlattenSeq(more) = IF Len(more) = 0 THEN more ELSE g[Len(more)]
  BY <1>1, FlattenIs
<1>12. FlattenSeq(more) = g[N + 1]
  BY <1>1, <1>3
<1>4. \A n \in 1 .. N : f[n] = IF n = 1 THEN seqs[n] ELSE f[n - 1] \o seqs[n]
  BY <1>2
<1>5. \A n \in 1 .. N + 1 : g[n] = IF n = 1 THEN more[n] ELSE g[n - 1] \o more[n]
  BY <1>1, <1>3
<1> DEFINE S == {k \in Nat : k + 1 <= N => f[k + 1] \in Seq(A) /\ g[k + 1] = f[k + 1]}
<1> HIDE DEF N
<1>6. 0 \in S
  <2> SUFFICES ASSUME 1 <= N PROVE f[1] \in Seq(A) /\ g[1] = f[1]
    OBVIOUS
  <2>1. 1 \in 1 .. N /\ 1 \in 1 .. N + 1
    BY <1>1
  <2> QED BY <1>1, <1>4, <1>5, <2>1
<1>7. ASSUME NEW k \in Nat, k \in S PROVE k + 1 \in S
  <2> SUFFICES ASSUME (k + 1) + 1 <= N
               PROVE  f[(k + 1) + 1] \in Seq(A) /\ g[(k + 1) + 1] = f[(k + 1) + 1]
    OBVIOUS
  <2> DEFINE m == (k + 1) + 1
  <2>1. m \in 1 .. N /\ m \in 1 .. N + 1 /\ m # 1 /\ m - 1 = k + 1 /\ k + 1 <= N
    BY <1>1
  <2>2. f[m - 1] \in Seq(A) /\ g[m - 1] = f[m - 1]
    BY <1>7, <2>1
  <2> HIDE DEF m
  <2>3. f[m] = f[m - 1] \o seqs[m] /\ g[m] = g[m - 1] \o more[m] /\ more[m] = seqs[m] /\ seqs[m] \in Seq(A)
    BY <1>1, <1>4, <1>5, <2>1
  <2>4. f[m] \in Seq(A) /\ g[m] = f[m]
    BY <2>2, <2>3
  <2> QED BY <2>4 DEF m
<1> HIDE DEF S
<1>8. Nat \subseteq S
  BY <1>6, <1>7, Induction
<1>9. CASE N = 0
  <2>1. seqs = <<>> /\ 1 \in 1 .. N + 1 /\ N + 1 = 1
    BY <1>9 DEF N
  <2>2. FlattenSeq(seqs) = <<>> /\ FlattenSeq(more) = t
    BY <1>1, <1>2, <1>12, <1>5, <1>9, <2>1
  <2>3. <<>> \o t = t /\ <<>> \in Seq(A)
    OBVIOUS
  <2> QED BY <2>2, <2>3 DEF more
<1>10. CASE N > 0
  <2>1. N - 1 \in Nat /\ (N - 1) + 1 = N /\ N + 1 \in 1 .. N + 1 /\ N + 1 # 1 /\ (N + 1) - 1 = N /\ N # 0 /\ N <= N
    BY <1>1, <1>10
  <2>2. f[N] \in Seq(A) /\ g[N] = f[N]
    <3>1. N - 1 \in S
      BY <1>8, <2>1
    <3> QED BY <2>1, <3>1 DEF S
  <2>3. g[N + 1] = g[N] \o t
    BY <1>1, <1>5, <2>1
  <2> QED BY <1>2, <1>12, <2>1, <2>2, <2>3 DEF more
<1> QED BY <1>1, <1>9, <1>10

\* A sequence cut in two is its parts.
LEMMA CutInTwo ==
    ASSUME NEW A, NEW s \in Seq(A), NEW n \in 0 .. Len(s)
    PROVE  /\ SubSeq(s, 1, n) \in Seq(A) /\ Len(SubSeq(s, 1, n)) = n
           /\ SubSeq(s, n + 1, Len(s)) \in Seq(A)
           /\ s = SubSeq(s, 1, n) \o SubSeq(s, n + 1, Len(s))
<1> DEFINE N == Len(s)
           front == SubSeq(s, 1, n)
           rest == SubSeq(s, n + 1, N)
<1>1. N \in Nat /\ n \in Int /\ n + 1 \in Int /\ \A i \in 1 .. N : s[i] \in A
  OBVIOUS
<1>2. front \in Seq(A) /\ Len(front) = n /\ \A i \in 1 .. n : front[i] = s[i]
  <2>1. \A i \in 1 .. n : s[i] \in A
    BY <1>1
  <2> QED BY <1>1, <2>1
<1>3. rest \in Seq(A) /\ Len(rest) = N - n /\ \A i \in 1 .. N - n : rest[i] = s[n + i]
  <2>1. \A i \in n + 1 .. N : s[i] \in A
    BY <1>1
  <2> QED BY <1>1, <2>1
<1> HIDE DEF front, rest
<1>4. s = front \o rest
  <2> DEFINE all == front \o rest
  <2>1. all \in Seq(A) /\ Len(all) = N
    <3>1. all \in Seq(A) /\ Len(all) = Len(front) + Len(rest)
      BY <1>2, <1>3, ConcatProperties
    <3> HIDE DEF all, N
    <3> QED BY <1>1, <1>2, <1>3, <3>1
  <2>2. ASSUME NEW i \in 1 .. N PROVE all[i] = s[i]
    <3>1. all[i] = IF i <= n THEN front[i] ELSE rest[i - n]
      BY <1>1, <1>2, <1>3
    <3> QED BY <1>1, <1>2, <1>3, <3>1
  <2> HIDE DEF all
  <2>3. all = s
    BY <2>1, <2>2, SeqEqual
  <2> QED BY <2>3 DEF all
<1> QED BY <1>2, <1>3, <1>4 DEF front, rest

-----------------------------------------------------------------------------
(* Sequences laid one after the other.                                     *)

\* b[i] is where the i-th sequence begins.
Begins(b, seqs) == b[1] = 0 /\ \A i \in 1 .. Len(seqs) : b[i + 1] = b[i] + Len(seqs[i])

\* After k sequences the first k of them are where they begin.
LaidOut(flat, k, b, seqs) ==
    /\ Len(flat) = b[k + 1]
    /\ \A i \in 1 .. k : \A w \in 1 .. Len(seqs[i]) :
          b[i] + w \in 1 .. Len(flat) /\ flat[b[i] + w] = seqs[i][w]

LEMMA FlattenLaysOut ==
    ASSUME NEW A, NEW seqs \in Seq(Seq(A)), seqs # <<>>, NEW b, Begins(b, seqs)
    PROVE  FlattenSeq(seqs) \in Seq(A) /\ LaidOut(FlattenSeq(seqs), Len(seqs), b, seqs)
<1> DEFINE N == Len(seqs)
           flatten == CHOOSE f : f = [i \in 1 .. N |-> IF i = 1 THEN seqs[i] ELSE f[i - 1] \o seqs[i]]
<1>1. N \in Nat /\ N > 0 /\ \A n \in 1 .. N : seqs[n] \in Seq(A)
  OBVIOUS
<1>2. Flattens(flatten, seqs)
  <2>1. PICK f : Flattens(f, seqs)
    BY FlattensExist
  <2> QED BY <2>1 DEF Flattens
<1>3. FlattenSeq(seqs) = flatten[N]
  BY <1>1 DEF FlattenSeq
<1> HIDE DEF flatten
<1>4. \A n \in 1 .. N : flatten[n] = IF n = 1 THEN seqs[n] ELSE flatten[n - 1] \o seqs[n]
  BY <1>2, ZenonT(20) DEF Flattens
<1> HIDE DEF N
<1> DEFINE S == {k \in Nat : k + 1 <= N => flatten[k + 1] \in Seq(A)
                                           /\ LaidOut(flatten[k + 1], k + 1, b, seqs)}
<1>5. b[1] = 0 /\ \A n \in 1 .. N : b[n + 1] = b[n] + Len(seqs[n])
  BY DEF Begins, N
<1>6. 0 \in S
  <2>1. 1 \in 1 .. N
    BY <1>1
  <2>2. flatten[1] = seqs[1] /\ seqs[1] \in Seq(A) /\ Len(seqs[1]) \in Nat
    BY <1>1, <1>4, <2>1
  <2>3. b[1] = 0 /\ b[1 + 1] = Len(seqs[1])
    BY <1>5, <2>1, <2>2
  <2>4. LaidOut(flatten[1], 1, b, seqs)
    BY <2>2, <2>3 DEF LaidOut
  <2> QED BY <2>2, <2>4
<1>7. ASSUME NEW k \in Nat, k \in S PROVE k + 1 \in S
  <2> DEFINE m == k + 1
             flat == flatten[m]
             t == seqs[m + 1]
  <2> SUFFICES ASSUME m + 1 <= N
               PROVE  flatten[m + 1] \in Seq(A) /\ LaidOut(flatten[m + 1], m + 1, b, seqs)
    OBVIOUS
  <2>1. m \in 1 .. N /\ m + 1 \in 1 .. N /\ m + 1 # 1 /\ (m + 1) - 1 = m
    BY <1>1
  <2>2. flat \in Seq(A) /\ LaidOut(flat, m, b, seqs)
    BY <1>7, <2>1
  <2>3. flatten[m + 1] = flat \o t /\ t \in Seq(A)
    BY <1>1, <1>4, <2>1
  <2>4. b[(m + 1) + 1] = b[m + 1] + Len(t)
    BY <1>5, <2>1
  <2> HIDE DEF flat, t, m
  <2>5. Len(flat) = b[m + 1] /\ Len(flat) \in Nat /\ Len(t) \in Nat /\ m \in Nat
    BY <2>1, <2>2, <2>3 DEF LaidOut
  <2>6. /\ flat \o t \in Seq(A) /\ Len(flat \o t) = Len(flat) + Len(t)
        /\ \A w \in 1 .. Len(flat) : (flat \o t)[w] = flat[w]
        /\ \A w \in 1 .. Len(t) : (flat \o t)[Len(flat) + w] = t[w]
    BY <2>2, <2>3
  <2> DEFINE all == flat \o t
  <2>7. Len(all) = b[(m + 1) + 1]
    BY <2>4, <2>5, <2>6
  <2>8. ASSUME NEW i \in 1 .. m + 1, NEW w \in 1 .. Len(seqs[i])
        PROVE  b[i] + w \in 1 .. Len(all) /\ all[b[i] + w] = seqs[i][w]
    <3> HIDE DEF all
    <3>0. Len(all) = Len(flat) + Len(t)
      BY <2>6 DEF all
    <3>1. CASE i \in 1 .. m
      <4>1. b[i] + w \in 1 .. Len(flat) /\ flat[b[i] + w] = seqs[i][w]
        BY <2>2, <3>1 DEF LaidOut
      <4>2. all[b[i] + w] = flat[b[i] + w]
        BY <2>6, <4>1 DEF all
      <4> QED BY <2>5, <3>0, <4>1, <4>2, SMTT(60)
    <3>2. CASE i = m + 1
      <4>1. b[i] = Len(flat) /\ seqs[i] = t /\ w \in 1 .. Len(t)
        BY <2>5, <3>2 DEF t
      <4>2. all[Len(flat) + w] = t[w]
        BY <2>6, <4>1 DEF all
      <4> QED BY <2>5, <3>0, <4>1, <4>2, SMTT(60)
    <3> QED BY <2>5, <3>1, <3>2
  <2>9. LaidOut(all, m + 1, b, seqs)
    <3> HIDE DEF all
    <3> QED BY <2>7, <2>8 DEF LaidOut
  <2> QED BY <2>3, <2>6, <2>9
<1> HIDE DEF S
<1>8. Nat \subseteq S
  BY <1>6, <1>7, Induction
<1>9. N - 1 \in Nat /\ (N - 1) + 1 = N
  BY <1>1
<1>10. N - 1 \in S
  BY <1>8, <1>9
<1>11. flatten[N] \in Seq(A) /\ LaidOut(flatten[N], N, b, seqs)
  BY <1>9, <1>10 DEF S
<1> QED BY <1>3, <1>11 DEF N

-----------------------------------------------------------------------------
(* Folds.                                                                  *)

\* The least and the greatest of a set of numbers.
LEMMA MinIs ==
    ASSUME NEW S, S \subseteq Int, NEW x \in S, \A y \in S : x <= y
    PROVE  Min(S) = x
<1> DEFINE P(z) == z \in S /\ \A y \in S : z <= y
<1>1. Min(S) \in S /\ \A y \in S : Min(S) <= y
  BY Zenon DEF Min
<1>2. Min(S) <= x /\ x <= Min(S) /\ x \in Int /\ Min(S) \in Int
  BY <1>1
<1> QED BY <1>2

LEMMA MinOf ==
    ASSUME NEW S, S \subseteq Nat, S # {}
    PROVE  Min(S) \in S /\ \A y \in S : Min(S) <= y
<1>1. PICK x \in S : \A y \in S : x <= y
  BY Least
<1> QED BY <1>1, Zenon DEF Min

LEMMA MaxOf ==
    ASSUME NEW N \in Nat, NEW S \in SUBSET (0 .. N), S # {}
    PROVE  Max(S) \in S /\ \A y \in S : Max(S) >= y
<1> DEFINE T == {N - x : x \in S}
<1>1. T \subseteq Nat /\ T # {}
  <2>1. \A x \in S : N - x \in Nat
    OBVIOUS
  <2> QED BY <2>1
<1>2. PICK z \in T : \A y \in T : z <= y
  BY <1>1, Least
<1>3. PICK x \in S : z = N - x
  BY <1>2
<1>4. \A y \in S : x >= y
  <2> SUFFICES ASSUME NEW y \in S PROVE x >= y
    OBVIOUS
  <2>1. N - y \in T
    OBVIOUS
  <2>2. z <= N - y /\ x \in 0 .. N /\ y \in 0 .. N
    BY <1>2, <2>1
  <2> QED BY <1>3, <2>2
<1> QED BY <1>4, Zenon DEF Max

\* Of the first numbers the last is the greatest.
LEMMA InitialSegments ==
    ASSUME NEW N \in Nat, NEW n \in 1 .. N
    PROVE  /\ 1 .. n \in SUBSET (1 .. N) /\ 1 .. n # {}
           /\ Max(1 .. n) = n /\ (1 .. n) \ {n} = 1 .. n - 1
<1>1. n \in 1 .. n /\ \A y \in 1 .. n : n >= y
  OBVIOUS
<1>2. \A x \in 1 .. n : (\A y \in 1 .. n : x >= y) => x = n
  BY <1>1
<1>3. Max(1 .. n) = n
  BY <1>1, <1>2 DEF Max
<1>4. 1 .. n \in SUBSET (1 .. N) /\ 1 .. n # {} /\ (1 .. n) \ {n} = 1 .. n - 1
  BY <1>1
<1> QED BY <1>3, <1>4

LEMMA TopMax ==
    ASSUME NEW n \in Nat, NEW s \in SUBSET (1 .. n), n \in s
    PROVE  Max(s) = n
<1>1. \A y \in s : n >= y
  OBVIOUS
<1>2. \A x \in s : (\A y \in s : x >= y) => x = n
  OBVIOUS
<1> QED BY <1>1, <1>2 DEF Max

\* The unfinished folds of FoldLeft, for all sets of indices.
Folds(f, N, A, a, steps) ==
    /\ f \in [SUBSET (1 .. N) -> A]
    /\ \A s \in SUBSET (1 .. N) :
          f[s] = IF s = {} THEN a ELSE steps[Max(s)][f[s \ {Max(s)}]]

LEMMA FoldsExist ==
    ASSUME NEW A, NEW a \in A, NEW N \in Nat, NEW steps \in [1 .. N -> [A -> A]]
    PROVE  \E f : Folds(f, N, A, a, steps)
<1> DEFINE S == {n \in Nat : n <= N => \E f : Folds(f, n, A, a, steps)}
<1>1. 0 \in S
  <2> DEFINE f == [s \in SUBSET (1 .. 0) |-> a]
  <2>1. \A s \in SUBSET (1 .. 0) : s = {}
    OBVIOUS
  <2>2. Folds(f, 0, A, a, steps)
    BY <2>1 DEF Folds
  <2> QED BY <2>2
<1>2. ASSUME NEW n \in Nat, n \in S PROVE n + 1 \in S
  <2> DEFINE m == n + 1
  <2> SUFFICES ASSUME m <= N PROVE \E f : Folds(f, m, A, a, steps)
    OBVIOUS
  <2>1. PICK f : Folds(f, n, A, a, steps)
    BY <1>2
  <2> DEFINE h == [s \in SUBSET (1 .. m) |-> IF m \in s THEN steps[m][f[s \ {m}]] ELSE f[s]]
  <2>2. m \in Nat /\ m \in 1 .. N /\ \A s \in SUBSET (1 .. m) : m \notin s => s \in SUBSET (1 .. n)
    OBVIOUS
  <2>3. \A s \in SUBSET (1 .. m) : m \in s => Max(s) = m
    BY <2>2, TopMax
  <2>4. /\ f \in [SUBSET (1 .. n) -> A]
        /\ \A s \in SUBSET (1 .. n) : f[s] = IF s = {} THEN a ELSE steps[Max(s)][f[s \ {Max(s)}]]
    BY <2>1 DEF Folds
  <2>5. steps[m] \in [A -> A]
    BY <2>2
  <2> HIDE DEF m
  <2>6. ASSUME NEW s \in SUBSET (1 .. m)
        PROVE  h[s] \in A /\ h[s] = IF s = {} THEN a ELSE steps[Max(s)][h[s \ {Max(s)}]]
    <3>1. CASE m \in s
      <4>1. s # {} /\ s \ {m} \in SUBSET (1 .. m) /\ m \notin s \ {m} /\ Max(s) = m
        BY <2>3, <3>1
      <4>2. s \ {m} \in SUBSET (1 .. n)
        BY <2>2, <4>1
      <4>3. h[s \ {m}] = f[s \ {m}] /\ f[s \ {m}] \in A
        BY <2>4, <4>1, <4>2
      <4>4. h[s] = steps[m][f[s \ {m}]]
        BY <3>1
      <4> QED BY <2>5, <4>1, <4>3, <4>4
    <3>2. CASE m \notin s
      <4>1. s \in SUBSET (1 .. n) /\ s \ {Max(s)} \in SUBSET (1 .. m) /\ m \notin s \ {Max(s)}
        BY <2>2, <3>2
      <4>2. h[s \ {Max(s)}] = f[s \ {Max(s)}] /\ h[s] = f[s]
        BY <3>2, <4>1
      <4> QED BY <2>4, <4>1, <4>2
    <3> QED BY <3>1, <3>2
  <2>7. h \in [SUBSET (1 .. m) -> A]
    BY <2>6
  <2> HIDE DEF h
  <2>8. Folds(h, m, A, a, steps)
    BY <2>6, <2>7 DEF Folds
  <2> QED BY <2>8
<1> HIDE DEF S
<1>3. Nat \subseteq S
  BY <1>1, <1>2, Induction
<1> QED BY <1>3 DEF S

-----------------------------------------------------------------------------
(* Recursion along a measure.                                              *)

\* Up to the measure k, f is what the definition says.
Solves(f, D, A, measure, step, k) ==
    /\ f \in [D -> A]
    /\ \A x \in D : measure[x] < k => f[x] = step[x][f]

\* The value at x depends on values of a smaller measure only.
Descends(D, A, measure, step) ==
    /\ measure \in [D -> Nat]
    /\ step \in [D -> [[D -> A] -> A]]
    /\ \A x \in D : \A f, h \in [D -> A] :
          (\A y \in D : measure[y] < measure[x] => f[y] = h[y]) => step[x][f] = step[x][h]

LEMMA SolutionsAgree ==
    ASSUME NEW D, NEW A, NEW measure, NEW step, Descends(D, A, measure, step),
           NEW f, NEW h, NEW k \in Nat,
           Solves(f, D, A, measure, step, k), Solves(h, D, A, measure, step, k)
    PROVE  \A x \in D : measure[x] < k => f[x] = h[x]
<1> DEFINE S == {n \in Nat : \A x \in D : measure[x] < n /\ measure[x] < k => f[x] = h[x]}
<1>1. measure \in [D -> Nat]
  BY DEF Descends
<1>2. 0 \in S
  BY <1>1
<1>3. ASSUME NEW n \in Nat, n \in S PROVE n + 1 \in S
  <2> SUFFICES ASSUME NEW x \in D, measure[x] < n + 1, measure[x] < k PROVE f[x] = h[x]
    OBVIOUS
  <2>1. \A y \in D : measure[y] < measure[x] => f[y] = h[y]
    BY <1>1, <1>3
  <2>2. f \in [D -> A] /\ h \in [D -> A] /\ f[x] = step[x][f] /\ h[x] = step[x][h]
    BY DEF Solves
  <2>3. step[x][f] = step[x][h]
    BY <2>1, <2>2 DEF Descends
  <2> QED BY <2>2, <2>3
<1> HIDE DEF S
<1>4. Nat \subseteq S
  BY <1>2, <1>3, Induction
<1>5. k \in S
  BY <1>4
<1> QED BY <1>5 DEF S

LEMMA Recursion ==
    ASSUME NEW D, NEW A, NEW measure, NEW step, Descends(D, A, measure, step), NEW default \in A
    PROVE  \E f \in [D -> A] : \A x \in D : f[x] = step[x][f]
<1>0. measure \in [D -> Nat] /\ step \in [D -> [[D -> A] -> A]]
  BY DEF Descends
<1> DEFINE S == {k \in Nat : \E f : Solves(f, D, A, measure, step, k)}
<1>1. 0 \in S
  <2> DEFINE f == [x \in D |-> default]
  <2>1. Solves(f, D, A, measure, step, 0)
    BY <1>0 DEF Solves
  <2> QED BY <2>1
<1>2. ASSUME NEW k \in Nat, k \in S PROVE k + 1 \in S
  <2>1. PICK f : Solves(f, D, A, measure, step, k)
    BY <1>2
  <2> DEFINE h == [x \in D |-> IF measure[x] < k THEN f[x] ELSE step[x][f]]
  <2>2. f \in [D -> A] /\ \A x \in D : measure[x] < k => f[x] = step[x][f]
    BY <2>1 DEF Solves
  <2>3. h \in [D -> A]
    BY <1>0, <2>2
  <2>4. ASSUME NEW x \in D, measure[x] < k + 1 PROVE h[x] = step[x][h]
    <3>1. \A y \in D : measure[y] < measure[x] => f[y] = h[y]
      BY <1>0, <2>4
    <3>2. step[x][f] = step[x][h]
      <4> HIDE DEF h
      <4> QED BY <2>2, <2>3, <3>1 DEF Descends
    <3>3. h[x] = step[x][f]
      BY <2>2
    <3> QED BY <3>2, <3>3
  <2> HIDE DEF h
  <2>5. Solves(h, D, A, measure, step, k + 1)
    BY <2>3, <2>4 DEF Solves
  <2> QED BY <2>5
<1>3. Nat \subseteq S
  <2> HIDE DEF S
  <2> QED BY <1>1, <1>2, Induction
<1> DEFINE g == [k \in Nat |-> CHOOSE f : Solves(f, D, A, measure, step, k)]
           all == [x \in D |-> g[measure[x] + 1][x]]
<1>4. ASSUME NEW k \in Nat PROVE Solves(g[k], D, A, measure, step, k)
  BY <1>3
<1>5. ASSUME NEW x \in D
      PROVE  all[x] \in A /\ all[x] = step[x][g[measure[x] + 1]] /\ measure[x] + 1 \in Nat
             /\ g[measure[x] + 1] \in [D -> A]
  <2>1. measure[x] + 1 \in Nat /\ measure[x] < measure[x] + 1
    BY <1>0
  <2>2. Solves(g[measure[x] + 1], D, A, measure, step, measure[x] + 1)
    BY <1>4, <2>1
  <2> HIDE DEF g
  <2> QED BY <2>1, <2>2 DEF Solves
<1>6. all \in [D -> A]
  <2>1. \A x \in D : all[x] \in A
    BY <1>5
  <2> HIDE DEF g
  <2> QED BY <2>1
<1>7. ASSUME NEW x \in D PROVE all[x] = step[x][all]
  <2> DEFINE k == measure[x] + 1
  <2>1. k \in Nat /\ measure[x] < k /\ measure[x] \in Nat
    BY <1>0
  <2>2. ASSUME NEW y \in D, measure[y] < measure[x] PROVE g[k][y] = all[y]
    <3> DEFINE j == measure[y] + 1
    <3>1. j \in Nat /\ measure[y] < j /\ j <= k
      BY <1>0, <2>1, <2>2
    <3>2. Solves(g[k], D, A, measure, step, k) /\ Solves(g[j], D, A, measure, step, j)
      BY <1>4, <2>1, <3>1
    <3>3. all[y] = g[j][y]
      OBVIOUS
    <3> HIDE DEF g, all, k, j
    <3>4. Solves(g[k], D, A, measure, step, j)
      BY <1>0, <2>1, <3>1, <3>2 DEF Solves
    <3>5. g[k][y] = g[j][y]
      BY <3>1, <3>2, <3>4, SolutionsAgree
    <3> QED BY <3>3, <3>5
  <2>3. all[x] = step[x][g[k]] /\ g[k] \in [D -> A]
    BY <1>5
  <2> HIDE DEF g, all, k
  <2>4. step[x][g[k]] = step[x][all]
    BY <1>6, <2>2, <2>3 DEF Descends
  <2> QED BY <2>3, <2>4
<1> HIDE DEF all
<1> QED BY <1>6, <1>7

-----------------------------------------------------------------------------
(* Sequences: their parts, concatenations and sums.                       *)

\* What appending one element does to a sequence.
LEMMA OneAppended ==
    ASSUME NEW A, NEW s \in Seq(A), NEW d \in A
    PROVE  /\ Append(s, d) \in Seq(A) /\ Len(Append(s, d)) = Len(s) + 1 /\ Len(s) \in Nat
           /\ <<d>> \in Seq(A) /\ Len(<<d>>) = 1
  OBVIOUS

SumFolds(f, s) ==
    f = [t \in SUBSET DOMAIN s |->
            IF t = {} THEN 0 ELSE f[t \ {Max(t)}] + s[Max(t)]]

\* Numbers are added one by one.
LEMMA SumFold ==
    ASSUME NEW s \in Seq(Nat)
    PROVE  \E g \in [0 .. Len(s) -> Nat] :
              /\ g[0] = 0 /\ FoldLeft(+, 0, s) = g[Len(s)]
              /\ \A n \in 1 .. Len(s) : g[n] = g[n - 1] + s[n]
<1> DEFINE N == Len(s)
           next(v, n) == v + s[n]
           steps == [n \in 1 .. N |-> [v \in Nat |-> next(v, n)]]
<1>1. N \in Nat /\ DOMAIN s = 1 .. N /\ \A n \in 1 .. N : s[n] \in Nat
  OBVIOUS
<1>2. ASSUME NEW n \in 1 .. N, NEW v \in Nat PROVE next(v, n) \in Nat
  BY <1>1
<1>3. steps \in [1 .. N -> [Nat -> Nat]]
  <2> HIDE DEF next, N
  <2> QED BY <1>2
<1>4. PICK f : Folds(f, N, Nat, 0, steps)
  <2> HIDE DEF steps, N
  <2> QED BY <1>1, <1>3, <1>1, FoldsExist
<1>5. SumFolds(f, s)
  <2>1. f = [t \in SUBSET DOMAIN s |-> f[t]]
    BY <1>1, <1>4 DEF Folds
  <2>2. ASSUME NEW t \in SUBSET DOMAIN s
        PROVE  f[t] = IF t = {} THEN 0 ELSE f[t \ {Max(t)}] + s[Max(t)]
    <3>1. CASE t = {}
      BY <1>1, <1>4, <3>1 DEF Folds
    <3>2. CASE t # {}
      <4> DEFINE m == Max(t)
      <4>1. t \in SUBSET (0 .. N) /\ t \in SUBSET (1 .. N)
        BY <1>1
      <4>2. m \in 1 .. N /\ t \ {m} \in SUBSET (1 .. N)
        BY <1>1, <3>2, <4>1, MaxOf
      <4>3. f[t] = steps[m][f[t \ {m}]] /\ f[t \ {m}] \in Nat
        <5> HIDE DEF steps, N
        <5> QED BY <1>4, <3>2, <4>1, <4>2 DEF Folds
      <4> HIDE DEF m
      <4>4. steps[m][f[t \ {m}]] = next(f[t \ {m}], m)
        <5> HIDE DEF next, N
        <5> QED BY <4>2, <4>3
      <4> QED BY <3>2, <4>3, <4>4 DEF m
    <3> QED BY <3>1, <3>2
  <2> HIDE DEF steps, next, N
  <2> QED BY <2>1, <2>2 DEF SumFolds
<1> DEFINE h == CHOOSE h : SumFolds(h, s)
<1>6. FoldLeft(+, 0, s) = h[DOMAIN s]
  BY Zenon DEF FoldLeft, MapThenFoldSet, SumFolds
<1>7. SumFolds(h, s)
  BY <1>5
<1> HIDE DEF h
<1>8. \A t \in SUBSET (1 .. N) :
         h[t] = IF t = {} THEN 0 ELSE h[t \ {Max(t)}] + s[Max(t)]
  BY <1>1, <1>7, ZenonT(20) DEF SumFolds
<1>9. h[1 .. 0] = 0
  <2>1. 1 .. 0 = {}
    OBVIOUS
  <2> QED BY <1>8, <2>1
<1>10. ASSUME NEW n \in 1 .. N PROVE h[1 .. n] = next(h[1 .. n - 1], n)
  <2> HIDE DEF N
  <2> QED BY <1>1, <1>8, InitialSegments
<1> DEFINE S == {n \in Nat : n <= N => h[1 .. n] \in Nat}
           g == [n \in 0 .. N |-> h[1 .. n]]
<1>11. 0 \in S
  BY <1>9, <1>1
<1>12. ASSUME NEW n \in Nat, n \in S PROVE n + 1 \in S
  <2> SUFFICES ASSUME n + 1 <= N PROVE h[1 .. n + 1] \in Nat
    OBVIOUS
  <2>1. n + 1 \in 1 .. N /\ (n + 1) - 1 = n /\ h[1 .. n] \in Nat
    BY <1>1, <1>12
  <2>2. next(h[1 .. n], n + 1) \in Nat
    BY <1>2, <2>1
  <2>3. h[1 .. n + 1] = next(h[1 .. n], n + 1)
    BY <1>10, <2>1
  <2> HIDE DEF next
  <2> QED BY <2>2, <2>3
<1>13. \A n \in 0 .. N : h[1 .. n] \in Nat
  <2> HIDE DEF S
  <2>1. Nat \subseteq S
    BY <1>11, <1>12, Induction
  <2> QED BY <2>1 DEF S
<1>14. g \in [0 .. N -> Nat] /\ g[0] = 0 /\ FoldLeft(+, 0, s) = g[N]
  <2>1. 0 \in 0 .. N /\ N \in 0 .. N
    BY <1>1
  <2> HIDE DEF N
  <2> QED BY <1>1, <1>6, <1>9, <1>13, <2>1
<1>15. ASSUME NEW n \in 1 .. N PROVE g[n] = g[n - 1] + s[n]
  <2>1. n \in 0 .. N /\ n - 1 \in 0 .. N
    BY <1>1
  <2>2. g[n] = h[1 .. n] /\ g[n - 1] = h[1 .. n - 1]
    <3> HIDE DEF N
    <3> QED BY <2>1
  <2> HIDE DEF N, g
  <2> QED BY <1>10, <2>2
<1> HIDE DEF g
<1> QED BY <1>14, <1>15

\* The smaller of two numbers.
LEMMA MinTwo ==
    ASSUME NEW m \in Nat, NEW n \in Nat
    PROVE  Min({m, n}) = IF m <= n THEN m ELSE n
<1>1. CASE m <= n
  <2>1. \A y \in {m, n} : m <= y
    BY <1>1
  <2>2. {m, n} \subseteq Int
    OBVIOUS
  <2> QED BY <1>1, <2>1, <2>2, MinIs
<1>2. CASE ~(m <= n)
  <2>1. \A y \in {m, n} : n <= y
    BY <1>2
  <2>2. {m, n} \subseteq Int
    OBVIOUS
  <2> QED BY <1>2, <2>1, <2>2, MinIs
<1> QED BY <1>1, <1>2

\* An element of a part is an element of the concatenation.
LEMMA FlattenContains ==
    ASSUME NEW A, NEW seqs \in Seq(Seq(A)), NEW i \in 1 .. Len(seqs), NEW x, Contains(seqs[i], x)
    PROVE  FlattenSeq(seqs) \in Seq(A) /\ Contains(FlattenSeq(seqs), x)
<1> DEFINE N == Len(seqs)
           numbers == [n \in 1 .. N |-> Len(seqs[n])]
<1>1. N \in Nat /\ N > 0 /\ seqs # <<>> /\ \A n \in 1 .. N : seqs[n] \in Seq(A) /\ Len(seqs[n]) \in Nat
  OBVIOUS
<1>2. numbers \in [1 .. N -> Nat]
  BY <1>1
<1>3. PICK f : SumsUp(f, N, numbers)
  <2> HIDE DEF N, numbers
  <2> QED BY <1>1, <1>2, SumsExist
<1>4. f[0] = 0 /\ \A n \in 1 .. N : f[n] = f[n - 1] + numbers[n]
  <2> HIDE DEF N, numbers
  <2>1. Sums(f, N, numbers)
    BY <1>1, <1>2, <1>3 DEF Sums
  <2> QED BY <2>1, SumsTypes
<1> DEFINE b == [n \in 1 .. N + 1 |-> f[n - 1]]
<1>5. Begins(b, seqs)
  <2>1. b[1] = 0
    BY <1>1, <1>4
  <2>2. ASSUME NEW n \in 1 .. N PROVE b[n + 1] = b[n] + Len(seqs[n])
    <3>1. n + 1 \in 1 .. N + 1 /\ n \in 1 .. N + 1 /\ (n + 1) - 1 = n
      BY <1>1
    <3>2. b[n + 1] = f[n] /\ b[n] = f[n - 1] /\ numbers[n] = Len(seqs[n])
      BY <3>1
    <3> QED BY <1>4, <3>2
  <2> HIDE DEF b
  <2> QED BY <2>1, <2>2 DEF Begins
<1> HIDE DEF b
<1>6. FlattenSeq(seqs) \in Seq(A) /\ LaidOut(FlattenSeq(seqs), N, b, seqs)
  BY <1>1, <1>5, FlattenLaysOut
<1>7. PICK k \in 1 .. Len(seqs[i]) : seqs[i][k] = x
  BY DEF Contains
<1>8. b[i] + k \in 1 .. Len(FlattenSeq(seqs)) /\ FlattenSeq(seqs)[b[i] + k] = x
  BY <1>6, <1>7 DEF LaidOut
<1> QED BY <1>6, <1>8 DEF Contains

\* A concatenation contains what either part contains.
LEMMA ContainsEither ==
    ASSUME NEW A, NEW s \in Seq(A), NEW t \in Seq(A), NEW x
    PROVE  s \o t \in Seq(A) /\ (Contains(s, x) \/ Contains(t, x) => Contains(s \o t, x))
<1>1. /\ s \o t \in Seq(A) /\ Len(s \o t) = Len(s) + Len(t) /\ Len(s) \in Nat /\ Len(t) \in Nat
      /\ \A i \in 1 .. Len(s) : (s \o t)[i] = s[i]
      /\ \A i \in 1 .. Len(t) : (s \o t)[Len(s) + i] = t[i]
  OBVIOUS
<1>2. ASSUME Contains(s, x) PROVE Contains(s \o t, x)
  <2>1. PICK i \in 1 .. Len(s) : s[i] = x
    BY <1>2 DEF Contains
  <2>2. i \in 1 .. Len(s \o t) /\ (s \o t)[i] = x
    BY <1>1, <2>1
  <2> QED BY <2>2 DEF Contains
<1>3. ASSUME Contains(t, x) PROVE Contains(s \o t, x)
  <2>1. PICK i \in 1 .. Len(t) : t[i] = x
    BY <1>3 DEF Contains
  <2>2. Len(s) + i \in 1 .. Len(s \o t) /\ (s \o t)[Len(s) + i] = x
    BY <1>1, <2>1
  <2> QED BY <2>2 DEF Contains
<1> QED BY <1>1, <1>2, <1>3

\* A part of a sequence, whatever the bounds.
LEMMA PartOf ==
    ASSUME NEW A, NEW s \in Seq(A), NEW j \in Nat \ {0}, NEW k \in Int, k <= Len(s)
    PROVE  /\ SubSeq(s, j, k) \in Seq(A)
           /\ Len(SubSeq(s, j, k)) \in Nat /\ Len(SubSeq(s, j, k)) <= Len(s)
           /\ Len(SubSeq(s, j, k)) = IF j <= k THEN k - j + 1 ELSE 0
  OBVIOUS

\* A sequence is its front and its last element.
LEMMA FrontAndLast ==
    ASSUME NEW A, NEW s \in Seq(A), s # <<>>
    PROVE  /\ Front(s) \in Seq(A) /\ Last(s) \in A /\ s = Append(Front(s), Last(s))
           /\ Len(s) = Len(Front(s)) + 1 /\ Len(Front(s)) \in Nat
<1> DEFINE n == Len(s) - 1
           front == SubSeq(s, 1, n)
           last == s[Len(s)]
<1>1. n \in Nat /\ Len(s) = n + 1 /\ last \in A
  BY EmptySeq
<1>2. front \in Seq(A) /\ Len(front) = n /\ \A i \in 1 .. n : front[i] = s[i]
  BY <1>1
<1>3. Front(s) = front /\ Last(s) = last
  BY DEF Front, Last
<1> HIDE DEF front, n
<1>4. s = Append(front, last)
  <2>1. Append(front, last) \in Seq(A) /\ Len(Append(front, last)) = n + 1
    BY <1>1, <1>2
  <2>2. \A i \in 1 .. n + 1 : Append(front, last)[i] = s[i]
    BY <1>1, <1>2
  <2> QED BY <1>1, <2>1, <2>2, SeqEqual
<1> QED BY <1>1, <1>2, <1>3, <1>4

\* The concatenation of two lists of sequences is laid out one after the other.
LEMMA FlattenConcat ==
    ASSUME NEW A, NEW s \in Seq(Seq(A)), NEW t \in Seq(Seq(A))
    PROVE  /\ FlattenSeq(s) \in Seq(A) /\ FlattenSeq(t) \in Seq(A) /\ s \o t \in Seq(Seq(A))
           /\ FlattenSeq(s \o t) = FlattenSeq(s) \o FlattenSeq(t)
<1> DEFINE B == Seq(A)
           Good(u) == FlattenSeq(s \o u) = FlattenSeq(s) \o FlattenSeq(u)
           S == {n \in Nat : \A u \in Seq(B) : Len(u) = n => Good(u)}
<1>1. <<>> \in B /\ \A u \in Seq(B) : FlattenSeq(u) \in B
  BY EmptySeq, FlattenAppend
<1>2. 0 \in S
  <2> SUFFICES ASSUME NEW u \in Seq(B), Len(u) = 0 PROVE Good(u)
    OBVIOUS
  <2>1. u = <<>>
    BY EmptySeq
  <2>2. FlattenSeq(<<>>) = <<>>
    BY DEF FlattenSeq
  <2>3. s \o <<>> = s /\ FlattenSeq(s) \o <<>> = FlattenSeq(s)
    BY <1>1, ConcatEmptySeq
  <2> QED BY <2>1, <2>2, <2>3
<1>3. ASSUME NEW n \in Nat, n \in S PROVE n + 1 \in S
  <2> SUFFICES ASSUME NEW u \in Seq(B), Len(u) = n + 1 PROVE Good(u)
    OBVIOUS
  <2> DEFINE front == Front(u)
             last == Last(u)
  <2>1. front \in Seq(B) /\ last \in B /\ u = Append(front, last) /\ Len(front) = n
    <3>1. u # <<>>
      OBVIOUS
    <3>2. /\ front \in Seq(B) /\ last \in B /\ u = Append(front, last)
          /\ Len(u) = Len(front) + 1 /\ Len(front) \in Nat
      <4> HIDE DEF B
      <4> QED BY <3>1, FrontAndLast
    <3> HIDE DEF front, last, B
    <3> QED BY <3>2
  <2> HIDE DEF front, last
  <2>2. Good(front)
    BY <1>3, <2>1
  <2>3. s \o front \in Seq(B) /\ s \o Append(front, last) = Append(s \o front, last)
    <3> HIDE DEF B
    <3> QED BY <2>1 DEF B
  <2> DEFINE both == s \o front
  <2>4. both \in Seq(B)
    BY <2>3
  <2> HIDE DEF both
  <2>5. FlattenSeq(Append(both, last)) = FlattenSeq(both) \o last
    BY <2>1, <2>4, FlattenAppend
  <2>6. FlattenSeq(Append(front, last)) = FlattenSeq(front) \o last
    BY <2>1, FlattenAppend
  <2> DEFINE x == FlattenSeq(s)
             y == FlattenSeq(front)
  <2>7. x \in B /\ y \in B /\ last \in B
    BY <1>1, <2>1
  <2> HIDE DEF x, y
  <2>8. (x \o y) \o last = x \o (y \o last)
    BY ONLY <2>7, ConcatAssociative DEF B
  <2> QED BY <2>1, <2>2, <2>3, <2>5, <2>6, <2>8 DEF x, y, both
<1>4. Nat \subseteq S
  <2> HIDE DEF S
  <2> QED BY <1>2, <1>3, Induction
<1>5. Good(t)
  <2>1. Len(t) \in Nat
    OBVIOUS
  <2> HIDE DEF Good
  <2> QED BY <1>4, <2>1
<1>6. s \o t \in Seq(B)
  <2> HIDE DEF B
  <2>1. s \in Seq(B) /\ t \in Seq(B)
    BY DEF B
  <2> QED BY <2>1, ConcatProperties
<1> QED BY <1>1, <1>5, <1>6

Flats(seqs) == [k \in DOMAIN seqs |-> FlattenSeq(seqs[k])]

\* Laying out lists of lists in one step or in two makes no difference.
LEMMA FlattenTwice ==
    ASSUME NEW A, NEW seqs \in Seq(Seq(Seq(A)))
    PROVE  /\ FlattenSeq(seqs) \in Seq(Seq(A)) /\ Flats(seqs) \in Seq(Seq(A)) /\ Len(Flats(seqs)) = Len(seqs)
           /\ FlattenSeq(FlattenSeq(seqs)) = FlattenSeq(Flats(seqs))
<1> DEFINE B == Seq(A)
           C == Seq(B)
           Good(u) == FlattenSeq(FlattenSeq(u)) = FlattenSeq(Flats(u))
           S == {n \in Nat : \A u \in Seq(C) : Len(u) = n => Good(u)}
<1>1. <<>> \in C /\ \A u \in Seq(C) : FlattenSeq(u) \in C
  BY EmptySeq, FlattenAppend
<1>2. \A u \in C : FlattenSeq(u) \in B
  BY FlattenAppend, EmptySeq
<1>3. ASSUME NEW u \in Seq(C) PROVE Flats(u) \in Seq(B) /\ Len(Flats(u)) = Len(u)
  <2>1. Len(u) \in Nat /\ DOMAIN u = 1 .. Len(u) /\ \A k \in 1 .. Len(u) : FlattenSeq(u[k]) \in B
    <3> HIDE DEF C, B
    <3> QED BY <1>2
  <2> HIDE DEF B
  <2> QED BY <2>1 DEF Flats
<1>4. 0 \in S
  <2> SUFFICES ASSUME NEW u \in Seq(C), Len(u) = 0 PROVE Good(u)
    OBVIOUS
  <2>1. u = <<>>
    BY EmptySeq
  <2>2. FlattenSeq(<<>>) = <<>>
    BY DEF FlattenSeq
  <2>3. Flats(<<>>) = <<>>
    BY DEF Flats
  <2> QED BY <2>1, <2>2, <2>3
<1>5. ASSUME NEW n \in Nat, n \in S PROVE n + 1 \in S
  <2> SUFFICES ASSUME NEW u \in Seq(C), Len(u) = n + 1 PROVE Good(u)
    OBVIOUS
  <2> DEFINE front == Front(u)
             last == Last(u)
  <2>1. front \in Seq(C) /\ last \in C /\ u = Append(front, last) /\ Len(front) = n
    <3>1. u # <<>>
      OBVIOUS
    <3>2. /\ front \in Seq(C) /\ last \in C /\ u = Append(front, last)
          /\ Len(u) = Len(front) + 1 /\ Len(front) \in Nat
      <4> HIDE DEF C
      <4> QED BY <3>1, FrontAndLast
    <3> HIDE DEF front, last, C
    <3> QED BY <3>2
  <2> HIDE DEF front, last
  <2>2. Good(front)
    BY <1>5, <2>1
  <2> DEFINE x == FlattenSeq(front)
             flast == FlattenSeq(last)
             ffront == Flats(front)
  <2>3. x \in C /\ flast \in B /\ ffront \in Seq(B) /\ Len(ffront) = n
    BY <1>1, <1>2, <1>3, <2>1
  <2>4. FlattenSeq(u) = x \o last
    BY <1>1, <2>1, FlattenAppend
  <2>5. Flats(u) = Append(ffront, flast)
    <3>1. Flats(u) \in Seq(B) /\ Len(Flats(u)) = n + 1
      BY <1>3
    <3>2. /\ Append(ffront, flast) \in Seq(B) /\ Len(Append(ffront, flast)) = n + 1
          /\ Append(ffront, flast)[n + 1] = flast
          /\ \A k \in 1 .. n : Append(ffront, flast)[k] = ffront[k]
      <4> HIDE DEF B, ffront, flast
      <4> QED BY <2>3
    <3>3. DOMAIN u = 1 .. n + 1 /\ DOMAIN front = 1 .. n /\ u[n + 1] = last /\ \A k \in 1 .. n : u[k] = front[k]
      <4> HIDE DEF C
      <4> QED BY <2>1
    <3>4. ASSUME NEW k \in 1 .. n + 1 PROVE Flats(u)[k] = Append(ffront, flast)[k]
      <4>1. CASE k = n + 1
        <5>1. Flats(u)[k] = flast
          BY <3>3, <4>1 DEF Flats
        <5> QED BY <3>2, <4>1, <5>1
      <4>2. CASE k # n + 1
        <5>1. k \in 1 .. n
          BY <4>2
        <5>2. Flats(u)[k] = FlattenSeq(front[k]) /\ ffront[k] = FlattenSeq(front[k])
          BY <3>3, <5>1 DEF Flats
        <5> QED BY <3>2, <5>1, <5>2
      <4> QED BY <4>1, <4>2
    <3> HIDE DEF ffront, flast, B
    <3> QED BY <3>1, <3>2, <3>4, SeqEqual
  <2> HIDE DEF x, flast, ffront
  <2>6. FlattenSeq(x \o last) = FlattenSeq(x) \o flast
    <3>1. x \in Seq(Seq(A)) /\ last \in Seq(Seq(A))
      BY <2>1, <2>3
    <3> QED BY <3>1, FlattenConcat DEF flast
  <2>7. FlattenSeq(Append(ffront, flast)) = FlattenSeq(ffront) \o flast
    BY <2>3, FlattenAppend
  <2> QED BY <2>2, <2>4, <2>5, <2>6, <2>7 DEF x, ffront
<1>6. Nat \subseteq S
  <2> HIDE DEF S
  <2> QED BY <1>4, <1>5, Induction
<1>7. Good(seqs)
  <2>1. Len(seqs) \in Nat
    OBVIOUS
  <2> HIDE DEF Good
  <2> QED BY <1>6, <2>1
<1> QED BY <1>1, <1>3, <1>7

\* Products of natural numbers.
LEMMA Times ==
    ASSUME NEW N \in Nat, NEW a \in Nat, NEW b \in Nat
    PROVE  /\ N * a \in Nat /\ N * b \in Nat /\ N * (a + 1) = N * a + N
           /\ a < b => N * a + N <= N * b
           /\ N > 0 /\ N * a <= N * b => a <= b
<1>1. N * a \in Nat /\ N * b \in Nat /\ N * (a + 1) = N * a + N
  OBVIOUS
<1>2. ASSUME NEW x \in Nat, NEW y \in Nat, x < y PROVE N * x + N <= N * y
  <2>1. y - (x + 1) \in Nat
    BY <1>2
  <2> DEFINE z == y - (x + 1)
  <2>2. N * z \in Nat /\ y = z + (x + 1)
    BY <1>2, <2>1
  <2> HIDE DEF z
  <2>3. N * y = N * z + (N * x + N)
    <3>1. z \in Nat
      BY <2>1 DEF z
    <3> QED BY <2>2, <3>1
  <2>4. N * x \in Nat
    OBVIOUS
  <2> QED BY <2>2, <2>3, <2>4
<1>3. ASSUME N > 0, N * a <= N * b PROVE a <= b
  <2> SUFFICES ASSUME b < a PROVE FALSE
    OBVIOUS
  <2>1. N * b + N <= N * a
    BY <1>2
  <2> DEFINE x == N * a
             y == N * b
  <2>2. x \in Nat /\ y \in Nat /\ x <= y /\ y + N <= x
    BY <1>1, <1>3, <2>1
  <2> HIDE DEF x, y
  <2> QED BY <1>3, <2>2
<1> QED BY <1>1, <1>2, <1>3

\* An element is replaced.
LEMMA Replaced ==
    ASSUME NEW A, NEW s \in Seq(A), NEW i \in 1 .. Len(s), NEW x \in A
    PROVE  /\ [s EXCEPT ![i] = x] \in Seq(A) /\ Len([s EXCEPT ![i] = x]) = Len(s)
           /\ [s EXCEPT ![i] = x][i] = x
           /\ \A j \in 1 .. Len(s) : j # i => [s EXCEPT ![i] = x][j] = s[j]
  OBVIOUS

\* One more sequence is concatenated, and all of them are longer.
LEMMA FlattenPrefix ==
    ASSUME NEW A, NEW s \in Seq(Seq(A)), NEW n \in 1 .. Len(s)
    PROVE  /\ FlattenSeq(SubSeq(s, 1, n)) = FlattenSeq(SubSeq(s, 1, n - 1)) \o s[n]
           /\ FlattenSeq(SubSeq(s, 1, n)) \in Seq(A) /\ FlattenSeq(SubSeq(s, 1, n - 1)) \in Seq(A)
           /\ s[n] \in Seq(A) /\ Len(s[n]) \in Nat
           /\ Len(FlattenSeq(SubSeq(s, 1, n - 1))) + Len(s[n]) <= Len(FlattenSeq(s))
<1> DEFINE B == Seq(A)
<1>1. n \in Nat /\ n >= 1 /\ n \in 0 .. Len(s) /\ n - 1 \in 0 .. Len(s) /\ s[n] \in B /\ Len(s[n]) \in Nat
  OBVIOUS
<1> HIDE DEF B
<1>2. PICK p : p = SubSeq(s, 1, n)
  OBVIOUS
<1>3. PICK q : q = SubSeq(s, 1, n - 1)
  OBVIOUS
<1>4. PICK rest : rest = SubSeq(s, n + 1, Len(s))
  OBVIOUS
<1>5. p \in Seq(B) /\ Len(p) = n /\ rest \in Seq(B) /\ s = p \o rest
  BY <1>1, <1>2, <1>4, CutInTwo DEF B
<1>6. q \in Seq(B) /\ Len(q) = n - 1
  BY <1>1, <1>3, CutInTwo DEF B
<1>7. p = Append(q, s[n])
  <2>1. n - 1 \in Nat /\ n <= Len(s) /\ n - 1 <= Len(s) /\ 1 \in Nat \ {0}
    BY <1>1
  <2>2. \A i \in 1 .. (n - 1) + 1 : p[i] = s[(1 - 1) + i]
    BY <1>1, <1>2, <2>1, SubSeqFacts
  <2>3. \A i \in 1 .. ((n - 1) - 1) + 1 : q[i] = s[(1 - 1) + i]
    BY <1>1, <1>3, <2>1, SubSeqFacts
  <2>4. Append(q, s[n]) \in Seq(B) /\ Len(Append(q, s[n])) = n
    BY <1>1, <1>6
  <2>5. \A i \in 1 .. n : Append(q, s[n])[i] = p[i]
    <3> SUFFICES ASSUME NEW i \in 1 .. n PROVE Append(q, s[n])[i] = p[i]
      OBVIOUS
    <3>1. p[i] = s[i]
      BY <1>1, <2>2
    <3>2. CASE i = n
      BY <1>1, <1>6, <3>1, <3>2
    <3>3. CASE i # n
      <4>1. i \in 1 .. n - 1
        BY <1>1, <3>3
      <4>2. Append(q, s[n])[i] = q[i]
        BY <1>1, <1>6, <4>1
      <4>3. q[i] = s[i]
        BY <1>1, <2>3, <4>1
      <4> QED BY <3>1, <4>2, <4>3
    <3> QED BY <3>2, <3>3
  <2> QED BY <1>5, <2>4, <2>5, SeqEqual
<1>8. /\ FlattenSeq(q) \in Seq(A) /\ FlattenSeq(p) = FlattenSeq(q) \o s[n]
  <2>1. q \in Seq(Seq(A)) /\ s[n] \in Seq(A)
    BY <1>1, <1>6 DEF B
  <2> QED BY <1>7, <2>1, FlattenAppend
<1>9. /\ FlattenSeq(p) \in Seq(A) /\ FlattenSeq(rest) \in Seq(A)
      /\ FlattenSeq(s) = FlattenSeq(p) \o FlattenSeq(rest)
  <2>1. p \in Seq(Seq(A)) /\ rest \in Seq(Seq(A))
    BY <1>5 DEF B
  <2> QED BY <1>5, <2>1, FlattenConcat
<1>10. Len(FlattenSeq(q)) + Len(s[n]) <= Len(FlattenSeq(s))
  <2>1. PICK f \in Seq(A) : f = FlattenSeq(p)
    BY <1>9
  <2>2. PICK g \in Seq(A) : g = FlattenSeq(q)
    BY <1>8
  <2>3. PICK h \in Seq(A) : h = FlattenSeq(rest)
    BY <1>9
  <2>4. PICK x \in Seq(A) : x = s[n]
    BY <1>1 DEF B
  <2>5. Len(f \o h) = Len(f) + Len(h) /\ Len(g \o x) = Len(g) + Len(x) /\ Len(h) \in Nat /\ Len(g) \in Nat
        /\ Len(x) \in Nat
    BY ONLY f \in Seq(A), h \in Seq(A), g \in Seq(A), x \in Seq(A)
  <2>6. f = g \o x /\ FlattenSeq(s) = f \o h
    BY <1>8, <1>9, <2>1, <2>2, <2>3, <2>4
  <2> QED BY <2>2, <2>4, <2>5, <2>6
<1> QED BY <1>1, <1>2, <1>3, <1>8, <1>9, <1>10 DEF B

\* Pieces of a sequence, cut where t says, make up the sequence.
Cuts(t, pieces, s) ==
    /\ t \in [0 .. Len(pieces) -> Nat] /\ t[0] = 0 /\ t[Len(pieces)] = Len(s)
    /\ \A k \in 1 .. Len(pieces) :
        /\ t[k] = t[k - 1] + Len(pieces[k])
        /\ \A i \in 1 .. Len(pieces[k]) : pieces[k][i] = s[t[k - 1] + i]

\* A sequence cut into pieces is put together again by laying them out.
LEMMA CutUp ==
    ASSUME NEW A, NEW s \in Seq(A), NEW pieces \in Seq(Seq(A)), NEW t, Cuts(t, pieces, s)
    PROVE  FlattenSeq(pieces) = s
<1> DEFINE F(n) == FlattenSeq(SubSeq(pieces, 1, n))
           N == Len(pieces)
           S == {n \in Nat : n <= N => /\ F(n) \in Seq(A) /\ Len(F(n)) = t[n]
                                       /\ \A i \in 1 .. t[n] : F(n)[i] = s[i]}
<1>1. N \in Nat /\ t \in [0 .. N -> Nat] /\ t[0] = 0 /\ t[N] = Len(s)
  BY DEF Cuts
<1>2. 0 \in S
  <2>1. SubSeq(pieces, 1, 0) = <<>>
    OBVIOUS
  <2>2. FlattenSeq(<<>>) = <<>>
    BY DEF FlattenSeq
  <2>3. F(0) = <<>>
    BY <2>1, <2>2
  <2>4. <<>> \in Seq(A) /\ Len(<<>>) = 0
    OBVIOUS
  <2>5. F(0) \in Seq(A) /\ Len(F(0)) = t[0] /\ \A i \in 1 .. t[0] : F(0)[i] = s[i]
    <3> HIDE DEF F
    <3>1. F(0) \in Seq(A) /\ Len(F(0)) = t[0]
      BY <1>1, <2>3, <2>4
    <3>2. 1 .. t[0] = {}
      BY <1>1
    <3> QED BY <3>1, <3>2
  <2> HIDE DEF F, N
  <2> QED BY <2>5
<1>3. ASSUME NEW n \in Nat, n \in S PROVE n + 1 \in S
  <2> SUFFICES ASSUME n + 1 <= N
               PROVE  /\ F(n + 1) \in Seq(A) /\ Len(F(n + 1)) = t[n + 1]
                      /\ \A i \in 1 .. t[n + 1] : F(n + 1)[i] = s[i]
    <3> HIDE DEF F, N
    <3> QED OBVIOUS
  <2>1. n + 1 \in 1 .. N /\ (n + 1) - 1 = n /\ n \in 0 .. N /\ n <= N
    BY <1>1
  <2>2. F(n) \in Seq(A) /\ Len(F(n)) = t[n] /\ \A i \in 1 .. t[n] : F(n)[i] = s[i]
    BY <1>3, <2>1
  <2>3. F(n + 1) = F(n) \o pieces[n + 1] /\ pieces[n + 1] \in Seq(A)
    <3>1. F(n + 1) = F((n + 1) - 1) \o pieces[n + 1] /\ pieces[n + 1] \in Seq(A)
      BY <2>1, FlattenPrefix
    <3> HIDE DEF F, N
    <3> QED BY <2>1, <3>1
  <2>4. /\ t[n + 1] = t[n] + Len(pieces[n + 1])
        /\ \A i \in 1 .. Len(pieces[n + 1]) : pieces[n + 1][i] = s[t[n] + i]
    <3>1. /\ t[n + 1] = t[(n + 1) - 1] + Len(pieces[n + 1])
          /\ \A i \in 1 .. Len(pieces[n + 1]) : pieces[n + 1][i] = s[t[(n + 1) - 1] + i]
      BY <2>1 DEF Cuts
    <3> QED BY <2>1, <3>1
  <2>5. PICK f \in Seq(A) : f = F(n)
    BY <2>2
  <2>6. PICK g \in Seq(A) : g = pieces[n + 1]
    BY <2>3
  <2>7. PICK a \in Nat : a = t[n]
    BY <1>1, <2>1
  <2>8. /\ f \o g \in Seq(A) /\ Len(f \o g) = Len(f) + Len(g)
        /\ \A i \in 1 .. Len(f) : (f \o g)[i] = f[i]
        /\ \A i \in 1 .. Len(g) : (f \o g)[Len(f) + i] = g[i]
    BY ONLY f \in Seq(A), g \in Seq(A)
  <2> HIDE DEF F, N, S
  <2>9. PICK b \in Nat : b = Len(g) /\ t[n + 1] = a + b /\ Len(f) = a
    BY <2>2, <2>4, <2>5, <2>6, <2>7
  <2>10. ASSUME NEW i \in 1 .. a + b PROVE (f \o g)[i] = s[i]
    <3>1. CASE i <= a
      <4>1. i \in 1 .. a
        BY <3>1
      <4> QED BY <2>2, <2>5, <2>7, <2>8, <2>9, <4>1
    <3>2. CASE ~(i <= a)
      <4>1. PICK m \in 1 .. b : i = a + m
        <5>1. i - a \in 1 .. b /\ i = a + (i - a)
          BY <3>2
        <5> QED BY <5>1
      <4> QED BY <2>4, <2>6, <2>7, <2>8, <2>9, <4>1
    <3> QED BY <3>1, <3>2
  <2> QED BY <2>3, <2>5, <2>6, <2>8, <2>9, <2>10
<1>4. N \in S
  <2> HIDE DEF S
  <2>1. Nat \subseteq S
    BY <1>2, <1>3, Induction
  <2> QED BY <1>1, <2>1
<1>5. F(N) = FlattenSeq(pieces)
  <2>1. SubSeq(pieces, 1, Len(pieces)) = pieces
    OBVIOUS
  <2> QED BY <2>1
<1>6. /\ F(N) \in Seq(A) /\ Len(F(N)) = t[N] /\ \A i \in 1 .. t[N] : F(N)[i] = s[i]
  BY <1>1, <1>4
<1> HIDE DEF F, N, S
<1> QED BY <1>1, <1>5, <1>6, SeqEqual

\* Where sequences begin that are laid one after the other.
Starts(f, seqs, length) == f = [n \in 0 .. Len(seqs) |-> IF n = 0 THEN 0 ELSE f[n - 1] + length[n]]

Starting(f, seqs, A) ==
    /\ \A i \in 1 .. Len(seqs) : f[i - 1] \in Nat
    /\ FlattenSeq(seqs) \in Seq(A)
    /\ \A i \in 1 .. Len(seqs) : \A w \in 1 .. Len(seqs[i]) :
          /\ f[i - 1] + w \in 1 .. Len(FlattenSeq(seqs))
          /\ FlattenSeq(seqs)[f[i - 1] + w] = seqs[i][w]

\* The running sum of the lengths says where every sequence starts in the whole.
LEMMA StartsAre ==
    ASSUME NEW A, NEW seqs \in Seq(Seq(A)), seqs # <<>>, NEW length,
           \A n \in 1 .. Len(seqs) : length[n] = Len(seqs[n])
    PROVE  /\ \E f : Starts(f, seqs, length)
           /\ \A f : Starts(f, seqs, length) => Starting(f, seqs, A)
<1> DEFINE N == Len(seqs)
           numbers == [n \in 1 .. N |-> Len(seqs[n])]
<1>1. N \in Nat /\ \A n \in 1 .. N : Len(seqs[n]) \in Nat
  OBVIOUS
<1>2. numbers \in [1 .. N -> Nat]
  <2> HIDE DEF N
  <2> QED BY <1>1
<1>3. \A n \in 1 .. N : numbers[n] = length[n] /\ numbers[n] = Len(seqs[n])
  <2> HIDE DEF N
  <2> QED BY DEF N
<1> HIDE DEF numbers, N
<1>4. PICK g : SumsUp(g, N, numbers)
  BY <1>1, <1>2, SumsExist
<1>5. \A h : SumsUp(h, N, numbers) <=> Starts(h, seqs, length)
  <2> TAKE h
  <2>1. [n \in 0 .. N |-> IF n = 0 THEN 0 ELSE h[n - 1] + numbers[n]]
           = [n \in 0 .. N |-> IF n = 0 THEN 0 ELSE h[n - 1] + length[n]]
    BY <1>1, <1>3
  <2> QED BY <2>1 DEF SumsUp, Starts, N
<1>6. ASSUME NEW f, Starts(f, seqs, length) PROVE Starting(f, seqs, A)
  <2>1. Sums(f, N, numbers)
    BY <1>1, <1>2, <1>5, <1>6 DEF Sums
  <2>2. f[0] = 0
    BY <2>1, SumsTypes
  <2>3. \A n \in 0 .. N : f[n] \in Nat
    BY <2>1, SumsTypes
  <2>4. \A n \in 1 .. N : f[n] = f[n - 1] + numbers[n]
    BY <2>1, SumsTypes
  <2>5. PICK b : b = [i \in 1 .. N + 1 |-> f[i - 1]]
    OBVIOUS
  <2>6. Begins(b, seqs)
    <3>1. b[1] = 0
      BY <1>1, <2>2, <2>5
    <3>2. ASSUME NEW i \in 1 .. N PROVE b[i + 1] = b[i] + Len(seqs[i])
      <4>1. i \in 1 .. N + 1 /\ i + 1 \in 1 .. N + 1 /\ (i + 1) - 1 = i
        BY <1>1
      <4>2. b[i + 1] = f[i] /\ b[i] = f[i - 1]
        BY <2>5, <4>1
      <4> QED BY <1>3, <2>4, <4>2
    <3> QED BY <3>1, <3>2 DEF Begins, N
  <2>7. FlattenSeq(seqs) \in Seq(A) /\ LaidOut(FlattenSeq(seqs), N, b, seqs)
    BY <2>6, FlattenLaysOut DEF N
  <2>8. ASSUME NEW i \in 1 .. N PROVE b[i] = f[i - 1] /\ f[i - 1] \in Nat
    <3>1. i \in 1 .. N + 1 /\ i - 1 \in 0 .. N
      BY <1>1
    <3> QED BY <2>3, <2>5, <3>1
  <2> QED BY <2>7, <2>8 DEF LaidOut, N, Starting
<1> QED BY <1>4, <1>5, <1>6

\* The elements of a concatenation.
IsJoined(u, s, t, A) ==
    /\ u \in Seq(A) /\ Len(s) \in Nat /\ Len(t) \in Nat /\ Len(u) = Len(s) + Len(t)
    /\ DOMAIN u = 1 .. Len(s) + Len(t)
    /\ \A j \in 1 .. Len(s) : u[j] = s[j]
    /\ \A j \in 1 .. Len(t) : u[Len(s) + j] = t[j]

\* A concatenation holds the one behind the other.
LEMMA JoinedParts ==
    ASSUME NEW A, NEW s \in Seq(A), NEW t \in Seq(A)
    PROVE  IsJoined(s \o t, s, t, A)
BY DEF IsJoined

\* Sequences of the same length, one after the other.
LEMMA Grid ==
    ASSUME NEW A, NEW seqs \in Seq(Seq(A)), NEW w \in Nat, \A i \in 1 .. Len(seqs) : Len(seqs[i]) = w
    PROVE  /\ FlattenSeq(seqs) \in Seq(A) /\ Len(FlattenSeq(seqs)) = w * Len(seqs)
           /\ \A i \in 1 .. Len(seqs) : \A f \in 1 .. w : FlattenSeq(seqs)[w * (i - 1) + f] = seqs[i][f]
<1>1. PICK n \in Nat : n = Len(seqs)
  OBVIOUS
<1>2. CASE seqs = <<>>
  <2>1. n = 0
    BY <1>1, <1>2
  <2>2. FlattenSeq(seqs) = seqs
    BY <1>1, <2>1, FlattenIs
  <2>3. w * 0 = 0
    OBVIOUS
  <2>4. <<>> \in Seq(A) /\ Len(<<>>) = 0
    OBVIOUS
  <2>5. FlattenSeq(seqs) = <<>> /\ Len(seqs) = 0
    BY <1>1, <1>2, <2>1, <2>2
  <2>6. w * Len(seqs) = 0
    BY <2>3, <2>5
  <2>7. \A i \in 1 .. Len(seqs) : FALSE
    BY <2>5
  <2>8. FlattenSeq(seqs) \in Seq(A) /\ Len(FlattenSeq(seqs)) = 0
    BY <2>4, <2>5
  <2> QED BY ONLY <2>6, <2>7, <2>8
<1>3. CASE seqs # <<>>
  <2>1. PICK b : b = [i \in 1 .. n + 1 |-> w * (i - 1)]
    OBVIOUS
  <2>2. b[1] = 0
    BY <2>1
  <2>3. ASSUME NEW i \in 1 .. n PROVE b[i] = w * (i - 1) /\ b[i + 1] = b[i] + Len(seqs[i])
    <3>1. PICK k \in Nat : k = i - 1
      <4>1. i - 1 \in Nat
        OBVIOUS
      <4> QED BY <4>1
    <3>2. b[i] = w * k /\ b[i + 1] = w * (k + 1)
      <4>1. i \in 1 .. n + 1 /\ i + 1 \in 1 .. n + 1 /\ (i + 1) - 1 = k + 1
        BY <3>1
      <4> QED BY <2>1, <3>1, <4>1
    <3>3. w * (k + 1) = w * k + w
      BY Times
    <3> QED BY <1>1, <3>1, <3>2, <3>3
  <2>4. Begins(b, seqs)
    BY <1>1, <2>2, <2>3 DEF Begins
  <2>5. FlattenSeq(seqs) \in Seq(A) /\ LaidOut(FlattenSeq(seqs), Len(seqs), b, seqs)
    BY <1>3, <2>4, FlattenLaysOut
  <2>6. b[n + 1] = w * n
    <3>1. n + 1 \in 1 .. n + 1 /\ (n + 1) - 1 = n
      OBVIOUS
    <3> QED BY <2>1, <3>1
  <2> QED BY <1>1, <2>3, <2>5, <2>6 DEF LaidOut
<1> QED BY <1>2, <1>3

\* The greatest of finitely many numbers.
LEMMA Greatest ==
    ASSUME NEW n \in Nat \ {0}, NEW f, \A i \in 1 .. n : f[i] \in Nat
    PROVE  /\ Max({f[i] : i \in 1 .. n}) \in Nat
           /\ \A i \in 1 .. n : f[i] <= Max({f[i2] : i2 \in 1 .. n})
<1> DEFINE Bounded(m) == \E b \in Nat : \A i \in 1 .. m : f[i] <= b
           T == {m \in Nat : m <= n => Bounded(m)}
<1>1. 0 \in T
  <2>1. 0 \in Nat /\ \A i \in 1 .. 0 : f[i] <= 0
    OBVIOUS
  <2> QED BY <2>1
<1>2. ASSUME NEW m \in Nat, m \in T PROVE m + 1 \in T
  <2> SUFFICES ASSUME m + 1 <= n PROVE Bounded(m + 1)
    OBVIOUS
  <2>1. PICK b \in Nat : \A i \in 1 .. m : f[i] <= b
    <3>1. Bounded(m)
      BY <1>2
    <3> QED BY <3>1
  <2>2. PICK x \in Nat : x = f[m + 1]
    <3>1. m + 1 \in 1 .. n
      OBVIOUS
    <3> QED BY <3>1
  <2>3. b + x \in Nat
    OBVIOUS
  <2>4. \A i \in 1 .. m + 1 : f[i] <= b + x
    <3> TAKE i \in 1 .. m + 1
    <3>1. CASE i = m + 1
      BY <2>2, <3>1
    <3>2. CASE i # m + 1
      <4>1. i \in 1 .. m /\ i \in 1 .. n
        BY <3>2
      <4>2. PICK y \in Nat : y = f[i]
        BY <4>1
      <4>3. y <= b
        BY <2>1, <4>1, <4>2
      <4> QED BY <4>2, <4>3
    <3> QED BY <3>1, <3>2
  <2> QED BY <2>3, <2>4
<1>3. Nat \subseteq T
  <2> HIDE DEF T
  <2> QED BY <1>1, <1>2, Induction
<1>4. PICK b \in Nat : \A i \in 1 .. n : f[i] <= b
  <2>1. Bounded(n)
    <3>1. n \in T
      BY <1>3
    <3> HIDE DEF Bounded
    <3> QED BY <3>1
  <2> QED BY <2>1
<1>5. PICK S : S = {f[i] : i \in 1 .. n}
  OBVIOUS
<1>6. S \in SUBSET (0 .. b) /\ S # {}
  <2>1. \A i \in 1 .. n : f[i] \in 0 .. b
    BY <1>4
  <2>2. 1 \in 1 .. n
    OBVIOUS
  <2> QED BY <1>5, <2>1, <2>2
<1>7. Max(S) \in S /\ \A y \in S : Max(S) >= y
  BY ONLY <1>6, b \in Nat, MaxOf
<1>8. PICK M : M = Max(S)
  OBVIOUS
<1>9. M \in Nat /\ \A i \in 1 .. n : f[i] <= M
  <2>1. M \in 0 .. b
    BY <1>6, <1>7, <1>8
  <2>2. \A i \in 1 .. n : f[i] \in S
    BY <1>5
  <2> QED BY <1>7, <1>8, <2>1, <2>2
<1>10. {f[i2] : i2 \in 1 .. n} = S
  BY <1>5
<1> QED BY <1>5, <1>8, <1>9, <1>10

\* The middle of a range.
LEMMA MiddleIs ==
    ASSUME NEW lo \in Nat, NEW hi \in Nat, lo < hi
    PROVE  /\ lo + ((hi - lo) \div 2) \in Nat /\ lo <= lo + ((hi - lo) \div 2)
           /\ lo + ((hi - lo) \div 2) < hi
<1>1. PICK d \in Nat : d = hi - lo /\ d > 0
  <2>1. hi - lo \in Nat /\ hi - lo > 0
    OBVIOUS
  <2> QED BY <2>1
<1>2. d \div 2 \in Nat /\ d \div 2 < d
  BY <1>1
<1>3. PICK x \in Nat : x = d \div 2
  BY <1>2
<1>4. lo + x < hi
  BY <1>1, <1>2, <1>3
<1> QED BY <1>1, <1>3, <1>4

\* The lengths of the parts of a sequence sum up to its length.
LEMMA LengthsSum ==
    ASSUME NEW A, NEW s \in Seq(Seq(A)), NEW lens, lens = [k \in 1 .. Len(s) |-> Len(s[k])]
    PROVE  FoldLeft(+, 0, lens) = Len(FlattenSeq(s)) /\ FlattenSeq(s) \in Seq(A)
<1>1. PICK n \in Nat : n = Len(s) /\ \A k \in 1 .. n : s[k] \in Seq(A) /\ Len(s[k]) \in Nat
  OBVIOUS
<1>2. lens \in Seq(Nat) /\ Len(lens) = n
  <2>1. lens \in [1 .. n -> Nat]
    BY <1>1
  <2> QED BY ONLY <2>1, n \in Nat
<1>3. PICK f \in [0 .. n -> Nat] : /\ f[0] = 0 /\ FoldLeft(+, 0, lens) = f[n]
                                   /\ \A k \in 1 .. n : f[k] = f[k - 1] + lens[k]
  BY <1>2, SumFold
<1> DEFINE T == {k \in Nat : k <= n => Len(FlattenSeq(SubSeq(s, 1, k))) = f[k]}
<1>4. 0 \in T
  <2>1. SubSeq(s, 1, 0) = <<>>
    BY SubSeqFacts
  <2>2. FlattenSeq(<<>>) = <<>>
    <3>1. <<>> \in Seq(Seq(A)) /\ Len(<<>>) = 0
      OBVIOUS
    <3> QED BY <3>1, FlattenIs
  <2>3. Len(FlattenSeq(SubSeq(s, 1, 0))) = 0
    <3>1. FlattenSeq(SubSeq(s, 1, 0)) = <<>>
      BY <2>1, <2>2, Zenon
    <3>2. Len(<<>>) = 0
      OBVIOUS
    <3> QED BY <3>1, <3>2
  <2> QED BY <1>3, <2>3
<1>5. ASSUME NEW k \in Nat, k \in T PROVE k + 1 \in T
  <2> SUFFICES ASSUME k + 1 <= n PROVE Len(FlattenSeq(SubSeq(s, 1, k + 1))) = f[k + 1]
    OBVIOUS
  <2>1. k + 1 \in 1 .. n /\ (k + 1) - 1 = k /\ k \in 0 .. n
    OBVIOUS
  <2>2. PICK x \in Seq(A) : x = FlattenSeq(SubSeq(s, 1, k)) /\ FlattenSeq(SubSeq(s, 1, k + 1)) = x \o s[k + 1]
    <3>1. /\ FlattenSeq(SubSeq(s, 1, k + 1)) = FlattenSeq(SubSeq(s, 1, (k + 1) - 1)) \o s[k + 1]
          /\ FlattenSeq(SubSeq(s, 1, (k + 1) - 1)) \in Seq(A)
      BY <1>1, <2>1, FlattenPrefix
    <3> QED BY <2>1, <3>1
  <2>3. Len(x) = f[k]
    BY <1>5, <2>1, <2>2
  <2>4. s[k + 1] \in Seq(A) /\ lens[k + 1] = Len(s[k + 1]) /\ f[k + 1] = f[k] + lens[k + 1]
    BY <1>1, <1>3, <2>1
  <2>5. Len(x \o s[k + 1]) = Len(x) + Len(s[k + 1])
    BY <2>4
  <2> QED BY <2>2, <2>3, <2>4, <2>5
<1>6. n \in T
  <2> HIDE DEF T
  <2>1. Nat \subseteq T
    BY <1>4, <1>5, Induction
  <2> QED BY <2>1
<1>7. SubSeq(s, 1, n) = s
  BY <1>1
<1>8. FlattenSeq(s) \in Seq(A)
  <2>1. s \in Seq(Seq(A))
    OBVIOUS
  <2> QED BY FlattenConcat
<1>9. Len(FlattenSeq(SubSeq(s, 1, n))) = f[n]
  BY <1>6
<1> HIDE DEF T
<1> QED BY <1>3, <1>7, <1>8, <1>9

\* Sums of numbers that are no greater are no greater.
LEMMA SumsGrow ==
    ASSUME NEW s \in Seq(Nat), NEW u \in Seq(Nat), Len(s) = Len(u), \A k \in 1 .. Len(s) : s[k] <= u[k]
    PROVE  /\ FoldLeft(+, 0, s) \in Nat /\ FoldLeft(+, 0, u) \in Nat
           /\ FoldLeft(+, 0, s) <= FoldLeft(+, 0, u)
<1>1. PICK n \in Nat : n = Len(s) /\ n = Len(u)
  OBVIOUS
<1>2. PICK f \in [0 .. n -> Nat] : /\ f[0] = 0 /\ FoldLeft(+, 0, s) = f[n]
                                   /\ \A k \in 1 .. n : f[k] = f[k - 1] + s[k]
  <2>1. \E f \in [0 .. Len(s) -> Nat] : /\ f[0] = 0 /\ FoldLeft(+, 0, s) = f[Len(s)]
                                         /\ \A k \in 1 .. Len(s) : f[k] = f[k - 1] + s[k]
    BY ONLY SumFold, s \in Seq(Nat)
  <2> QED BY ONLY <1>1, <2>1
<1>3. PICK h \in [0 .. n -> Nat] : /\ h[0] = 0 /\ FoldLeft(+, 0, u) = h[n]
                                   /\ \A k \in 1 .. n : h[k] = h[k - 1] + u[k]
  <2>1. \E h \in [0 .. Len(u) -> Nat] : /\ h[0] = 0 /\ FoldLeft(+, 0, u) = h[Len(u)]
                                         /\ \A k \in 1 .. Len(u) : h[k] = h[k - 1] + u[k]
    BY ONLY SumFold, u \in Seq(Nat)
  <2> QED BY ONLY <1>1, <2>1
<1>8. /\ f[0] = 0 /\ h[0] = 0 /\ \A k \in 0 .. n : f[k] \in Nat /\ h[k] \in Nat
      /\ \A k \in 1 .. n : f[k] = f[k - 1] + s[k] /\ h[k] = h[k - 1] + u[k]
  BY <1>2, <1>3
<1> DEFINE T == {k \in Nat : k <= n => f[k] <= h[k]}
<1>4. 0 \in T
  BY <1>8
<1>5. ASSUME NEW k \in Nat, k \in T PROVE k + 1 \in T
  <2> SUFFICES ASSUME k + 1 <= n PROVE f[k + 1] <= h[k + 1]
    OBVIOUS
  <2>1. k + 1 \in 1 .. n /\ (k + 1) - 1 = k /\ k \in 0 .. n
    OBVIOUS
  <2>2. f[k + 1] = f[k] + s[k + 1] /\ h[k + 1] = h[k] + u[k + 1]
    BY <1>8, <2>1
  <2>3. f[k] \in Nat /\ h[k] \in Nat /\ f[k] <= h[k]
    <3>1. f[k] <= h[k]
      BY <1>5, <2>1
    <3> QED BY <1>8, <2>1, <3>1
  <2>4. s[k + 1] \in Nat /\ u[k + 1] \in Nat /\ s[k + 1] <= u[k + 1]
    BY <1>1, <2>1
  <2>5. f[k] + s[k + 1] <= h[k] + u[k + 1]
    <3>1. \A a, b, x, y \in Nat : a <= b /\ x <= y => a + x <= b + y
      OBVIOUS
    <3> QED BY <2>3, <2>4, <3>1
  <2> QED BY ONLY <2>2, <2>5
<1>6. n \in T
  <2> HIDE DEF T
  <2>1. Nat \subseteq T
    BY <1>4, <1>5, Induction
  <2> QED BY <2>1
<1>7. f[n] <= h[n] /\ f[n] \in Nat /\ h[n] \in Nat
  <2>1. n \in 0 .. n
    OBVIOUS
  <2>2. f[n] <= h[n]
    BY <1>6
  <2> QED BY <1>8, <2>1, <2>2
<1> HIDE DEF T
<1> QED BY <1>2, <1>3, <1>7

\* A part of a sequence.
IsPart(u, s, a, b, A) == u \in Seq(A) /\ Len(u) = b - a /\ \A k \in 1 .. b - a : u[k] = s[a + k]

\* A part of a sequence, element by element.
LEMMA PartIs ==
    ASSUME NEW A, NEW s \in Seq(A), NEW a \in Nat, NEW b \in Nat, a <= b, b <= Len(s)
    PROVE  IsPart(SubSeq(s, a + 1, b), s, a, b, A)
<1>1. PICK u : u = SubSeq(s, a + 1, b)
  OBVIOUS
<1>2. a + 1 \in Nat \ {0} /\ b \in Int
  OBVIOUS
<1>3. u \in Seq(A) /\ Len(u) = IF a + 1 <= b THEN b - (a + 1) + 1 ELSE 0
  BY <1>1, <1>2, PartOf
<1>4. Len(u) = b - a
  BY <1>3
<1>5. ASSUME NEW k \in 1 .. b - a PROVE u[k] = s[a + k]
  <2>1. (a + 1) + k - 1 = a + k /\ k \in 1 .. b - (a + 1) + 1
    OBVIOUS
  <2> QED BY <1>1, <2>1
<1> QED BY <1>1, <1>3, <1>4, <1>5 DEF IsPart

\* The same bytes are the same string.
LEMMA SameString ==
    ASSUME NEW A, NEW u \in Seq(A), NEW s \in Seq(A), Len(u) = Len(s), \A k \in 1 .. Len(s) : u[k] = s[k]
    PROVE  u = s
<1>1. PICK n \in Nat : n = Len(s) /\ n = Len(u) /\ \A k \in 1 .. n : u[k] = s[k]
  OBVIOUS
<1>2. u = [k \in 1 .. n |-> u[k]] /\ s = [k \in 1 .. n |-> s[k]]
  BY <1>1
<1>3. [k \in 1 .. n |-> u[k]] = [k \in 1 .. n |-> s[k]]
  BY <1>1
<1> QED BY ONLY <1>2, <1>3
================================================================================
