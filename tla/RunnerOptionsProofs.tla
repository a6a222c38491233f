------------------------ MODULE RunnerOptionsProofs ------------------------
(***************************************************************************)
(* The options reach the helper: proofs about RunnerOptions.               *)
(*                                                                         *)
(* The argument vector is flattened from one piece for each option, of no, *)
(* one or two elements.  The first lemmas say where the pieces are in it,  *)
(* for any sequences and any order of the options.  The invariant says how *)
(* far the helper has read: it is always at the beginning of a piece, has  *)
(* the options of the pieces before it, and none of the others.  So the    *)
(* value of an option is never taken for an option, or the other way       *)
(* around, and at the end the helper has what it was to be started with.   *)
(***************************************************************************)
EXTENDS RunnerOptions, SequenceTheorems, FiniteSetTheorems, WellFoundedInduction, TLAPS

------------------------------------------------------------------------------
\* Sequences, one after the other.

\* Induction over the natural numbers, for a set.
LEMMA NatSets ==
    ASSUME NEW S, 0 \in S, \A n \in Nat : n \in S => n + 1 \in S
    PROVE  \A n \in Nat : n \in S
<1> DEFINE R == {ss \in Nat \X Nat : ss[1] < ss[2]}
           T == Nat \ S
<1>1. IsWellFoundedOn(R, Nat)
  <2>1. R = OpToRel(<, Nat)
    BY Zenon DEF OpToRel
  <2> QED BY <2>1, NatLessThanWellFounded, Zenon
<1> SUFFICES ASSUME T # {} PROVE FALSE
  OBVIOUS
<1>2. PICK x \in T : \A y \in T : ~ (<<y, x>> \in R)
  <2> HIDE DEF R
  <2> QED BY <1>1, WFMin
<1>3. x # 0 /\ x - 1 \in Nat /\ x - 1 < x /\ x \in Nat
  OBVIOUS
<1>4. x - 1 \in S
  BY <1>2, <1>3
<1> QED BY <1>3, <1>4

\* f[i] is the first i of the sequences, one after the other, as in FlattenSeq.
Flattens(f, seqs) ==
    f = [i \in 1..Len(seqs) |-> IF i = 1 THEN seqs[i] ELSE f[i - 1] \o seqs[i]]

Prefix(seqs) == CHOOSE f : Flattens(f, seqs)

\* FlattenSeq is the last of the prefixes.
LEMMA FlattenIsPrefix ==
    ASSUME NEW seqs, Len(seqs) # 0
    PROVE  FlattenSeq(seqs) = Prefix(seqs)[Len(seqs)]
BY DEF FlattenSeq, Prefix, Flattens

\* The recursion of FlattenSeq has a solution.
LEMMA PrefixExists ==
    ASSUME NEW seqs, Len(seqs) \in Nat
    PROVE  Flattens(Prefix(seqs), seqs)
<1> DEFINE n == Len(seqs)
           Step(f, i) == f[i] = IF i = 1 THEN seqs[i] ELSE f[i - 1] \o seqs[i]
           Solves(f, m) ==
                /\ f = [i \in 1..n |-> f[i]]
                /\ \A i \in 1..n : i <= m => Step(f, i)
           Good == {m \in Nat : \E f : Solves(f, m)}
<1>1. 0 \in Good
  <2> DEFINE f == [i \in 1..n |-> i]
  <2>1. f = [i \in 1..n |-> f[i]]
    OBVIOUS
  <2>2. \A i \in 1..n : ~(i <= 0)
    BY DEF n
  <2>3. Solves(f, 0)
    BY <2>1, <2>2
  <2> HIDE DEF Solves
  <2> QED BY <2>3
<1>2. ASSUME NEW m \in Nat, m \in Good PROVE m + 1 \in Good
  <2>1. PICK f : Solves(f, m)
    BY <1>2
  <2> DEFINE next == [i \in 1..n |-> IF i = 1 THEN seqs[i] ELSE f[i - 1] \o seqs[i]]
  <2>2. \A i \in 1..n : i <= m => next[i] = f[i]
    BY <2>1
  <2>3. ASSUME NEW i \in 1..n, i <= m + 1 PROVE Step(next, i)
    <3>1. CASE i = 1
      BY <3>1
    <3>2. CASE i # 1
      <4>1. i - 1 \in 1..n /\ i - 1 <= m
        BY <2>3, <3>2
      <4>2. next[i - 1] = f[i - 1]
        BY <2>2, <4>1
      <4> QED BY <3>2, <4>2
    <3> QED BY <3>1, <3>2
  <2>4. Solves(next, m + 1)
    BY <2>3
  <2> HIDE DEF Solves
  <2> QED BY <2>4
<1>3. \A m \in Nat : m \in Good
  <2> HIDE DEF Good
  <2> QED BY <1>1, <1>2, NatSets
<1>4. PICK f : Solves(f, n)
  BY <1>3
<1>5. \A i \in 1..n : Step(f, i)
  <2>1. \A i \in 1..n : i <= n
    OBVIOUS
  <2> QED BY <1>4, <2>1
<1>6. f = [i \in 1..n |-> IF i = 1 THEN seqs[i] ELSE f[i - 1] \o seqs[i]]
  BY <1>4, <1>5
<1>7. Flattens(f, seqs)
  BY <1>6 DEF Flattens
<1> QED BY <1>7 DEF Prefix

\* Where the k-th sequence starts in the whole: so many elements are before it.
Start(seqs, k) == IF k = 1 THEN 0 ELSE Len(Prefix(seqs)[k - 1])

\* The prefixes are sequences of the same elements, and each adds the next sequence.
LEMMA PrefixTypes ==
    ASSUME NEW T, NEW seqs \in Seq(Seq(T))
    PROVE  /\ \A k \in 1..Len(seqs) : seqs[k] \in Seq(T) /\ Prefix(seqs)[k] \in Seq(T)
           /\ \A k \in 1..Len(seqs) : k # 1 => Prefix(seqs)[k] = Prefix(seqs)[k - 1] \o seqs[k]
           /\ 1 \in 1..Len(seqs) => Prefix(seqs)[1] = seqs[1]
<1> DEFINE n == Len(seqs)
           Good == {m \in Nat : \A k \in 1..n : k <= m => Prefix(seqs)[k] \in Seq(T)}
<1>1. n \in Nat /\ \A k \in 1..n : seqs[k] \in Seq(T)
  OBVIOUS
<1>2. \A k \in 1..n :
        Prefix(seqs)[k] = IF k = 1 THEN seqs[k] ELSE Prefix(seqs)[k - 1] \o seqs[k]
  <2>1. Flattens(Prefix(seqs), seqs)
    BY <1>1, PrefixExists
  <2> DEFINE p == Prefix(seqs)
  <2>2. p = [i \in 1..n |-> IF i = 1 THEN seqs[i] ELSE p[i - 1] \o seqs[i]]
    BY <2>1 DEF Flattens
  <2> HIDE DEF p
  <2>3. \A k \in 1..n : p[k] = IF k = 1 THEN seqs[k] ELSE p[k - 1] \o seqs[k]
    BY <2>2
  <2> QED BY <2>3 DEF p
<1>3. 0 \in Good
  OBVIOUS
<1>4. ASSUME NEW m \in Nat, m \in Good PROVE m + 1 \in Good
  <2> SUFFICES ASSUME NEW k \in 1..n, k <= m + 1 PROVE Prefix(seqs)[k] \in Seq(T)
    OBVIOUS
  <2>1. CASE k = 1
    BY <1>1, <1>2, <2>1
  <2>2. CASE k # 1
    <3>1. k - 1 \in 1..n /\ k - 1 <= m
      BY <2>2
    <3>2. Prefix(seqs)[k - 1] \in Seq(T)
      BY <1>4, <3>1
    <3> QED BY <1>1, <1>2, <2>2, <3>2, ConcatProperties
  <2> QED BY <2>1, <2>2
<1>5. \A m \in Nat : m \in Good
  <2> HIDE DEF Good
  <2> QED BY <1>3, <1>4, NatSets
<1>6. \A k \in 1..n : Prefix(seqs)[k] \in Seq(T)
  <2>1. n \in Nat /\ \A k \in 1..n : k <= n
    BY <1>1
  <2>2. n \in Good
    BY <1>5, <2>1
  <2> QED BY <2>1, <2>2
<1>7. \A k \in 1..n : k # 1 => Prefix(seqs)[k] = Prefix(seqs)[k - 1] \o seqs[k]
  BY <1>2
<1>8. 1 \in 1..n => Prefix(seqs)[1] = seqs[1]
  BY <1>2
<1> QED BY <1>1, <1>6, <1>7, <1>8

\* Where the next sequence starts: after as many elements as this one has.
LEMMA StartStep ==
    ASSUME NEW T, NEW seqs \in Seq(Seq(T))
    PROVE  /\ Start(seqs, 1) = 0
           /\ \A k \in 1..(Len(seqs) + 1) : Start(seqs, k) \in Nat
           /\ \A k \in 1..Len(seqs) :
                /\ Start(seqs, k + 1) = Start(seqs, k) + Len(seqs[k])
                /\ Len(seqs[k]) \in Nat
                /\ Start(seqs, k + 1) = Len(Prefix(seqs)[k])
<1>1. /\ \A k \in 1..Len(seqs) : seqs[k] \in Seq(T) /\ Prefix(seqs)[k] \in Seq(T)
      /\ \A k \in 1..Len(seqs) : k # 1 => Prefix(seqs)[k] = Prefix(seqs)[k - 1] \o seqs[k]
      /\ 1 \in 1..Len(seqs) => Prefix(seqs)[1] = seqs[1]
  BY PrefixTypes
<1>2. Len(seqs) \in Nat
  OBVIOUS
<1>3. \A k \in 1..(Len(seqs) + 1) : Start(seqs, k) \in Nat
  <2> SUFFICES ASSUME NEW k \in 1..(Len(seqs) + 1) PROVE Start(seqs, k) \in Nat
    OBVIOUS
  <2>1. k # 1 => k - 1 \in 1..Len(seqs)
    BY <1>2
  <2>2. k # 1 => Len(Prefix(seqs)[k - 1]) \in Nat
    BY <1>1, <2>1, LenProperties
  <2> QED BY <2>2 DEF Start
<1>4. ASSUME NEW k \in 1..Len(seqs)
      PROVE  /\ Start(seqs, k + 1) = Start(seqs, k) + Len(seqs[k])
             /\ Len(seqs[k]) \in Nat
             /\ Start(seqs, k + 1) = Len(Prefix(seqs)[k])
  <2>1. Start(seqs, k + 1) = Len(Prefix(seqs)[k])
    BY <1>2 DEF Start
  <2>2. Len(seqs[k]) \in Nat
    BY <1>1, LenProperties
  <2>3. CASE k = 1
    BY <1>1, <2>1, <2>2, <2>3 DEF Start
  <2>4. CASE k # 1
    <3>1. k - 1 \in 1..Len(seqs)
      BY <2>4
    <3>2. /\ Prefix(seqs)[k - 1] \in Seq(T) /\ seqs[k] \in Seq(T)
          /\ Prefix(seqs)[k] = Prefix(seqs)[k - 1] \o seqs[k]
      BY <1>1, <2>4, <3>1
    <3>3. Len(Prefix(seqs)[k]) = Len(Prefix(seqs)[k - 1]) + Len(seqs[k])
      BY <3>2, ConcatProperties
    <3> QED BY <2>1, <2>2, <2>4, <3>3 DEF Start
  <2> QED BY <2>1, <2>2, <2>3, <2>4
<1>5. Start(seqs, 1) = 0
  BY DEF Start
<1> QED BY <1>3, <1>4, <1>5

\* The sequences do not overlap.
LEMMA StartsGrow ==
    ASSUME NEW T, NEW seqs \in Seq(Seq(T))
    PROVE  \A j, k \in 1..(Len(seqs) + 1) : j <= k => Start(seqs, j) <= Start(seqs, k)
<1> DEFINE n == Len(seqs)
           Good == {m \in Nat : \A j, k \in 1..(n + 1) :
                        j <= k /\ k <= j + m => Start(seqs, j) <= Start(seqs, k)}
<1>1. /\ n \in Nat
      /\ \A k \in 1..(n + 1) : Start(seqs, k) \in Nat
      /\ \A k \in 1..n : Start(seqs, k) <= Start(seqs, k + 1)
  <2>1. /\ \A k \in 1..(n + 1) : Start(seqs, k) \in Nat
        /\ \A k \in 1..n : /\ Start(seqs, k + 1) = Start(seqs, k) + Len(seqs[k])
                           /\ Len(seqs[k]) \in Nat
    BY StartStep
  <2>2. n \in Nat
    OBVIOUS
  <2>3. ASSUME NEW k \in 1..n PROVE Start(seqs, k) <= Start(seqs, k + 1)
    <3>1. k \in 1..(n + 1)
      BY <2>2
    <3>2. Start(seqs, k) \in Nat
      BY <2>1, <3>1
    <3> QED BY <2>1, <3>2
  <2> QED BY <2>1, <2>2, <2>3
<1>2. 0 \in Good
  <2> SUFFICES ASSUME NEW j \in 1..(n + 1), NEW k \in 1..(n + 1), j <= k, k <= j + 0
               PROVE  Start(seqs, j) <= Start(seqs, k)
    OBVIOUS
  <2>1. j = k
    OBVIOUS
  <2> QED BY <1>1, <2>1
<1>3. ASSUME NEW m \in Nat, m \in Good PROVE m + 1 \in Good
  <2> SUFFICES ASSUME NEW j \in 1..(n + 1), NEW k \in 1..(n + 1),
                      j <= k, k <= j + (m + 1)
               PROVE  Start(seqs, j) <= Start(seqs, k)
    OBVIOUS
  <2>1. CASE j = k
    BY <1>1, <2>1
  <2>2. CASE j # k
    <3>1. /\ k - 1 \in 1..n /\ k - 1 \in 1..(n + 1) /\ j <= k - 1
          /\ k - 1 <= j + m /\ (k - 1) + 1 = k
      BY <1>1, <2>2
    <3>2. Start(seqs, j) <= Start(seqs, k - 1)
      BY <1>3, <3>1
    <3>3. Start(seqs, k - 1) <= Start(seqs, k)
      BY <1>1, <3>1
    <3>4. Start(seqs, j) \in Nat /\ Start(seqs, k - 1) \in Nat /\ Start(seqs, k) \in Nat
      BY <1>1, <3>1
    <3> QED BY <3>2, <3>3, <3>4
  <2> QED BY <2>1, <2>2
<1>4. \A m \in Nat : m \in Good
  <2> HIDE DEF Good
  <2> QED BY <1>2, <1>3, NatSets
<1>5. \A j, k \in 1..(n + 1) : k <= j + n
  BY <1>1
<1>6. n \in Good
  <2> HIDE DEF Good
  <2> QED BY <1>1, <1>4
<1> QED BY <1>5, <1>6

\* Every element of the whole is in one of them.
LEMMA StartsCover ==
    ASSUME NEW T, NEW seqs \in Seq(Seq(T)),
           NEW p \in 1..Start(seqs, Len(seqs) + 1)
    PROVE  \E k \in 1..Len(seqs) : Start(seqs, k) < p /\ p <= Start(seqs, k + 1)
<1> DEFINE n == Len(seqs)
           Good == {m \in Nat : m <= n /\ p <= Start(seqs, m + 1) =>
                        \E k \in 1..n : Start(seqs, k) < p /\ p <= Start(seqs, k + 1)}
<1>1. /\ n \in Nat /\ Start(seqs, 1) = 0
      /\ \A k \in 1..(n + 1) : Start(seqs, k) \in Nat
  BY StartStep
<1>2. n + 1 \in 1..(n + 1) /\ p \in Nat /\ p >= 1 /\ p <= Start(seqs, n + 1)
  BY <1>1
<1>3. 0 \in Good
  BY <1>1, <1>2
<1>4. ASSUME NEW m \in Nat, m \in Good PROVE m + 1 \in Good
  <2> SUFFICES ASSUME m + 1 <= n, p <= Start(seqs, (m + 1) + 1)
               PROVE  \E k \in 1..n : Start(seqs, k) < p /\ p <= Start(seqs, k + 1)
    OBVIOUS
  <2>1. m + 1 \in 1..n /\ m + 1 \in 1..(n + 1) /\ m <= n
    BY <1>1
  <2>2. CASE p <= Start(seqs, m + 1)
    BY <1>4, <2>1, <2>2
  <2>3. CASE ~(p <= Start(seqs, m + 1))
    BY <1>1, <1>2, <2>1, <2>3
  <2> QED BY <2>2, <2>3
<1>5. \A m \in Nat : m \in Good
  <2> HIDE DEF Good
  <2> QED BY <1>3, <1>4, NatSets
<1> QED BY <1>1, <1>2, <1>5

\* Sequences of at most two elements make no more than twice as many.
LEMMA StartsBound ==
    ASSUME NEW T, NEW seqs \in Seq(Seq(T)), \A k \in 1..Len(seqs) : Len(seqs[k]) <= 2
    PROVE  Start(seqs, Len(seqs) + 1) <= 2 * Len(seqs)
<1> DEFINE n == Len(seqs)
           Good == {m \in Nat : m <= n => Start(seqs, m + 1) <= 2 * m}
<1>1. /\ n \in Nat /\ Start(seqs, 1) = 0
      /\ \A k \in 1..(n + 1) : Start(seqs, k) \in Nat
      /\ \A k \in 1..n : Start(seqs, k + 1) = Start(seqs, k) + Len(seqs[k])
      /\ \A k \in 1..n : Len(seqs[k]) \in Nat
  BY StartStep
<1>2. 0 \in Good
  BY <1>1
<1>3. ASSUME NEW m \in Nat, m \in Good PROVE m + 1 \in Good
  <2> SUFFICES ASSUME m + 1 <= n PROVE Start(seqs, (m + 1) + 1) <= 2 * (m + 1)
    OBVIOUS
  <2>1. m + 1 \in 1..n /\ m + 1 \in 1..(n + 1) /\ m <= n
    BY <1>1
  <2>2. Start(seqs, m + 1) <= 2 * m
    BY <1>3, <2>1
  <2>3. Start(seqs, (m + 1) + 1) = Start(seqs, m + 1) + Len(seqs[m + 1])
    BY <1>1, <2>1
  <2>4. Len(seqs[m + 1]) <= 2 /\ Len(seqs[m + 1]) \in Nat /\ Start(seqs, m + 1) \in Nat
    BY <1>1, <2>1
  <2> QED BY <2>2, <2>3, <2>4
<1>4. \A m \in Nat : m \in Good
  <2> HIDE DEF Good
  <2> QED BY <1>2, <1>3, NatSets
<1>5. n \in Good /\ n <= n
  BY <1>1, <1>4
<1> QED BY <1>5

\* Each sequence is found in the whole from where it starts.
LEMMA StartsHold ==
    ASSUME NEW T, NEW seqs \in Seq(Seq(T)), NEW k \in 1..Len(seqs),
           NEW q \in 1..Len(seqs[k])
    PROVE  Prefix(seqs)[Len(seqs)][Start(seqs, k) + q] = seqs[k][q]
<1> DEFINE n == Len(seqs)
           p == Start(seqs, k) + q
           Good == {m \in Nat : k + m <= n => Prefix(seqs)[k + m][p] = seqs[k][q]}
<1>1. /\ n \in Nat /\ k \in Nat /\ k >= 1 /\ k <= n
      /\ \A i \in 1..(n + 1) : Start(seqs, i) \in Nat
      /\ \A i \in 1..n :
            /\ Start(seqs, i + 1) = Start(seqs, i) + Len(seqs[i])
            /\ Len(seqs[i]) \in Nat
            /\ Start(seqs, i + 1) = Len(Prefix(seqs)[i])
  BY StartStep
<1>2. /\ \A i \in 1..n : seqs[i] \in Seq(T) /\ Prefix(seqs)[i] \in Seq(T)
      /\ \A i \in 1..n : i # 1 => Prefix(seqs)[i] = Prefix(seqs)[i - 1] \o seqs[i]
      /\ 1 \in 1..n => Prefix(seqs)[1] = seqs[1]
  BY PrefixTypes
<1>3. q \in Nat /\ q >= 1 /\ q <= Len(seqs[k]) /\ Start(seqs, k) \in Nat /\ p \in Nat
  BY <1>1
<1>4. 0 \in Good
  <2>0. k + 0 = k
    BY <1>1
  <2>1. CASE k = 1
    BY <1>2, <1>3, <2>0, <2>1 DEF Start
  <2>2. CASE k # 1
    <3>1. k - 1 \in 1..n /\ (k - 1) + 1 = k
      BY <1>1, <2>2
    <3>2. /\ Prefix(seqs)[k] = Prefix(seqs)[k - 1] \o seqs[k]
          /\ Prefix(seqs)[k - 1] \in Seq(T) /\ seqs[k] \in Seq(T)
          /\ Len(Prefix(seqs)[k - 1]) = Start(seqs, k)
      BY <1>1, <1>2, <2>2, <3>1
    <3>3. /\ p \in 1..(Len(Prefix(seqs)[k - 1]) + Len(seqs[k]))
          /\ ~(p <= Len(Prefix(seqs)[k - 1])) /\ p - Len(Prefix(seqs)[k - 1]) = q
      BY <1>1, <1>3, <3>2
    <3>4. Prefix(seqs)[k][p] = seqs[k][q]
      <4> DEFINE before == Prefix(seqs)[k - 1]
      <4>1. before \in Seq(T) /\ seqs[k] \in Seq(T) /\ Prefix(seqs)[k] = before \o seqs[k]
        BY <3>2
      <4>2. /\ p \in 1..(Len(before) + Len(seqs[k])) /\ ~(p <= Len(before))
            /\ p - Len(before) = q
        BY <3>3
      <4> HIDE DEF p, before
      <4>3. \A i \in 1..(Len(before) + Len(seqs[k])) :
               (before \o seqs[k])[i] =
                  IF i <= Len(before) THEN before[i] ELSE seqs[k][i - Len(before)]
        BY <4>1, ConcatProperties
      <4> QED BY <4>1, <4>2, <4>3
    <3> QED BY <2>0, <3>4
  <2> QED BY <2>1, <2>2
<1>5. ASSUME NEW m \in Nat, m \in Good PROVE m + 1 \in Good
  <2> SUFFICES ASSUME k + (m + 1) <= n
               PROVE  Prefix(seqs)[k + (m + 1)][p] = seqs[k][q]
    OBVIOUS
  <2> DEFINE i == k + m
  <2>1. /\ i \in 1..n /\ i + 1 \in 1..n /\ i + 1 # 1 /\ (i + 1) - 1 = i
        /\ k + (m + 1) = i + 1 /\ k <= i
        /\ k + 1 \in 1..(n + 1) /\ i + 1 \in 1..(n + 1) /\ k + 1 <= i + 1
    BY <1>1
  <2>2. /\ Prefix(seqs)[i + 1] = Prefix(seqs)[i] \o seqs[i + 1]
        /\ Prefix(seqs)[i] \in Seq(T) /\ seqs[i + 1] \in Seq(T)
    BY <1>2, <2>1
  <2>3. Start(seqs, k + 1) <= Start(seqs, i + 1)
    BY <2>1, StartsGrow
  <2>4. /\ Start(seqs, k + 1) = Start(seqs, k) + Len(seqs[k])
        /\ Len(seqs[k]) \in Nat /\ Len(seqs[i + 1]) \in Nat
        /\ Start(seqs, i + 1) = Len(Prefix(seqs)[i]) /\ Start(seqs, i + 1) \in Nat
    BY <1>1, <2>1
  <2>5. /\ p \in 1..(Len(Prefix(seqs)[i]) + Len(seqs[i + 1]))
        /\ p <= Len(Prefix(seqs)[i])
    <3>1. p <= Start(seqs, k + 1) /\ Start(seqs, k + 1) \in Nat
      BY <1>3, <2>4
    <3>2. p <= Len(Prefix(seqs)[i]) /\ Len(Prefix(seqs)[i]) \in Nat
      BY <1>3, <2>3, <2>4, <3>1
    <3>3. p \in Nat /\ p >= 1
      BY <1>3
    <3>4. Len(seqs[i + 1]) \in Nat
      BY <2>4
    <3> DEFINE x == Len(Prefix(seqs)[i])
               y == Len(seqs[i + 1])
    <3>5. x \in Nat /\ y \in Nat /\ p <= x
      BY <3>2, <3>4
    <3> HIDE DEF p, x, y
    <3>6. p \in 1..(x + y)
      BY <3>3, <3>5
    <3> USE DEF x, y
    <3> QED BY <3>2, <3>6
  <2>6. Prefix(seqs)[i][p] = seqs[k][q]
    BY <1>1, <1>5, <2>1
  <2>7. Prefix(seqs)[i + 1][p] = Prefix(seqs)[i][p]
    <3> HIDE DEF p, i
    <3> QED BY <2>2, <2>5, ConcatProperties
  <2> QED BY <2>1, <2>6, <2>7
<1>6. \A m \in Nat : m \in Good
  <2> HIDE DEF Good
  <2> QED BY <1>4, <1>5, NatSets
<1>7. n - k \in Nat /\ k + (n - k) = n /\ n <= n
  BY <1>1
<1>8. n - k \in Good
  BY <1>6, <1>7
<1> QED BY <1>7, <1>8

------------------------------------------------------------------------------
\* The pieces of the options.

\* An order in which every option is appended, once.
Lists(order) ==
    /\ order \in Seq(Options) /\ Len(order) = 12
    /\ \A o \in Options : \E k \in 1..12 : order[k] = o
    /\ \A j, k \in 1..12 : order[j] = order[k] => j = k

Pieces(opts, order) == [k \in DOMAIN order |-> Appended(opts, order[k])]

Begin(opts, order, k) == Start(Pieces(opts, order), k)

\* So many elements stand for an option.
Size(opts, o) == IF opts[o] = unset THEN 0 ELSE IF o \in Flags THEN 1 ELSE 2

\* Where the options are in the elements that are made of them.
Layout(opts, order) ==
    /\ FlattenSeq(Pieces(opts, order)) \in Seq(Options \cup Values)
    /\ Len(FlattenSeq(Pieces(opts, order))) = Begin(opts, order, 13)
    /\ Begin(opts, order, 1) = 0 /\ Begin(opts, order, 13) <= 24
    /\ \A k \in 1..13 : Begin(opts, order, k) \in Nat
    /\ \A j, k \in 1..13 : j <= k => Begin(opts, order, j) <= Begin(opts, order, k)
    /\ \A p \in 1..Begin(opts, order, 13) : \E k \in 1..12 :
            Begin(opts, order, k) < p /\ p <= Begin(opts, order, k + 1)
    /\ \A k \in 1..12 :
            /\ Begin(opts, order, k + 1) = Begin(opts, order, k) + Size(opts, order[k])
            /\ opts[order[k]] # unset =>
                FlattenSeq(Pieces(opts, order))[Begin(opts, order, k) + 1] = order[k]
            /\ opts[order[k]] # unset /\ order[k] \notin Flags =>
                FlattenSeq(Pieces(opts, order))[Begin(opts, order, k) + 2] = opts[order[k]]

\* What a piece is made of.
Words == Options \cup Values

\* A function on 1..n is a sequence.
LEMMA FunctionsAreSequences ==
    ASSUME NEW S, NEW n \in Nat, NEW f \in [1..n -> S]
    PROVE  f \in Seq(S)
OBVIOUS

\* The piece of one option: the option, and what follows it if it is no flag.
LEMMA AppendedSize ==
    ASSUME NEW opts \in [Options -> Values], NEW o \in Options
    PROVE  /\ Appended(opts, o) \in Seq(Words)
           /\ Len(Appended(opts, o)) = Size(opts, o)
           /\ Size(opts, o) \in Nat /\ Size(opts, o) <= 2
           /\ opts[o] # unset => Appended(opts, o)[1] = o
           /\ opts[o] # unset /\ o \notin Flags => Appended(opts, o)[2] = opts[o]
<1>1. o \in Words /\ opts[o] \in Words
  BY DEF Words
<1>2. CASE opts[o] = unset
  <2>1. Appended(opts, o) = <<>>
    BY <1>2 DEF Appended
  <2>2. Size(opts, o) = 0
    BY <1>2 DEF Size
  <2> QED BY <1>2, <2>1, <2>2
<1>3. CASE opts[o] # unset /\ o \in Flags
  <2>1. Appended(opts, o) = <<o>>
    BY <1>3 DEF Appended
  <2>2. Size(opts, o) = 1
    BY <1>3 DEF Size
  <2> QED BY <1>1, <1>3, <2>1, <2>2
<1>4. CASE opts[o] # unset /\ o \notin Flags
  <2>1. Appended(opts, o) = <<o, opts[o]>>
    BY <1>4 DEF Appended
  <2>2. Size(opts, o) = 2
    BY <1>4 DEF Size
  <2> QED BY <1>1, <1>4, <2>1, <2>2
<1> QED BY <1>2, <1>3, <1>4

\* Options appended in such an order are laid out like that.
LEMMA LaidOut ==
    ASSUME NEW opts \in [Options -> Values], NEW order, Lists(order)
    PROVE  Layout(opts, order)
<1> DEFINE seqs == Pieces(opts, order)
<1>1. /\ order \in Seq(Options) /\ Len(order) = 12 /\ DOMAIN order = 1..12
      /\ \A k \in 1..12 : order[k] \in Options
  <2>1. order \in Seq(Options) /\ Len(order) = 12
    BY DEF Lists
  <2> QED BY <2>1, LenProperties, ElementOfSeq
<1>2. \A k \in 1..12 : seqs[k] = Appended(opts, order[k])
  BY <1>1 DEF Pieces
<1>3. /\ \A k \in 1..12 : /\ seqs[k] \in Seq(Words) /\ Len(seqs[k]) <= 2
                          /\ Len(seqs[k]) = Size(opts, order[k])
                          /\ opts[order[k]] # unset => seqs[k][1] = order[k]
                          /\ opts[order[k]] # unset /\ order[k] \notin Flags =>
                                seqs[k][2] = opts[order[k]]
  <2> SUFFICES ASSUME NEW k \in 1..12
               PROVE  /\ seqs[k] \in Seq(Words) /\ Len(seqs[k]) <= 2
                      /\ Len(seqs[k]) = Size(opts, order[k])
                      /\ opts[order[k]] # unset => seqs[k][1] = order[k]
                      /\ opts[order[k]] # unset /\ order[k] \notin Flags =>
                            seqs[k][2] = opts[order[k]]
    OBVIOUS
  <2>1. order[k] \in Options /\ seqs[k] = Appended(opts, order[k])
    BY <1>1, <1>2
  <2> HIDE DEF seqs
  <2> QED BY <2>1, AppendedSize
<1>4. seqs \in Seq(Seq(Words)) /\ Len(seqs) = 12
  <2>1. seqs = [k \in 1..12 |-> Appended(opts, order[k])]
    BY <1>1 DEF Pieces
  <2>2. seqs \in [1..12 -> Seq(Words)]
    <3> DEFINE f(k) == Appended(opts, order[k])
    <3>1. \A k \in 1..12 : f(k) \in Seq(Words)
      BY <1>2, <1>3
    <3> HIDE DEF f
    <3>2. [k \in 1..12 |-> f(k)] \in [1..12 -> Seq(Words)]
      BY <3>1
    <3> QED BY <2>1, <3>2 DEF f
  <2> HIDE DEF seqs
  <2>3. 12 \in Nat /\ DOMAIN seqs = 1..12 /\ \A k \in 1..12 : seqs[k] \in Seq(Words)
    BY <2>2
  <2>4. seqs \in Seq(Seq(Words))
    BY <2>2, FunctionsAreSequences
  <2> QED BY <2>3, <2>4
<1> HIDE DEF seqs
<1>5. /\ Start(seqs, 1) = 0
      /\ \A k \in 1..13 : Start(seqs, k) \in Nat
      /\ \A k \in 1..12 : /\ Start(seqs, k + 1) = Start(seqs, k) + Len(seqs[k])
                          /\ Start(seqs, k + 1) = Len(Prefix(seqs)[k])
  <2>1. 12 + 1 = 13
    OBVIOUS
  <2> QED BY <1>4, <2>1, StartStep
<1>6. \A j, k \in 1..13 : j <= k => Start(seqs, j) <= Start(seqs, k)
  <2>1. 12 + 1 = 13
    OBVIOUS
  <2> QED BY <1>4, <2>1, StartsGrow
<1>7. \A p \in 1..Start(seqs, 13) : \E k \in 1..12 :
            Start(seqs, k) < p /\ p <= Start(seqs, k + 1)
  <2>1. 12 + 1 = 13
    OBVIOUS
  <2> QED BY <1>4, <2>1, StartsCover
<1>8. FlattenSeq(seqs) = Prefix(seqs)[12]
  <2>1. Len(seqs) = 12 /\ Len(seqs) # 0
    BY <1>4
  <2>2. FlattenSeq(seqs) = Prefix(seqs)[Len(seqs)]
    BY <2>1, FlattenIsPrefix
  <2> QED BY <2>1, <2>2
<1>9. Len(FlattenSeq(seqs)) = Start(seqs, 13)
  BY <1>5, <1>8
<1>15. FlattenSeq(seqs) \in Seq(Words)
  <2>1. 12 \in 1..Len(seqs)
    BY <1>4
  <2>2. Prefix(seqs)[12] \in Seq(Words)
    BY <1>4, <2>1, PrefixTypes
  <2> QED BY <1>8, <2>2
<1>10. Start(seqs, 13) <= 24
  <2>1. \A k \in 1..Len(seqs) : Len(seqs[k]) <= 2
    BY <1>3, <1>4
  <2>2. Start(seqs, Len(seqs) + 1) <= 2 * Len(seqs)
    BY <1>4, <2>1, StartsBound
  <2> QED BY <1>4, <2>2
<1>11. ASSUME NEW k \in 1..12, NEW q \in 1..Len(seqs[k])
       PROVE  FlattenSeq(seqs)[Start(seqs, k) + q] = seqs[k][q]
  <2>1. k \in 1..Len(seqs) /\ Len(seqs) = 12
    BY <1>4
  <2>2. Prefix(seqs)[Len(seqs)][Start(seqs, k) + q] = seqs[k][q]
    BY <1>4, <2>1, StartsHold
  <2> QED BY <1>8, <2>1, <2>2
<1>12. ASSUME NEW k \in 1..12, opts[order[k]] # unset
       PROVE  FlattenSeq(seqs)[Start(seqs, k) + 1] = order[k]
  <2>1. Len(seqs[k]) = Size(opts, order[k])
    BY <1>3
  <2>2. 1 \in 1..Len(seqs[k])
    BY <1>12, <2>1 DEF Size
  <2> QED BY <1>3, <1>11, <1>12, <2>2
<1>13. ASSUME NEW k \in 1..12, opts[order[k]] # unset, order[k] \notin Flags
       PROVE  FlattenSeq(seqs)[Start(seqs, k) + 2] = opts[order[k]]
  <2>1. Len(seqs[k]) = Size(opts, order[k])
    BY <1>3
  <2>2. 2 \in 1..Len(seqs[k])
    BY <1>13, <2>1 DEF Size
  <2> QED BY <1>3, <1>11, <1>13, <2>2
<1>14. \A k \in 1..12 : Start(seqs, k + 1) = Start(seqs, k) + Size(opts, order[k])
  BY <1>3, <1>5
<1> USE DEF seqs
<1> QED BY <1>5, <1>6, <1>7, <1>9, <1>10, <1>12, <1>13, <1>14, <1>15 DEF Layout, Begin, Words

\* vmnet-run and `run` both append each option once.
LEMMA OrdersList == Lists(Order) /\ Lists(ScriptOrder)
<1>1. Lists(Order)
  <2>1. Order \in Seq(Options) /\ Len(Order) = 12
    BY DEF Order, Options, Flags, Checked, Addresses, Names
  <2>2. \A o \in Options : \E k \in 1..12 : Order[k] = o
    BY DEF Order, Options, Flags, Checked, Addresses, Names
  <2>3. \A j, k \in 1..12 : Order[j] = Order[k] => j = k
    BY DEF Order
  <2> QED BY <2>1, <2>2, <2>3 DEF Lists
<1>2. Lists(ScriptOrder)
  <2>1. ScriptOrder \in Seq(Options) /\ Len(ScriptOrder) = 12
    BY DEF ScriptOrder, Options, Flags, Checked, Addresses, Names
  <2>2. \A o \in Options : \E k \in 1..12 : ScriptOrder[k] = o
    BY DEF ScriptOrder, Options, Flags, Checked, Addresses, Names
  <2>3. \A j, k \in 1..12 : ScriptOrder[j] = ScriptOrder[k] => j = k
    BY DEF ScriptOrder
  <2> QED BY <2>1, <2>2, <2>3 DEF Lists
<1> QED BY <1>1, <1>2

------------------------------------------------------------------------------
\* The invariant.

\* The options that the helper is started with, in which order, and how it is to
\* talk to the client.
ByScript == args.connection \in {"--fd", "--socket"}
Wanted == IF ByScript THEN [o \in Options |-> ScriptGives(o)] ELSE runner
UsedOrder == IF ByScript THEN ScriptOrder ELSE Order
Connection == IF ByScript THEN args.connection ELSE "--fd"
Other == IF Connection = "--fd" THEN "--socket" ELSE "--fd"

Whole == FlattenSeq(Pieces(Wanted, UsedOrder))
From(k) == Begin(Wanted, UsedOrder, k)

HelperStates == {"helper_parse", "helper_check", "helper_exit", "ready"}

\* Each option has what can follow it, and only the interval may be a bad one.
Typed ==
    /\ args \in ScriptArguments \cup {NoScript}
    /\ runner \in [Options -> Values]
    /\ \A o \in Options : runner[o] = "bad" => o = "--stats-interval"
    /\ \A o \in Flags : runner[o] \in {unset, "set"}
    /\ runner["--operation-mode"] \in {unset} \cup Modes

\* Who is before the helper, and what `run` has found right.
Route ==
    /\ pc \in {"script", "script_exit"} => args \in ScriptArguments
    /\ pc = "parse" => args.connection = "none"
    /\ pc \in {"check", "build", "failed", "runner_exit"} => ~ByScript
    /\ args.connection # "none" /\ pc \notin {"script", "script_exit"} =>
            ~NetworkOptionsRejected /\ ~OperationModeRejected
    /\ args.connection = "runner" /\ pc \notin {"script", "script_exit"} =>
            runner = [o \in Options |-> ScriptGives(o)]
    /\ pc = "runner_exit" /\ args.connection = "runner" => args.network_name # unset

Unstarted == argv = <<>> /\ optind = 1 /\ helper = Nothing

\* The vector is the connection at base, the options after it.
Vector(base) ==
    /\ base \in {2, 4, 5}
    /\ Len(argv) = base + Len(Whole)
    /\ argv[base] = Connection
    /\ \A i \in 1..Len(Whole) : argv[base + i] = Whole[i]

\* The helper has the options that begin before optind, and is at the beginning
\* of another or at the end.
Reached(base) ==
    /\ \E k \in 1..13 : optind = base + 1 + From(k)
    /\ helper \in [Options \cup {"--fd", "--socket"} -> Values]
    /\ helper[Connection] = "good" /\ helper[Other] = unset

HasRead(base) ==
    \A k \in 1..12 :
        helper[UsedOrder[k]] =
            IF base + 1 + From(k) < optind THEN Wanted[UsedOrder[k]] ELSE unset

HasAll == \A o \in Options : helper[o] = Wanted[o]

Progress(base) ==
    \/ pc = "helper_parse" /\ optind = base /\ helper = Nothing
    \/ /\ Reached(base)
       /\ pc = "helper_parse" => HasRead(base)
       /\ pc = "helper_check" => HasAll
       /\ pc = "helper_exit" =>
            (args.connection # "none" =>
                args.network_name # unset \/ args.stats_interval = "bad")
       /\ pc = "ready" =>
            /\ HelperAccepts(Wanted)
            /\ \A o \in Options : helper[o] = WithDefaults(Wanted)[o]
    \/ pc = "helper_exit" /\ LongPath /\ optind = base + 1 /\ helper = Nothing

Inv ==
    /\ pc \in {"script", "parse", "check", "build", "failed", "script_exit",
               "runner_exit"} \cup HelperStates
    /\ Typed /\ Route
    /\ pc \notin HelperStates => Unstarted
    /\ pc \in HelperStates => \E base \in {2, 4, 5} : Vector(base) /\ Progress(base)

------------------------------------------------------------------------------
\* The helper reads the vector.

\* The script gives each option what can follow it; only the interval may be bad.
LEMMA ScriptGivesTypes ==
    ASSUME args \in ScriptArguments, NEW o \in Options
    PROVE  /\ ScriptGives(o) \in Values
           /\ ScriptGives(o) = "bad" => o = "--stats-interval" /\ args.stats_interval = "bad"
           /\ o \in Flags => ScriptGives(o) \in {unset, "set"}
           /\ o = "--operation-mode" => ScriptGives(o) \in {unset} \cup Modes
<1> USE DEF ScriptArguments, Values, unset, Modes, Flags
<1>1. CASE o = "--interface-id"
  BY <1>1 DEF ScriptGives
<1>2. CASE o \in {"--enable-tso", "--enable-checksum-offload"}
  BY <1>2 DEF ScriptGives
<1>3. CASE o = "--stats-interval"
  BY <1>3 DEF ScriptGives
<1>4. CASE o \in {"--operation-mode", "--start-address", "--end-address", "--subnet-mask"}
  BY <1>4 DEF ScriptGives
<1>5. CASE o \in {"--enable-isolation", "--shared-interface", "--network", "--verbose"}
  BY <1>5 DEF ScriptGives
<1> QED BY <1>1, <1>2, <1>3, <1>4, <1>5 DEF Options, Checked, Addresses, Names

\* So does whoever starts the helper.
LEMMA WantedTypes ==
    ASSUME Typed
    PROVE  /\ Wanted \in [Options -> Values]
           /\ \A o \in Options : Wanted[o] = "bad" => o = "--stats-interval"
           /\ \A o \in Flags : Wanted[o] \in {unset, "set"}
           /\ Wanted["--operation-mode"] \in {unset} \cup Modes
           /\ Connection \in {"--fd", "--socket"} /\ Other \in {"--fd", "--socket"}
           /\ Connection # Other
           /\ Lists(UsedOrder)
           /\ Layout(Wanted, UsedOrder)
<1>1. CASE ByScript
  <2>1. args \in ScriptArguments
    BY <1>1 DEF Typed, ByScript, NoScript
  <2>2. Wanted = [o \in Options |-> ScriptGives(o)]
    BY <1>1 DEF Wanted
  <2>3. \A o \in Options :
           /\ ScriptGives(o) \in Values
           /\ ScriptGives(o) = "bad" => o = "--stats-interval"
           /\ o \in Flags => ScriptGives(o) \in {unset, "set"}
           /\ o = "--operation-mode" => ScriptGives(o) \in {unset} \cup Modes
    BY <2>1, ScriptGivesTypes
  <2>4. Flags \subseteq Options /\ "--operation-mode" \in Options
    BY DEF Options
  <2> QED BY <2>2, <2>3, <2>4, <1>1, OrdersList, LaidOut DEF UsedOrder, Connection, Other, ByScript
<1>2. CASE ~ByScript
  BY <1>2, OrdersList, LaidOut DEF Wanted, Typed, UsedOrder, Connection, Other
<1> QED BY <1>1, <1>2

\* The helper finds the next option, and what follows it, where vmnet-run put them.
LEMMA NextOption ==
    ASSUME Typed, NEW base \in {2, 4, 5}, Vector(base), Reached(base), optind <= Len(argv)
    PROVE  \E j \in 1..12 :
                /\ optind = base + 1 + From(j)
                /\ Wanted[UsedOrder[j]] # unset
                /\ argv[optind] = UsedOrder[j]
                /\ UsedOrder[j] \notin Flags => argv[optind + 1] = Wanted[UsedOrder[j]]
                /\ From(j + 1) = From(j) + Size(Wanted, UsedOrder[j])
<1>1. Layout(Wanted, UsedOrder)
  BY WantedTypes
<1>2. /\ Len(Whole) = From(13)
      /\ From(1) = 0
      /\ \A k \in 1..13 : From(k) \in Nat
      /\ \A j, k \in 1..13 : j <= k => From(j) <= From(k)
      /\ \A p \in 1..From(13) : \E k \in 1..12 : From(k) < p /\ p <= From(k + 1)
      /\ \A k \in 1..12 :
            /\ From(k + 1) = From(k) + Size(Wanted, UsedOrder[k])
            /\ Wanted[UsedOrder[k]] # unset => Whole[From(k) + 1] = UsedOrder[k]
            /\ Wanted[UsedOrder[k]] # unset /\ UsedOrder[k] \notin Flags =>
                    Whole[From(k) + 2] = Wanted[UsedOrder[k]]
  BY <1>1 DEF Layout, From, Whole
<1>3. PICK i \in 1..13 : optind = base + 1 + From(i)
  BY DEF Reached
<1>4. From(i) + 1 \in 1..From(13)
  <2>0. 13 \in 1..13
    OBVIOUS
  <2>3. From(i) \in Nat /\ From(13) \in Nat
    BY <1>2, <2>0
  <2>4. base \in Nat
    OBVIOUS
  <2>1. From(i) \in Nat /\ From(13) \in Nat /\ base \in Nat
    BY <2>3, <2>4
  <2>2. base + 1 + From(i) <= base + From(13)
    BY <1>2, <1>3 DEF Vector
  <2> QED BY <2>1, <2>2
<1>5. PICK j \in 1..12 : From(j) < From(i) + 1 /\ From(i) + 1 <= From(j + 1)
  BY <1>2, <1>4
<1>6. j \in 1..13 /\ j + 1 \in 1..13
  OBVIOUS
<1>7. From(i) = From(j)
  <2>1. From(i) \in Nat /\ From(j) \in Nat /\ From(j + 1) \in Nat
    BY <1>2, <1>6
  <2>2. CASE i <= j
    <3>1. From(i) <= From(j)
      BY <1>2, <1>6, <2>2
    <3>2. From(j) <= From(i)
      BY <1>5, <2>1
    <3> QED BY <2>1, <3>1, <3>2
  <2>3. CASE ~(i <= j)
    <3>1. j + 1 <= i
      BY <2>3
    <3>2. From(j + 1) <= From(i)
      BY <1>2, <1>6, <3>1
    <3> QED BY <1>5, <2>1, <3>2
  <2> QED BY <2>2, <2>3
<1>8. /\ From(j + 1) = From(j) + Size(Wanted, UsedOrder[j])
      /\ From(j) \in Nat /\ From(j + 1) \in Nat /\ From(j + 1) <= From(13) /\ From(13) \in Nat
      /\ From(j) + 1 <= From(j + 1)
  <2>1. 13 \in 1..13 /\ j + 1 <= 13
    OBVIOUS
  <2>2. From(13) \in Nat
    BY <1>2, <2>1
  <2>3. From(j + 1) <= From(13)
    BY <1>2, <1>6, <2>1
  <2> QED BY <1>2, <1>5, <1>6, <1>7, <2>2, <2>3
<1>9. Wanted[UsedOrder[j]] # unset
  <2>1. Size(Wanted, UsedOrder[j]) # 0
    BY <1>8
  <2> QED BY <2>1 DEF Size
<1>10. argv[optind] = UsedOrder[j]
  <2>1. From(j) + 1 \in 1..Len(Whole)
    BY <1>2, <1>4, <1>7
  <2>2. argv[base + (From(j) + 1)] = Whole[From(j) + 1]
    BY <2>1 DEF Vector
  <2>3. optind = base + (From(j) + 1)
    BY <1>3, <1>7, <1>8
  <2> QED BY <1>2, <1>9, <2>2, <2>3
<1>11. ASSUME UsedOrder[j] \notin Flags PROVE argv[optind + 1] = Wanted[UsedOrder[j]]
  <2>1. Size(Wanted, UsedOrder[j]) = 2
    BY <1>9, <1>11 DEF Size
  <2>2. From(j) + 2 \in 1..Len(Whole)
    BY <1>2, <1>8, <2>1
  <2>3. argv[base + (From(j) + 2)] = Whole[From(j) + 2]
    BY <2>2 DEF Vector
  <2>4. optind + 1 = base + (From(j) + 2)
    BY <1>3, <1>7, <1>8
  <2> QED BY <1>2, <1>9, <1>11, <2>3, <2>4
<1>12. optind = base + 1 + From(j)
  BY <1>3, <1>7
<1> QED BY <1>8, <1>9, <1>10, <1>11, <1>12

\* The helper is at an option that was appended.
AtOption(base, j) ==
    optind = base + 1 + From(j) /\ Wanted[UsedOrder[j]] # unset

\* The options and the place in the vector after the j-th option was read.
Adds(h, next, base, j) ==
    /\ h = [helper EXCEPT ![UsedOrder[j]] = Wanted[UsedOrder[j]]]
    /\ next = base + 1 + From(j + 1)

\* The options that begin before the element next are those in h.
ReadTo(h, base, next) ==
    \A k \in 1..12 :
        h[UsedOrder[k]] =
            IF base + 1 + From(k) < next THEN Wanted[UsedOrder[k]] ELSE unset

\* Once it has read the j-th option it has the options up to that one.
LEMMA OneMoreRead ==
    ASSUME Typed, NEW base \in {2, 4, 5}, HasRead(base),
           NEW j \in 1..12, AtOption(base, j),
           helper \in [Options \cup {"--fd", "--socket"} -> Values],
           NEW h, NEW next, Adds(h, next, base, j)
    PROVE  ReadTo(h, base, next)
<1> SUFFICES ASSUME NEW k \in 1..12
             PROVE  h[UsedOrder[k]] =
                        IF base + 1 + From(k) < base + 1 + From(j + 1)
                        THEN Wanted[UsedOrder[k]] ELSE unset
  BY DEF ReadTo, Adds
<1>0. /\ optind = base + 1 + From(j) /\ Wanted[UsedOrder[j]] # unset
      /\ h = [helper EXCEPT ![UsedOrder[j]] = Wanted[UsedOrder[j]]]
  BY DEF AtOption, Adds
<1>1. Layout(Wanted, UsedOrder) /\ Lists(UsedOrder)
  BY WantedTypes
<1>2. /\ \A i \in 1..13 : From(i) \in Nat
      /\ \A i, l \in 1..13 : i <= l => From(i) <= From(l)
      /\ \A i \in 1..12 : From(i + 1) = From(i) + Size(Wanted, UsedOrder[i])
  BY <1>1 DEF Layout, From
<1>3. /\ UsedOrder[j] \in Options /\ UsedOrder[k] \in Options
      /\ UsedOrder[j] = UsedOrder[k] => j = k
  <2>1. UsedOrder \in Seq(Options) /\ Len(UsedOrder) = 12
    BY <1>1 DEF Lists
  <2>2. UsedOrder[j] \in Options /\ UsedOrder[k] \in Options
    BY <2>1, ElementOfSeq
  <2> QED BY <1>1, <2>2 DEF Lists
<1>4. /\ j \in 1..13 /\ k \in 1..13 /\ j + 1 \in 1..13 /\ k + 1 \in 1..13 /\ base \in Nat
      /\ From(j) \in Nat /\ From(k) \in Nat /\ From(j + 1) \in Nat /\ From(k + 1) \in Nat
  BY <1>2
<1>5. /\ From(j + 1) = From(j) + Size(Wanted, UsedOrder[j])
      /\ From(k + 1) = From(k) + Size(Wanted, UsedOrder[k])
  BY <1>2
<1>6. helper[UsedOrder[k]] =
          IF base + 1 + From(k) < base + 1 + From(j) THEN Wanted[UsedOrder[k]] ELSE unset
  BY <1>0 DEF HasRead
<1>7. CASE k = j
  <2>1. From(j) < From(j + 1)
    BY <1>0, <1>4, <1>5 DEF Size
  <2>2. h[UsedOrder[k]] = Wanted[UsedOrder[k]]
    BY <1>0, <1>3, <1>7
  <2> QED BY <1>4, <1>7, <2>1, <2>2
<1>8. CASE k < j
  <2>1. From(k) <= From(j) /\ From(k + 1) <= From(j) /\ From(j) < From(j + 1)
    <3>1. k <= j /\ k + 1 <= j
      BY <1>8
    <3>2. From(k) <= From(j) /\ From(k + 1) <= From(j)
      BY <1>2, <1>4, <3>1
    <3>3. From(j) < From(j + 1)
      BY <1>0, <1>4, <1>5 DEF Size
    <3> QED BY <3>2, <3>3
  <2>2. h[UsedOrder[k]] = helper[UsedOrder[k]]
    BY <1>0, <1>3, <1>8
  <2>3. CASE From(k) < From(j)
    BY <1>4, <1>6, <2>1, <2>2, <2>3
  <2>4. CASE ~(From(k) < From(j))
    <3>1. Size(Wanted, UsedOrder[k]) = 0
      <4>1. Size(Wanted, UsedOrder[k]) \in Nat
        BY DEF Size
      <4>2. From(k) = From(j)
        BY <1>4, <2>1, <2>4
      <4> QED BY <1>4, <1>5, <2>1, <4>1, <4>2
    <3>2. Wanted[UsedOrder[k]] = unset
      BY <3>1 DEF Size
    <3> QED BY <1>6, <2>2, <3>2
  <2> QED BY <2>3, <2>4
<1>9. CASE k > j
  <2>1. From(j + 1) <= From(k) /\ From(j) <= From(k)
    <3>1. j + 1 <= k /\ j <= k
      BY <1>9
    <3> QED BY <1>2, <1>4, <3>1
  <2>2. h[UsedOrder[k]] = helper[UsedOrder[k]]
    BY <1>0, <1>3, <1>9
  <2> QED BY <1>4, <1>6, <2>1, <2>2
<1> QED BY <1>7, <1>8, <1>9

\* At the end of the vector it has them all.
LEMMA AllRead ==
    ASSUME Typed, NEW base \in {2, 4, 5}, Vector(base), Reached(base), HasRead(base),
           optind > Len(argv)
    PROVE  HasAll
<1> SUFFICES ASSUME NEW o \in Options PROVE helper[o] = Wanted[o]
  BY DEF HasAll
<1>1. Layout(Wanted, UsedOrder) /\ Lists(UsedOrder)
  BY WantedTypes
<1>2. PICK k \in 1..12 : UsedOrder[k] = o
  BY <1>1 DEF Lists
<1>3. /\ \A i \in 1..13 : From(i) \in Nat
      /\ \A i, l \in 1..13 : i <= l => From(i) <= From(l)
      /\ \A i \in 1..12 : From(i + 1) = From(i) + Size(Wanted, UsedOrder[i])
      /\ Len(Whole) = From(13)
  BY <1>1 DEF Layout, From, Whole
<1>4. PICK i \in 1..13 : optind = base + 1 + From(i)
  BY DEF Reached
<1>5. /\ From(i) \in Nat /\ From(13) \in Nat /\ From(k) \in Nat /\ From(k + 1) \in Nat
      /\ From(k + 1) <= From(13) /\ base \in Nat
  <2>1. k \in 1..13 /\ k + 1 \in 1..13 /\ 13 \in 1..13 /\ k + 1 <= 13
    OBVIOUS
  <2>2. From(13) \in Nat
    BY <1>3, <2>1
  <2>3. From(k + 1) <= From(13)
    BY <1>3, <2>1
  <2>4. base \in Nat
    OBVIOUS
  <2>5. From(i) \in Nat /\ From(k) \in Nat /\ From(k + 1) \in Nat
    BY <1>3, <2>1
  <2> QED BY <2>2, <2>3, <2>4, <2>5
<1>6. From(i) >= From(13)
  <2>1. Len(argv) = base + From(13)
    BY <1>3 DEF Vector
  <2> QED BY <1>4, <1>5, <2>1
<1>7. helper[o] = IF base + 1 + From(k) < base + 1 + From(i) THEN Wanted[o] ELSE unset
  BY <1>2, <1>4 DEF HasRead
<1>8. CASE Wanted[o] = unset
  BY <1>7, <1>8
<1>9. CASE Wanted[o] # unset
  <2>1. From(k + 1) = From(k) + Size(Wanted, o) /\ Size(Wanted, o) \in {1, 2}
    BY <1>2, <1>3, <1>9 DEF Size
  <2>2. From(k) < From(i)
    BY <1>5, <1>6, <2>1
  <2> QED BY <1>5, <1>7, <2>2
<1> QED BY <1>8, <1>9

\* With sudo or without, the vector that starts the helper ends in the connection
\* and the options.
LEMMA StartsVector ==
    ASSUME NEW connection \in {"--fd", "--socket"}, NEW opts \in [Options -> Values],
           NEW order, Lists(order), Layout(opts, order), Starts(connection, opts, order)
    PROVE  \E base \in {2, 4, 5} :
                /\ optind' = base
                /\ Len(argv') = base + Len(FlattenSeq(Pieces(opts, order)))
                /\ argv'[base] = connection
                /\ \A i \in 1..Len(FlattenSeq(Pieces(opts, order))) :
                        argv'[base + i] = FlattenSeq(Pieces(opts, order))[i]
<1> DEFINE T == (Options \cup Values)
                    \cup {"sudo", "--non-interactive", "--close-from", "helper_path",
                          "--fd", "--socket"}
           rest == FlattenSeq(Pieces(opts, order))
<1>1. rest \in Seq(T)
  <2>1. rest \in Seq(Options \cup Values)
    BY DEF Layout
  <2>2. Options \cup Values \subseteq T
    OBVIOUS
  <2> HIDE DEF T, rest
  <2> QED BY <2>1, <2>2, SeqMonotonic
<1>2. PICK sudo \in Seq(T) :
            /\ Len(sudo) = 0 \/ Len(sudo) = 2 \/ Len(sudo) = 3
            /\ argv' = sudo \o <<"helper_path", connection>> \o rest
            /\ optind' = Len(sudo) + 2
  <2> DEFINE close == IF connection = "--fd" THEN <<"--close-from">> ELSE <<>>
             sudo(major) == IF requires_root(major)
                            THEN <<"sudo", "--non-interactive">> \o close
                            ELSE <<>>
  <2>1. PICK major \in {15, 26} :
            /\ argv' = sudo(major) \o <<"helper_path", connection>> \o rest
            /\ optind' = Len(sudo(major)) + 2
    BY DEF Starts, Pieces
  <2>2. close \in Seq(T) /\ (Len(close) = 0 \/ Len(close) = 1)
    <3>1. CASE connection = "--fd"
      <4>1. <<"--close-from">> \in Seq(T) /\ Len(<<"--close-from">>) = 1
        OBVIOUS
      <4> QED BY <3>1, <4>1
    <3>2. CASE connection # "--fd"
      <4>1. close = <<>>
        BY <3>2
      <4> HIDE DEF close, T
      <4> QED BY <4>1, EmptySeq
    <3> QED BY <3>1, <3>2
  <2>3. <<"sudo", "--non-interactive">> \in Seq(T) /\ Len(<<"sudo", "--non-interactive">>) = 2
    OBVIOUS
  <2>4. /\ <<"sudo", "--non-interactive">> \o close \in Seq(T)
        /\ \/ Len(<<"sudo", "--non-interactive">> \o close) = 2
           \/ Len(<<"sudo", "--non-interactive">> \o close) = 3
    <3> HIDE DEF close, T
    <3>1. /\ <<"sudo", "--non-interactive">> \o close \in Seq(T)
          /\ Len(<<"sudo", "--non-interactive">> \o close)
                = Len(<<"sudo", "--non-interactive">>) + Len(close)
      BY <2>2, <2>3, ConcatProperties
    <3>2. Len(<<"sudo", "--non-interactive">> \o close) = 2 + Len(close)
      BY <2>3, <3>1
    <3>3. Len(close) = 0 => Len(<<"sudo", "--non-interactive">> \o close) = 2
      BY <3>2
    <3>4. Len(close) = 1 => Len(<<"sudo", "--non-interactive">> \o close) = 3
      BY <3>2
    <3> QED BY <2>2, <3>1, <3>3, <3>4
  <2>5. /\ sudo(major) \in Seq(T)
        /\ Len(sudo(major)) = 0 \/ Len(sudo(major)) = 2 \/ Len(sudo(major)) = 3
    <3> HIDE DEF close
    <3>1. CASE requires_root(major)
      BY <2>4, <3>1
    <3>2. CASE ~requires_root(major)
      <4>1. sudo(major) = <<>>
        BY <3>2
      <4> HIDE DEF sudo, T
      <4> QED BY <4>1, EmptySeq
    <3> QED BY <3>1, <3>2
  <2> HIDE DEF sudo, T, rest
  <2> QED BY <2>1, <2>5
<1> DEFINE two == <<"helper_path", connection>>
           first == sudo \o two
           base == Len(sudo) + 2
<1>3. two \in Seq(T) /\ Len(two) = 2 /\ two[2] = connection
  OBVIOUS
<1> HIDE DEF T, rest, two
<1>4. /\ first \in Seq(T) /\ Len(first) = Len(sudo) + Len(two)
      /\ \A i \in 1..(Len(sudo) + Len(two)) :
            first[i] = IF i <= Len(sudo) THEN sudo[i] ELSE two[i - Len(sudo)]
  BY <1>2, <1>3, ConcatProperties
<1>5. Len(sudo) \in Nat /\ Len(rest) \in Nat
  BY <1>1, <1>2, LenProperties
<1>6. Len(first) = base /\ first[base] = connection /\ base \in {2, 4, 5} /\ base \in Nat
  <2>1. /\ base \in 1..(Len(sudo) + Len(two)) /\ ~(base <= Len(sudo))
        /\ base - Len(sudo) = 2
    BY <1>3, <1>5
  <2>2. Len(first) = base /\ base \in {2, 4, 5} /\ base \in Nat
    <3>1. Len(first) = base
      BY <1>3, <1>4, <1>5
    <3>2. base = 2 \/ base = 4 \/ base = 5
      <4>1. Len(sudo) = 0 => base = 2
        OBVIOUS
      <4>2. Len(sudo) = 2 => base = 4
        OBVIOUS
      <4>3. Len(sudo) = 3 => base = 5
        OBVIOUS
      <4>4. Len(sudo) = 0 \/ Len(sudo) = 2 \/ Len(sudo) = 3
        BY <1>2
      <4> HIDE DEF base
      <4> QED BY <4>1, <4>2, <4>3, <4>4
    <3> QED BY <3>1, <3>2
  <2>3. first[base] = two[base - Len(sudo)]
    BY <1>4, <2>1
  <2> QED BY <1>3, <2>1, <2>2, <2>3
<1>7. argv' = first \o rest
  BY <1>2 DEF two
<1> HIDE DEF first, base
<1>8. /\ Len(argv') = Len(first) + Len(rest)
      /\ \A i \in 1..(Len(first) + Len(rest)) :
            argv'[i] = IF i <= Len(first) THEN first[i] ELSE rest[i - Len(first)]
  BY <1>1, <1>4, <1>7, ConcatProperties
<1>9. argv'[base] = connection
  <2>1. base \in 1..(Len(first) + Len(rest)) /\ base <= Len(first)
    BY <1>5, <1>6
  <2>2. argv'[base] = first[base]
    BY <1>8, <2>1
  <2> QED BY <1>6, <2>2
<1>10. ASSUME NEW i \in 1..Len(rest) PROVE argv'[base + i] = rest[i]
  <2>1. /\ base + i \in 1..(Len(first) + Len(rest)) /\ ~(base + i <= Len(first))
        /\ (base + i) - Len(first) = i
    BY <1>5, <1>6
  <2>2. argv'[base + i] = rest[(base + i) - Len(first)]
    BY <1>8, <2>1
  <2> QED BY <2>1, <2>2
<1>11. optind' = base
  BY <1>2 DEF base
<1>12. Len(argv') = base + Len(rest)
  BY <1>6, <1>8
<1> USE DEF rest
<1> QED BY <1>6, <1>9, <1>10, <1>11, <1>12

\* What the helper is to be started with does not change.
LEMMA Kept ==
    ASSUME UNCHANGED <<args, runner>>
    PROVE  /\ ByScript' = ByScript /\ Wanted' = Wanted /\ UsedOrder' = UsedOrder
           /\ Connection' = Connection /\ Other' = Other /\ Whole' = Whole
           /\ \A k : From(k)' = From(k)
           /\ Typed' = Typed
           /\ NetworkOptionsRejected' = NetworkOptionsRejected
           /\ OperationModeRejected' = OperationModeRejected
<1>1. ByScript' = ByScript /\ \A o : ScriptGives(o)' = ScriptGives(o)
  BY DEF ByScript, ScriptGives
<1>2. Wanted' = Wanted /\ UsedOrder' = UsedOrder /\ Connection' = Connection
  BY <1>1 DEF Wanted, UsedOrder, Connection
<1>3. Other' = Other
  BY <1>2 DEF Other
<1>4. Whole' = Whole /\ \A k : From(k)' = From(k)
  BY <1>2 DEF Whole, From
<1>5. /\ Typed' = Typed
      /\ NetworkOptionsRejected' = NetworkOptionsRejected
      /\ OperationModeRejected' = OperationModeRejected
  BY DEF Typed, NetworkOptionsRejected, OperationModeRejected, DhcpOptions
<1> QED BY <1>1, <1>2, <1>3, <1>4, <1>5

------------------------------------------------------------------------------
\* The steps.

\* Nothing has been started yet.
LEMMA InitInv == Init => Inv
<1> SUFFICES ASSUME Init PROVE Inv
  OBVIOUS
<1> USE DEF Init
<1>1. pc \in {"script", "parse"} /\ pc \notin HelperStates
  BY DEF HelperStates
<1>2. Unstarted
  BY DEF Unstarted
<1>3. Typed
  <2>1. args \in ScriptArguments \cup {NoScript}
    OBVIOUS
  <2>2. \A o \in Options : runner[o] = unset
    OBVIOUS
  <2>3. runner \in [Options -> Values]
    BY DEF Values
  <2>4. Flags \subseteq Options /\ "--operation-mode" \in Options
    BY DEF Options
  <2> QED BY <2>1, <2>2, <2>3, <2>4 DEF Typed, unset
<1>4. Route
  BY DEF Route, NoScript
<1> QED BY <1>1, <1>2, <1>3, <1>4 DEF Inv

\* What the script has found right, vmnet-run and the helper do too.
LEMMA ScriptAgrees ==
    ASSUME args \in ScriptArguments, ~NetworkOptionsRejected, ~OperationModeRejected,
           args.network_name = unset
    PROVE  LET opts == [o \in Options |-> ScriptGives(o)]
           IN  RunnerAccepts(opts) /\ HelperAccepts(opts)
<1> DEFINE opts == [o \in Options |-> ScriptGives(o)]
<1>1. /\ opts["--network"] = unset
      /\ opts["--operation-mode"] = args.operation_mode
      /\ opts["--shared-interface"] = args.shared_interface
      /\ opts["--enable-isolation"] = args.enable_isolation
      /\ opts["--start-address"] = args.start_address
      /\ opts["--end-address"] = args.end_address
      /\ opts["--subnet-mask"] = args.subnet_mask
  BY DEF ScriptGives, Options, Checked, Addresses, Names, Flags
<1>2. args.shared_interface = "good"
  BY DEF ScriptArguments
<1> HIDE DEF opts
<1>3. ~Given(opts, "--network") /\ Given(opts, "--shared-interface")
  BY <1>1, <1>2 DEF Given, unset
<1>4. opts["--operation-mode"] = "bridged" => ~BadBridge(opts)
  BY <1>1, <1>3 DEF BadBridge, Given, OperationModeRejected
<1>5. opts["--operation-mode"] # "bridged" => AddressesFit(opts)
  <2> SUFFICES ASSUME args.operation_mode # "bridged" PROVE AddressesFit(opts)
    BY <1>1
  <2>1. ~(Cardinality(DhcpOptions) > 1)
    BY DEF OperationModeRejected
  <2>2. IsFiniteSet(DhcpOptions) /\ Cardinality(DhcpOptions) \in Nat
    <3>1. IsFiniteSet({args.start_address, args.end_address, args.subnet_mask})
      <4>1. IsFiniteSet({}) 
        BY FS_EmptySet
      <4>2. IsFiniteSet({} \cup {args.start_address})
        BY <4>1, FS_AddElement
      <4>3. IsFiniteSet(({} \cup {args.start_address}) \cup {args.end_address})
        BY <4>2, FS_AddElement
      <4>4. IsFiniteSet((({} \cup {args.start_address}) \cup {args.end_address})
                            \cup {args.subnet_mask})
        BY <4>3, FS_AddElement
      <4>5. (({} \cup {args.start_address}) \cup {args.end_address}) \cup {args.subnet_mask}
                = {args.start_address, args.end_address, args.subnet_mask}
        OBVIOUS
      <4> QED BY <4>4, <4>5
    <3> QED BY <3>1, FS_CardinalityType DEF DhcpOptions
  <2>3. \A a, b \in DhcpOptions : a = b
    <3> SUFFICES ASSUME NEW a \in DhcpOptions, NEW b \in DhcpOptions, a # b PROVE FALSE
      OBVIOUS
    <3>1. {a, b} \subseteq DhcpOptions
      OBVIOUS
    <3>2. Cardinality({a}) = 1 /\ IsFiniteSet({a})
      BY FS_Singleton
    <3>3. Cardinality({a} \cup {b}) = Cardinality({a}) + 1
      BY <3>2, FS_AddElement
    <3>4. {a} \cup {b} = {a, b}
      OBVIOUS
    <3>5. Cardinality({a, b}) <= Cardinality(DhcpOptions)
      BY <2>2, <3>1, FS_Subset
    <3> QED BY <2>1, <2>2, <3>2, <3>3, <3>4, <3>5
  <2>4. args.start_address = args.end_address /\ args.end_address = args.subnet_mask
    BY <2>3 DEF DhcpOptions
  <2> QED BY <1>1, <2>4 DEF AddressesFit, Given, Addresses
<1>6. RunnerAccepts(opts) /\ HelperAccepts(opts)
  BY <1>3, <1>4, <1>5 DEF RunnerAccepts, HelperAccepts
<1> QED BY <1>6 DEF opts

\* The program that builds the vector starts the helper with it.
LEMMA HelperStarts ==
    ASSUME Inv, UNCHANGED <<args, runner, helper>>, pc \notin HelperStates,
           Starts(Connection, Wanted, UsedOrder), pc' = "helper_parse", Route'
    PROVE  Inv'
<1>1. Typed /\ Unstarted
  BY DEF Inv
<1>2. PICK base \in {2, 4, 5} :
            /\ optind' = base
            /\ Len(argv') = base + Len(Whole)
            /\ argv'[base] = Connection
            /\ \A i \in 1..Len(Whole) : argv'[base + i] = Whole[i]
  BY <1>1, WantedTypes, StartsVector DEF Whole
<1>3. /\ Connection' = Connection /\ Whole' = Whole /\ Typed'
  BY <1>1, Kept
<1>4. Vector(base)'
  BY <1>2, <1>3 DEF Vector
<1>5. Progress(base)'
  BY <1>1, <1>2 DEF Progress, Unstarted
<1> QED BY <1>3, <1>4, <1>5 DEF Inv, HelperStates

\* The steps of the helper leave the vector and what it was made of alone.
LEMMA HelperKeeps ==
    ASSUME Typed, Route, UNCHANGED <<args, runner, argv>>,
           pc \in HelperStates, pc' \in HelperStates
    PROVE  /\ Typed' /\ Route'
           /\ \A base \in {2, 4, 5} : Vector(base) => Vector(base)'
           /\ \A base \in {2, 4, 5} : Reached(base)' <=>
                /\ \E k \in 1..13 : optind' = base + 1 + From(k)
                /\ helper' \in [Options \cup {"--fd", "--socket"} -> Values]
                /\ helper'[Connection] = "good" /\ helper'[Other] = unset
           /\ \A base \in {2, 4, 5} : HasRead(base)' <=>
                \A k \in 1..12 :
                    helper'[UsedOrder[k]] =
                        IF base + 1 + From(k) < optind'
                        THEN Wanted[UsedOrder[k]] ELSE unset
           /\ HasAll' <=> \A o \in Options : helper'[o] = Wanted[o]
           /\ HelperAccepts(Wanted)' = HelperAccepts(Wanted)
           /\ WithDefaults(Wanted)' = WithDefaults(Wanted)
<1>1. /\ Wanted' = Wanted /\ UsedOrder' = UsedOrder
      /\ Connection' = Connection /\ Other' = Other /\ Whole' = Whole
      /\ \A k : From(k)' = From(k)
      /\ Typed'
  BY Kept
<1>2. Route'
  <2>1. \A o : ScriptGives(o)' = ScriptGives(o)
    BY DEF ScriptGives
  <2> QED BY <2>1, Kept DEF Route, HelperStates
<1>3. \A base \in {2, 4, 5} : Vector(base) => Vector(base)'
  BY <1>1 DEF Vector
<1>4. \A base \in {2, 4, 5} : Reached(base)' <=>
                /\ \E k \in 1..13 : optind' = base + 1 + From(k)
                /\ helper' \in [Options \cup {"--fd", "--socket"} -> Values]
                /\ helper'[Connection] = "good" /\ helper'[Other] = unset
  BY <1>1 DEF Reached
<1>5. \A base \in {2, 4, 5} : HasRead(base)' <=>
                \A k \in 1..12 :
                    helper'[UsedOrder[k]] =
                        IF base + 1 + From(k) < optind'
                        THEN Wanted[UsedOrder[k]] ELSE unset
  BY <1>1 DEF HasRead
<1>6. HasAll' <=> \A o \in Options : helper'[o] = Wanted[o]
  BY <1>1 DEF HasAll
<1>7. /\ HelperAccepts(Wanted)' = HelperAccepts(Wanted)
      /\ WithDefaults(Wanted)' = WithDefaults(Wanted)
  BY <1>1 DEF HelperAccepts, WithDefaults, AddressesFit, BadBridge, NetworkConflicts, Given
<1> QED BY <1>1, <1>2, <1>3, <1>4, <1>5, <1>6, <1>7

\* How to talk to the client is no option.
LEMMA ConnectionIsNoOption ==
    /\ "--fd" \notin Options /\ "--socket" \notin Options
    /\ "--fd" \notin Flags /\ "--socket" \notin Flags
    /\ Flags \subseteq Options
BY DEF Options, Flags, Checked, Addresses, Names

\* The connection is what the helper reads first, and only then.
LEMMA HelperConnectionInv ==
    ASSUME Inv, HelperConnection
    PROVE  Inv'
<1>1. /\ pc = "helper_parse" /\ optind <= Len(argv)
      /\ argv[optind] \in {"--fd", "--socket"}
      /\ \/ /\ pc' = "helper_parse"
            /\ helper' = [helper EXCEPT ![argv[optind]] = "good"]
         \/ LongPath /\ pc' = "helper_exit" /\ helper' = helper
      /\ optind' = optind + 1
      /\ UNCHANGED <<args, runner, argv>>
      /\ pc \in HelperStates /\ pc' \in HelperStates
  BY DEF HelperConnection, HelperStates
<1>2. PICK base \in {2, 4, 5} : Vector(base) /\ Progress(base)
  BY <1>1 DEF Inv
<1>3. Typed /\ Route
  BY DEF Inv
<1>4. Lists(UsedOrder) /\ Layout(Wanted, UsedOrder)
  BY <1>3, WantedTypes
<1>5. ~Reached(base)
  <2> SUFFICES ASSUME Reached(base) PROVE FALSE
    OBVIOUS
  <2>1. PICK j \in 1..12 : argv[optind] = UsedOrder[j]
    BY <1>1, <1>2, <1>3, NextOption
  <2>2. UsedOrder \in Seq(Options) /\ Len(UsedOrder) = 12
    BY <1>4 DEF Lists
  <2>3. UsedOrder[j] \in Options
    BY <2>2, ElementOfSeq
  <2> QED BY <1>1, <2>1, <2>3, ConnectionIsNoOption
<1>6. optind = base /\ helper = Nothing
  BY <1>1, <1>2, <1>5 DEF Progress
<1>7. argv[optind] = Connection
  BY <1>2, <1>6 DEF Vector
<1>8. /\ pc' = "helper_parse" => helper' = [Nothing EXCEPT ![Connection] = "good"]
      /\ optind' = base + 1
  BY <1>1, <1>6, <1>7
<1>9. /\ From(1) = 0
      /\ \A k \in 1..13 : From(k) \in Nat
  BY <1>4 DEF From, Layout
<1>10. Connection \in {"--fd", "--socket"} /\ Other \in {"--fd", "--socket"} /\ Connection # Other
  BY <1>3, WantedTypes
<1>11. pc' = "helper_parse" =>
        /\ helper' \in [Options \cup {"--fd", "--socket"} -> Values]
        /\ helper'[Connection] = "good" /\ helper'[Other] = unset
        /\ \A o \in Options : helper'[o] = unset
  BY <1>8, <1>10, ConnectionIsNoOption DEF Nothing, Values
<1>12. pc' = "helper_parse" => Reached(base)'
  <2>1. base \in Nat /\ 1 \in 1..13
    OBVIOUS
  <2>2. optind' = base + 1 + From(1)
    BY <1>8, <1>9, <2>1
  <2>3. \E k \in 1..13 : optind' = base + 1 + From(k)
    BY <2>1, <2>2
  <2> QED BY <1>1, <1>3, <1>11, <2>3, HelperKeeps
<1>13. pc' = "helper_parse" => HasRead(base)'
  <2> SUFFICES ASSUME pc' = "helper_parse", NEW k \in 1..12
               PROVE  helper'[UsedOrder[k]] =
                        IF base + 1 + From(k) < optind'
                        THEN Wanted[UsedOrder[k]] ELSE unset
    BY <1>1, <1>3, HelperKeeps
  <2>1. UsedOrder \in Seq(Options) /\ Len(UsedOrder) = 12
    BY <1>4 DEF Lists
  <2>2. UsedOrder[k] \in Options
    BY <2>1, ElementOfSeq
  <2>3. base \in Nat /\ k \in 1..13
    OBVIOUS
  <2>4. ~(base + 1 + From(k) < optind')
    BY <1>8, <1>9, <2>3
  <2> QED BY <1>11, <2>2, <2>4
<1>14. Vector(base)' /\ Typed' /\ Route'
  BY <1>1, <1>2, <1>3, HelperKeeps
<1>15. Progress(base)'
  <2>1. CASE pc' = "helper_parse"
    BY <1>12, <1>13, <2>1 DEF Progress
  <2>2. CASE LongPath /\ pc' = "helper_exit" /\ helper' = helper
    <3>1. LongPath' = LongPath
      BY <1>1 DEF LongPath
    <3> QED BY <1>6, <1>8, <2>2, <3>1 DEF Progress
  <2> QED BY <1>1, <2>1, <2>2
<1> QED BY <1>1, <1>14, <1>15 DEF Inv, HelperStates

\* What the two actions that read an option have in common.
LEMMA OptionRead ==
    ASSUME Inv, pc = "helper_parse", optind <= Len(argv), argv[optind] \in Options,
           UNCHANGED <<args, runner, argv>>,
           optind' = optind + (IF argv[optind] \in Flags THEN 1 ELSE 2),
           LET value == IF argv[optind] \in Flags THEN "set" ELSE argv[optind + 1]
           IN  \/ /\ value # "bad" /\ pc' = pc
                  /\ helper' = [helper EXCEPT ![argv[optind]] = value]
               \/ value = "bad" /\ pc' = "helper_exit" /\ helper' = helper
    PROVE  Inv'
<1>1. pc' \in {"helper_parse", "helper_exit"} /\ pc \in HelperStates /\ pc' \in HelperStates
  BY DEF HelperStates
<1>2. PICK base \in {2, 4, 5} : Vector(base) /\ Progress(base)
  BY <1>1 DEF Inv
<1>3. Typed /\ Route
  BY DEF Inv
<1>4. /\ Lists(UsedOrder) /\ Layout(Wanted, UsedOrder)
      /\ Connection \in {"--fd", "--socket"} /\ Other \in {"--fd", "--socket"}
      /\ Wanted \in [Options -> Values]
      /\ \A o \in Flags : Wanted[o] \in {unset, "set"}
  BY <1>3, WantedTypes
<1>5. optind # base
  BY <1>2, <1>4, ConnectionIsNoOption DEF Vector
<1>6. Reached(base) /\ HasRead(base)
  BY <1>2, <1>5 DEF Progress
<1>7. PICK j \in 1..12 :
                /\ optind = base + 1 + From(j)
                /\ Wanted[UsedOrder[j]] # unset
                /\ argv[optind] = UsedOrder[j]
                /\ UsedOrder[j] \notin Flags => argv[optind + 1] = Wanted[UsedOrder[j]]
                /\ From(j + 1) = From(j) + Size(Wanted, UsedOrder[j])
  BY <1>2, <1>3, <1>6, NextOption
<1> DEFINE o == UsedOrder[j]
<1>8. o \in Options /\ Wanted[o] \in Values
  BY <1>4, <1>7
<1>9. Wanted[o] = IF argv[optind] \in Flags THEN "set" ELSE argv[optind + 1]
  BY <1>4, <1>7
<1>10. \/ /\ Wanted[o] # "bad" /\ pc' = "helper_parse"
          /\ helper' = [helper EXCEPT ![o] = Wanted[o]]
       \/ Wanted[o] = "bad" /\ pc' = "helper_exit" /\ helper' = helper
  BY <1>7, <1>9
<1>11. optind' = base + 1 + From(j + 1)
  <2>1. j \in 1..13 /\ base \in Nat
    OBVIOUS
  <2>2. From(j) \in Nat
    BY <1>4, <2>1 DEF From, Layout
  <2>3. Size(Wanted, o) = IF argv[optind] \in Flags THEN 1 ELSE 2
    BY <1>7 DEF Size
  <2>4. Size(Wanted, o) \in Nat
    BY DEF Size
  <2>5. optind' = optind + Size(Wanted, o)
    BY <2>3
  <2> HIDE DEF o
  <2> QED BY <1>7, <2>1, <2>2, <2>4, <2>5 DEF o
<1>12. helper \in [Options \cup {"--fd", "--socket"} -> Values]
       /\ helper[Connection] = "good" /\ helper[Other] = unset
  BY <1>6 DEF Reached
<1>13. /\ helper' \in [Options \cup {"--fd", "--socket"} -> Values]
       /\ helper'[Connection] = "good" /\ helper'[Other] = unset
  <2> HIDE DEF o
  <2>1. CASE helper' = helper
    BY <1>12, <2>1
  <2>2. CASE helper' = [helper EXCEPT ![o] = Wanted[o]]
    <3>1. o # Connection /\ o # Other
      BY <1>4, <1>8, ConnectionIsNoOption
    <3> QED BY <1>4, <1>8, <1>12, <2>2, <3>1
  <2> QED BY <1>10, <2>1, <2>2
<1>14. Reached(base)'
  <2>1. j + 1 \in 1..13
    OBVIOUS
  <2>2. \E k \in 1..13 : optind' = base + 1 + From(k)
    BY <1>11, <2>1
  <2> QED BY <1>1, <1>3, <1>13, <2>2, HelperKeeps
<1>15. pc' = "helper_parse" => HasRead(base)'
  <2> SUFFICES ASSUME helper' = [helper EXCEPT ![UsedOrder[j]] = Wanted[UsedOrder[j]]]
               PROVE  HasRead(base)'
    BY <1>10
  <2>1. AtOption(base, j) /\ Adds(helper', optind', base, j)
    BY <1>7, <1>11 DEF AtOption, Adds
  <2>2. ReadTo(helper', base, optind')
    BY <1>3, <1>6, <1>12, <2>1, OneMoreRead
  <2> QED BY <1>1, <1>3, <2>2, HelperKeeps DEF ReadTo
<1>16. pc' = "helper_exit" => (args.connection # "none" => args.stats_interval = "bad")
  <2> SUFFICES ASSUME Wanted[o] = "bad", args.connection # "none"
               PROVE  args.stats_interval = "bad"
    BY <1>10
  <2>1. args \in ScriptArguments
    BY <1>3 DEF Typed, NoScript
  <2>2. Wanted = [n \in Options |-> ScriptGives(n)]
    <3>1. CASE ByScript
      BY <3>1 DEF Wanted
    <3>2. CASE ~ByScript
      <4>1. args.connection = "runner"
        BY <2>1, <3>2 DEF ByScript, ScriptArguments
      <4> QED BY <1>1, <1>3, <3>2, <4>1 DEF Wanted, Route, HelperStates
    <3> QED BY <3>1, <3>2
  <2>3. ScriptGives(o) = "bad"
    BY <1>8, <2>2
  <2> QED BY <1>8, <2>1, <2>3, ScriptGivesTypes
<1>17. Vector(base)' /\ Typed' /\ Route'
  BY <1>1, <1>2, <1>3, HelperKeeps
<1>18. Progress(base)'
  BY <1>1, <1>14, <1>15, <1>16 DEF Progress
<1> QED BY <1>1, <1>17, <1>18 DEF Inv

\* At the end of the vector the helper has all the options.
LEMMA HelperEndInv ==
    ASSUME Inv, HelperEndOfOptions
    PROVE  Inv'
<1>1. /\ pc = "helper_parse" /\ optind > Len(argv) /\ pc' = "helper_check"
      /\ UNCHANGED <<args, runner, argv, optind, helper>>
      /\ pc \in HelperStates /\ pc' \in HelperStates
  BY DEF HelperEndOfOptions, HelperStates
<1>2. PICK base \in {2, 4, 5} : Vector(base) /\ Progress(base)
  BY <1>1 DEF Inv
<1>3. Typed /\ Route
  BY DEF Inv
<1>4. optind # base
  <2>1. Len(argv) = base + Len(Whole)
    BY <1>2 DEF Vector
  <2>2. Len(Whole) \in Nat
    <3>1. Whole \in Seq(Options \cup Values)
      BY <1>3, WantedTypes DEF Layout, Whole
    <3> QED BY <3>1, LenProperties
  <2>3. base \in Nat
    OBVIOUS
  <2> QED BY <1>1, <2>1, <2>2, <2>3
<1>5. Reached(base) /\ HasRead(base)
  BY <1>1, <1>2, <1>4 DEF Progress
<1>6. HasAll
  BY <1>1, <1>2, <1>3, <1>5, AllRead
<1>7. Vector(base)' /\ Typed' /\ Route' /\ Reached(base)' /\ HasAll'
  <2>1. /\ \E k \in 1..13 : optind' = base + 1 + From(k)
        /\ helper' \in [Options \cup {"--fd", "--socket"} -> Values]
        /\ helper'[Connection] = "good" /\ helper'[Other] = unset
    BY <1>1, <1>5 DEF Reached
  <2>2. \A o \in Options : helper'[o] = Wanted[o]
    BY <1>1, <1>6 DEF HasAll
  <2>3. Typed' /\ Route' /\ Vector(base)'
    BY <1>1, <1>2, <1>3, HelperKeeps
  <2>4. Reached(base)'
    BY <1>1, <1>3, <2>1, HelperKeeps
  <2>5. HasAll'
    BY <1>1, <1>3, <2>2, HelperKeeps
  <2> QED BY <2>3, <2>4, <2>5
<1>8. Progress(base)'
  BY <1>1, <1>7 DEF Progress
<1> QED BY <1>1, <1>7, <1>8 DEF Inv

\* The helper checks the options it was to be started with.
LEMMA HelperCheckInv ==
    ASSUME Inv, HelperCheck
    PROVE  Inv'
<1>1. /\ pc = "helper_check" /\ helper' = WithDefaults(helper)
      /\ pc' = IF /\ HelperAccepts(helper)
                  /\ Given(helper, "--fd") # Given(helper, "--socket")
               THEN "ready" ELSE "helper_exit"
      /\ UNCHANGED <<args, runner, argv, optind>>
      /\ pc \in HelperStates /\ pc' \in HelperStates
  BY DEF HelperCheck, HelperStates
<1>2. PICK base \in {2, 4, 5} : Vector(base) /\ Progress(base)
  BY <1>1 DEF Inv
<1>3. Typed /\ Route
  BY DEF Inv
<1>4. Reached(base) /\ HasAll
  BY <1>1, <1>2 DEF Progress
<1>5. /\ helper \in [Options \cup {"--fd", "--socket"} -> Values]
      /\ helper[Connection] = "good" /\ helper[Other] = unset
      /\ \A o \in Options : helper[o] = Wanted[o]
      /\ Wanted \in [Options -> Values]
      /\ Connection \in {"--fd", "--socket"} /\ Other \in {"--fd", "--socket"}
      /\ Connection # Other
  BY <1>3, <1>4, WantedTypes DEF Reached, HasAll
<1>6. HelperAccepts(helper) <=> HelperAccepts(Wanted)
  <2>1. /\ \A o \in Options : Given(helper, o) <=> Given(Wanted, o)
        /\ helper["--operation-mode"] = Wanted["--operation-mode"]
    BY <1>5 DEF Given, Options
  <2>2. NetworkConflicts(helper) <=> NetworkConflicts(Wanted)
    BY <2>1 DEF NetworkConflicts, Options, Addresses, Checked, Names
  <2>3. /\ AddressesFit(helper) <=> AddressesFit(Wanted)
        /\ BadBridge(helper) <=> BadBridge(Wanted)
    BY <2>1 DEF AddressesFit, BadBridge, Options, Addresses, Checked, Names, Flags
  <2>4. "--network" \in Options
    BY DEF Options, Names
  <2> QED BY <2>1, <2>2, <2>3, <2>4 DEF HelperAccepts
<1>7. Given(helper, "--fd") # Given(helper, "--socket")
  BY <1>5 DEF Given, unset
<1>8. /\ helper' \in [Options \cup {"--fd", "--socket"} -> Values]
      /\ helper'[Connection] = "good" /\ helper'[Other] = unset
      /\ \A o \in Options : helper'[o] = WithDefaults(Wanted)[o]
  <2>1. /\ {"--network", "--operation-mode"} \subseteq Options
        /\ "--operation-mode" # Connection /\ "--operation-mode" # Other
    BY <1>5 DEF Options, Names
  <2>2. /\ Given(helper, "--network") <=> Given(Wanted, "--network")
        /\ Given(helper, "--operation-mode") <=> Given(Wanted, "--operation-mode")
    BY <1>5, <2>1 DEF Given
  <2>3. CASE Given(Wanted, "--network") \/ Given(Wanted, "--operation-mode")
    BY <1>1, <1>5, <2>2, <2>3 DEF WithDefaults
  <2>4. CASE ~(Given(Wanted, "--network") \/ Given(Wanted, "--operation-mode"))
    <3>1. /\ helper' = [helper EXCEPT !["--operation-mode"] = "shared"]
          /\ WithDefaults(Wanted) = [Wanted EXCEPT !["--operation-mode"] = "shared"]
      BY <1>1, <2>2, <2>4 DEF WithDefaults
    <3>2. "shared" \in Values
      BY DEF Values, Modes
    <3> QED BY <1>5, <2>1, <3>1, <3>2
  <2> QED BY <2>3, <2>4
<1>9. Vector(base)' /\ Typed' /\ Route' /\ Reached(base)'
  <2>1. \E k \in 1..13 : optind' = base + 1 + From(k)
    BY <1>1, <1>4 DEF Reached
  <2>2. Typed' /\ Route' /\ Vector(base)'
    BY <1>1, <1>2, <1>3, HelperKeeps
  <2>3. Reached(base)'
    BY <1>1, <1>3, <1>8, <2>1, HelperKeeps
  <2> QED BY <2>2, <2>3
<1>10. pc' = "ready" =>
            /\ HelperAccepts(Wanted)'
            /\ \A o \in Options : helper'[o] = WithDefaults(Wanted)'[o]
  <2>1. /\ HelperAccepts(Wanted)' = HelperAccepts(Wanted)
        /\ WithDefaults(Wanted)' = WithDefaults(Wanted)
    BY <1>1, <1>3, HelperKeeps
  <2> QED BY <1>1, <1>6, <1>8, <2>1
<1>11. pc' = "helper_exit" => (args.connection # "none" => args.network_name # unset)
  <2> SUFFICES ASSUME args.connection # "none", args.network_name = unset
               PROVE  HelperAccepts(Wanted)
    BY <1>1, <1>6, <1>7
  <2>1. args \in ScriptArguments
    BY <1>3 DEF Typed, NoScript
  <2>2. ~NetworkOptionsRejected /\ ~OperationModeRejected
    BY <1>1, <1>3 DEF Route
  <2>3. Wanted = [n \in Options |-> ScriptGives(n)]
    <3>1. CASE ByScript
      BY <3>1 DEF Wanted
    <3>2. CASE ~ByScript
      <4>1. args.connection = "runner"
        BY <2>1, <3>2 DEF ByScript, ScriptArguments
      <4> QED BY <1>1, <1>3, <3>2, <4>1 DEF Wanted, Route, HelperStates
    <3> QED BY <3>1, <3>2
  <2> QED BY <2>1, <2>2, <2>3, ScriptAgrees
<1>12. Progress(base)'
  BY <1>1, <1>9, <1>10, <1>11 DEF Progress
<1> QED BY <1>1, <1>9, <1>12 DEF Inv

\* Every step keeps the invariant.
LEMMA NextInv == Inv /\ [Next]_vars => Inv'
<1> SUFFICES ASSUME Inv, [Next]_vars PROVE Inv'
  OBVIOUS
<1>1. Typed /\ Route
  BY DEF Inv
<1>2. ASSUME UNCHANGED <<args, runner, argv, optind, helper>>,
             pc \notin HelperStates, pc' \notin HelperStates, Route',
             pc' \in {"script", "parse", "check", "build", "failed", "script_exit",
                      "runner_exit"}
      PROVE  Inv'
  BY <1>1, <1>2, Kept DEF Inv, Unstarted
<1>3. CASE ScriptRejects
  <2>1. Route'
    BY <1>1, <1>3, Kept DEF Route, ScriptRejects
  <2> QED BY <1>2, <1>3, <2>1 DEF ScriptRejects, HelperStates
<1>4. CASE ScriptStartsRunner
  <2>1. args \in ScriptArguments /\ args' = args /\ pc' = "check" /\ args.connection = "runner"
    BY <1>1, <1>4 DEF Route, ScriptStartsRunner, ScriptAccepts
  <2>2. Typed'
    <3>1. \A o \in Options :
             /\ ScriptGives(o) \in Values
             /\ ScriptGives(o) = "bad" => o = "--stats-interval"
             /\ o \in Flags => ScriptGives(o) \in {unset, "set"}
             /\ o = "--operation-mode" => ScriptGives(o) \in {unset} \cup Modes
      BY <2>1, ScriptGivesTypes
    <3>2. runner' = [o \in Options |-> ScriptGives(o)]
      BY <1>4 DEF ScriptStartsRunner
    <3>3. Flags \subseteq Options /\ "--operation-mode" \in Options
      BY DEF Options
    <3> QED BY <2>1, <3>1, <3>2, <3>3 DEF Typed
  <2>3. Route'
    <3>1. \A o : ScriptGives(o)' = ScriptGives(o)
      BY <2>1 DEF ScriptGives
    <3>2. runner' = [o \in Options |-> ScriptGives(o)']
      BY <1>4, <3>1 DEF ScriptStartsRunner
    <3>3. ~NetworkOptionsRejected' /\ ~OperationModeRejected'
      BY <1>4, <2>1 DEF ScriptStartsRunner, ScriptAccepts, NetworkOptionsRejected,
                        OperationModeRejected, DhcpOptions
    <3>4. ~ByScript'
      BY <2>1 DEF ByScript
    <3> QED BY <2>1, <3>2, <3>3, <3>4 DEF Route
  <2>4. Unstarted'
    BY <1>4 DEF Inv, ScriptStartsRunner, ScriptAccepts, Unstarted, HelperStates
  <2> QED BY <2>1, <2>2, <2>3, <2>4 DEF Inv, HelperStates
<1>5. CASE ScriptStartsHelper
  <2>1. /\ UNCHANGED <<args, runner, helper>> /\ pc = "script" /\ pc' = "helper_parse"
        /\ ~NetworkOptionsRejected /\ ~OperationModeRejected
        /\ args \in ScriptArguments /\ args.connection # "runner"
    BY <1>1, <1>5 DEF Route, ScriptStartsHelper, ScriptAccepts
  <2>2. ByScript
    BY <2>1 DEF ByScript, ScriptArguments
  <2>3. Starts(Connection, Wanted, UsedOrder)
    BY <1>5, <2>2 DEF ScriptStartsHelper, Wanted, UsedOrder, Connection
  <2>4. Route'
    BY <2>1, <2>2, Kept DEF Route
  <2>5. pc \notin HelperStates
    BY <2>1 DEF HelperStates
  <2> QED BY <2>1, <2>3, <2>4, <2>5, HelperStarts
<1>6. CASE RunnerOption
  <2>1. /\ pc = "parse" /\ args.connection = "none"
        /\ UNCHANGED <<args, argv, optind, helper>>
    BY <1>1, <1>6 DEF Route, RunnerOption
  <2>2. PICK o \in Options : \E value \in Argument(o) :
            \/ ~RunnerRejects(o, value) /\ runner' = [runner EXCEPT ![o] = value] /\ pc' = pc
            \/ pc' = "runner_exit" /\ runner' = runner
    BY <1>6 DEF RunnerOption
  <2>6. PICK value \in Argument(o) :
            \/ ~RunnerRejects(o, value) /\ runner' = [runner EXCEPT ![o] = value] /\ pc' = pc
            \/ pc' = "runner_exit" /\ runner' = runner
    BY <2>2
  <2>3. pc' \in {"parse", "runner_exit"}
    BY <2>1, <2>6
  <2>4. Typed'
    <3>1. CASE runner' = runner
      BY <1>1, <2>1, <3>1, Kept
    <3>2. CASE ~RunnerRejects(o, value) /\ runner' = [runner EXCEPT ![o] = value]
      <4>1. /\ value \in Values /\ (value = "bad" => o = "--stats-interval")
            /\ o \in Flags => value = "set"
            /\ o = "--operation-mode" => value \in Modes
        <5>1. value = "bad" => o = "--stats-interval"
          BY <3>2 DEF RunnerRejects
        <5>2. CASE o \in Flags
          BY <5>1, <5>2 DEF Argument, Values, Flags, Names, Checked, Addresses
        <5>3. CASE o \in Names
          BY <5>1, <5>3 DEF Argument, Values, Flags, Names, Checked, Addresses
        <5>4. CASE o \in Checked
          BY <5>1, <5>4 DEF Argument, Values, Flags, Names, Checked, Addresses
        <5>5. CASE o = "--operation-mode"
          BY <5>1, <5>5 DEF Argument, Values, Flags, Names, Checked, Addresses, Modes
        <5> QED BY <5>2, <5>3, <5>4, <5>5 DEF Options
      <4> QED BY <1>1, <2>1, <3>2, <4>1 DEF Typed
    <3> QED BY <2>6, <3>1, <3>2
  <2>5. Route'
    BY <1>1, <2>1, <2>3 DEF Route, ByScript
  <2> QED BY <2>1, <2>3, <2>4, <2>5 DEF Inv, HelperStates, Unstarted
<1>7. CASE EndOfOptions
  <2>1. Route'
    BY <1>1, <1>7, Kept DEF Route, EndOfOptions, ByScript
  <2> QED BY <1>2, <1>7, <2>1 DEF EndOfOptions, HelperStates
<1>8. CASE RunnerCheck
  <2>1. /\ pc = "check" /\ UNCHANGED <<args, runner, argv, optind, helper>>
        /\ pc' \in {"build", "runner_exit"}
        /\ RunnerAccepts(runner) /\ args.connection # "none" => pc' = "build"
    BY <1>8 DEF RunnerCheck, HasCommand
  <2>2. args.connection = "runner" /\ ~RunnerAccepts(runner) => args.network_name # unset
    <3> SUFFICES ASSUME args.connection = "runner", args.network_name = unset
                 PROVE  RunnerAccepts(runner)
      OBVIOUS
    <3>1. args \in ScriptArguments
      BY <1>1 DEF Typed, NoScript
    <3>2. /\ runner = [o \in Options |-> ScriptGives(o)]
          /\ ~NetworkOptionsRejected /\ ~OperationModeRejected
      BY <1>1, <2>1 DEF Route
    <3> QED BY <3>1, <3>2, ScriptAgrees
  <2>3. Route'
    <3>1. \A o : ScriptGives(o)' = ScriptGives(o)
      BY <2>1 DEF ScriptGives
    <3> QED BY <1>1, <2>1, <2>2, <3>1, Kept DEF Route
  <2> QED BY <1>2, <2>1, <2>3 DEF HelperStates
<1>9. CASE Build
  <2>1. /\ pc = "build" /\ UNCHANGED <<args, runner, helper>> /\ pc' = "helper_parse"
        /\ ~ByScript
    BY <1>1, <1>9 DEF Build, Route
  <2>2. Starts(Connection, Wanted, UsedOrder)
    BY <1>9, <2>1 DEF Build, Wanted, UsedOrder, Connection
  <2>3. Route'
    <3>1. \A o : ScriptGives(o)' = ScriptGives(o)
      BY <2>1 DEF ScriptGives
    <3> QED BY <1>1, <2>1, <3>1, Kept DEF Route
  <2>4. pc \notin HelperStates
    BY <2>1 DEF HelperStates
  <2> QED BY <2>1, <2>2, <2>3, <2>4, HelperStarts
<1>10. CASE VersionFails
  <2>1. Route'
    <3>1. \A o : ScriptGives(o)' = ScriptGives(o)
      BY <1>10 DEF ScriptGives, VersionFails
    <3> QED BY <1>1, <1>10, <3>1, Kept DEF Route, VersionFails
  <2> QED BY <1>2, <1>10, <2>1 DEF VersionFails, HelperStates
<1>11. CASE HelperConnection
  BY <1>11, HelperConnectionInv
<1>12. CASE HelperFlag
  <2>1. /\ pc = "helper_parse" /\ optind <= Len(argv) /\ argv[optind] \in Flags
        /\ helper' = [helper EXCEPT ![argv[optind]] = "set"]
        /\ optind' = optind + 1 /\ pc' = pc
        /\ UNCHANGED <<args, runner, argv>>
    BY <1>12 DEF HelperFlag
  <2>2. argv[optind] \in Options
    BY <2>1, ConnectionIsNoOption
  <2> QED BY <2>1, <2>2, OptionRead
<1>13. CASE HelperOption
  <2>1. /\ pc = "helper_parse" /\ optind <= Len(argv) /\ argv[optind] \in Options
        /\ argv[optind] \notin Flags
        /\ \/ /\ argv[optind + 1] # "bad" /\ pc' = pc
              /\ helper' = [helper EXCEPT ![argv[optind]] = argv[optind + 1]]
           \/ argv[optind + 1] = "bad" /\ pc' = "helper_exit" /\ helper' = helper
        /\ optind' = optind + 2
        /\ UNCHANGED <<args, runner, argv>>
    BY <1>13 DEF HelperOption
  <2> QED BY <2>1, OptionRead
<1>14. CASE HelperEndOfOptions
  BY <1>14, HelperEndInv
<1>15. CASE HelperCheck
  BY <1>15, HelperCheckInv
<1>16. CASE UNCHANGED vars
  <2>1. UNCHANGED <<pc, args, runner, argv, optind, helper>>
    BY <1>16 DEF vars
  <2>2. ASSUME pc \notin HelperStates PROVE Inv'
    <3>1. Unstarted' /\ pc' \notin HelperStates
      BY <2>1, <2>2 DEF Inv, Unstarted
    <3>2. Typed' /\ Route'
      <4>1. \A o : ScriptGives(o)' = ScriptGives(o)
        BY <2>1 DEF ScriptGives
      <4> QED BY <1>1, <2>1, <4>1, Kept DEF Route
    <3> QED BY <2>1, <3>1, <3>2 DEF Inv
  <2>3. ASSUME pc \in HelperStates PROVE Inv'
    <3>1. PICK base \in {2, 4, 5} : Vector(base) /\ Progress(base)
      BY <2>3 DEF Inv
    <3>2. Vector(base)' /\ Typed' /\ Route'
      BY <1>1, <2>1, <2>3, <3>1, HelperKeeps
    <3>3. /\ Reached(base)' <=> Reached(base)
          /\ HasRead(base)' <=> HasRead(base)
          /\ HasAll' <=> HasAll
          /\ HelperAccepts(Wanted)' = HelperAccepts(Wanted)
          /\ WithDefaults(Wanted)' = WithDefaults(Wanted)
          /\ LongPath' = LongPath
      BY <1>1, <2>1, <2>3, HelperKeeps DEF Reached, HasRead, HasAll, LongPath
    <3>4. Progress(base)'
      BY <2>1, <3>1, <3>3 DEF Progress
    <3> QED BY <2>1, <2>3, <3>2, <3>4 DEF Inv
  <2> QED BY <2>2, <2>3
<1> QED BY <1>3, <1>4, <1>5, <1>6, <1>7, <1>8, <1>9, <1>10, <1>11, <1>12, <1>13, <1>14,
           <1>15, <1>16 DEF Next

------------------------------------------------------------------------------
\* The theorems.

\* The invariant holds in every state the three programs reach.
THEOREM InvHolds == Spec => []Inv
BY InitInv, NextInv, PTL DEF Spec

\* A state in which Inv holds is one in which TypeOK does.
LEMMA InvTypes == Inv => TypeOK
<1> SUFFICES ASSUME Inv PROVE TypeOK
  OBVIOUS
<1>1. runner \in [Options -> Values]
  BY DEF Inv, Typed
<1>2. CASE pc \notin HelperStates
  <2>1. helper = Nothing /\ argv = <<>> /\ optind = 1
    BY <1>2 DEF Inv, Unstarted
  <2>2. helper \in [Options \cup {"--fd", "--socket"} -> Values]
    BY <2>1 DEF Nothing, Values
  <2>3. Len(argv) = 0
    BY <2>1
  <2> QED BY <1>1, <1>2, <2>1, <2>2, <2>3 DEF TypeOK, Inv
<1>3. CASE pc \in HelperStates
  <2>1. PICK base \in {2, 4, 5} : Vector(base) /\ Progress(base)
    BY <1>3 DEF Inv
  <2>2. /\ Len(argv) = base + Len(Whole) /\ Len(Whole) = From(13)
        /\ From(13) <= 24
        /\ \A k \in 1..13 : From(k) \in Nat
        /\ \A j, k \in 1..13 : j <= k => From(j) <= From(k)
    BY <2>1, WantedTypes DEF Vector, Layout, Whole, From, Inv
  <2>3. base \in Nat /\ base <= 5 /\ base >= 2 /\ 13 \in 1..13
    OBVIOUS
  <2> DEFINE n == From(13)
  <2>4. n \in Nat /\ n <= 24 /\ Len(argv) = base + n
    BY <2>2, <2>3
  <2> HIDE DEF n
  <2>5. Len(argv) <= 31
    BY <2>3, <2>4
  <2>6. optind \in 1..(Len(argv) + 1)
    <3>1. CASE optind \in {base, base + 1}
      BY <2>3, <2>4, <3>1
    <3>2. CASE Reached(base)
      <4>1. PICK k \in 1..13 : optind = base + 1 + From(k)
        BY <3>2 DEF Reached
      <4> DEFINE m == From(k)
      <4>2. m \in Nat /\ m <= n
        <5>1. k <= 13
          OBVIOUS
        <5> QED BY <2>2, <2>3, <5>1 DEF n
      <4>3. optind = base + 1 + m
        BY <4>1
      <4> HIDE DEF m
      <4> QED BY <2>3, <2>4, <4>2, <4>3
    <3> QED BY <2>1, <3>1, <3>2 DEF Progress
  <2>7. helper \in [Options \cup {"--fd", "--socket"} -> Values]
    <3>1. CASE helper = Nothing
      BY <3>1 DEF Nothing, Values
    <3>2. CASE Reached(base)
      BY <3>2 DEF Reached
    <3> QED BY <2>1, <3>1, <3>2 DEF Progress
  <2>8. pc \in {"helper_parse", "helper_check", "helper_exit", "ready"}
    BY <1>3 DEF HelperStates
  <2> QED BY <1>1, <2>5, <2>6, <2>7, <2>8 DEF TypeOK
<1> QED BY <1>2, <1>3

\* Every option has a value of its kind, the vector fits the 32 elements of
\* helper_argv with the NULL after the last, and getopt_long never looks beyond it.
THEOREM TypeCorrect == Spec => []TypeOK
  BY InvHolds, InvTypes, PTL

\* The two programs agree on which options have an argument: where the helper looks
\* for an option it finds one that it knows, never the argument of the one before,
\* and an argument that it expects is not beyond the vector.
ParserInStep ==
    (pc = "helper_parse" /\ optind <= Len(argv)) =>
        \/ argv[optind] \in Flags \cup {"--fd", "--socket"}
        \/ argv[optind] \in Options \ Flags /\ optind < Len(argv)

\* A state in which Inv holds is one in which ParserInStep does.
LEMMA InvInStep == Inv => ParserInStep
<1> SUFFICES ASSUME Inv PROVE ParserInStep
  OBVIOUS
<1> SUFFICES ASSUME pc = "helper_parse", optind <= Len(argv)
             PROVE  \/ argv[optind] \in Flags \cup {"--fd", "--socket"}
                    \/ argv[optind] \in Options \ Flags /\ optind < Len(argv)
  BY DEF ParserInStep
<1>1. PICK base \in {2, 4, 5} : Vector(base) /\ Progress(base)
  BY DEF Inv, HelperStates
<1>2. Typed
  BY DEF Inv
<1>3. CASE optind = base
  BY <1>1, <1>2, <1>3, WantedTypes DEF Vector
<1>4. CASE Reached(base)
  <2>1. PICK j \in 1..12 :
                /\ optind = base + 1 + From(j)
                /\ Wanted[UsedOrder[j]] # unset
                /\ argv[optind] = UsedOrder[j]
                /\ From(j + 1) = From(j) + Size(Wanted, UsedOrder[j])
    BY <1>1, <1>2, <1>4, NextOption
  <2>2. Lists(UsedOrder) /\ Layout(Wanted, UsedOrder)
    BY <1>2, WantedTypes
  <2>3. UsedOrder[j] \in Options
    <3>1. UsedOrder \in Seq(Options) /\ Len(UsedOrder) = 12
      BY <2>2 DEF Lists
    <3> QED BY <3>1, ElementOfSeq
  <2>4. /\ \A k \in 1..13 : From(k) \in Nat
        /\ \A i, k \in 1..13 : i <= k => From(i) <= From(k)
        /\ Len(Whole) = From(13)
    BY <2>2 DEF Layout, From, Whole
  <2> DEFINE n == From(13)
             m == From(j)
             next == From(j + 1)
  <2>5. m \in Nat /\ n \in Nat /\ next \in Nat /\ next <= n
    <3>1. j \in 1..13 /\ j + 1 \in 1..13 /\ 13 \in 1..13 /\ j + 1 <= 13
      OBVIOUS
    <3> QED BY <2>4, <3>1
  <2>6. Len(argv) = base + n
    BY <1>1, <2>4 DEF Vector
  <2>7. optind = base + 1 + m /\ next = m + Size(Wanted, UsedOrder[j])
    BY <2>1
  <2>8. base \in Nat
    OBVIOUS
  <2>9. UsedOrder[j] \notin Flags => Size(Wanted, UsedOrder[j]) = 2
    BY <2>1 DEF Size
  <2> HIDE DEF n, m, next
  <2>10. UsedOrder[j] \notin Flags => optind < Len(argv)
    BY <2>5, <2>6, <2>7, <2>8, <2>9
  <2> QED BY <2>1, <2>3, <2>10
<1> QED BY <1>1, <1>3, <1>4 DEF Progress

\* The helper reads an option where vmnet-run or `run` put one, and its argument in
\* the vector: the two long_options and what is appended agree.
THEOREM StaysInStep == Spec => []ParserInStep
  BY InvHolds, InvInStep, PTL

\* A state in which Inv holds is one in which Faithful does.
LEMMA InvFaithful == Inv => Faithful
<1> SUFFICES ASSUME Inv PROVE Faithful
  OBVIOUS
<1> SUFFICES ASSUME pc = "ready", NEW o \in Options
             PROVE  helper[o] = WithDefaults(
                        IF args.connection = "none" THEN runner
                        ELSE [n \in Options |-> ScriptGives(n)])[o]
  BY DEF Faithful
<1>1. PICK base \in {2, 4, 5} : Progress(base)
  BY DEF Inv, HelperStates
<1>2. helper[o] = WithDefaults(Wanted)[o]
  BY <1>1 DEF Progress
<1>3. Wanted = IF args.connection = "none" THEN runner
               ELSE [n \in Options |-> ScriptGives(n)]
  <2>1. CASE ByScript
    BY <2>1 DEF Wanted, ByScript
  <2>2. CASE args.connection = "none"
    BY <2>2 DEF Wanted, ByScript
  <2>3. CASE ~ByScript /\ args.connection # "none"
    <3>1. args.connection = "runner"
      BY <2>3 DEF Inv, Typed, NoScript, ScriptArguments, ByScript
    <3> QED BY <2>3, <3>1 DEF Wanted, Inv, Route
  <2> QED BY <2>1, <2>2, <2>3
<1> QED BY <1>2, <1>3

\* A helper that gets ready has every option as vmnet-run or `run` was given it:
\* build_helper_argv and Helper._build_command write what parse_options reads.
THEOREM OptionsReachHelper == Spec => []Faithful
  BY InvHolds, InvFaithful, PTL

\* A state in which Inv holds is one in which DescriptorDefined does.
LEMMA InvDescriptor == Inv => DescriptorDefined
<1> SUFFICES ASSUME Inv PROVE DescriptorDefined
  OBVIOUS
<1> SUFFICES ASSUME pc = "ready", ~Given(helper, "--network")
             PROVE  CASE helper["--operation-mode"] \in {"shared", "host"} ->
                            Given(helper, "--start-address") =>
                                Given(helper, "--end-address") /\ Given(helper, "--subnet-mask")
                      [] helper["--operation-mode"] = "bridged" ->
                            Given(helper, "--shared-interface")
                      [] OTHER -> FALSE
  BY DEF DescriptorDefined
<1>1. PICK base \in {2, 4, 5} : Progress(base)
  BY DEF Inv, HelperStates
<1>2. HelperAccepts(Wanted) /\ \A o \in Options : helper[o] = WithDefaults(Wanted)[o]
  BY <1>1 DEF Progress
<1>3. /\ Wanted \in [Options -> Values]
      /\ \A o \in Options : Wanted[o] = "bad" => o = "--stats-interval"
  BY WantedTypes DEF Inv
<1>4. Wanted["--operation-mode"] \in {unset} \cup Modes
  BY WantedTypes DEF Inv
<1>5. /\ {"--network", "--operation-mode", "--shared-interface"} \cup Addresses \subseteq Options
      /\ Addresses = {"--start-address", "--end-address", "--subnet-mask"}
  BY DEF Options, Names, Checked, Addresses
<1>6. \A o \in Options \ {"--operation-mode"} : helper[o] = Wanted[o]
  BY <1>2, <1>3 DEF WithDefaults
<1>7. ~Given(Wanted, "--network")
  BY <1>5, <1>6 DEF Given
<1>8. helper["--operation-mode"] =
          IF Given(Wanted, "--operation-mode") THEN Wanted["--operation-mode"] ELSE "shared"
  BY <1>2, <1>3, <1>5, <1>7 DEF WithDefaults
<1>9. CASE Wanted["--operation-mode"] = "bridged"
  <2>1. ~BadBridge(Wanted)
    BY <1>2, <1>7, <1>9 DEF HelperAccepts
  <2>2. Given(helper, "--shared-interface")
    BY <1>5, <1>6, <2>1 DEF BadBridge, Given
  <2>3. helper["--operation-mode"] = "bridged"
    BY <1>8, <1>9 DEF Given, unset
  <2> QED BY <2>2, <2>3
<1>10. CASE Wanted["--operation-mode"] # "bridged"
  <2>1. AddressesFit(Wanted)
    BY <1>2, <1>7, <1>10 DEF HelperAccepts
  <2>2. AddressesFit(helper)
    BY <1>5, <1>6, <2>1 DEF AddressesFit, Given
  <2>3. helper["--operation-mode"] \in {"shared", "host"}
    BY <1>4, <1>8, <1>10 DEF Given, unset, Modes
  <2>4. Given(helper, "--start-address") =>
            Given(helper, "--end-address") /\ Given(helper, "--subnet-mask")
    BY <1>5, <2>2 DEF AddressesFit
  <2> QED BY <2>3, <2>4
<1> QED BY <1>9, <1>10

\* start_interface_with_options finds the addresses and the name that it takes for
\* granted in a helper that got ready.
THEOREM DescriptorComplete == Spec => []DescriptorDefined
  BY InvHolds, InvDescriptor, PTL

\* A state in which Inv holds is one in which ScriptSuffices does.
LEMMA InvScript == Inv => ScriptSuffices
<1> SUFFICES ASSUME Inv PROVE ScriptSuffices
  OBVIOUS
<1> SUFFICES ASSUME pc \in {"runner_exit", "helper_exit"}, args.connection # "none"
             PROVE  args.network_name # unset \/ args.stats_interval = "bad" \/ LongPath
  BY DEF ScriptSuffices
<1>1. CASE pc = "runner_exit"
  <2>1. args.connection = "runner"
    BY <1>1 DEF Inv, Typed, Route, NoScript, ScriptArguments, ByScript
  <2> QED BY <1>1, <2>1 DEF Inv, Route
<1>2. CASE pc = "helper_exit"
  BY <1>2 DEF Inv, HelperStates, Progress
<1> QED BY <1>1, <1>2

\* What testing/validate.py accepts neither vmnet-run nor the helper rejects, without
\* --network, with an interval that is right, and with a VM name short enough for the
\* path of its socket.
THEOREM ScriptIsEnough == Spec => []ScriptSuffices
  BY InvHolds, InvScript, PTL
=============================================================================
