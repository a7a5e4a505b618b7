-------------------------- MODULE InductionLemmas --------------------------
(***************************************************************************)
(* Induction and recursion over the naturals, stated with sets: the        *)
(* property to prove by induction is a set of naturals and what a          *)
(* recursive function computes with is a function, so that no lemma takes  *)
(* an operator as a parameter.  With them, what FlattenSeq returns.        *)
(***************************************************************************)
EXTENDS Naturals, Sequences, SequencesExt, SequenceTheorems,
        WellFoundedInduction, TLAPS

(* The order of the naturals, as a relation.                               *)
Less == {ss \in Nat \X Nat : ss[1] < ss[2]}
(* There is no infinite descent in it.                                     *)
LEMMA LessWF == IsWellFoundedOn(Less, Nat)
BY NatLessThanWellFounded, Zenon DEF OpToRel, Less

(* A set of naturals that is not empty has a least element.                *)
LEMMA Least ==
  ASSUME NEW T \in SUBSET Nat, NEW n \in T
  PROVE  \E x \in T : \A y \in T : x <= y
<1>1. PICK x \in T : \A y \in T : ~(<<y, x>> \in Less)
  BY LessWF, WFMin
<1>2. \A y \in T : ~(y < x)
  BY <1>1 DEF Less
<1> QED
  BY <1>2

(* Induction from m to n.                                                  *)
LEMMA Induction ==
  ASSUME NEW m \in Nat, NEW n \in Nat, NEW T, m \in T,
         \A i \in m+1 .. n : i - 1 \in T => i \in T
  PROVE  \A i \in m .. n : i \in T
<1> DEFINE B == {i \in m .. n : i \notin T}
<1>1. ASSUME NEW i \in m .. n, i \notin T PROVE FALSE
  <2>1. i \in B /\ B \in SUBSET Nat
    BY <1>1
  <2>2. PICK x \in B : \A y \in B : x <= y
    BY <2>1, Least
  <2>3. x \in m+1 .. n /\ x - 1 \in m .. n /\ x - 1 \notin B
    BY <2>2
  <2> QED
    BY <2>2, <2>3
<1> QED
  BY <1>1

(* g[n] is what is computed from c by n steps of D.                        *)
Computes(g, c, D, n) == g[0] = c /\ \A i \in 1 .. n : g[i] = D[<<g[i-1], i>>]

(* What D computes exists.                                                 *)
LEMMA Recursion ==
  ASSUME NEW S, NEW c \in S, NEW n \in Nat, NEW D \in [S \X (1 .. n) -> S]
  PROVE  \E g \in [0 .. n -> S] : Computes(g, c, D, n)
<1> DEFINE T == {m \in 0 .. n : \E g \in [0 .. m -> S] : Computes(g, c, D, m)}
<1>1. 0 \in T
  <2>1. /\ [i \in 0 .. 0 |-> c] \in [0 .. 0 -> S]
        /\ Computes([i \in 0 .. 0 |-> c], c, D, 0)
    BY DEF Computes
  <2>2. 0 \in 0 .. n
    OBVIOUS
  <2> QED
    BY <2>1, <2>2
<1>2. ASSUME NEW i \in 0+1 .. n, i - 1 \in T PROVE i \in T
  <2>1. PICK g \in [0 .. i-1 -> S] : Computes(g, c, D, i-1)
    BY <1>2
  <2> DEFINE h == [j \in 0 .. i |-> IF j = i THEN D[<<g[i-1], i>>] ELSE g[j]]
  <2>2. D[<<g[i-1], i>>] \in S
    OBVIOUS
  <2>3. h \in [0 .. i -> S]
    BY <2>2
  <2>4. h[0] = c
    BY <2>1 DEF Computes
  <2>5. ASSUME NEW k \in 1 .. i PROVE h[k] = D[<<h[k-1], k>>]
    <3>1. CASE k = i
      <4>1. h[i] = D[<<g[i-1], i>>] /\ h[i-1] = g[i-1]
        OBVIOUS
      <4> QED BY <3>1, <4>1
    <3>2. CASE k # i
      <4>1. k \in 1 .. i-1 /\ k \in 0 .. i /\ k-1 \in 0 .. i /\ k-1 # i
        BY <3>2
      <4>2. h[k] = g[k] /\ h[k-1] = g[k-1]
        BY <4>1, <3>2
      <4> QED BY <4>1, <4>2, <2>1 DEF Computes
    <3> QED BY <3>1, <3>2
  <2>6. Computes(h, c, D, i)
    BY <2>4, <2>5 DEF Computes
  <2>7. i \in 0 .. n
    OBVIOUS
  <2> HIDE DEF h
  <2> QED
    BY <2>3, <2>6, <2>7
<1> HIDE DEF T
<1>3. \A i \in 0 .. n : i \in T
  BY <1>1, <1>2, Induction
<1>4. n \in T
  BY <1>3
<1> QED
  BY <1>4 DEF T

(* FlattenSeq appends the sequences one after the other.                   *)
LEMMA FlattenDef ==
  ASSUME NEW X, NEW seqs \in Seq(Seq(X)), seqs # <<>>
  PROVE  \E f \in [1 .. Len(seqs) -> Seq(X)] :
           /\ f[1] = seqs[1]
           /\ \A i \in 2 .. Len(seqs) : f[i] = f[i-1] \o seqs[i]
           /\ FlattenSeq(seqs) = f[Len(seqs)]
<1> DEFINE n == Len(seqs)
           step(f, i) == IF i = 1 THEN seqs[i] ELSE f[i-1] \o seqs[i]
           D == [v \in Seq(X) \X (1 .. n) |-> IF v[2] = 1 THEN seqs[v[2]] ELSE v[1] \o seqs[v[2]]]
           F == CHOOSE f : f = [i \in 1 .. n |-> step(f, i)]
<1>1. n \in Nat /\ n >= 1 /\ <<>> \in Seq(X)
  OBVIOUS
<1>2. D \in [Seq(X) \X (1 .. n) -> Seq(X)]
  OBVIOUS
<1>3. PICK g \in [0 .. n -> Seq(X)] : Computes(g, <<>>, D, n)
  <2> HIDE DEF D, n
  <2> QED BY <1>1, <1>2, Recursion
<1> DEFINE h == [i \in 1 .. n |-> g[i]]
<1>4. h = [i \in 1 .. n |-> step(h, i)]
  <2> SUFFICES ASSUME NEW i \in 1 .. n PROVE h[i] = step(h, i)
    OBVIOUS
  <2>1. g[i] = D[<<g[i-1], i>>] /\ g[i-1] \in Seq(X)
    <3> HIDE DEF D
    <3>1. i-1 \in 0 .. n
      BY <1>1
    <3> QED BY <1>3, <3>1 DEF Computes
  <2>2. D[<<g[i-1], i>>] = IF i = 1 THEN seqs[i] ELSE g[i-1] \o seqs[i]
    BY <2>1
  <2>3. i # 1 => h[i-1] = g[i-1]
    OBVIOUS
  <2> QED
    BY <2>1, <2>2, <2>3
<1>5. F = [i \in 1 .. n |-> step(F, i)]
  <2> HIDE DEF h, step
  <2> QED BY <1>4
<1>6. FlattenSeq(seqs) = F[n]
  BY <1>1 DEF FlattenSeq
<1>7. F[1] = seqs[1] /\ \A i \in 2 .. n : F[i] = F[i-1] \o seqs[i]
  <2> HIDE DEF F
  <2>1. ASSUME NEW i \in 1 .. n PROVE F[i] = step(F, i)
    <3> HIDE DEF step, n
    <3> QED BY <1>5
  <2>2. F[1] = seqs[1]
    BY <1>1, <2>1
  <2>3. ASSUME NEW i \in 2 .. n PROVE F[i] = F[i-1] \o seqs[i]
    <3>1. i \in 1 .. n /\ i # 1
      BY <1>1
    <3> QED BY <2>1, <3>1
  <2> QED BY <2>2, <2>3
<1> DEFINE T == {i \in 1 .. n : F[i] \in Seq(X)}
<1>8. \A i \in 1 .. n : i \in T
  <2> HIDE DEF F
  <2>1. 1 \in T
    <3>1. seqs[1] \in Seq(X)
      BY <1>1
    <3> QED BY <1>1, <1>7, <3>1
  <2>2. ASSUME NEW i \in 1+1 .. n, i-1 \in T PROVE i \in T
    <3>1. i \in 2 .. n /\ i \in 1 .. n /\ i \in DOMAIN seqs
      BY <1>1
    <3>2. F[i] = F[i-1] \o seqs[i]
      BY <1>7, <3>1
    <3>3. F[i-1] \in Seq(X)
      BY <2>2
    <3>4. seqs[i] \in Seq(X)
      BY <3>1
    <3>5. F[i] \in Seq(X)
      BY <3>2, <3>3, <3>4, ConcatProperties
    <3> QED BY <3>5, <3>1
  <2> HIDE DEF T, n
  <2> QED BY <1>1, <2>1, <2>2, Induction
<1>9. F \in [1 .. n -> Seq(X)]
  <2> HIDE DEF F, step
  <2> QED BY <1>5, <1>8
<1> HIDE DEF F
<1> QED
  BY <1>6, <1>7, <1>9

(* Its elements are those of the sequences.                                *)
LEMMA FlattenRange ==
  ASSUME NEW X, NEW seqs \in Seq(Seq(X))
  PROVE  /\ FlattenSeq(seqs) \in Seq(X)
         /\ \A x : x \in Range(FlattenSeq(seqs)) <=>
                     \E i \in DOMAIN seqs : x \in Range(seqs[i])
<1>1. CASE seqs = <<>>
  <2>1. FlattenSeq(seqs) = <<>>
    BY <1>1 DEF FlattenSeq
  <2>2. <<>> \in Seq(X) /\ DOMAIN seqs = {} /\ Range(<<>>) = {}
    BY <1>1 DEF Range
  <2> QED
    BY <2>1, <2>2
<1>2. CASE seqs # <<>>
  <2>1. PICK f \in [1 .. Len(seqs) -> Seq(X)] :
          /\ f[1] = seqs[1]
          /\ \A i \in 2 .. Len(seqs) : f[i] = f[i-1] \o seqs[i]
          /\ FlattenSeq(seqs) = f[Len(seqs)]
    BY <1>2, FlattenDef
  <2> DEFINE n == Len(seqs)
             From(i) == UNION {Range(seqs[j]) : j \in 1 .. i}
             T == {i \in 1 .. n : Range(f[i]) = From(i)}
  <2>2. n \in Nat /\ n >= 1 /\ 1 \in 1 .. n
    BY <1>2
  <2>3. 1 \in T
    <3>1. From(1) = Range(seqs[1])
      OBVIOUS
    <3> HIDE DEF From
    <3> QED BY <2>1, <2>2, <3>1
  <2>4. ASSUME NEW i \in 1+1 .. n, i-1 \in T PROVE i \in T
    <3>1. i \in 2 .. n /\ i \in 1 .. n /\ i-1 \in 1 .. n /\ i \in DOMAIN seqs
      BY <2>2
    <3>2. f[i] = f[i-1] \o seqs[i]
      BY <2>1, <3>1
    <3>3. f[i-1] \in Seq(X) /\ seqs[i] \in Seq(X)
      BY <3>1
    <3>4. Range(f[i]) = Range(f[i-1]) \cup Range(seqs[i])
      BY <3>2, <3>3, RangeConcatenation
    <3>5. From(i) = From(i-1) \cup Range(seqs[i])
      <4>1. \A j : j \in 1 .. i <=> j \in 1 .. i-1 \/ j = i
        BY <3>1
      <4> QED BY <4>1
    <3>6. Range(f[i-1]) = From(i-1)
      BY <2>4
    <3> HIDE DEF From
    <3> QED BY <3>1, <3>4, <3>5, <3>6
  <2>5. n \in T
    <3> HIDE DEF T, n
    <3>1. \A i \in 1 .. n : i \in T
      BY <2>2, <2>3, <2>4, Induction
    <3> QED BY <2>2, <3>1
  <2>6. Range(FlattenSeq(seqs)) = From(n)
    <3> HIDE DEF From
    <3> QED BY <2>1, <2>5
  <2>7. f[n] \in Seq(X)
    <3>1. \A i \in 1 .. Len(seqs) : f[i] \in Seq(X)
      OBVIOUS
    <3>2. Len(seqs) \in 1 .. Len(seqs)
      BY <2>2
    <3> QED BY <3>1, <3>2
  <2>8. ASSUME NEW x
        PROVE  x \in From(n) <=> \E i \in DOMAIN seqs : x \in Range(seqs[i])
    <3>1. \A i : i \in 1 .. n <=> i \in DOMAIN seqs
      BY LenProperties
    <3> HIDE DEF n
    <3>2. x \in From(n) <=> \E i \in 1 .. n : x \in Range(seqs[i])
      OBVIOUS
    <3> HIDE DEF From
    <3> QED BY <3>1, <3>2
  <2> HIDE DEF From, n
  <2> QED BY <2>1, <2>6, <2>7, <2>8 DEF n
<1> QED
  BY <1>1, <1>2

(* It stays in a set of sequences that concatenation does not leave.       *)
LEMMA FlattenClosed ==
  ASSUME NEW X, NEW S \in SUBSET Seq(X), <<>> \in S, \A s, t \in S : s \o t \in S,
         NEW seqs \in Seq(S)
  PROVE  FlattenSeq(seqs) \in S
<1>1. CASE seqs = <<>>
  BY <1>1 DEF FlattenSeq
<1>2. CASE seqs # <<>>
  <2>1. seqs \in Seq(Seq(X))
    OBVIOUS
  <2>2. PICK f \in [1 .. Len(seqs) -> Seq(X)] :
          /\ f[1] = seqs[1]
          /\ \A i \in 2 .. Len(seqs) : f[i] = f[i-1] \o seqs[i]
          /\ FlattenSeq(seqs) = f[Len(seqs)]
    BY <1>2, <2>1, FlattenDef
  <2> DEFINE n == Len(seqs)
             T == {i \in 1 .. n : f[i] \in S}
  <2>3. n \in Nat /\ n >= 1 /\ 1 \in 1 .. n /\ \A i \in 1 .. n : seqs[i] \in S
    BY <1>2, LenProperties
  <2>4. 1 \in T
    BY <2>2, <2>3
  <2>5. ASSUME NEW i \in 1+1 .. n, i-1 \in T PROVE i \in T
    <3>1. i \in 2 .. n /\ i \in 1 .. n
      BY <2>3
    <3>2. f[i] = f[i-1] \o seqs[i] /\ f[i-1] \in S /\ seqs[i] \in S
      BY <2>2, <2>3, <2>5, <3>1
    <3> QED BY <3>1, <3>2
  <2>6. n \in T
    <3> HIDE DEF T, n
    <3>1. \A i \in 1 .. n : i \in T
      BY <2>3, <2>4, <2>5, Induction
    <3> QED BY <2>3, <3>1
  <2> QED
    BY <2>2, <2>6
<1> QED
  BY <1>1, <1>2

(* It undoes the making of single sequences.                               *)
LEMMA FlattenSingles ==
  ASSUME NEW X, NEW s \in Seq(X)
  PROVE  FlattenSeq([i \in DOMAIN s |-> <<s[i]>>]) = s
<1> DEFINE n == Len(s)
           seqs == [i \in DOMAIN s |-> <<s[i]>>]
<1>1. n \in Nat /\ (\A i : i \in 1 .. n <=> i \in DOMAIN s) /\ \A i \in 1 .. n : s[i] \in X
  BY LenProperties
<1>2. seqs \in Seq(Seq(X)) /\ Len(seqs) = n /\ (s = <<>> <=> seqs = <<>>)
  <2>1. seqs \in [1 .. n -> Seq(X)]
    BY <1>1
  <2>2. seqs \in Seq(Seq(X))
    BY <1>1, <2>1, IsASeq
  <2>3. Len(seqs) = n
    BY <1>1, <2>1, <2>2, LenProperties
  <2> HIDE DEF seqs
  <2> QED BY <2>2, <2>3, EmptySeq
<1>3. CASE s = <<>>
  <2>1. seqs = <<>>
    BY <1>2, <1>3
  <2> HIDE DEF seqs
  <2> QED BY <1>3, <2>1 DEF FlattenSeq, seqs
<1>4. CASE s # <<>>
  <2>1. PICK f \in [1 .. Len(seqs) -> Seq(X)] :
          /\ f[1] = seqs[1]
          /\ \A i \in 2 .. Len(seqs) : f[i] = f[i-1] \o seqs[i]
          /\ FlattenSeq(seqs) = f[Len(seqs)]
    <3> HIDE DEF seqs
    <3> QED BY <1>2, <1>4, FlattenDef
  <2>2. n >= 1 /\ 1 \in 1 .. n /\ \A i \in 1 .. n : seqs[i] = <<s[i]>>
    BY <1>1, <1>4, EmptySeq
  <2> HIDE DEF seqs
  <2> DEFINE T == {i \in 1 .. n : Len(f[i]) = i /\ \A j \in 1 .. i : f[i][j] = s[j]}
  <2>3. 1 \in T
    <3>1. f[1] = <<s[1]>>
      BY <2>1, <2>2
    <3>2. Len(f[1]) = 1 /\ f[1][1] = s[1]
      BY <3>1
    <3>3. \A j \in 1 .. 1 : j = 1
      OBVIOUS
    <3> QED BY <2>2, <3>2, <3>3
  <2>4. ASSUME NEW i \in 1+1 .. n, i-1 \in T PROVE i \in T
    <3>1. i \in 2 .. n /\ i \in 1 .. n /\ i-1 \in 1 .. n
      BY <1>1, <2>2
    <3>2. f[i] = f[i-1] \o <<s[i]>> /\ f[i-1] \in Seq(X) /\ s[i] \in X
      BY <1>1, <1>2, <2>1, <2>2, <3>1
    <3>3. Len(f[i-1]) = i-1 /\ \A j \in 1 .. i-1 : f[i-1][j] = s[j]
      BY <2>4
    <3> DEFINE r == f[i-1]
    <3>4. r \in Seq(X) /\ f[i] = Append(r, s[i]) /\ i = Len(r) + 1
      BY <3>1, <3>2, <3>3, AppendIsConcat
    <3>5. /\ Len(f[i]) = i /\ f[i][i] = s[i]
          /\ \A j \in 1 .. Len(r) : f[i][j] = r[j]
      <4> HIDE DEF r
      <4> DEFINE e == s[i]
      <4>1. r \in Seq(X) /\ e \in X /\ f[i] = Append(r, e)
        BY <3>2, <3>4
      <4>2. /\ Len(f[i]) = Len(r) + 1 /\ f[i][Len(r) + 1] = e
            /\ \A j \in 1 .. Len(r) : f[i][j] = r[j]
        <5> HIDE DEF e
        <5> QED BY <4>1, AppendProperties
      <4> QED BY <3>4, <4>2
    <3>6. Len(f[i]) = i /\ f[i][i] = s[i]
      BY <3>5
    <3>7. ASSUME NEW j \in 1 .. i-1 PROVE f[i][j] = s[j]
      BY <3>3, <3>5
    <3>8. \A j \in 1 .. i : j \in 1 .. i-1 \/ j = i
      BY <3>1
    <3> QED BY <3>1, <3>6, <3>7, <3>8
  <2>5. n \in T
    <3> HIDE DEF T, n
    <3>1. \A i \in 1 .. n : i \in T
      BY <1>1, <2>2, <2>3, <2>4, Induction
    <3> QED BY <2>2, <3>1, <1>1
  <2>6. f[n] \in Seq(X) /\ Len(f[n]) = n /\ \A j \in 1 .. n : f[n][j] = s[j]
    BY <1>2, <2>1, <2>2, <2>5
  <2>7. f[n] = s
    <3> DEFINE r == f[n]
    <3>1. r \in Seq(X) /\ Len(r) = Len(s) /\ \A j \in 1 .. Len(r) : r[j] = s[j]
      BY <2>6
    <3>2. r = s
      <4> HIDE DEF r
      <4> QED BY <3>1, SeqEqual
    <3> QED BY <3>2
  <2> QED
    BY <1>2, <2>1, <2>7 DEF seqs
<1> QED
  BY <1>3, <1>4
=============================================================================
