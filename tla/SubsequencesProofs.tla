------------------------- MODULE SubsequencesProofs -------------------------
(***************************************************************************)
(* What Subsequences keeps of a list, for every list: the induction over   *)
(* positions that the proofs about the state and the placement rest on.    *)
(***************************************************************************)
EXTENDS Subsequences, SequenceTheorems, WellFoundedInduction, TLAPS

(* Every non-empty set of naturals has a least element. *)
LEMMA LeastNat ==
  ASSUME NEW T \in SUBSET Nat, T # {}
  PROVE  \E n \in T : \A m \in T : n <= m
<1> DEFINE R == {ss \in Nat \X Nat : ss[1] < ss[2]}
<1>1. IsWellFoundedOn(R, Nat)
  BY NatLessThanWellFounded DEF OpToRel
<1>2. PICK n \in T : \A m \in T : ~ (<<m, n>> \in R)
  <2> HIDE DEF R
  <2> QED
    BY <1>1, WFMin
<1>3. \A m \in T : ~ (m < n)
  BY <1>2
<1> QED
  BY <1>3

(* Induction over the naturals, for the set of those with the property: the  *)
(* library's principle takes an operator, which no prover can instantiate.   *)
LEMMA NatSetInduction ==
  ASSUME NEW T, 0 \in T, \A n \in Nat : n \in T => n + 1 \in T
  PROVE  Nat \subseteq T
<1> DEFINE U == Nat \ T
<1> SUFFICES ASSUME U # {} PROVE FALSE
  OBVIOUS
<1>1. PICK n \in U : \A m \in U : n <= m
  BY LeastNat
<1>2. n # 0 /\ n - 1 \in Nat /\ n - 1 \notin U
  BY <1>1
<1> QED
  BY <1>2

(* f is what Subsequence computes of the first n elements of s. *)
UpTo(f, s, I, n) ==
  f = [k \in 0..n |-> IF k = 0 THEN <<>>
                      ELSE IF k \in I THEN Append(f[k-1], s[k]) ELSE f[k-1]]

(* Subsequence is well defined. *)
LEMMA UpToExists ==
  ASSUME NEW s, NEW I
  PROVE  \A n \in Nat : \E f : UpTo(f, s, I, n)
<1> DEFINE T == {n \in Nat : \E f : UpTo(f, s, I, n)}
<1>1. 0 \in T
  <2>1. UpTo([k \in 0..0 |-> <<>>], s, I, 0)
    BY DEF UpTo
  <2> QED
    BY <2>1
<1>2. ASSUME NEW n \in Nat, n \in T PROVE n + 1 \in T
  <2>1. PICK f : UpTo(f, s, I, n)
    BY <1>2
  <2> DEFINE g == [k \in 0..(n+1) |-> IF k <= n THEN f[k]
                                      ELSE IF k \in I THEN Append(f[n], s[k]) ELSE f[n]]
  <2>2. UpTo(g, s, I, n + 1)
    <3>1. \A k \in 0..(n+1) : k <= n => g[k] = f[k]
      OBVIOUS
    <3>2. \A k \in 0..n : f[k] = IF k = 0 THEN <<>>
                                 ELSE IF k \in I THEN Append(f[k-1], s[k]) ELSE f[k-1]
      BY <2>1 DEF UpTo
    <3>3. ASSUME NEW k \in 0..(n+1)
          PROVE  g[k] = IF k = 0 THEN <<>>
                        ELSE IF k \in I THEN Append(g[k-1], s[k]) ELSE g[k-1]
      <4>1. CASE k <= n
        <5>1. k \in 0..n /\ g[k] = f[k] /\ (k # 0 => g[k-1] = f[k-1])
          BY <3>1, <4>1
        <5> QED
          BY <3>2, <5>1
      <4>2. CASE k = n + 1
        <5>1. k # 0 /\ k - 1 = n /\ g[k-1] = f[n]
          BY <3>1, <4>2
        <5> QED
          BY <4>2, <5>1
      <4> QED
        BY <4>1, <4>2
    <3> QED
      BY <3>3 DEF UpTo
  <2> QED
    BY <2>2
<1>3. Nat \subseteq T
  <2> HIDE DEF T
  <2> QED
    BY <1>1, <1>2, NatSetInduction
<1> QED
  BY <1>3

(* e takes the positions of t to the positions J of s, in order, onto them all. *)
Embeds(e, t, s, J) ==
  /\ e \in [1..Len(t) -> J]
  /\ \A j, k \in 1..Len(t) : j < k => e[j] < e[k]
  /\ \A j \in 1..Len(t) : t[j] = s[e[j]]
  /\ \A i \in J : \E j \in 1..Len(t) : e[j] = i

(* One more position: it is kept, behind all the others, or it is not. *)
LEMMA EmbedsAppend ==
  ASSUME NEW S, NEW t \in Seq(S), NEW s, NEW J \in SUBSET Nat, NEW e, Embeds(e, t, s, J),
         NEW n \in Nat, \A i \in J : i < n, s[n] \in S
  PROVE  \E d : Embeds(d, Append(t, s[n]), s, J \cup {n})
<1> DEFINE u == Append(t, s[n])
           d == [j \in 1..Len(t) + 1 |-> IF j = Len(t) + 1 THEN n ELSE e[j]]
<1>1. /\ Len(t) \in Nat /\ Len(u) = Len(t) + 1
      /\ \A j \in 1..Len(t) : u[j] = t[j]
      /\ u[Len(t) + 1] = s[n]
  BY AppendProperties, LenProperties
<1>2. d \in [1..Len(u) -> J \cup {n}]
  BY <1>1 DEF Embeds
<1>3. ASSUME NEW j \in 1..Len(u), NEW k \in 1..Len(u), j < k PROVE d[j] < d[k]
  <2>1. j \in 1..Len(t) /\ d[j] = e[j] /\ e[j] \in J
    BY <1>1, <1>3 DEF Embeds
  <2>2. CASE k = Len(t) + 1
    BY <1>1, <2>1, <2>2
  <2>3. CASE k # Len(t) + 1
    BY <1>1, <1>3, <2>1, <2>3 DEF Embeds
  <2> QED
    BY <2>2, <2>3
<1>4. \A j \in 1..Len(u) : u[j] = s[d[j]]
  BY <1>1 DEF Embeds
<1>5. ASSUME NEW i \in J \cup {n} PROVE \E j \in 1..Len(u) : d[j] = i
  <2>1. CASE i = n
    BY <1>1, <2>1
  <2>2. CASE i \in J
    <3>1. PICK j \in 1..Len(t) : e[j] = i
      BY <2>2 DEF Embeds
    <3>2. j \in 1..Len(u) /\ d[j] = i
      BY <1>1, <3>1
    <3> QED
      BY <3>2
  <2> QED
    BY <2>1, <2>2
<1> HIDE DEF d, u
<1>6. Embeds(d, u, s, J \cup {n})
  BY <1>2, <1>3, <1>4, <1>5 DEF Embeds
<1> QED
  BY <1>6 DEF u

(* What is known of the list computed of the first n elements. *)
UpToOk(t, s, I, S, n) ==
  t \in Seq(S) /\ Len(t) <= n /\ \E e : Embeds(e, t, s, I \cap 1..n)

(* Every prefix embeds. *)
LEMMA UpToEmbeds ==
  ASSUME NEW S, NEW s \in Seq(S), NEW I, NEW f, UpTo(f, s, I, Len(s))
  PROVE  \A n \in 0..Len(s) : UpToOk(f[n], s, I, S, n)
<1> DEFINE T == {n \in Nat : n <= Len(s) => UpToOk(f[n], s, I, S, n)}
<1>1. Len(s) \in Nat /\ \A i \in 1..Len(s) : s[i] \in S
  BY LenProperties, ElementOfSeq
<1>2. \A k \in 0..Len(s) : f[k] = IF k = 0 THEN <<>>
                                ELSE IF k \in I THEN Append(f[k-1], s[k]) ELSE f[k-1]
  BY DEF UpTo
<1>3. UpToOk(f[0], s, I, S, 0)
  <2>1. f[0] = <<>>
    BY <1>1, <1>2
  <2>2. Len(<<>>) = 0 /\ <<>> \in Seq(S)
    BY EmptySeq
  <2>3. Embeds([j \in 1..0 |-> 0], <<>>, s, I \cap 1..0)
    BY <2>2 DEF Embeds
  <2> QED
    BY <2>1, <2>2, <2>3 DEF UpToOk
<1>4. ASSUME NEW n \in Nat, n + 1 <= Len(s), UpToOk(f[n], s, I, S, n)
      PROVE  UpToOk(f[n + 1], s, I, S, n + 1)
  <2>1. PICK e : Embeds(e, f[n], s, I \cap 1..n)
    BY <1>4 DEF UpToOk
  <2>2. f[n] \in Seq(S) /\ Len(f[n]) <= n /\ Len(f[n]) \in Nat
    BY <1>4, LenProperties DEF UpToOk
  <2>3. f[n + 1] = IF n + 1 \in I THEN Append(f[n], s[n + 1]) ELSE f[n]
    <3>1. n + 1 \in 0..Len(s) /\ n + 1 # 0 /\ (n + 1) - 1 = n
      BY <1>1, <1>4
    <3> QED
      BY <1>2, <3>1
  <2>4. CASE n + 1 \in I
    <3>1. s[n + 1] \in S
      BY <1>1, <1>4
    <3>2. I \cap 1..(n + 1) = (I \cap 1..n) \cup {n + 1}
      BY <2>4
    <3>3. I \cap 1..n \in SUBSET Nat /\ \A i \in I \cap 1..n : i < n + 1
      OBVIOUS
    <3>4. \E d : Embeds(d, Append(f[n], s[n + 1]), s, (I \cap 1..n) \cup {n + 1})
      <4> DEFINE J == I \cap 1..n
                 m == n + 1
      <4>1. m \in Nat
        OBVIOUS
      <4> HIDE DEF J, m
      <4>2. \E d : Embeds(d, Append(f[n], s[m]), s, J \cup {m})
        BY <2>1, <2>2, <3>1, <3>3, <4>1, EmbedsAppend DEF J, m
      <4> QED
        BY <4>2 DEF J, m
    <3>5. Append(f[n], s[n + 1]) \in Seq(S) /\ Len(Append(f[n], s[n + 1])) = Len(f[n]) + 1
      BY <2>2, <3>1, AppendProperties
    <3>6. Len(Append(f[n], s[n + 1])) <= n + 1
      BY <2>2, <3>5
    <3> QED
      BY <2>3, <2>4, <3>2, <3>4, <3>5, <3>6 DEF UpToOk
  <2>5. CASE n + 1 \notin I
    <3>1. I \cap 1..(n + 1) = I \cap 1..n
      BY <2>5
    <3>2. Len(f[n]) <= n + 1
      BY <2>2
    <3> QED
      BY <2>1, <2>2, <2>3, <2>5, <3>1, <3>2 DEF UpToOk
  <2> QED
    BY <2>4, <2>5
<1>5. \A n \in Nat : n \in T => n + 1 \in T
  <2> SUFFICES ASSUME NEW n \in Nat, n \in T, n + 1 <= Len(s)
               PROVE  UpToOk(f[n + 1], s, I, S, n + 1)
    OBVIOUS
  <2>1. n <= Len(s)
    BY <1>1
  <2> QED
    BY <1>4, <2>1
<1>6. Nat \subseteq T
  <2>1. 0 \in T
    BY <1>3
  <2> HIDE DEF T
  <2> QED
    BY <1>5, <2>1, NatSetInduction
<1> QED
  BY <1>1, <1>6

(* What is kept is the elements at I: all of them, only them, in their order. *)
THEOREM SubsequenceProperties ==
  ASSUME NEW S, NEW s \in Seq(S), NEW I
  PROVE  /\ Subsequence(s, I) \in Seq(S)
         /\ Len(Subsequence(s, I)) <= Len(s)
         /\ \E e : Embeds(e, Subsequence(s, I), s, I \cap 1..Len(s))
<1> DEFINE F == CHOOSE f : UpTo(f, s, I, Len(s))
<1>1. Len(s) \in Nat
  BY LenProperties
<1>2. UpTo(F, s, I, Len(s))
  BY <1>1, UpToExists
<1>3. Subsequence(s, I) = F[Len(s)]
  BY DEF Subsequence, UpTo
<1> HIDE DEF F
<1>4. /\ F[Len(s)] \in Seq(S) /\ Len(F[Len(s)]) <= Len(s)
      /\ \E e : Embeds(e, F[Len(s)], s, I \cap 1..Len(s))
  BY <1>1, <1>2, UpToEmbeds DEF UpToOk
<1> QED
  BY <1>3, <1>4

(* t lists the elements of s at the positions J: those, all of them, in order. *)
InOrder(t, s, J) ==
  /\ \A j \in 1..Len(t) : \E i \in J : t[j] = s[i]
  /\ \A i \in J : \E j \in 1..Len(t) : t[j] = s[i]
  /\ \A j, k \in 1..Len(t) : j < k => \E i, l \in J : i < l /\ t[j] = s[i] /\ t[k] = s[l]
  /\ \A i, l \in J : i < l => \E j, k \in 1..Len(t) : j < k /\ t[j] = s[i] /\ t[k] = s[l]

(* Two kept elements come from two kept positions in the same order, and any  *)
(* two kept positions are there in their order.                               *)
THEOREM SubsequenceOrder ==
  ASSUME NEW S, NEW s \in Seq(S), NEW I
  PROVE  InOrder(Subsequence(s, I), s, I \cap 1..Len(s))
<1> DEFINE t == Subsequence(s, I)
           J == I \cap 1..Len(s)
<1>1. Len(t) \in Nat /\ Len(s) \in Nat
  BY SubsequenceProperties, LenProperties
<1>2. PICK e : Embeds(e, t, s, J)
  BY SubsequenceProperties
<1>3. J \subseteq Nat
  BY <1>1
<1> HIDE DEF t, J
<1>4. /\ \A j \in 1..Len(t) : e[j] \in J /\ t[j] = s[e[j]]
      /\ \A j, k \in 1..Len(t) : j < k => e[j] < e[k]
      /\ \A i \in J : \E j \in 1..Len(t) : e[j] = i
  BY <1>2 DEF Embeds
<1>5. ASSUME NEW i \in J, NEW l \in J, i < l
      PROVE  \E j, k \in 1..Len(t) : j < k /\ t[j] = s[i] /\ t[k] = s[l]
  <2>1. PICK j \in 1..Len(t), k \in 1..Len(t) : e[j] = i /\ e[k] = l
    BY <1>4
  <2>2. ~ (k < j) /\ j # k
    BY <1>3, <1>4, <1>5, <2>1
  <2>3. j < k
    BY <1>1, <2>2
  <2> QED
    BY <1>4, <2>1, <2>3
<1>6. /\ \A j \in 1..Len(t) : \E i \in J : t[j] = s[i]
      /\ \A i \in J : \E j \in 1..Len(t) : t[j] = s[i]
      /\ \A j, k \in 1..Len(t) : j < k =>
           \E i, l \in J : i < l /\ t[j] = s[i] /\ t[k] = s[l]
  BY <1>4
<1>7. InOrder(t, s, J)
  BY <1>5, <1>6 DEF InOrder
<1> QED
  BY <1>7 DEF t, J

(* Only keeps the elements of S, and nothing else, in their order. *)
THEOREM OnlyProperties ==
  ASSUME NEW T, NEW s \in Seq(T), NEW S
  PROVE  /\ Only(s, S) \in Seq(T) /\ Len(Only(s, S)) <= Len(s)
         /\ InOrder(Only(s, S), s, {i \in 1..Len(s) : s[i] \in S})
<1> DEFINE I == {i \in DOMAIN s : s[i] \in S}
<1>1. I \cap 1..Len(s) = {i \in 1..Len(s) : s[i] \in S}
  BY LenProperties
<1> HIDE DEF I
<1>2. /\ Subsequence(s, I) \in Seq(T) /\ Len(Subsequence(s, I)) <= Len(s)
      /\ InOrder(Subsequence(s, I), s, I \cap 1..Len(s))
  BY SubsequenceProperties, SubsequenceOrder
<1> QED
  BY <1>1, <1>2 DEF Only, I

(* A list without repetitions, and one that lists positions of it in order. *)
Distinct(s) == \A i, j \in 1..Len(s) : s[i] = s[j] => i = j

LEMMA InOrderDistinct ==
  ASSUME NEW s, NEW t, NEW J, J \subseteq 1..Len(s), InOrder(t, s, J), Distinct(s),
         Len(t) \in Nat, Len(s) \in Nat
  PROVE  Distinct(t)
<1>1. ASSUME NEW j \in 1..Len(t), NEW k \in 1..Len(t), j < k PROVE t[j] # t[k]
  <2>1. PICK i \in J, l \in J : i < l /\ t[j] = s[i] /\ t[k] = s[l]
    BY <1>1 DEF InOrder
  <2>2. i \in 1..Len(s) /\ l \in 1..Len(s) /\ i # l
    BY <2>1
  <2> QED
    BY <2>1, <2>2 DEF Distinct
<1>2. ASSUME NEW j \in 1..Len(t), NEW k \in 1..Len(t), t[j] = t[k] PROVE j = k
  <2>1. ~ (j < k) /\ ~ (k < j)
    BY <1>1, <1>2
  <2> QED
    BY <2>1
<1> QED
  BY <1>2 DEF Distinct

(* A list of which everything is kept is itself. *)
LEMMA OnlyAll ==
  ASSUME NEW T, NEW s \in Seq(T), NEW S, \A i \in 1..Len(s) : s[i] \in S
  PROVE  Only(s, S) = s
<1> DEFINE I == {i \in DOMAIN s : s[i] \in S}
           f == CHOOSE g : UpTo(g, s, I, Len(s))
           Same(n) == f[n] \in Seq(T) /\ Len(f[n]) = n /\ \A i \in 1..n : f[n][i] = s[i]
           N == {n \in Nat : n <= Len(s) => Same(n)}
<1>1. /\ Len(s) \in Nat /\ DOMAIN s = 1..Len(s) /\ \A i \in 1..Len(s) : s[i] \in T
  BY LenProperties, ElementOfSeq
<1>2. \A n \in 1..Len(s) : n \in I
  BY <1>1
<1>3. UpTo(f, s, I, Len(s))
  BY <1>1, UpToExists
<1>4. Only(s, S) = f[Len(s)]
  BY DEF Only, Subsequence, UpTo
<1> HIDE DEF I, f
<1>5. \A k \in 0..Len(s) : f[k] = IF k = 0 THEN <<>>
                                ELSE IF k \in I THEN Append(f[k-1], s[k]) ELSE f[k-1]
  BY <1>3 DEF UpTo
<1>6. Same(0)
  <2>1. f[0] = <<>>
    BY <1>1, <1>5
  <2> QED
    BY <2>1, EmptySeq
<1>7. ASSUME NEW n \in Nat, n + 1 <= Len(s), Same(n) PROVE Same(n + 1)
  <2>1. f[n + 1] = Append(f[n], s[n + 1])
    <3>1. n + 1 \in 0..Len(s) /\ n + 1 # 0 /\ (n + 1) - 1 = n /\ n + 1 \in 1..Len(s)
      BY <1>1, <1>7
    <3>2. n + 1 \in I
      BY <1>2, <3>1
    <3> QED
      BY <1>5, <3>1, <3>2
  <2>2. s[n + 1] \in T
    BY <1>1, <1>7
  <2>3. PICK t \in Seq(T), v \in T : t = f[n] /\ v = s[n + 1]
    BY <1>7, <2>2
  <2>4. /\ Append(t, v) \in Seq(T) /\ Len(Append(t, v)) = Len(t) + 1
        /\ \A i \in 1..Len(t) : Append(t, v)[i] = t[i]
        /\ Append(t, v)[Len(t) + 1] = v
    BY AppendProperties
  <2> QED
    BY <1>7, <2>1, <2>3, <2>4
<1>8. 0 \in N /\ \A n \in Nat : n \in N => n + 1 \in N
  <2> HIDE DEF Same
  <2>1. \A n \in Nat : n + 1 <= Len(s) => n <= Len(s)
    BY <1>1
  <2> QED
    BY <1>6, <1>7, <2>1
<1>9. Nat \subseteq N
  <2> HIDE DEF N
  <2> QED
    BY <1>8, NatSetInduction
<1>10. Same(Len(s))
  <2> HIDE DEF Same
  <2> QED
    BY <1>1, <1>9
<1> QED
  BY <1>1, <1>4, <1>10, SeqEqual
=============================================================================
