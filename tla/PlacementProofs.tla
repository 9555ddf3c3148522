-------------------------- MODULE PlacementProofs --------------------------
(***************************************************************************)
(* Machine-checked proofs about Placement, for any number of heads, any    *)
(* panels, profiles and preferences, and any number of hot-plugs.          *)
(***************************************************************************)
EXTENDS Placement, SubsequencesProofs, FiniteSetTheorems

(***************************************************************************)
(* Lists without repetition.                                               *)
(***************************************************************************)
(* The elements of a list. *)
LEMMA RangeOf ==
  ASSUME NEW S, NEW s \in Seq(S)
  PROVE  /\ Range(s) = {s[i] : i \in 1..Len(s)} /\ Range(s) \subseteq S
         /\ s = <<>> <=> Range(s) = {}
<1>1. DOMAIN s = 1..Len(s) /\ Len(s) \in Nat /\ \A i \in 1..Len(s) : s[i] \in S
  BY LenProperties, ElementOfSeq
<1>2. s = <<>> <=> Len(s) = 0
  BY EmptySeq
<1>3. Range(s) = {s[i] : i \in 1..Len(s)}
  BY <1>1 DEF Range
<1>4. Len(s) = 0 <=> Range(s) = {}
  <2>1. Len(s) # 0 => 1 \in 1..Len(s)
    BY <1>1
  <2>2. Len(s) = 0 => 1..Len(s) = {}
    BY <1>1
  <2> QED
    BY <1>3, <2>1, <2>2
<1> QED
  BY <1>1, <1>2, <1>3, <1>4

(* One more element. *)
LEMMA AppendRange ==
  ASSUME NEW S, NEW s \in Seq(S), NEW x \in S
  PROVE  /\ Append(s, x) \in Seq(S) /\ Append(s, x) # <<>>
         /\ Range(Append(s, x)) = Range(s) \cup {x}
         /\ Distinct(s) /\ x \notin Range(s) => Distinct(Append(s, x))
<1>1. PICK t : t = Append(s, x)
  OBVIOUS
<1>2. /\ t \in Seq(S) /\ Len(t) = Len(s) + 1 /\ Len(s) \in Nat
      /\ \A i \in 1..Len(s) : t[i] = s[i]
      /\ t[Len(s) + 1] = x
  BY <1>1, AppendProperties, LenProperties
<1>3. Range(t) = {t[i] : i \in 1..Len(t)} /\ Range(s) = {s[i] : i \in 1..Len(s)}
  BY <1>2, RangeOf
<1>4. 1..Len(t) = 1..Len(s) \cup {Len(t)}
  BY <1>2
<1>5. Range(t) = Range(s) \cup {x}
  BY <1>2, <1>3, <1>4
<1>6. Distinct(s) /\ x \notin Range(s) => Distinct(t)
  BY <1>2, <1>3, <1>4 DEF Distinct
<1>7. t # <<>>
  BY <1>2, EmptySeq
<1> QED
  BY <1>1, <1>2, <1>5, <1>6, <1>7

(* One list behind another. *)
LEMMA ConcatRange ==
  ASSUME NEW S, NEW s \in Seq(S), NEW t \in Seq(S)
  PROVE  /\ s \o t \in Seq(S) /\ Range(s \o t) = Range(s) \cup Range(t)
         /\ Distinct(s) /\ Distinct(t) /\ Range(s) \cap Range(t) = {} => Distinct(s \o t)
<1>1. PICK u : u = s \o t
  OBVIOUS
<1>2. /\ u \in Seq(S) /\ Len(u) = Len(s) + Len(t) /\ Len(s) \in Nat /\ Len(t) \in Nat
      /\ \A i \in 1..Len(s) + Len(t) : u[i] = IF i <= Len(s) THEN s[i] ELSE t[i - Len(s)]
  BY <1>1, ConcatProperties, LenProperties
<1>3. /\ Range(u) = {u[i] : i \in 1..Len(u)} /\ Range(s) = {s[i] : i \in 1..Len(s)}
      /\ Range(t) = {t[i] : i \in 1..Len(t)}
  BY <1>2, RangeOf
<1>4. /\ \A i \in 1..Len(s) : i \in 1..Len(u) /\ u[i] = s[i]
      /\ \A i \in 1..Len(t) : Len(s) + i \in 1..Len(u) /\ u[Len(s) + i] = t[i]
      /\ \A i \in 1..Len(u) : i \in 1..Len(s) \/ (i - Len(s) \in 1..Len(t) /\ u[i] = t[i - Len(s)])
  <2>1. \A i \in 1..Len(t) : Len(s) + i \in 1..Len(u) /\ ~(Len(s) + i <= Len(s))
                              /\ (Len(s) + i) - Len(s) = i
    BY <1>2
  <2> QED
    BY <1>2, <2>1
<1>5. Range(u) = Range(s) \cup Range(t)
  <2>1. Range(u) \subseteq Range(s) \cup Range(t)
    BY <1>3, <1>4
  <2>2. Range(s) \subseteq Range(u) /\ Range(t) \subseteq Range(u)
    BY <1>3, <1>4
  <2> QED
    BY <2>1, <2>2
<1>6. ASSUME Distinct(s), Distinct(t), Range(s) \cap Range(t) = {} PROVE Distinct(u)
  <2> SUFFICES ASSUME NEW i \in 1..Len(u), NEW j \in 1..Len(u), u[i] = u[j] PROVE i = j
    BY DEF Distinct
  <2>1. CASE i \in 1..Len(s) /\ j \in 1..Len(s)
    BY <1>4, <1>6, <2>1 DEF Distinct
  <2>2. CASE i \notin 1..Len(s) /\ j \notin 1..Len(s)
    <3>1. PICK a \in 1..Len(t), b \in 1..Len(t) :
            a = i - Len(s) /\ b = j - Len(s) /\ u[i] = t[a] /\ u[j] = t[b]
      BY <1>4, <2>2
    <3>2. a = b
      BY <1>6, <3>1 DEF Distinct
    <3> QED
      BY <1>2, <3>1, <3>2
  <2>3. CASE i \in 1..Len(s) /\ j \notin 1..Len(s)
    BY <1>3, <1>4, <1>6, <2>3
  <2>4. CASE i \notin 1..Len(s) /\ j \in 1..Len(s)
    BY <1>3, <1>4, <1>6, <2>4
  <2> QED
    BY <2>1, <2>2, <2>3, <2>4
<1> QED
  BY <1>1, <1>2, <1>5, <1>6

(* The kept part of a list. *)
LEMMA OnlyRange ==
  ASSUME NEW T, NEW s \in Seq(T), NEW S
  PROVE  /\ Only(s, S) \in Seq(T) /\ Range(Only(s, S)) = Range(s) \cap S
         /\ Distinct(s) => Distinct(Only(s, S))
         /\ Range(s) \subseteq S => Only(s, S) = s
<1>1. PICK t : t = Only(s, S)
  OBVIOUS
<1>2. PICK J : J = {i \in 1..Len(s) : s[i] \in S}
  OBVIOUS
<1>3. t \in Seq(T) /\ InOrder(t, s, J)
  BY <1>1, <1>2, OnlyProperties
<1>4. Len(t) \in Nat /\ Len(s) \in Nat
  BY <1>3, LenProperties
<1>5. Range(t) = {t[i] : i \in 1..Len(t)} /\ Range(s) = {s[i] : i \in 1..Len(s)}
  BY <1>3, RangeOf
<1>6. Range(t) = Range(s) \cap S
  <2>1. Range(t) \subseteq Range(s) \cap S
    <3>1. \A i \in 1..Len(t) : \E j \in J : t[i] = s[j]
      BY <1>3 DEF InOrder
    <3>2. \A i \in 1..Len(t) : t[i] \in Range(s) \cap S
      BY <1>2, <1>5, <3>1
    <3> QED
      BY <1>5, <3>2
  <2>2. ASSUME NEW x \in Range(s) \cap S PROVE x \in Range(t)
    <3>1. PICK i \in J : s[i] = x
      BY <1>2, <1>5
    <3> QED
      BY <1>3, <1>5, <3>1 DEF InOrder
  <2> QED
    BY <2>1, <2>2
<1>7. Distinct(s) => Distinct(t)
  BY <1>2, <1>3, <1>4, InOrderDistinct
<1>8. Range(s) \subseteq S => t = s
  <2> HAVE Range(s) \subseteq S
  <2>1. \A i \in 1..Len(s) : s[i] \in S
    BY <1>5
  <2> QED
    BY <1>1, <2>1, OnlyAll
<1> QED
  BY <1>1, <1>3, <1>6, <1>7, <1>8

(* A list from behind. *)
LEMMA ReverseRange ==
  ASSUME NEW S, NEW s \in Seq(S)
  PROVE  /\ Len(Reverse(s)) = Len(s) /\ \A i \in 1..Len(s) : Reverse(s)[i] \in S
         /\ {Reverse(s)[i] : i \in 1..Len(s)} = Range(s)
         /\ Distinct(s) => \A i, j \in 1..Len(s) : Reverse(s)[i] = Reverse(s)[j] => i = j
<1>1. PICK r : r = Reverse(s)
  OBVIOUS
<1>2. /\ Len(s) \in Nat /\ \A i \in 1..Len(s) : s[i] \in S
      /\ Range(s) = {s[i] : i \in 1..Len(s)}
  BY LenProperties, ElementOfSeq, RangeOf
<1>3. r = [i \in 1..Len(s) |-> s[(Len(s) - i) + 1]]
  BY <1>1 DEF Reverse
<1>4. \A i \in 1..Len(s) : (Len(s) - i) + 1 \in 1..Len(s) /\ r[i] = s[(Len(s) - i) + 1]
  BY <1>2, <1>3
<1>5. r \in [1..Len(s) -> S]
  BY <1>2, <1>3, <1>4
<1>6. Len(r) = Len(s)
  BY <1>2, <1>5, SeqDef, LenProperties
<1>7. {r[i] : i \in 1..Len(s)} = Range(s)
  <2>1. \A i \in 1..Len(s) : s[i] = r[(Len(s) - i) + 1]
    <3> TAKE i \in 1..Len(s)
    <3>1. PICK k \in 1..Len(s) : k = (Len(s) - i) + 1 /\ (Len(s) - k) + 1 = i
      BY <1>2
    <3> QED
      BY <1>4, <3>1
  <2> QED
    BY <1>2, <1>4, <2>1
<1>8. Distinct(s) => \A i, j \in 1..Len(s) : r[i] = r[j] => i = j
  <2> SUFFICES ASSUME Distinct(s), NEW i \in 1..Len(s), NEW j \in 1..Len(s), r[i] = r[j] PROVE i = j
    OBVIOUS
  <2>1. (Len(s) - i) + 1 = (Len(s) - j) + 1
    BY <1>4 DEF Distinct
  <2> QED
    BY <1>2, <2>1
<1>9. \A i \in 1..Len(s) : r[i] \in S
  BY <1>2, <1>4
<1> QED
  BY <1>1, <1>6, <1>7, <1>8, <1>9

(***************************************************************************)
(* A list of lists, joined.                                                *)
(***************************************************************************)
(* f is what FlattenSeq computes of the first n of the lists q. *)
Joins(f, q, n) == f = [i \in 1..n |-> IF i = 1 THEN q[i] ELSE f[i-1] \o q[i]]

(* FlattenSeq is well defined. *)
LEMMA JoinsExist ==
  ASSUME NEW q
  PROVE  \A n \in Nat : \E f : Joins(f, q, n)
<1> DEFINE T == {n \in Nat : \E f : Joins(f, q, n)}
<1>1. 0 \in T
  <2>1. Joins([i \in 1..0 |-> <<>>], q, 0)
    BY DEF Joins
  <2> QED
    BY <2>1
<1>2. ASSUME NEW n \in Nat, n \in T PROVE n + 1 \in T
  <2>1. PICK f : Joins(f, q, n)
    BY <1>2
  <2> DEFINE g == [i \in 1..(n+1) |-> IF i <= n THEN f[i]
                                      ELSE IF i = 1 THEN q[i] ELSE f[n] \o q[i]]
  <2>2. \A i \in 1..(n+1) : i <= n => g[i] = f[i]
    OBVIOUS
  <2>3. \A i \in 1..n : f[i] = IF i = 1 THEN q[i] ELSE f[i-1] \o q[i]
    BY <2>1 DEF Joins
  <2>4. ASSUME NEW i \in 1..(n+1) PROVE g[i] = IF i = 1 THEN q[i] ELSE g[i-1] \o q[i]
    <3>1. CASE i <= n
      <4>1. i \in 1..n /\ g[i] = f[i] /\ (i # 1 => g[i-1] = f[i-1])
        BY <2>2, <3>1
      <4> QED
        BY <2>3, <4>1
    <3>2. CASE i = n + 1
      <4>1. i # 1 => i - 1 = n /\ g[i-1] = f[n]
        BY <2>2, <3>2
      <4> QED
        BY <3>2, <4>1
    <3> QED
      BY <3>1, <3>2
  <2>5. Joins(g, q, n + 1)
    BY <2>4 DEF Joins
  <2> QED
    BY <2>5
<1>3. Nat \subseteq T
  <2> HIDE DEF T
  <2> QED
    BY <1>1, <1>2, NatSetInduction
<1> QED
  BY <1>3

(* Lists without repetition and without a common element, joined: a list of all *)
(* their elements, without repetition.                                          *)
LEMMA FlattenRange ==
  ASSUME NEW S, NEW m \in Nat, NEW q, q \in [1..m -> Seq(S)],
         \A i \in 1..m : Distinct(q[i]),
         \A i, j \in 1..m : i # j => Range(q[i]) \cap Range(q[j]) = {}
  PROVE  /\ FlattenSeq(q) \in Seq(S) /\ Distinct(FlattenSeq(q))
         /\ Range(FlattenSeq(q)) = UNION {Range(q[i]) : i \in 1..m}
<1>0. q \in Seq(Seq(S)) /\ Len(q) = m
  BY SeqDef, LenProperties
<1>1. CASE m = 0
  <2>1. q = <<>> /\ FlattenSeq(q) = q
    BY <1>0, <1>1, EmptySeq DEF FlattenSeq
  <2>2. <<>> \in Seq(S) /\ Distinct(<<>>) /\ Range(<<>>) = {}
    BY EmptySeq DEF Distinct, Range
  <2>3. UNION {Range(q[i]) : i \in 1..m} = {}
    <3>1. 1..m = {}
      BY <1>1
    <3> QED
      BY <3>1
  <2>4. FlattenSeq(q) = <<>>
    BY <2>1
  <2> QED
    BY <2>2, <2>3, <2>4
<1>2. CASE m # 0
  <2> DEFINE f == CHOOSE g : Joins(g, q, m)
             Joined(n) == /\ f[n] \in Seq(S) /\ Distinct(f[n])
                          /\ Range(f[n]) = UNION {Range(q[i]) : i \in 1..n}
             N == {n \in Nat : n \in 1..m => Joined(n)}
  <2>1. Joins(f, q, m)
    BY JoinsExist
  <2>2. FlattenSeq(q) = f[m]
    BY <1>0, <1>2 DEF FlattenSeq, Joins
  <2> HIDE DEF f
  <2>3. \A i \in 1..m : f[i] = IF i = 1 THEN q[i] ELSE f[i-1] \o q[i]
    BY <2>1 DEF Joins
  <2>4. Joined(1)
    <3>1. 1 \in 1..m /\ f[1] = q[1]
      BY <1>2, <2>3
    <3>2. Range(q[1]) = UNION {Range(q[i]) : i \in 1..1}
      <4>1. 1..1 = {1}
        OBVIOUS
      <4> QED
        BY <4>1
    <3> QED
      BY <3>1, <3>2
  <2>5. ASSUME NEW n \in Nat, n \in 1..m, n + 1 \in 1..m, Joined(n) PROVE Joined(n + 1)
    <3>1. f[n + 1] = f[n] \o q[n + 1]
      <4>1. n + 1 # 1 /\ (n + 1) - 1 = n
        BY <2>5
      <4> QED
        BY <2>3, <2>5, <4>1
    <3>2. PICK s \in Seq(S), t \in Seq(S) : s = f[n] /\ t = q[n + 1]
      BY <2>5
    <3>3. Distinct(s) /\ Distinct(t) /\ Range(s) = UNION {Range(q[i]) : i \in 1..n}
      BY <2>5, <3>2
    <3>4. Range(s) \cap Range(t) = {}
      <4>1. \A i \in 1..n : i \in 1..m /\ i # n + 1
        BY <2>5
      <4>2. \A i \in 1..n : Range(q[i]) \cap Range(t) = {}
        BY <2>5, <3>2, <4>1
      <4> QED
        BY <3>3, <4>2
    <3>5. s \o t \in Seq(S) /\ Range(s \o t) = Range(s) \cup Range(t) /\ Distinct(s \o t)
      BY <3>3, <3>4, ConcatRange
    <3>6. Range(s) \cup Range(t) = UNION {Range(q[i]) : i \in 1..(n + 1)}
      <4>1. 1..(n + 1) = 1..n \cup {n + 1}
        OBVIOUS
      <4> QED
        BY <3>2, <3>3, <4>1
    <3> QED
      BY <3>1, <3>2, <3>5, <3>6
  <2>6. 0 \in N /\ \A n \in Nat : n \in N => n + 1 \in N
    <3> HIDE DEF Joined
    <3>1. \A n \in Nat : n + 1 \in 1..m => n = 0 \/ n \in 1..m
      OBVIOUS
    <3> QED
      BY <2>4, <2>5, <3>1
  <2>7. Nat \subseteq N
    <3> HIDE DEF N
    <3> QED
      BY <2>6, NatSetInduction
  <2>8. Joined(m)
    <3> HIDE DEF Joined
    <3> QED
      BY <1>2, <2>7
  <2> QED
    BY <2>2, <2>8
<1> QED
  BY <1>1, <1>2

(***************************************************************************)
(* What an apply computes, as functions of what it works on.               *)
(***************************************************************************)
MatchOf(cs) == {l \in LayoutProfiles : l.connectors = cs}
Externals(cs) == cs \ {PrimaryOf(cs)}
PidsOf(cs) == {pid_by_output[c] : c \in Externals(cs)}
ByName == [c \in Heads |-> c]
OfProfile(cs, p) == Only(ByName, {c \in Externals(cs) : pid_by_output[c] = p})

(* The externals, newest first. *)
OrderOf(stack, cs) == FlattenSeq([i \in 1..Len(stack) |-> OfProfile(cs, Reverse(stack)[i])])

(* The side of a head, D being taken. *)
WantedOf(prf, c) ==
  LET preferred == prf[pid_by_output[c]]
      side == IF preferred = Unset THEN PREF_DEFAULT_SIDE ELSE preferred
  IN IF side \in Sides THEN side ELSE chain_side
SideOf(prf, D, c) ==
  LET free == Only(SIDES, Sides \ D)
  IN IF free = <<>> THEN chain_side ELSE IF WantedOf(prf, c) \in D THEN free[1] ELSE WantedOf(prf, c)

Spot == [connector : Heads, side : Sides, anchor : Heads]
Taken(ps, n) == {ps[j].side : j \in 1..n}

(* ps are the first placements made of the heads of a list. *)
Run(ps, order, prim, prf) ==
  \A i \in 1..Len(ps) :
    ps[i] = [connector |-> order[i], side |-> SideOf(prf, Taken(ps, i - 1), order[i]),
             anchor |-> IF i > 4 THEN order[i-1] ELSE prim]

(* What such a placement says, field by field. *)
LEMMA RunFields ==
  ASSUME NEW ps, NEW order, NEW prim, NEW prf, Run(ps, order, prim, prf),
         NEW i \in 1..Len(ps)
  PROVE  /\ ps[i].connector = order[i]
         /\ ps[i].side = SideOf(prf, Taken(ps, i - 1), order[i])
         /\ ps[i].anchor = IF i > 4 THEN order[i-1] ELSE prim
<1>1. PICK x, y, z : /\ x = order[i] /\ y = SideOf(prf, Taken(ps, i - 1), order[i])
                     /\ z = IF i > 4 THEN order[i-1] ELSE prim
  OBVIOUS
<1>2. ps[i] = [connector |-> x, side |-> y, anchor |-> z]
  BY <1>1 DEF Run
<1>3. ps[i].connector = x /\ ps[i].side = y /\ ps[i].anchor = z
  BY <1>2
<1> QED
  BY <1>1, <1>3

(* There are four sides. *)
LEMMA FourSides ==
  /\ SIDES \in Seq(Sides) /\ Range(SIDES) = Sides /\ Len(SIDES) = 4
  /\ IsFiniteSet(Sides) /\ Cardinality(Sides) = 4
  /\ chain_side \in Sides
<1>1. Len(SIDES) = 4 /\ DOMAIN SIDES = 1..4
  BY DEF SIDES
<1>2. Sides = {"right-of", "left-of", "above", "below"}
  <2>1. 1..4 = {1, 2, 3, 4}
    OBVIOUS
  <2>2. SIDES[1] = "right-of" /\ SIDES[2] = "left-of" /\ SIDES[3] = "above" /\ SIDES[4] = "below"
    BY DEF SIDES
  <2>3. Sides = {SIDES[i] : i \in {1, 2, 3, 4}}
    BY <1>1, <2>1 DEF Sides, Range
  <2> HIDE DEF SIDES
  <2> QED
    BY <2>2, <2>3
<1>3. SIDES \in Seq(Sides)
  BY <1>2 DEF SIDES
<1>4. IsFiniteSet(Sides) /\ Cardinality(Sides) = 4
  <2>1. IsFiniteSet({"right-of"}) /\ Cardinality({"right-of"}) = 1
    BY FS_Singleton
  <2>2. PICK A : A = {"right-of"} \cup {"left-of"}
    OBVIOUS
  <2>3. IsFiniteSet(A) /\ Cardinality(A) = 2
    BY <2>1, <2>2, FS_AddElement
  <2>4. PICK B : B = A \cup {"above"}
    OBVIOUS
  <2>5. IsFiniteSet(B) /\ Cardinality(B) = 3
    BY <2>2, <2>3, <2>4, FS_AddElement
  <2>6. "below" \notin B /\ Sides = B \cup {"below"}
    BY <1>2, <2>2, <2>4
  <2> QED
    BY <2>5, <2>6, FS_AddElement
<1>5. chain_side \in Sides
  BY <1>2 DEF chain_side
<1> QED
  BY <1>1, <1>3, <1>4, <1>5 DEF Sides

(* The next free side, when there is one. *)
LEMMA FreeSides ==
  ASSUME NEW D, D \subseteq Sides, NEW free, free = Only(SIDES, Sides \ D)
  PROVE  /\ free = <<>> <=> D = Sides
         /\ free # <<>> => free[1] \in Sides \ D
<1>1. free \in Seq(Sides) /\ Range(free) = Sides \ D
  BY FourSides, OnlyRange
<1>2. Len(free) \in Nat /\ Range(free) = {free[i] : i \in 1..Len(free)} /\ (free = <<>> <=> Range(free) = {})
  <2>1. Len(free) \in Nat
    BY <1>1, LenProperties
  <2>2. Range(free) = {free[i] : i \in 1..Len(free)} /\ (free = <<>> <=> Range(free) = {})
    <3>1. PICK t \in Seq(Sides) : t = free
      BY <1>1
    <3>2. Range(t) = {t[i] : i \in 1..Len(t)} /\ (t = <<>> <=> Range(t) = {})
      BY RangeOf
    <3> QED
      BY <3>1, <3>2
  <2> QED
    BY <2>1, <2>2
<1>3. free # <<>> => Len(free) # 0
  BY <1>1, EmptySeq
<1>4. Len(free) # 0 => 1 \in 1..Len(free)
  BY <1>2
<1> QED
  BY <1>1, <1>2, <1>3, <1>4

(* A side that is given is a free one as long as there is one. *)
LEMMA SideGiven ==
  ASSUME NEW D, D \subseteq Sides, NEW prf, NEW c
  PROVE  /\ WantedOf(prf, c) \in Sides /\ SideOf(prf, D, c) \in Sides
         /\ D # Sides => SideOf(prf, D, c) \notin D
         /\ D = Sides => SideOf(prf, D, c) = chain_side
<1>1. WantedOf(prf, c) \in Sides
  BY FourSides DEF WantedOf
<1>2. PICK free : free = Only(SIDES, Sides \ D)
  OBVIOUS
<1>3. (free = <<>> <=> D = Sides) /\ (free # <<>> => free[1] \in Sides \ D)
  BY <1>2, FreeSides
<1>4. SideOf(prf, D, c) = IF free = <<>> THEN chain_side
                          ELSE IF WantedOf(prf, c) \in D THEN free[1] ELSE WantedOf(prf, c)
  BY <1>2 DEF SideOf
<1> QED
  BY <1>1, <1>3, <1>4, FourSides

(* Two runs over the same heads are the same. *)
LEMMA RunUnique ==
  ASSUME NEW ps \in Seq(Spot), NEW qs \in Seq(Spot), Len(ps) = Len(qs),
         NEW order, NEW prim, NEW prf, Run(ps, order, prim, prf), Run(qs, order, prim, prf)
  PROVE  ps = qs
<1> DEFINE T == {n \in Nat : \A i \in 1..Len(ps) : i <= n => ps[i] = qs[i]}
<1>1. Len(ps) \in Nat
  BY LenProperties
<1>2. 0 \in T
  BY <1>1
<1>3. ASSUME NEW n \in Nat, n \in T PROVE n + 1 \in T
  <2> SUFFICES ASSUME NEW i \in 1..Len(ps), i = n + 1 PROVE ps[i] = qs[i]
    BY <1>1, <1>3
  <2>1. \A j \in 1..(i - 1) : ps[j] = qs[j]
    BY <1>1, <1>3
  <2>2. Taken(ps, i - 1) = Taken(qs, i - 1)
    BY <2>1 DEF Taken
  <2> QED
    BY <2>2 DEF Run
<1>4. Nat \subseteq T
  <2> HIDE DEF T
  <2> QED
    BY <1>2, <1>3, NatSetInduction
<1>5. \A i \in 1..Len(ps) : ps[i] = qs[i]
  BY <1>1, <1>4
<1> QED
  BY <1>5, SeqEqual

(* The primary is one of the heads. *)
LEMMA PrimaryConnected ==
  ASSUME NEW cs \in SUBSET Heads, cs # {}
  PROVE  PrimaryOf(cs) \in cs
<1>1. \A T \in SUBSET Heads : T # {} => Min(T) \in T
  <2> SUFFICES ASSUME NEW T \in SUBSET Heads, T # {} PROVE Min(T) \in T
    OBVIOUS
  <2>1. T \in SUBSET Nat
    BY HeadsAssumption DEF Heads
  <2>2. \E n \in T : \A m \in T : n <= m
    BY <2>1, LeastNat
  <2> QED
    BY <2>1, <2>2 DEF Min
<1>2. CASE cs \cap Internal # {}
  <2>1. cs \cap Internal \in SUBSET Heads
    OBVIOUS
  <2> QED
    BY <1>1, <1>2, <2>1 DEF PrimaryOf
<1>3. CASE cs \cap Internal = {}
  BY <1>1, <1>3 DEF PrimaryOf
<1> QED
  BY <1>2, <1>3

(* Of the matching layout profiles the first by name is one. *)
LEMMA FirstMatches ==
  ASSUME NEW ls \in SUBSET LayoutProfiles, ls # {}
  PROVE  FirstByName(ls) \in ls
<1> DEFINE T == {l.name : l \in ls}
<1>1. T \in SUBSET Nat /\ T # {}
  BY LayoutAssumption
<1>2. PICK n \in T : \A m \in T : n <= m
  <2> HIDE DEF T
  <2> QED
    BY <1>1, LeastNat
<1>3. \E l \in ls : \A k \in ls : l.name <= k.name
  BY <1>2
<1> QED
  BY <1>3 DEF FirstByName

(* The heads by name. *)
LEMMA ByNameList ==
  ByName \in Seq(Heads) /\ Range(ByName) = Heads /\ Distinct(ByName)
<1>1. ByName \in [1..HeadCount -> Heads] /\ HeadCount \in Nat
  BY HeadsAssumption DEF ByName, Heads
<1>2. ByName \in Seq(Heads) /\ Len(ByName) = HeadCount
  BY <1>1, SeqDef, LenProperties
<1>3. Range(ByName) = Heads
  BY DEF Range, ByName
<1>4. \A i \in 1..HeadCount : ByName[i] = i
  BY DEF ByName, Heads
<1> QED
  BY <1>2, <1>3, <1>4 DEF Distinct

(* The order is one of all the externals, each once, when the stack has their  *)
(* profiles.                                                                   *)
LEMMA OrderOfExternals ==
  ASSUME NEW stack \in Seq(Profiles), Distinct(stack), NEW cs \in SUBSET Heads,
         PidsOf(cs) \subseteq Range(stack)
  PROVE  /\ OrderOf(stack, cs) \in Seq(Heads) /\ Distinct(OrderOf(stack, cs))
         /\ Range(OrderOf(stack, cs)) = Externals(cs)
<1> DEFINE m == Len(stack)
           q == [i \in 1..m |-> OfProfile(cs, Reverse(stack)[i])]
<1>1. m \in Nat
  BY LenProperties
<1>2. \A p : /\ OfProfile(cs, p) \in Seq(Heads) /\ Distinct(OfProfile(cs, p))
             /\ Range(OfProfile(cs, p)) = {c \in Externals(cs) : pid_by_output[c] = p}
  <2> TAKE p
  <2>1. PICK S : S = {c \in Externals(cs) : pid_by_output[c] = p}
    OBVIOUS
  <2>2. PICK t : t = Only(ByName, S)
    OBVIOUS
  <2>3. t \in Seq(Heads) /\ Range(t) = Range(ByName) \cap S /\ Distinct(t)
    BY <2>2, ByNameList, OnlyRange
  <2>4. Range(ByName) \cap S = S
    BY <2>1, ByNameList DEF Externals
  <2> QED
    BY <2>1, <2>2, <2>3, <2>4 DEF OfProfile
<1>3. /\ q \in [1..m -> Seq(Heads)] /\ \A i \in 1..m : Distinct(q[i])
      /\ \A i \in 1..m : Range(q[i]) = {c \in Externals(cs) : pid_by_output[c] = Reverse(stack)[i]}
  BY <1>2
<1>4. /\ \A i, j \in 1..m : Reverse(stack)[i] = Reverse(stack)[j] => i = j
      /\ {Reverse(stack)[i] : i \in 1..m} = Range(stack)
  BY ReverseRange
<1>5. \A i, j \in 1..m : i # j => Range(q[i]) \cap Range(q[j]) = {}
  BY <1>3, <1>4
<1>6. UNION {Range(q[i]) : i \in 1..m} = Externals(cs)
  <2>1. \A i \in 1..m : Range(q[i]) \subseteq Externals(cs)
    BY <1>3
  <2>2. ASSUME NEW c \in Externals(cs) PROVE \E i \in 1..m : c \in Range(q[i])
    <3>1. pid_by_output[c] \in Range(stack)
      BY <2>2 DEF PidsOf
    <3>2. PICK i \in 1..m : Reverse(stack)[i] = pid_by_output[c]
      BY <1>4, <3>1
    <3> QED
      BY <1>3, <3>2
  <2> HIDE DEF q
  <2> QED
    BY <2>1, <2>2
<1>7. OrderOf(stack, cs) = FlattenSeq(q)
  BY DEF OrderOf
<1> HIDE DEF q, m
<1>8. PICK n \in Nat : n = m
  BY <1>1
<1>9. PICK t \in [1..n -> Seq(Heads)] : t = q
  BY <1>3, <1>8
<1>10. /\ \A i \in 1..n : Distinct(t[i])
       /\ \A i, j \in 1..n : i # j => Range(t[i]) \cap Range(t[j]) = {}
       /\ UNION {Range(t[i]) : i \in 1..n} = Externals(cs) /\ OrderOf(stack, cs) = FlattenSeq(t)
  BY <1>3, <1>5, <1>6, <1>7, <1>8, <1>9
<1>11. /\ FlattenSeq(t) \in Seq(Heads) /\ Distinct(FlattenSeq(t))
       /\ Range(FlattenSeq(t)) = UNION {Range(t[i]) : i \in 1..n}
  BY <1>10, FlattenRange
<1> QED
  BY <1>10, <1>11

(***************************************************************************)
(* The invariant.                                                          *)
(***************************************************************************)
Typing ==
  /\ stage \in {"rest", "resolve", "place"}
  /\ connected \in SUBSET Heads
  /\ attach_stack \in Seq(Profiles) /\ Distinct(attach_stack)
  /\ stage # "place" => placed = <<>> /\ DOMAIN occupied = {} /\ ordered = <<>>
  /\ stage = "rest" => fresh = <<>> /\ conns = [p \in Profiles |-> <<>>]
  /\ stage # "rest" => /\ connected # {} /\ MatchOf(connected) = {}
                       /\ primary = PrimaryOf(connected)

(* The heads resolved so far are listed by profile, and every profile met is    *)
(* on the stack or new.                                                         *)
ResolveInv ==
  stage = "resolve" =>
    /\ configured = {primary} /\ todo \subseteq Externals(connected)
    /\ conns \in [Profiles -> Seq(Heads)]
    /\ \A p \in Profiles : Range(conns[p]) = {c \in Externals(connected) \ todo : pid_by_output[c] = p}
    /\ fresh \in Seq(Profiles) /\ Distinct(fresh) /\ Range(fresh) \cap Range(attach_stack) = {}
    /\ \A p \in Profiles : p \in Range(fresh) => conns[p] # <<>>
    /\ \A p \in Profiles : conns[p] # <<>> => p \in Range(attach_stack) \cup Range(fresh)

(* The placements made are a run over the order; what is left of it is to come, *)
(* and as long as sides are free each placement takes another one.              *)
Placing(full) ==
  /\ placed \in Seq(Spot) /\ ordered \in Seq(Heads)
  /\ Len(placed) + Len(ordered) = Len(full)
  /\ \A i \in 1..Len(ordered) : ordered[i] = full[Len(placed) + i]
  /\ Run(placed, full, primary, pref)
  /\ DOMAIN occupied = Taken(placed, Len(placed))
  /\ Len(placed) <= 4 => Cardinality(DOMAIN occupied) = Len(placed)
  /\ Len(placed) >= 4 => DOMAIN occupied = Sides
  /\ \A i, j \in 1..Len(placed) : i < j /\ j <= 4 => placed[i].side # placed[j].side
  /\ Len(placed) # 0 => last_item = full[Len(placed)]
  /\ configured = {primary} \cup {placed[i].connector : i \in 1..Len(placed)}
PlaceInv ==
  stage = "place" => /\ Range(attach_stack) = PidsOf(connected)
                     /\ Placing(OrderOf(attach_stack, connected))

(* The last layout is the run over the stack as it still is, unless an apply of  *)
(* other heads has changed it.                                                   *)
LayoutInv ==
  /\ layout.connected \in SUBSET Heads
  /\ layout.connected = {} \/ MatchOf(layout.connected) # {} => layout.placed = <<>>
  /\ (/\ layout.connected # {} /\ MatchOf(layout.connected) = {}
      /\ stage # "place" \/ layout.connected = connected)
     => /\ Range(attach_stack) = PidsOf(layout.connected)
        /\ layout.placed \in Seq(Spot)
        /\ Len(layout.placed) = Len(OrderOf(attach_stack, layout.connected))
        /\ Run(layout.placed, OrderOf(attach_stack, layout.connected),
               PrimaryOf(layout.connected), layout.pref)

IInv == Typing /\ ResolveInv /\ PlaceInv /\ SideLostOnlyToNewer /\ LayoutInv /\ EveryHeadConfigured

(* At first nothing is placed. *)
LEMMA InitIInv == PlacementInit => IInv
<1> SUFFICES ASSUME PlacementInit PROVE IInv
  OBVIOUS
<1>1. stage = "rest" /\ connected \in SUBSET Heads
  BY HeadsAssumption DEF PlacementInit
<1>2. attach_stack \in Seq(Profiles) /\ Distinct(attach_stack)
  BY EmptySeq DEF PlacementInit, Distinct
<1>3. DOMAIN occupied = {}
  BY DEF PlacementInit
<1>4. Typing
  BY <1>1, <1>2, <1>3 DEF PlacementInit, Typing
<1>5. layout.connected = {} /\ layout.configured = {} /\ layout.placed = <<>>
  BY DEF PlacementInit
<1>6. LayoutInv /\ EveryHeadConfigured
  BY <1>5 DEF LayoutInv, EveryHeadConfigured
<1>7. ResolveInv /\ PlaceInv /\ SideLostOnlyToNewer
  BY <1>1 DEF ResolveInv, PlaceInv, SideLostOnlyToNewer
<1> QED
  BY <1>4, <1>6, <1>7 DEF IInv

(* Hot-plugs and --set-prefs between applies. *)
LEMMA RestKeeps ==
  ASSUME IInv, stage = "rest", connected' \in SUBSET Heads,
         UNCHANGED <<stage, orderVars, placeVars, layout>>
  PROVE  IInv'
<1>1. /\ UNCHANGED <<stage, attach_stack, primary, todo, fresh, conns, ordered, occupied, last_item,
                     placed, configured, layout>>
  BY DEF orderVars, placeVars
<1>2. Typing'
  BY <1>1 DEF IInv, Typing
<1>3. LayoutInv' /\ EveryHeadConfigured'
  BY <1>1 DEF IInv, LayoutInv, EveryHeadConfigured
<1>4. ResolveInv' /\ PlaceInv' /\ SideLostOnlyToNewer'
  BY <1>1 DEF ResolveInv, PlaceInv, SideLostOnlyToNewer
<1> QED
  BY <1>2, <1>3, <1>4 DEF IInv

(* An apply starts, or a layout profile does it all. *)
LEMMA ApplyKeeps == IInv /\ Apply => IInv'
<1> SUFFICES ASSUME IInv, Apply PROVE IInv'
  OBVIOUS
<1>1. /\ stage = "rest" /\ connected # {} /\ connected \in SUBSET Heads
      /\ UNCHANGED <<connected, pref, plugs, prefs, attach_stack>>
      /\ match_profile = MatchOf(connected)
  BY DEF Apply, hwVars, IInv, Typing, match_profile, MatchOf
<1>2. fresh = <<>> /\ conns = [p \in Profiles |-> <<>>] /\ placed = <<>> /\ DOMAIN occupied = {}
      /\ ordered = <<>>
  BY <1>1 DEF IInv, Typing
<1>3. CASE match_profile # {}
  <2>1. /\ UNCHANGED <<primary, todo, fresh, conns, ordered, occupied, last_item, placed, configured>>
        /\ stage' = "rest"
        /\ layout' = [connected |-> connected, pref |-> pref,
                      configured |-> FirstByName(match_profile).connectors, placed |-> <<>>]
    BY <1>3 DEF Apply, Finish, placeVars
  <2>2. FirstByName(match_profile).connectors = connected
    <3>1. match_profile \in SUBSET LayoutProfiles
      BY DEF match_profile
    <3>2. FirstByName(match_profile) \in match_profile
      BY <1>3, <3>1, FirstMatches
    <3> QED
      BY <3>2 DEF match_profile
  <2>3. /\ layout'.connected = connected /\ layout'.configured = connected /\ layout'.placed = <<>>
    BY <2>1, <2>2
  <2>4. LayoutInv' /\ EveryHeadConfigured'
    BY <1>1, <1>3, <2>3 DEF LayoutInv, EveryHeadConfigured
  <2>5. Typing'
    BY <1>1, <1>2, <2>1 DEF IInv, Typing
  <2>6. ResolveInv' /\ PlaceInv' /\ SideLostOnlyToNewer'
    BY <2>1 DEF ResolveInv, PlaceInv, SideLostOnlyToNewer
  <2> QED
    BY <2>4, <2>5, <2>6 DEF IInv
<1>4. CASE match_profile = {}
  <2>1. /\ UNCHANGED <<fresh, conns, ordered, occupied, last_item, placed, layout>>
        /\ stage' = "resolve" /\ primary' = PrimaryOf(connected) /\ configured' = {primary'}
        /\ todo' = connected \ {primary'}
    BY <1>4 DEF Apply
  <2>2. Typing'
    BY <1>1, <1>2, <1>4, <2>1 DEF IInv, Typing
  <2>3. ResolveInv'
    <3>1. /\ configured' = {primary'} /\ todo' = Externals(connected) /\ fresh' = <<>>
          /\ conns' = [p \in Profiles |-> <<>>]
      BY <1>2, <2>1 DEF Externals
    <3>2. /\ <<>> \in Seq(Heads) /\ <<>> \in Seq(Profiles) /\ Distinct(<<>>) /\ Range(<<>>) = {}
      BY EmptySeq DEF Distinct, Range
    <3> QED
      BY <1>1, <3>1, <3>2 DEF ResolveInv
  <2>4. PlaceInv' /\ SideLostOnlyToNewer' /\ LayoutInv' /\ EveryHeadConfigured'
    BY <1>1, <2>1 DEF IInv, PlaceInv, SideLostOnlyToNewer, LayoutInv, EveryHeadConfigured
  <2> QED
    BY <2>2, <2>3, <2>4 DEF IInv
<1> QED
  BY <1>3, <1>4

(* An external is resolved. *)
LEMMA ResolveKeeps ==
  ASSUME IInv, NEW c \in Heads, Resolve(c)
  PROVE  IInv'
<1>1. PICK p : p = pid_by_output[c]
  OBVIOUS
<1>2. /\ stage = "resolve" /\ c \in todo /\ todo' = todo \ {c}
      /\ fresh' = IF p \in Range(attach_stack) \cup Range(fresh) THEN fresh ELSE Append(fresh, p)
      /\ conns' = [conns EXCEPT ![p] = Append(@, c)]
      /\ UNCHANGED <<stage, connected, pref, attach_stack, primary, ordered, occupied, last_item,
                     placed, configured, layout>>
  BY <1>1 DEF Resolve, hwVars, placeVars
<1>3. p \in Profiles
  BY <1>1 DEF Profiles
<1>4. /\ configured = {primary} /\ todo \subseteq Externals(connected)
      /\ conns \in [Profiles -> Seq(Heads)]
      /\ \A q \in Profiles : Range(conns[q]) = {d \in Externals(connected) \ todo : pid_by_output[d] = q}
      /\ fresh \in Seq(Profiles) /\ Distinct(fresh) /\ Range(fresh) \cap Range(attach_stack) = {}
      /\ \A q \in Profiles : q \in Range(fresh) => conns[q] # <<>>
      /\ \A q \in Profiles : conns[q] # <<>> => q \in Range(attach_stack) \cup Range(fresh)
  BY <1>2 DEF IInv, ResolveInv
<1>5. /\ conns'[p] \in Seq(Heads) /\ conns'[p] # <<>> /\ Range(conns'[p]) = Range(conns[p]) \cup {c}
      /\ \A q \in Profiles \ {p} : conns'[q] = conns[q]
      /\ conns' \in [Profiles -> Seq(Heads)]
  <2>1. PICK s \in Seq(Heads) : s = conns[p]
    BY <1>3, <1>4
  <2>2. Append(s, c) \in Seq(Heads) /\ Append(s, c) # <<>> /\ Range(Append(s, c)) = Range(s) \cup {c}
    BY AppendRange
  <2> QED
    BY <1>2, <1>3, <1>4, <2>1, <2>2
<1>6. /\ fresh' \in Seq(Profiles) /\ Distinct(fresh')
      /\ Range(fresh') = Range(fresh) \cup ({p} \ Range(attach_stack))
  <2>1. CASE p \in Range(attach_stack) \cup Range(fresh)
    BY <1>2, <1>4, <2>1
  <2>2. CASE p \notin Range(attach_stack) \cup Range(fresh)
    <3>1. PICK s \in Seq(Profiles), x \in Profiles : s = fresh /\ x = p
      BY <1>3, <1>4
    <3>2. Append(s, x) \in Seq(Profiles) /\ Range(Append(s, x)) = Range(s) \cup {x}
          /\ Distinct(Append(s, x))
      BY <1>4, <2>2, <3>1, AppendRange
    <3> QED
      BY <1>2, <2>2, <3>1, <3>2
  <2> QED
    BY <2>1, <2>2
<1>7. ResolveInv'
  <2>1. ASSUME NEW q \in Profiles
        PROVE  /\ Range(conns'[q]) = {d \in Externals(connected) \ todo' : pid_by_output[d] = q}
               /\ q \in Range(fresh') => conns'[q] # <<>>
               /\ conns'[q] # <<>> => q \in Range(attach_stack) \cup Range(fresh')
    BY <1>1, <1>2, <1>4, <1>5, <1>6
  <2>2. Range(fresh') \cap Range(attach_stack) = {}
    BY <1>4, <1>6
  <2> QED
    BY <1>2, <1>4, <1>5, <1>6, <2>1, <2>2 DEF ResolveInv
<1>8. Typing' /\ PlaceInv' /\ SideLostOnlyToNewer' /\ LayoutInv' /\ EveryHeadConfigured'
  BY <1>2 DEF IInv, Typing, PlaceInv, SideLostOnlyToNewer, LayoutInv, EveryHeadConfigured
<1> QED
  BY <1>7, <1>8 DEF IInv

(* The externals are put in order.  When the last layout was of the same heads   *)
(* nothing is new and the stack stays as it is.                                  *)
LEMMA OrderKeeps == IInv /\ Order => IInv'
<1> SUFFICES ASSUME IInv, Order PROVE IInv'
  OBVIOUS
<1>1. /\ stage = "resolve" /\ todo = {} /\ stage' = "place" /\ attach_stack' = Kept
      /\ ordered' = FlattenSeq([i \in 1..Len(Kept) |-> Connectors(Reverse(Kept)[i])])
      /\ UNCHANGED <<connected, pref, primary, todo, fresh, conns, occupied, last_item, placed,
                     configured, layout>>
  BY DEF Order, hwVars
<1>2. /\ connected # {} /\ MatchOf(connected) = {} /\ primary = PrimaryOf(connected)
      /\ connected \in SUBSET Heads /\ attach_stack \in Seq(Profiles) /\ Distinct(attach_stack)
      /\ placed = <<>> /\ DOMAIN occupied = {}
  BY <1>1 DEF IInv, Typing
<1>3. /\ configured = {primary} /\ conns \in [Profiles -> Seq(Heads)]
      /\ \A p \in Profiles : Range(conns[p]) = {c \in Externals(connected) : pid_by_output[c] = p}
      /\ fresh \in Seq(Profiles) /\ Distinct(fresh) /\ Range(fresh) \cap Range(attach_stack) = {}
      /\ \A p \in Profiles : p \in Range(fresh) => conns[p] # <<>>
      /\ \A p \in Profiles : conns[p] # <<>> => p \in Range(attach_stack) \cup Range(fresh)
  BY <1>1 DEF IInv, ResolveInv
<1>4. PICK Here : Here = {p \in Profiles : conns[p] # <<>>}
  OBVIOUS
<1>5. Here = PidsOf(connected)
  <2>1. \A p \in Profiles : conns[p] # <<>> <=> \E c \in Externals(connected) : pid_by_output[c] = p
    <3> TAKE p \in Profiles
    <3>1. conns[p] # <<>> <=> Range(conns[p]) # {}
      BY <1>3, RangeOf
    <3> QED
      BY <1>3, <3>1
  <2>2. PidsOf(connected) \subseteq Profiles
    BY <1>2 DEF PidsOf, Profiles, Externals
  <2> QED
    BY <1>4, <2>1, <2>2 DEF PidsOf
<1>6. PICK old : old = Only(attach_stack, Here)
  OBVIOUS
<1>7. /\ old \in Seq(Profiles) /\ Range(old) = Range(attach_stack) \cap Here /\ Distinct(old)
      /\ Range(attach_stack) \subseteq Here => old = attach_stack
  BY <1>2, <1>6, OnlyRange
<1>8. Kept = old \o fresh
  BY <1>4, <1>6 DEF Kept
<1>9. /\ Kept \in Seq(Profiles) /\ Distinct(Kept) /\ Range(Kept) = PidsOf(connected)
  <2>1. Range(old) \cap Range(fresh) = {}
    BY <1>3, <1>7
  <2>2. Kept \in Seq(Profiles) /\ Range(Kept) = Range(old) \cup Range(fresh) /\ Distinct(Kept)
    BY <1>3, <1>7, <1>8, <2>1, ConcatRange
  <2>3. Range(fresh) \subseteq Profiles
    BY <1>3, RangeOf
  <2>4. Range(old) \cup Range(fresh) = Here
    BY <1>3, <1>4, <1>7, <2>3
  <2> QED
    BY <1>5, <2>2, <2>4
<1>10. Range(attach_stack) = PidsOf(connected) => Kept = attach_stack
  <2> HAVE Range(attach_stack) = PidsOf(connected)
  <2>1. old = attach_stack
    BY <1>5, <1>7
  <2>2. Range(fresh) = {}
    <3>1. Range(fresh) \subseteq Profiles
      BY <1>3, RangeOf
    <3> QED
      BY <1>3, <1>4, <1>5, <3>1
  <2>3. fresh = <<>>
    BY <1>3, <2>2, RangeOf
  <2> QED
    BY <1>2, <1>8, <2>1, <2>3, ConcatEmptySeq
<1>11. PICK full : full = OrderOf(Kept, connected)
  OBVIOUS
<1>12. ordered' = full
  <2>1. PICK k \in Seq(Profiles) : k = Kept
    BY <1>9
  <2>2. \A i \in 1..Len(k) : Reverse(k)[i] \in Profiles
    BY ReverseRange
  <2>3. \A p \in Profiles : Connectors(p) = OfProfile(connected, p)
    BY <1>3 DEF Connectors, OfProfile, ByName
  <2>4. [i \in 1..Len(k) |-> Connectors(Reverse(k)[i])]
          = [i \in 1..Len(k) |-> OfProfile(connected, Reverse(k)[i])]
    BY <2>2, <2>3
  <2> QED
    BY <1>1, <1>11, <2>1, <2>4 DEF OrderOf
<1>13. full \in Seq(Heads)
  BY <1>2, <1>9, <1>11, OrderOfExternals
<1>14. Typing'
  BY <1>1, <1>2, <1>9 DEF Typing
<1>15. PlaceInv'
  <2>1. /\ placed' = <<>> /\ placed' \in Seq(Spot) /\ Len(placed') = 0 /\ Len(full) \in Nat
    BY <1>1, <1>2, <1>13, EmptySeq, LenProperties
  <2>2. DOMAIN occupied' = {} /\ Cardinality(DOMAIN occupied') = 0 /\ Taken(placed', Len(placed')) = {}
    <3>1. 1..0 = {}
      OBVIOUS
    <3> QED
      BY <1>1, <1>2, <2>1, <3>1, FS_EmptySet DEF Taken
  <2>3. Run(placed', full, primary', pref')
    BY <2>1 DEF Run
  <2>4. configured' = {primary'} \cup {placed'[i].connector : i \in 1..Len(placed')}
    BY <1>1, <1>3, <2>1
  <2>5. /\ \A i \in 1..Len(ordered') : ordered'[i] = full[Len(placed') + i]
        /\ Len(placed') + Len(ordered') = Len(full)
    BY <1>12, <2>1
  <2>6. Placing(full)'
    BY <1>12, <1>13, <2>1, <2>2, <2>3, <2>4, <2>5 DEF Placing
  <2>7. full = OrderOf(attach_stack', connected')
    BY <1>1, <1>11
  <2> QED
    BY <1>1, <1>9, <2>6, <2>7 DEF PlaceInv
<1>16. SideLostOnlyToNewer'
  <2>1. DOMAIN placed' = {}
    BY <1>1, <1>2
  <2> QED
    BY <2>1 DEF SideLostOnlyToNewer
<1>17. LayoutInv'
  <2>1. /\ layout.connected \in SUBSET Heads
        /\ layout.connected = {} \/ MatchOf(layout.connected) # {} => layout.placed = <<>>
    BY DEF IInv, LayoutInv
  <2>2. ASSUME layout.connected # {}, MatchOf(layout.connected) = {}, layout.connected = connected
        PROVE  /\ Range(Kept) = PidsOf(layout.connected)
               /\ layout.placed \in Seq(Spot)
               /\ Len(layout.placed) = Len(OrderOf(Kept, layout.connected))
               /\ Run(layout.placed, OrderOf(Kept, layout.connected),
                      PrimaryOf(layout.connected), layout.pref)
    <3>1. /\ Range(attach_stack) = PidsOf(layout.connected)
          /\ layout.placed \in Seq(Spot)
          /\ Len(layout.placed) = Len(OrderOf(attach_stack, layout.connected))
          /\ Run(layout.placed, OrderOf(attach_stack, layout.connected),
                 PrimaryOf(layout.connected), layout.pref)
      BY <1>1, <2>2 DEF IInv, LayoutInv
    <3>2. Kept = attach_stack
      BY <1>10, <2>2, <3>1
    <3> QED
      BY <3>1, <3>2
  <2> QED
    BY <1>1, <2>1, <2>2 DEF LayoutInv
<1>18. ResolveInv' /\ EveryHeadConfigured'
  BY <1>1 DEF IInv, ResolveInv, EveryHeadConfigured
<1> QED
  BY <1>14, <1>15, <1>16, <1>17, <1>18 DEF IInv

(* The next head is placed: on its side, or the next one free, beside the        *)
(* primary; and once the sides are taken, beside the head placed last.           *)
LEMMA PlaceKeeps == IInv /\ Place => IInv'
<1> SUFFICES ASSUME IInv, Place PROVE IInv'
  OBVIOUS
<1>1. PICK full : full = OrderOf(attach_stack, connected)
  OBVIOUS
<1>2. /\ stage = "place" /\ Range(attach_stack) = PidsOf(connected) /\ Placing(full)
      /\ connected \in SUBSET Heads /\ connected # {} /\ primary = PrimaryOf(connected)
      /\ attach_stack \in Seq(Profiles) /\ Distinct(attach_stack)
  BY <1>1 DEF Place, IInv, PlaceInv, Typing
<1>3. full \in Seq(Heads)
  BY <1>1, <1>2, OrderOfExternals
<1>4. PICK c : c = Head(ordered)
  OBVIOUS
<1>5. PICK n \in Nat : n = Len(placed)
  BY <1>2, LenProperties DEF Placing
<1>6. PICK D : D = DOMAIN occupied
  OBVIOUS
<1>7. /\ D \subseteq Sides /\ D = Taken(placed, n) /\ (n >= 4 => D = Sides)
      /\ (n <= 4 => Cardinality(D) = n) /\ IsFiniteSet(D)
  <2>1. \A i \in 1..n : placed[i] \in Spot
    BY <1>2, <1>5, ElementOfSeq DEF Placing
  <2>2. D = Taken(placed, n) /\ (n >= 4 => D = Sides) /\ (n <= 4 => Cardinality(D) = n)
    BY <1>2, <1>5, <1>6 DEF Placing
  <2>3. D \subseteq Sides
    BY <2>1, <2>2 DEF Taken, Spot
  <2> QED
    BY <2>2, <2>3, FourSides, FS_Subset
<1>8. PICK side : side = SideOf(pref, D, c)
  OBVIOUS
<1>9. side \in Sides /\ (D # Sides => side \notin D) /\ (D = Sides => side = chain_side)
  BY <1>7, <1>8, SideGiven
<1>10. Wanted(c) = WantedOf(pref, c)
  BY DEF Wanted, WantedOf
<1>11. PICK anchor : anchor = IF n + 1 > 4 THEN full[n] ELSE primary
  OBVIOUS
<1>12. Anchor = anchor
  <2>1. Cardinality(D) >= 4 <=> n >= 4
    BY <1>7, FourSides
  <2>2. n >= 4 => last_item = full[n]
    BY <1>2, <1>5 DEF Placing
  <2> QED
    BY <1>6, <1>11, <2>1, <2>2, FourSides DEF Anchor
<1>13. PICK spot : spot = [connector |-> c, side |-> side, anchor |-> anchor]
  OBVIOUS
<1>14. /\ placed' = Append(placed, spot)
       /\ DOMAIN occupied' = D \cup {side}
       /\ last_item' = c /\ configured' = configured \cup {c} /\ ordered' = Tail(ordered)
       /\ ordered # <<>>
       /\ UNCHANGED <<stage, connected, pref, attach_stack, primary, layout>>
  <2>1. PICK free : free = Only(SIDES, Sides \ D)
    OBVIOUS
  <2>2. Free = free
    BY <1>6, <2>1 DEF Free
  <2>3. (free = <<>> <=> D = Sides) /\ (free # <<>> => free[1] \in Sides \ D)
    BY <1>7, <2>1, FreeSides
  <2>4. (IF Free = <<>> THEN chain_side ELSE Side(c)) = side
    BY <1>6, <1>8, <1>10, <2>1, <2>2 DEF Side, SideOf
  <2>5. /\ placed' = Append(placed, spot)
        /\ occupied' = IF free = <<>> THEN occupied
                       ELSE [s \in DOMAIN occupied \cup {side} |-> IF s = side THEN c ELSE occupied[s]]
        /\ last_item' = c /\ configured' = configured \cup {c} /\ ordered' = Tail(ordered)
        /\ ordered # <<>>
        /\ UNCHANGED <<stage, connected, pref, attach_stack, primary, layout>>
    BY <1>4, <1>12, <1>13, <2>2, <2>4 DEF Place, hwVars, orderVars
  <2>6. DOMAIN occupied' = D \cup {side}
    BY <1>6, <1>9, <2>3, <2>5
  <2> QED
    BY <2>5, <2>6
<1>15. /\ Len(ordered) \in Nat /\ Len(ordered) # 0 /\ c = ordered[1] /\ c \in Heads
       /\ Tail(ordered) \in Seq(Heads) /\ Len(Tail(ordered)) = Len(ordered) - 1
       /\ \A i \in 1..Len(Tail(ordered)) : Tail(ordered)[i] = ordered[i + 1]
  <2>1. PICK o \in Seq(Heads) : o = ordered
    BY <1>2 DEF Placing
  <2>2. o # <<>>
    BY <1>14, <2>1
  <2>3. /\ Head(o) \in Heads /\ Tail(o) \in Seq(Heads) /\ Len(Tail(o)) = Len(o) - 1
        /\ \A i \in 1..Len(Tail(o)) : Tail(o)[i] = o[i + 1]
    BY <2>2, HeadTailProperties
  <2>4. Len(o) \in Nat /\ Len(o) # 0 /\ Head(o) = o[1]
    BY <2>2, EmptySeq, LenProperties
  <2> QED
    BY <1>4, <2>1, <2>3, <2>4
<1>16. /\ n + Len(ordered) = Len(full) /\ Len(full) \in Nat
       /\ \A i \in 1..Len(ordered) : ordered[i] = full[n + i]
       /\ c = full[n + 1]
  BY <1>2, <1>3, <1>5, <1>15, LenProperties DEF Placing
<1>17. spot \in Spot
  <2>1. primary \in Heads
    BY <1>2, PrimaryConnected
  <2>2. n + 1 > 4 => full[n] \in Heads
    <3>1. n + 1 > 4 => n \in 1..Len(full)
      BY <1>15, <1>16
    <3> QED
      BY <1>3, <3>1, ElementOfSeq
  <2>3. anchor \in Heads
    BY <1>11, <2>1, <2>2
  <2> QED
    BY <1>9, <1>13, <1>15, <2>3 DEF Spot
<1>18. /\ placed' \in Seq(Spot) /\ Len(placed') = n + 1 /\ placed'[n + 1] = spot
       /\ \A i \in 1..n : placed'[i] = placed[i]
  <2>1. PICK p \in Seq(Spot) : p = placed
    BY <1>2 DEF Placing
  <2>2. /\ Append(p, spot) \in Seq(Spot) /\ Len(Append(p, spot)) = Len(p) + 1
        /\ Append(p, spot)[Len(p) + 1] = spot /\ \A i \in 1..Len(p) : Append(p, spot)[i] = p[i]
    BY <1>17, AppendProperties
  <2> QED
    BY <1>5, <1>14, <2>1, <2>2
<1>19. Len(ordered') = Len(ordered) - 1
       /\ \A i \in 1..Len(ordered') : ordered'[i] = full[(n + 1) + i]
  <2>1. Len(ordered') = Len(ordered) - 1
    BY <1>14, <1>15
  <2>2. ASSUME NEW i \in 1..Len(ordered') PROVE ordered'[i] = full[(n + 1) + i]
    <3>1. i + 1 \in 1..Len(ordered) /\ ordered'[i] = ordered[i + 1] /\ n + (i + 1) = (n + 1) + i
      BY <1>14, <1>15, <2>1
    <3> QED
      BY <1>16, <3>1
  <2> QED
    BY <2>1, <2>2
<1>20. 1..(n + 1) = 1..n \cup {n + 1} /\ n + 1 \notin 1..n
  OBVIOUS
<1>21. /\ \A m \in 0..n : Taken(placed', m) = Taken(placed, m)
       /\ Taken(placed', n + 1) = D \cup {side}
  <2>1. \A m \in 0..n : Taken(placed', m) = Taken(placed, m)
    BY <1>18 DEF Taken
  <2>2. Taken(placed', n + 1) = Taken(placed', n) \cup {spot.side}
    BY <1>18, <1>20 DEF Taken
  <2> QED
    BY <1>7, <1>13, <2>1, <2>2
<1>22. Run(placed', full, primary', pref')
  <2> SUFFICES ASSUME NEW i \in 1..(n + 1)
               PROVE  placed'[i] = [connector |-> full[i],
                                    side |-> SideOf(pref, Taken(placed', i - 1), full[i]),
                                    anchor |-> IF i > 4 THEN full[i-1] ELSE primary]
    BY <1>14, <1>18 DEF Run
  <2>1. CASE i = n + 1
    <3>1. i - 1 = n /\ Taken(placed', i - 1) = D
      BY <1>7, <1>21, <2>1
    <3> QED
      BY <1>8, <1>11, <1>13, <1>16, <1>18, <2>1, <3>1
  <2>2. CASE i \in 1..n
    <3>1. Taken(placed', i - 1) = Taken(placed, i - 1) /\ placed'[i] = placed[i]
      BY <1>18, <1>21, <2>2
    <3>2. i \in 1..Len(placed) /\ Run(placed, full, primary, pref)
      BY <1>2, <1>5, <2>2 DEF Placing
    <3> QED
      BY <3>1, <3>2 DEF Run
  <2> QED
    BY <1>20, <2>1, <2>2
<1>23. /\ n + 1 <= 4 => Cardinality(D \cup {side}) = n + 1
       /\ n + 1 >= 4 => D \cup {side} = Sides
  <2>1. n < 4 => Cardinality(D \cup {side}) = n + 1
    <3> HAVE n < 4
    <3>1. D # Sides
      BY <1>7, FourSides
    <3> QED
      BY <1>7, <1>9, <3>1, FS_AddElement
  <2>2. n + 1 = 4 => D \cup {side} = Sides
    <3> HAVE n + 1 = 4
    <3>1. Cardinality(D \cup {side}) = 4 /\ D \cup {side} \in SUBSET Sides
      BY <1>7, <1>9, <2>1
    <3> QED
      BY <3>1, FourSides, FS_Subset
  <2>3. n >= 4 => D \cup {side} = Sides
    BY <1>7, <1>9
  <2> QED
    BY <2>1, <2>2, <2>3
<1>24. \A i, j \in 1..(n + 1) : i < j /\ j <= 4 => placed'[i].side # placed'[j].side
  <2> SUFFICES ASSUME NEW i \in 1..(n + 1), NEW j \in 1..(n + 1), i < j, j <= 4
               PROVE  placed'[i].side # placed'[j].side
    OBVIOUS
  <2>1. i \in 1..n /\ placed'[i] = placed[i]
    BY <1>18
  <2>2. CASE j \in 1..n
    BY <1>2, <1>5, <1>18, <2>1, <2>2 DEF Placing
  <2>3. CASE j = n + 1
    <3>1. D # Sides
      BY <1>7, <2>3, FourSides
    <3>2. placed'[j].side = side /\ placed[i].side \in D
      BY <1>7, <1>13, <1>18, <2>1, <2>3 DEF Taken
    <3> QED
      BY <1>9, <2>1, <3>1, <3>2
  <2> QED
    BY <1>20, <2>2, <2>3
<1>25. configured' = {primary'} \cup {placed'[i].connector : i \in 1..(n + 1)}
  <2>1. configured = {primary} \cup {placed[i].connector : i \in 1..n}
    BY <1>2, <1>5 DEF Placing
  <2>2. {placed'[i].connector : i \in 1..(n + 1)} = {placed[i].connector : i \in 1..n} \cup {c}
    BY <1>13, <1>18, <1>20
  <2> QED
    BY <1>14, <2>1, <2>2
<1>26. PlaceInv'
  <2>1. DOMAIN occupied' = Taken(placed', Len(placed'))
    BY <1>14, <1>18, <1>21
  <2>2. Len(placed') + Len(ordered') = Len(full) /\ ordered' \in Seq(Heads)
    BY <1>14, <1>15, <1>16, <1>18, <1>19
  <2>3. last_item' = full[Len(placed')]
    BY <1>14, <1>16, <1>18
  <2>4. /\ Len(placed') <= 4 => Cardinality(DOMAIN occupied') = Len(placed')
        /\ Len(placed') >= 4 => DOMAIN occupied' = Sides
    BY <1>14, <1>18, <1>23
  <2>5. Placing(full)'
    BY <1>18, <1>19, <1>22, <1>24, <1>25, <2>1, <2>2, <2>3, <2>4 DEF Placing
  <2>6. full = OrderOf(attach_stack', connected')
    BY <1>1, <1>14
  <2> QED
    BY <1>2, <1>14, <2>5, <2>6 DEF PlaceInv
<1>27. SideLostOnlyToNewer'
  <2>1. DOMAIN placed' = 1..(n + 1) /\ DOMAIN placed = 1..n
    BY <1>2, <1>5, <1>18, LenProperties DEF Placing
  <2>2. \A x : Wanted(x)' = Wanted(x)
    BY <1>14 DEF Wanted
  <2> SUFFICES ASSUME NEW i \in 1..(n + 1), i <= 4
               PROVE  \E j \in 1..i : /\ placed'[j].side = Wanted(placed'[i].connector)
                                      /\ placed'[j].anchor = primary
    BY <1>14, <2>1, <2>2, FourSides DEF SideLostOnlyToNewer
  <2>3. CASE i \in 1..n
    <3>1. PICK j \in 1..i : placed[j].side = Wanted(placed[i].connector) /\ placed[j].anchor = primary
      BY <1>2, <2>1, <2>3, FourSides DEF IInv, SideLostOnlyToNewer
    <3>2. j \in 1..n
      BY <2>3
    <3> QED
      BY <1>18, <2>3, <3>1, <3>2
  <2>4. CASE i = n + 1
    <3>1. placed'[i].connector = c /\ placed'[i].side = side /\ placed'[i].anchor = primary
      BY <1>11, <1>13, <1>18, <2>4
    <3>2. CASE WantedOf(pref, c) \in D
      <4>1. PICK j \in 1..n : placed[j].side = WantedOf(pref, c)
        BY <1>7, <3>2 DEF Taken
      <4>2. placed[j].anchor = primary
        <5>1. j \in 1..Len(placed) /\ ~(j > 4) /\ Run(placed, full, primary, pref)
          BY <1>2, <1>5, <2>4 DEF Placing
        <5>2. placed[j].anchor = IF j > 4 THEN full[j-1] ELSE primary
          BY <5>1, RunFields
        <5> QED
          BY <5>1, <5>2
      <4>3. j \in 1..i /\ placed'[j] = placed[j]
        BY <1>18, <2>4
      <4> QED
        BY <1>10, <3>1, <4>1, <4>2, <4>3
    <3>3. CASE WantedOf(pref, c) \notin D
      <4>1. PICK free : free = Only(SIDES, Sides \ D)
        OBVIOUS
      <4>2. free # <<>>
        BY <1>7, <3>3, <4>1, FreeSides, SideGiven
      <4>3. side = WantedOf(pref, c)
        BY <1>8, <3>3, <4>1, <4>2 DEF SideOf
      <4>4. i \in 1..i
        OBVIOUS
      <4> QED
        BY <1>10, <3>1, <4>3, <4>4
    <3> QED
      BY <3>2, <3>3
  <2> QED
    BY <1>20, <2>3, <2>4
<1>28. Typing' /\ ResolveInv' /\ LayoutInv' /\ EveryHeadConfigured'
  BY <1>2, <1>14 DEF IInv, Typing, ResolveInv, LayoutInv, EveryHeadConfigured
<1> QED
  BY <1>26, <1>27, <1>28 DEF IInv

(* An apply is over: every external has been placed. *)
LEMMA DoneKeeps == IInv /\ Done => IInv'
<1> SUFFICES ASSUME IInv, Done PROVE IInv'
  OBVIOUS
<1>1. /\ stage = "place" /\ ordered = <<>> /\ stage' = "rest"
      /\ layout' = [connected |-> connected, pref |-> pref, configured |-> configured,
                    placed |-> placed]
      /\ fresh' = <<>> /\ conns' = [p \in Profiles |-> <<>>] /\ DOMAIN occupied' = {}
      /\ placed' = <<>> /\ ordered' = ordered
      /\ UNCHANGED <<connected, pref, attach_stack>>
  BY DEF Done, Finish, hwVars
<1>2. /\ connected \in SUBSET Heads /\ connected # {} /\ primary = PrimaryOf(connected)
      /\ attach_stack \in Seq(Profiles) /\ Distinct(attach_stack) /\ MatchOf(connected) = {}
  BY <1>1 DEF IInv, Typing
<1>3. PICK full : full = OrderOf(attach_stack, connected)
  OBVIOUS
<1>4. Placing(full) /\ Range(attach_stack) = PidsOf(connected)
  BY <1>1, <1>3 DEF IInv, PlaceInv
<1>5. full \in Seq(Heads) /\ Range(full) = Externals(connected)
  BY <1>2, <1>3, <1>4, OrderOfExternals
<1>6. Len(placed) = Len(full) /\ Len(full) \in Nat
  BY <1>1, <1>4, <1>5, EmptySeq, LenProperties DEF Placing
<1>7. /\ layout'.connected = connected /\ layout'.pref = pref /\ layout'.configured = configured
      /\ layout'.placed = placed
  BY <1>1
<1>8. configured = connected
  <2>1. \A i \in 1..Len(placed) : placed[i].connector = full[i]
    <3>1. Run(placed, full, primary, pref)
      BY <1>4 DEF Placing
    <3> QED
      BY <3>1, RunFields
  <2>2. Range(full) = {full[i] : i \in 1..Len(placed)}
    BY <1>5, <1>6, RangeOf
  <2>3. {placed[i].connector : i \in 1..Len(placed)} = Externals(connected)
    BY <1>5, <2>1, <2>2
  <2>4. primary \in connected
    BY <1>2, PrimaryConnected
  <2> QED
    BY <1>2, <1>4, <2>3, <2>4 DEF Placing, Externals
<1>9. EveryHeadConfigured'
  BY <1>7, <1>8 DEF EveryHeadConfigured
<1>10. LayoutInv'
  <2>1. placed \in Seq(Spot) /\ Run(placed, full, primary, pref)
    BY <1>4 DEF Placing
  <2> QED
    BY <1>1, <1>2, <1>3, <1>4, <1>6, <1>7, <2>1 DEF LayoutInv
<1>11. Typing'
  BY <1>1, <1>2 DEF Typing
<1>12. ResolveInv' /\ PlaceInv' /\ SideLostOnlyToNewer'
  BY <1>1 DEF ResolveInv, PlaceInv, SideLostOnlyToNewer
<1> QED
  BY <1>9, <1>10, <1>11, <1>12 DEF IInv

(* Every step preserves the invariant. *)
LEMMA NextIInv == IInv /\ [PlacementNext]_placementVars => IInv'
<1> SUFFICES ASSUME IInv, [PlacementNext]_placementVars PROVE IInv'
  OBVIOUS
<1>1. connected \in SUBSET Heads
  BY DEF IInv, Typing
<1>2. ASSUME NEW c \in Heads, Plug(c) PROVE IInv'
  BY <1>1, <1>2, RestKeeps DEF Plug
<1>3. ASSUME NEW p \in Profiles, NEW side \in Sides, SetSide(p, side) PROVE IInv'
  BY <1>1, <1>3, RestKeeps DEF SetSide
<1>4. CASE UNCHANGED placementVars
  <2>1. UNCHANGED <<stage, connected, pref, attach_stack, primary, todo, fresh, conns, ordered,
                    occupied, last_item, placed, configured, layout>>
    BY <1>4 DEF placementVars, hwVars, orderVars, placeVars
  <2>2. Typing' /\ ResolveInv'
    BY <2>1 DEF IInv, Typing, ResolveInv
  <2>3. PlaceInv'
    BY <2>1 DEF IInv, PlaceInv, Placing
  <2>4. SideLostOnlyToNewer'
    BY <2>1 DEF IInv, SideLostOnlyToNewer, Wanted
  <2>5. LayoutInv' /\ EveryHeadConfigured'
    BY <2>1 DEF IInv, LayoutInv, EveryHeadConfigured
  <2> QED
    BY <2>2, <2>3, <2>4, <2>5 DEF IInv
<1> QED
  BY <1>2, <1>3, <1>4, ApplyKeeps, ResolveKeeps, OrderKeeps, PlaceKeeps, DoneKeeps
  DEF PlacementNext

(* The invariant of all applies. *)
LEMMA Always == PlacementSpec => []IInv
  BY InitIInv, NextIInv, PTL DEF PlacementSpec

(***************************************************************************)
(* What follows from it.                                                   *)
(***************************************************************************)
(* The placements made so far, one by one. *)
LEMMA PlacedSoFar ==
  ASSUME IInv
  PROVE  /\ DOMAIN placed = 1..Len(placed) /\ Len(placed) \in Nat
         /\ \A i \in 1..Len(placed) : i <= 4 => placed[i].anchor = primary
         /\ \A i \in 1..Len(placed) : i > 4 =>
              /\ placed[i].anchor = placed[i-1].connector /\ placed[i].side = chain_side
         /\ \A i, j \in 1..Len(placed) : i < j /\ j <= 4 => placed[i].side # placed[j].side
         /\ \A i, j \in 1..Len(placed) : placed[i].connector = placed[j].connector => i = j
         /\ \A i \in 1..Len(placed) : placed[i].connector # primary
<1>1. CASE stage # "place"
  <2>1. placed = <<>>
    BY <1>1 DEF IInv, Typing
  <2>2. Len(placed) = 0 /\ DOMAIN placed = {}
    BY <2>1, EmptySeq
  <2> QED
    BY <2>2
<1>2. CASE stage = "place"
  <2>1. PICK full : full = OrderOf(attach_stack, connected)
    OBVIOUS
  <2>2. /\ Placing(full) /\ Range(attach_stack) = PidsOf(connected) /\ connected \in SUBSET Heads
        /\ primary = PrimaryOf(connected) /\ attach_stack \in Seq(Profiles) /\ Distinct(attach_stack)
    BY <1>2, <2>1 DEF IInv, PlaceInv, Typing
  <2>3. full \in Seq(Heads) /\ Distinct(full) /\ Range(full) = Externals(connected)
    BY <2>1, <2>2, OrderOfExternals
  <2>4. PICK n \in Nat : n = Len(placed)
    BY <2>2, LenProperties DEF Placing
  <2>5. n <= Len(full) /\ Len(full) \in Nat /\ DOMAIN placed = 1..n
    BY <2>2, <2>3, <2>4, LenProperties DEF Placing
  <2>6. Run(placed, full, primary, pref)
    BY <2>2 DEF Placing
  <2>7. /\ \A i \in 1..n : placed[i].connector = full[i]
        /\ \A i \in 1..n : placed[i].anchor = IF i > 4 THEN full[i-1] ELSE primary
        /\ \A i \in 1..n : placed[i].side = SideOf(pref, Taken(placed, i - 1), full[i])
    BY <2>4, <2>6, RunFields
  <2>8. \A i \in 1..n : placed[i].side \in Sides
    <3>1. \A i \in 1..n : placed[i] \in Spot
      BY <2>2, <2>4, ElementOfSeq DEF Placing
    <3> QED
      BY <3>1 DEF Spot
  <2>9. \A i, j \in 1..n : i < j /\ j <= 4 => placed[i].side # placed[j].side
    BY <2>2, <2>4 DEF Placing
  <2>10. ASSUME NEW i \in 1..n, i > 4 PROVE placed[i].side = chain_side
    <3>1. Taken(placed, i - 1) \subseteq Sides
      BY <2>8 DEF Taken
    <3>2. Taken(placed, 4) \subseteq Taken(placed, i - 1)
      BY <2>10 DEF Taken
    <3>3. Taken(placed, 4) = Sides
      <4>1. \A k \in {1, 2, 3, 4} : k \in 1..n
        BY <2>10
      <4>2. /\ placed[1].side # placed[2].side /\ placed[1].side # placed[3].side
            /\ placed[1].side # placed[4].side /\ placed[2].side # placed[3].side
            /\ placed[2].side # placed[4].side /\ placed[3].side # placed[4].side
        BY <2>9, <4>1
      <4>3. PICK a, b, c, d : a = placed[1].side /\ b = placed[2].side /\ c = placed[3].side /\ d = placed[4].side
        OBVIOUS
      <4>4. Taken(placed, 4) = {a} \cup {b} \cup {c} \cup {d}
        <5>1. 1..4 = {1, 2, 3, 4}
          OBVIOUS
        <5> QED
          BY <4>3, <5>1 DEF Taken
      <4>5. PICK A, B, C : A = {a} /\ B = A \cup {b} /\ C = B \cup {c}
        OBVIOUS
      <4>6. IsFiniteSet(A) /\ Cardinality(A) = 1
        BY <4>5, FS_Singleton
      <4>7. b \notin A /\ c \notin B /\ d \notin C
        BY <4>2, <4>3, <4>5
      <4>8. IsFiniteSet(Taken(placed, 4)) /\ Cardinality(Taken(placed, 4)) = 4
        <5>1. IsFiniteSet(B) /\ Cardinality(B) = 2
          BY <4>5, <4>6, <4>7, FS_AddElement
        <5>2. IsFiniteSet(C) /\ Cardinality(C) = 3
          BY <4>5, <4>7, <5>1, FS_AddElement
        <5>3. IsFiniteSet(C \cup {d}) /\ Cardinality(C \cup {d}) = 4
          BY <4>7, <5>2, FS_AddElement
        <5> QED
          BY <4>4, <4>5, <5>3
      <4>9. Taken(placed, 4) \in SUBSET Sides
        BY <3>1, <3>2
      <4> QED
        BY <4>8, <4>9, FourSides, FS_Subset
    <3>4. Taken(placed, i - 1) = Sides
      BY <3>1, <3>2, <3>3
    <3> QED
      BY <2>7, <3>4, SideGiven
  <2>11. \A i, j \in 1..n : placed[i].connector = placed[j].connector => i = j
    BY <2>3, <2>5, <2>7 DEF Distinct
  <2>12. \A i \in 1..n : placed[i].connector # primary
    <3>1. \A i \in 1..n : full[i] \in Range(full)
      BY <2>3, <2>5, RangeOf
    <3> QED
      BY <2>2, <2>3, <2>7, <3>1 DEF Externals
  <2>13. \A i \in 1..n : i > 4 => placed[i].anchor = placed[i-1].connector
    BY <2>7
  <2>14. \A i \in 1..n : i <= 4 => placed[i].anchor = primary
    BY <2>7
  <2> QED
    BY <2>4, <2>5, <2>9, <2>10, <2>11, <2>12, <2>13, <2>14
<1> QED
  BY <1>1, <1>2

(* No two externals are put on the same side of the same head, however many     *)
(* there are and whatever sides they want (policy.py:22).                       *)
THEOREM SpotsAlwaysDistinct == PlacementSpec => []SpotsDistinct
<1>1. IInv => SpotsDistinct
  <2> SUFFICES ASSUME IInv, NEW i \in 1..Len(placed), NEW j \in 1..Len(placed), i < j,
                      placed[i].side = placed[j].side, placed[i].anchor = placed[j].anchor
               PROVE  FALSE
    BY PlacedSoFar DEF SpotsDistinct
  <2>1. Len(placed) \in Nat
    BY PlacedSoFar
  <2>2. CASE j <= 4
    BY <2>2, PlacedSoFar
  <2>3. CASE j > 4
    <3>1. j - 1 \in 1..Len(placed) /\ placed[j].anchor = placed[j-1].connector
      BY <2>1, <2>3, PlacedSoFar
    <3>2. CASE i <= 4
      BY <3>1, <3>2, PlacedSoFar
    <3>3. CASE i > 4
      <4>1. i - 1 \in 1..Len(placed) /\ placed[i].anchor = placed[i-1].connector
        BY <2>1, <3>3, PlacedSoFar
      <4>2. i - 1 = j - 1
        BY <3>1, <4>1, PlacedSoFar
      <4> QED
        BY <2>1, <4>2
    <3> QED
      BY <2>1, <3>2, <3>3
  <2> QED
    BY <2>1, <2>2, <2>3
<1> QED
  BY <1>1, Always, PTL

(* Every external is put next to a head whose own place is already decided.     *)
THEOREM AnchorsAlwaysPlacedFirst == PlacementSpec => []AnchorsPlacedFirst
<1>1. IInv => AnchorsPlacedFirst
  <2> SUFFICES ASSUME IInv, NEW i \in 1..Len(placed)
               PROVE  placed[i].anchor \in {primary} \cup {placed[j].connector : j \in 1..i - 1}
    BY PlacedSoFar DEF AnchorsPlacedFirst
  <2>1. Len(placed) \in Nat
    BY PlacedSoFar
  <2>2. CASE i <= 4
    BY <2>2, PlacedSoFar
  <2>3. CASE i > 4
    <3>1. placed[i].anchor = placed[i-1].connector
      BY <2>3, PlacedSoFar
    <3>2. i - 1 \in 1..i - 1
      BY <2>1, <2>3
    <3> QED
      BY <3>1, <3>2
  <2> QED
    BY <2>1, <2>2, <2>3
<1> QED
  BY <1>1, Always, PTL

(* A head beside the primary is off its wanted side only if a newer one has it, *)
(* for any number of heads and any preferences (policy.py:27).                  *)
THEOREM WantedSideLostOnlyToNewer == PlacementSpec => []SideLostOnlyToNewer
<1>1. IInv => SideLostOnlyToNewer
  BY DEF IInv
<1> QED
  BY <1>1, Always, PTL

(* After a finished apply every head it saw has been given a command, also when *)
(* a layout profile took over (profiles.py:91).                                 *)
THEOREM EveryHeadAlwaysConfigured == PlacementSpec => []EveryHeadConfigured
<1>1. IInv => EveryHeadConfigured
  BY DEF IInv
<1> QED
  BY <1>1, Always, PTL

(* Applying again with the same heads and preferences places nothing anew, in   *)
(* whatever order RandR reports the heads and whatever was plugged in between.  *)
THEOREM PlacementAlwaysStable == PlacementSpec => PlacementStable
<1> DEFINE A == (layout.connected = layout'.connected /\ layout.pref = layout'.pref)
                  => layout'.placed = layout.placed
<1>1. IInv /\ [PlacementNext]_placementVars => [A]_layout
  <2> SUFFICES ASSUME IInv, PlacementNext, layout' # layout,
                      layout.connected = layout'.connected, layout.pref = layout'.pref
               PROVE  layout'.placed = layout.placed
    BY DEF placementVars
  <2>1. CASE Apply /\ match_profile # {}
    <3>1. layout'.connected = connected /\ layout'.placed = <<>>
      BY <2>1 DEF Apply, Finish
    <3>2. MatchOf(layout.connected) # {}
      BY <2>1, <3>1 DEF match_profile, MatchOf
    <3> QED
      BY <3>1, <3>2 DEF IInv, LayoutInv
  <2>2. CASE Done
    <3>1. /\ stage = "place" /\ ordered = <<>>
          /\ layout' = [connected |-> connected, pref |-> pref, configured |-> configured,
                        placed |-> placed]
      BY <2>2 DEF Done, Finish
    <3>2. layout.connected = connected /\ layout.pref = pref /\ layout'.placed = placed
      BY <3>1
    <3>3. connected # {} /\ MatchOf(connected) = {} /\ primary = PrimaryOf(connected)
      BY <3>1 DEF IInv, Typing
    <3>4. PICK full : full = OrderOf(attach_stack, connected)
      OBVIOUS
    <3>5. PICK old : old = layout.placed
      OBVIOUS
    <3>6. old \in Seq(Spot) /\ Len(old) = Len(full) /\ Run(old, full, primary, pref)
      BY <3>1, <3>2, <3>3, <3>4, <3>5 DEF IInv, LayoutInv
    <3>7. placed \in Seq(Spot) /\ Run(placed, full, primary, pref) /\ Len(placed) + Len(ordered) = Len(full)
      BY <3>1, <3>4 DEF IInv, PlaceInv, Placing
    <3>8. Len(placed) = Len(old)
      <4>1. Len(ordered) = 0 /\ Len(placed) \in Nat
        BY <3>1, <3>7, EmptySeq, LenProperties
      <4> QED
        BY <3>6, <3>7, <4>1
    <3>9. placed = old
      BY <3>6, <3>7, <3>8, RunUnique
    <3> QED
      BY <3>2, <3>5, <3>9
  <2> QED
    BY <2>1, <2>2 DEF PlacementNext, Apply, Order, Place, Plug, Resolve, SetSide
<1> QED
  BY <1>1, Always, PTL DEF PlacementSpec, PlacementStable
=============================================================================
