----------------------------- MODULE ChurnProofs -----------------------------
(***************************************************************************)
(* Machine-checked proofs about Churn, for any window, threshold, base,    *)
(* growth, decay and limit.                                                *)
(***************************************************************************)
EXTENDS Churn, SubsequencesProofs

(***************************************************************************)
(* Arithmetic.                                                             *)
(***************************************************************************)
(* The lesser of two numbers. *)
LEMMA LesserOfTwo ==
  ASSUME NEW a \in Nat, NEW b \in Nat
  PROVE  /\ Min({a, b}) \in Nat /\ Min({a, b}) \in {a, b}
         /\ Min({a, b}) <= a /\ Min({a, b}) <= b
<1>1. \E x \in {a, b} : \A y \in {a, b} : x <= y
  <2>1. CASE a <= b
    BY <2>1
  <2>2. CASE ~ (a <= b)
    BY <2>2
  <2> QED
    BY <2>1, <2>2
<1>2. Min({a, b}) \in {a, b} /\ \A y \in {a, b} : Min({a, b}) <= y
  BY <1>1 DEF Min
<1> QED
  BY <1>2

(* A multiple that fits below w counts at most w \div b. *)
LEMMA FitsIn ==
  ASSUME NEW b \in Nat \ {0}, NEW w \in Nat, NEW n \in Nat, b * n <= w
  PROVE  n <= w \div b
<1>1. PICK q \in Nat : q = w \div b
  OBVIOUS
<1>2. w < b * (q + 1)
  BY <1>1
<1>3. CASE n > q
  <2>1. PICK d \in Nat : n = q + 1 + d
    <3>1. n - (q + 1) \in Nat /\ n = q + 1 + (n - (q + 1))
      BY <1>3
    <3> QED
      BY <3>1
  <2>2. b * n = b * (q + 1) + b * d /\ b * d \in Nat
    BY <2>1
  <2> QED
    BY <1>2, <2>2
<1> QED
  BY <1>1, <1>3

(***************************************************************************)
(* Lists of ages.                                                          *)
(***************************************************************************)
Ages == 0..(WINDOW + 1)

(* Of two entries the older is older by a base, or of an age that no longer counts. *)
Spaced(ts) == \A i, j \in 1..Len(ts) : i < j => ts[i] = WINDOW + 1 \/ ts[i] >= ts[j] + BASE

(* Entries that all count, and lie a base apart, fit into the window. *)
LEMMA SpacedFit ==
  ASSUME NEW ts \in Seq(Ages), Spaced(ts), \A i \in 1..Len(ts) : ts[i] <= WINDOW
  PROVE  Len(ts) <= (WINDOW \div BASE) + 1
<1>1. Len(ts) \in Nat /\ \A i \in 1..Len(ts) : ts[i] \in Ages /\ ts[i] \in Nat
  BY ChurnAssumption, LenProperties, ElementOfSeq DEF Ages
<1>2. /\ WINDOW \in Nat /\ BASE \in Nat \ {0}
      /\ \A i, j \in 1..Len(ts) : i < j => ts[i] >= ts[j] + BASE
  BY <1>1, ChurnAssumption DEF Spaced
<1> DEFINE T == {n \in Nat : n < Len(ts) => ts[Len(ts) - n] >= BASE * n}
<1>3. 0 \in T
  BY <1>1, <1>2
<1>4. ASSUME NEW n \in Nat, n \in T PROVE n + 1 \in T
  <2> SUFFICES ASSUME n + 1 < Len(ts) PROVE ts[Len(ts) - (n + 1)] >= BASE * (n + 1)
    OBVIOUS
  <2>1. PICK i \in 1..Len(ts) : i = Len(ts) - (n + 1)
    <3>1. Len(ts) - (n + 1) \in 1..Len(ts)
      BY <1>1
    <3> QED
      BY <3>1
  <2>2. PICK j \in 1..Len(ts) : j = Len(ts) - n
    <3>1. Len(ts) - n \in 1..Len(ts)
      BY <1>1
    <3> QED
      BY <3>1
  <2>3. i < j /\ ts[i] >= ts[j] + BASE
    <3>1. i < j
      BY <1>1, <2>1, <2>2
    <3> QED
      BY <1>2, <3>1
  <2>4. ts[j] >= BASE * n
    BY <1>1, <1>4, <2>2
  <2>5. BASE * (n + 1) = BASE * n + BASE
    BY <1>2
  <2>6. ts[i] >= BASE * n + BASE
    <3>1. PICK m \in Nat : m = BASE * n
      BY <1>2
    <3> QED
      BY <1>1, <1>2, <2>3, <2>4, <3>1
  <2> QED
    BY <2>1, <2>5, <2>6
<1>5. Nat \subseteq T
  <2> HIDE DEF T
  <2> QED
    BY <1>3, <1>4, NatSetInduction
<1>6. PICK q \in Nat : q = WINDOW \div BASE
  BY <1>2
<1>7. CASE Len(ts) # 0
  <2>1. PICK n \in Nat : n = Len(ts) - 1
    BY <1>1, <1>7
  <2>2. n < Len(ts) /\ 1 \in 1..Len(ts) /\ Len(ts) - n = 1
    BY <1>1, <1>7, <2>1
  <2>3. ts[1] >= BASE * n
    BY <1>5, <2>2
  <2>4. BASE * n <= WINDOW
    <3>1. PICK m \in Nat : m = BASE * n
      BY <1>2
    <3> QED
      BY <1>1, <1>2, <2>2, <2>3, <3>1
  <2>5. n <= q
    BY <1>2, <1>6, <2>4, FitsIn
  <2> QED
    BY <1>1, <1>6, <2>1, <2>5
<1> QED
  BY <1>1, <1>6, <1>7

(***************************************************************************)
(* The invariant.                                                          *)
(***************************************************************************)
(* What an entry waited: the sleep that followed it is over, or still runs. *)
Waited ==
  Len(ages) # 0 => \/ ages[Len(ages)] = WINDOW + 1
                   \/ ages[Len(ages)] + sleep >= BASE

TypeInv == ages \in Seq(Ages) /\ backoff \in 0..CAP /\ sleep \in 0..(BASE + CAP)

SpacingInv == Spaced(ages) /\ Waited

IInv == TypeInv /\ SpacingInv /\ TimesBounded /\ BackoffKeepsUp

(* Before the first change nothing was noted. *)
LEMMA InitIInv == ChurnInit => IInv
<1> SUFFICES ASSUME ChurnInit PROVE IInv
  OBVIOUS
<1>1. ages = <<>> /\ Len(ages) = 0 /\ ages \in Seq(Ages) /\ backoff = 0 /\ sleep = 0
  BY EmptySeq DEF ChurnInit
<1>2. TypeInv
  BY <1>1, ChurnAssumption DEF TypeInv
<1>3. SpacingInv
  BY <1>1 DEF SpacingInv, Spaced, Waited
<1>4. TimesBounded
  <2>1. PICK q \in Nat : q = WINDOW \div BASE
    BY ChurnAssumption
  <2> QED
    BY <1>1, <2>1 DEF TimesBounded
<1>5. BackoffKeepsUp
  BY <1>1, ChurnAssumption DEF BackoffKeepsUp
<1> QED
  BY <1>2, <1>3, <1>4, <1>5 DEF IInv

(* A tick ages every entry alike, up to the age where it no longer counts. *)
LEMMA TickKeeps == IInv /\ Tick => IInv'
<1> SUFFICES ASSUME IInv, Tick PROVE IInv'
  OBVIOUS
<1>1. /\ WINDOW \in Nat /\ BASE \in Nat /\ CAP \in Nat
      /\ Len(ages) \in Nat /\ DOMAIN ages = 1..Len(ages)
      /\ \A i \in 1..Len(ages) : ages[i] \in Nat /\ ages[i] <= WINDOW + 1
  BY ChurnAssumption, LenProperties, ElementOfSeq DEF IInv, TypeInv, Ages
<1>2. sleep' = (IF sleep > 0 THEN sleep - 1 ELSE 0) /\ backoff' = backoff
  BY DEF Tick
<1>3. ages' = [i \in 1..Len(ages) |-> Min({ages[i] + 1, WINDOW + 1})]
  BY <1>1 DEF Tick
<1>4. \A i \in 1..Len(ages) :
        /\ ages'[i] \in Nat /\ ages'[i] <= WINDOW + 1 /\ ages'[i] <= ages[i] + 1
        /\ ages'[i] = WINDOW + 1 \/ ages'[i] = ages[i] + 1
  <2> SUFFICES ASSUME NEW i \in 1..Len(ages)
               PROVE  /\ ages'[i] \in Nat /\ ages'[i] <= WINDOW + 1 /\ ages'[i] <= ages[i] + 1
                      /\ ages'[i] = WINDOW + 1 \/ ages'[i] = ages[i] + 1
    OBVIOUS
  <2>1. PICK a \in Nat : a = ages[i] + 1
    BY <1>1
  <2>2. PICK b \in Nat : b = WINDOW + 1
    BY <1>1
  <2>3. ages'[i] = Min({a, b})
    BY <1>3, <2>1, <2>2
  <2> QED
    BY <2>1, <2>2, <2>3, LesserOfTwo
<1>5. ages' \in Seq(Ages) /\ Len(ages') = Len(ages)
  <2>1. \A i \in 1..Len(ages) : Min({ages[i] + 1, WINDOW + 1}) \in Ages
    BY <1>1, <1>3, <1>4 DEF Ages
  <2> QED
    BY <1>1, <1>3, <2>1, IsASeq, LenProperties
<1>6. TypeInv'
  BY <1>1, <1>2, <1>5 DEF IInv, TypeInv
<1>7. Spaced(ages)'
  <2> SUFFICES ASSUME NEW i \in 1..Len(ages), NEW j \in 1..Len(ages), i < j
               PROVE  ages'[i] = WINDOW + 1 \/ ages'[i] >= ages'[j] + BASE
    BY <1>5 DEF Spaced
  <2>1. ages[i] = WINDOW + 1 \/ ages[i] >= ages[j] + BASE
    BY DEF IInv, SpacingInv, Spaced
  <2> QED
    BY <1>1, <1>4, <2>1
<1>8. Waited'
  <2> SUFFICES ASSUME Len(ages) # 0
               PROVE  \/ ages'[Len(ages)] = WINDOW + 1
                      \/ ages'[Len(ages)] + sleep' >= BASE
    BY <1>5 DEF Waited
  <2>1. PICK n \in 1..Len(ages) : n = Len(ages)
    <3>1. Len(ages) \in 1..Len(ages)
      BY <1>1
    <3> QED
      BY <3>1
  <2>2. ages[n] = WINDOW + 1 \/ ages[n] + sleep >= BASE
    BY <2>1 DEF IInv, SpacingInv, Waited
  <2>3. sleep \in Nat
    BY <1>1 DEF IInv, TypeInv
  <2>4. PICK z \in Nat : z = sleep' /\ z + 1 >= sleep
    BY <1>2, <2>3
  <2>5. ages'[n] = WINDOW + 1 \/ ages'[n] + z >= BASE
    <3>1. PICK a \in Nat : a = ages[n]
      BY <1>1
    <3>2. PICK o \in Nat : o = ages'[n]
      BY <1>4
    <3>3. (a = WINDOW + 1 \/ a + sleep >= BASE) /\ (o = WINDOW + 1 \/ o = a + 1) /\ o <= WINDOW + 1
      BY <1>1, <1>4, <2>2, <3>1, <3>2
    <3>4. o = WINDOW + 1 \/ o + z >= BASE
      <4>1. PICK w \in Nat, b \in Nat, y \in Nat : w = WINDOW /\ b = BASE /\ y = sleep
        BY <1>1, <2>3
      <4>2. /\ a = w + 1 \/ a + y >= b
            /\ o = w + 1 \/ o = a + 1
            /\ o <= w + 1 /\ z + 1 >= y
        BY <2>4, <3>3, <4>1
      <4>3. o = w + 1 \/ o + z >= b
        BY <4>2
      <4> QED
        BY <4>1, <4>3
    <3> QED
      BY <3>2, <3>4
  <2> QED
    BY <2>1, <2>4, <2>5
<1>9. TimesBounded' /\ BackoffKeepsUp'
  BY <1>2, <1>5 DEF IInv, TimesBounded, BackoffKeepsUp
<1> QED
  BY <1>6, <1>7, <1>8, <1>9 DEF IInv, SpacingInv

(* A change comes when the last sleep is over: the entries that still count *)
(* are as many bases old as there are changes after them.                   *)
LEMMA ChangeKeeps == IInv /\ Change => IInv'
<1> SUFFICES ASSUME IInv, Change PROVE IInv'
  OBVIOUS
<1>1. /\ WINDOW \in Nat /\ BASE \in Nat \ {0} /\ CAP \in Nat /\ STEP \in Nat \ {0}
      /\ DECAY \in Nat /\ THRESHOLD \in Nat
      /\ ages \in Seq(Ages) /\ Len(ages) \in Nat
      /\ \A i \in 1..Len(ages) : ages[i] \in Nat /\ ages[i] <= WINDOW + 1
      /\ backoff \in Nat /\ backoff <= CAP
  BY ChurnAssumption, LenProperties, ElementOfSeq DEF IInv, TypeInv, Ages
<1>2. PICK u : u = Append(ages, 0)
  OBVIOUS
<1>3. /\ u \in Seq(Ages) /\ Len(u) = Len(ages) + 1 /\ u[Len(ages) + 1] = 0
      /\ \A i \in 1..Len(ages) : u[i] = ages[i]
  <2>1. 0 \in Ages
    BY <1>1 DEF Ages
  <2> QED
    BY <1>1, <1>2, <2>1, AppendProperties
<1>4. PICK J : J = {i \in 1..Len(u) : u[i] \in 0..WINDOW}
  OBVIOUS
<1>5. ages' \in Seq(Ages) /\ Len(ages') <= Len(u) /\ InOrder(ages', u, J)
  <2>1. ages' = Only(u, 0..WINDOW)
    BY <1>2 DEF Change, Prune
  <2> QED
    BY <1>3, <1>4, <2>1, OnlyProperties
<1>6. PICK n \in Nat : n = Len(ages')
  BY <1>5, LenProperties
<1>7. \A i \in 1..n : ages'[i] \in Nat /\ ages'[i] <= WINDOW
  <2> SUFFICES ASSUME NEW i \in 1..n PROVE ages'[i] \in Nat /\ ages'[i] <= WINDOW
    OBVIOUS
  <2>1. PICK k \in J : ages'[i] = u[k]
    BY <1>5, <1>6 DEF InOrder
  <2> QED
    BY <1>1, <1>4, <2>1
<1>8. /\ sleep = 0 /\ sleep' = BASE + backoff'
      /\ n > THRESHOLD => backoff' = Min({CAP, backoff + STEP})
      /\ ~ (n > THRESHOLD) => backoff' = IF backoff >= DECAY THEN backoff - DECAY ELSE 0
  BY <1>6 DEF Change, InExcess, Grown, Decayed
<1>9. /\ backoff' \in Nat /\ backoff' <= CAP
      /\ n > THRESHOLD => backoff' = CAP \/ backoff' = backoff + STEP
  <2>1. CASE n > THRESHOLD
    <3>1. PICK b \in Nat : b = backoff + STEP
      BY <1>1
    <3>2. backoff' = Min({CAP, b})
      BY <1>8, <2>1, <3>1
    <3>3. Min({CAP, b}) \in Nat /\ Min({CAP, b}) <= CAP /\ Min({CAP, b}) \in {CAP, b}
      BY <1>1, LesserOfTwo
    <3> QED
      BY <3>1, <3>2, <3>3
  <2>2. CASE ~ (n > THRESHOLD)
    BY <1>1, <1>8, <2>2
  <2> QED
    BY <2>1, <2>2
<1>10. PICK b \in Nat : b = backoff'
  BY <1>9
<1>11. TypeInv'
  <2>1. b <= CAP /\ sleep' = BASE + b
    BY <1>8, <1>9, <1>10
  <2>2. sleep' \in 0..(BASE + CAP)
    BY <1>1, <2>1
  <2>3. backoff' \in 0..CAP
    BY <1>1, <1>10, <2>1
  <2> QED
    BY <1>5, <2>2, <2>3 DEF TypeInv, Ages
<1>12. \A i \in 1..Len(ages) : ages[i] <= WINDOW => ages[i] >= BASE
  <2> SUFFICES ASSUME NEW i \in 1..Len(ages), ages[i] <= WINDOW PROVE ages[i] >= BASE
    OBVIOUS
  <2>1. PICK l \in 1..Len(ages) : l = Len(ages)
    BY <1>1
  <2>2. ages[l] = WINDOW + 1 \/ ages[l] >= BASE
    <3>1. ages[l] = WINDOW + 1 \/ ages[l] + 0 >= BASE
      BY <1>1, <1>8, <2>1 DEF IInv, SpacingInv, Waited
    <3> QED
      BY <1>1, <3>1
  <2>3. i = l \/ (i < l /\ (ages[i] = WINDOW + 1 \/ ages[i] >= ages[l] + BASE))
    <3>1. i = l \/ i < l
      BY <2>1
    <3> QED
      BY <3>1 DEF IInv, SpacingInv, Spaced
  <2> QED
    BY <1>1, <2>2, <2>3
<1>13. \A i, j \in 1..n : i < j => ages'[i] >= ages'[j] + BASE
  <2> SUFFICES ASSUME NEW i \in 1..n, NEW j \in 1..n, i < j
               PROVE  ages'[i] >= ages'[j] + BASE
    OBVIOUS
  <2>1. PICK k \in J, l \in J : k < l /\ ages'[i] = u[k] /\ ages'[j] = u[l]
    BY <1>5, <1>6 DEF InOrder
  <2>2. k \in 1..Len(ages) /\ u[k] = ages[k] /\ ages[k] <= WINDOW
    BY <1>1, <1>3, <1>4, <2>1
  <2>3. CASE l \in 1..Len(ages)
    <3>1. ages[k] >= ages[l] + BASE
      BY <1>1, <2>1, <2>2, <2>3 DEF IInv, SpacingInv, Spaced
    <3> QED
      BY <1>3, <2>1, <2>2, <2>3, <3>1
  <2>4. CASE l = Len(ages) + 1
    BY <1>1, <1>3, <1>12, <2>1, <2>2, <2>4
  <2> QED
    BY <1>1, <1>3, <1>4, <2>3, <2>4
<1>14. Spaced(ages)'
  BY <1>6, <1>13 DEF Spaced
<1>15. Waited'
  <2> SUFFICES ASSUME n # 0 PROVE ages'[n] + sleep' >= BASE
    BY <1>6 DEF Waited
  <2>1. n \in 1..n /\ ages'[n] \in Nat
    BY <1>7
  <2> QED
    BY <1>1, <1>8, <1>10, <2>1
<1>16. TimesBounded'
  <2>1. \A i \in 1..Len(ages') : ages'[i] <= WINDOW
    BY <1>6, <1>7
  <2>2. PICK ts : ts = ages'
    OBVIOUS
  <2>3. Len(ts) <= (WINDOW \div BASE) + 1
    <3>1. ts \in Seq(Ages) /\ Spaced(ts) /\ \A i \in 1..Len(ts) : ts[i] <= WINDOW
      BY <1>5, <1>14, <2>1, <2>2 DEF Spaced
    <3> QED
      BY <3>1, SpacedFit
  <2> QED
    BY <2>2, <2>3 DEF TimesBounded
<1>17. BackoffKeepsUp'
  <2> SUFFICES ASSUME n > THRESHOLD
               PROVE  b >= Min({CAP, STEP * (n - THRESHOLD)})
    BY <1>6, <1>10 DEF BackoffKeepsUp
  <2>1. n - THRESHOLD \in Nat /\ n <= Len(ages) + 1
    BY <1>1, <1>3, <1>5, <1>6
  <2>2. PICK e \in Nat : e = n - THRESHOLD
    BY <2>1
  <2>3. PICK x \in Nat : x = STEP * e
    BY <1>1
  <2>4. Min({CAP, x}) <= CAP /\ Min({CAP, x}) <= x /\ Min({CAP, x}) \in Nat
    BY <1>1, LesserOfTwo
  <2>5. b = CAP \/ b >= x
    <3> SUFFICES ASSUME b # CAP PROVE b >= x
      OBVIOUS
    <3>1. b = backoff + STEP /\ b <= CAP
      BY <1>9, <1>10
    <3>2. CASE Len(ages) > THRESHOLD
      <4>1. PICK d \in Nat : d = Len(ages) - THRESHOLD
        BY <1>1, <3>2
      <4>2. PICK y \in Nat : y = STEP * d
        BY <1>1
      <4>3. backoff >= Min({CAP, y}) /\ Min({CAP, y}) \in {CAP, y}
        BY <1>1, <3>2, <4>1, <4>2, LesserOfTwo DEF IInv, BackoffKeepsUp
      <4>4. backoff >= y
        BY <1>1, <3>1, <4>3
      <4>5. e <= d + 1
        BY <1>1, <2>1, <2>2, <4>1
      <4>6. x <= y + STEP
        <5>1. PICK r \in Nat : d + 1 = e + r
          <6>1. (d + 1) - e \in Nat /\ d + 1 = e + ((d + 1) - e)
            BY <4>5
          <6> QED
            BY <6>1
        <5>2. STEP * (d + 1) = y + STEP /\ STEP * (e + r) = x + STEP * r /\ STEP * r \in Nat
          BY <1>1, <2>3, <4>2
        <5> QED
          BY <1>1, <5>1, <5>2
      <4> QED
        BY <1>1, <3>1, <4>4, <4>6
    <3>3. CASE ~ (Len(ages) > THRESHOLD)
      <4>1. e = 1
        BY <1>1, <2>1, <2>2, <3>3
      <4>2. x = STEP
        BY <1>1, <2>3, <4>1
      <4> QED
        BY <1>1, <3>1, <4>2
    <3> QED
      BY <3>2, <3>3
  <2> QED
    BY <1>1, <2>2, <2>3, <2>4, <2>5
<1> QED
  BY <1>11, <1>14, <1>15, <1>16, <1>17 DEF IInv, SpacingInv

(* The invariant of every storm of changes. *)
LEMMA Always == ChurnSpec => []IInv
<1>1. IInv /\ UNCHANGED churnVars => IInv'
  BY DEF churnVars, IInv, TypeInv, SpacingInv, Spaced, Waited, TimesBounded, BackoffKeepsUp
<1> QED
  BY <1>1, InitIInv, TickKeeps, ChangeKeeps, PTL DEF ChurnSpec, ChurnNext

(***************************************************************************)
(* What follows from it.                                                   *)
(***************************************************************************)
(* The wait before an apply stays between its base and its cap, whatever the *)
(* pattern of changes (watch.py:146).                                        *)
THEOREM DelayAlwaysBounded == ChurnSpec => []DelayBounded
<1>1. IInv => DelayBounded
  BY ChurnAssumption DEF IInv, TypeInv, DelayBounded
<1> QED
  BY <1>1, Always, PTL

(* churn["times"] never grows past what fits into one window, although only a *)
(* change shortens it: each change sleeps a base at least before the next one *)
(* can be noted (watch.py:142).                                               *)
THEOREM TimesAlwaysBounded == ChurnSpec => []TimesBounded
<1>1. IInv => TimesBounded
  BY DEF IInv
<1> QED
  BY <1>1, Always, PTL

(* The back-off has grown by a step for each change noted beyond the threshold, *)
(* however the changes are spread and whatever decayed in between.              *)
THEOREM BackoffAlwaysKeepsUp == ChurnSpec => []BackoffKeepsUp
<1>1. IInv => BackoffKeepsUp
  BY DEF IInv
<1> QED
  BY <1>1, Always, PTL
=============================================================================
