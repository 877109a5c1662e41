--------------------------- MODULE StreamOpsProofs ---------------------------
(* Facts about FirstN and Oldest that the other proofs cite by name.         *)
EXTENDS StreamOps, TLAPS, FiniteSetTheorems, WellFoundedInduction

(* A nonempty set of entry ids has a smallest one, and Oldest returns it.    *)
LEMMA OldestIsLeast ==
  ASSUME NEW ids \in SUBSET Nat, ids # {}
  PROVE  /\ Oldest(ids) \in ids
         /\ \A j \in ids : Oldest(ids) =< j
<1>1. IsWellFoundedOn(OpToRel(<, Nat), Nat)
  BY NatLessThanWellFounded
<1>2. PICK x \in ids : \A y \in ids : ~(<<y, x>> \in OpToRel(<, Nat))
  <2>1. \E x \in ids : \A y \in ids : ~(<<y, x>> \in OpToRel(<, Nat))
    BY <1>1, WFMin, Zenon
  <2>2. QED
    BY <2>1
<1>3. ASSUME NEW y \in ids PROVE x =< y
  <2>1. x \in Nat /\ y \in Nat
    OBVIOUS
  <2>2. ~(<<y, x>> \in {ss \in Nat \X Nat : ss[1] < ss[2]})
    BY <1>2 DEF OpToRel
  <2>3. ~(y < x)
    BY <2>1, <2>2
  <2>4. QED
    BY <2>1, <2>3
<1>4. QED
  BY <1>3 DEF Oldest

(* A nonempty bounded set of entry ids has a largest one, and Newest returns  *)
(* it: apply OldestIsLeast to the distances to the bound.                     *)
LEMMA NewestIsGreatest ==
  ASSUME NEW bound \in Nat, NEW ids \in SUBSET (0..bound), ids # {}
  PROVE  /\ Newest(ids) \in ids
         /\ \A j \in ids : j =< Newest(ids)
<1> DEFINE distances == {bound - i : i \in ids}
<1>1. distances \in SUBSET Nat /\ distances # {}
  <2>1. ASSUME NEW i \in ids PROVE bound - i \in Nat
    <3>1. i \in 0..bound
      OBVIOUS
    <3>2. QED
      BY <3>1
  <2>2. distances \subseteq Nat
    BY <2>1
  <2>3. distances # {}
    OBVIOUS
  <2>4. QED
    BY <2>2, <2>3
<1>2. Oldest(distances) \in distances /\ \A d \in distances : Oldest(distances) =< d
  BY <1>1, OldestIsLeast
<1>3. PICK x \in ids : bound - x = Oldest(distances)
  BY <1>2
<1>4. ASSUME NEW j \in ids PROVE j =< x
  <2>1. bound - x =< bound - j
    BY <1>2, <1>3
  <2>2. j \in 0..bound /\ x \in 0..bound
    OBVIOUS
  <2>3. QED
    BY <2>1, <2>2
<1>5. QED
  BY <1>4 DEF Newest

(* A limited read returns some of the entries there are, and no entry         *)
(* overtakes an older one that was there to be read.                          *)
LEMMA FirstNIsHead ==
  ASSUME NEW ids \in SUBSET Nat, IsFiniteSet(ids), NEW n \in Nat
  PROVE  /\ FirstN(ids, n) \subseteq ids
         /\ \A i \in ids, k \in FirstN(ids, n) : i < k => i \in FirstN(ids, n)
<1>1. FirstN(ids, n) \subseteq ids
  BY DEF FirstN
<1>2. ASSUME NEW i \in ids, NEW k \in FirstN(ids, n), i < k
      PROVE  i \in FirstN(ids, n)
  <2> DEFINE below(x) == {j \in ids : j < x}
  <2>1. k \in ids /\ Cardinality(below(k)) < n
    BY DEF FirstN
  <2>2. IsFiniteSet(below(k))
    BY FS_Subset
  <2>3. below(i) \subseteq below(k)
    <3>1. ASSUME NEW j \in ids, j < i PROVE j < k
      <4>1. i \in Nat /\ j \in Nat /\ k \in Nat
        BY <2>1
      <4>2. QED
        BY <1>2, <3>1, <4>1
    <3>2. QED
      BY <3>1
  <2>4. /\ Cardinality(below(i)) =< Cardinality(below(k))
        /\ IsFiniteSet(below(i))
    BY <2>2, <2>3, FS_Subset
  <2>5. Cardinality(below(i)) \in Nat /\ Cardinality(below(k)) \in Nat
    BY <2>2, <2>4, FS_CardinalityType
  <2>6. Cardinality(below(i)) < n
    BY <2>1, <2>4, <2>5
  <2>7. QED
    BY <2>6 DEF FirstN
<1>3. QED
  BY <1>1, <1>2

(* A limited read of something returns something, the oldest entry included.  *)
LEMMA FirstNTakesOldest ==
  ASSUME NEW ids \in SUBSET Nat, ids # {}, NEW n \in Nat \ {0}
  PROVE  Oldest(ids) \in FirstN(ids, n)
<1>1. Oldest(ids) \in ids /\ \A j \in ids : Oldest(ids) =< j
  BY OldestIsLeast
<1>2. {j \in ids : j < Oldest(ids)} = {}
  <2>1. ASSUME NEW j \in ids PROVE ~(j < Oldest(ids))
    <3>1. j \in Nat /\ Oldest(ids) \in Nat /\ Oldest(ids) =< j
      BY <1>1
    <3>2. QED
      BY <3>1
  <2>2. QED
    BY <2>1
<1>3. Cardinality({j \in ids : j < Oldest(ids)}) = 0
  BY <1>2, FS_EmptySet
<1>4. QED
  BY <1>1, <1>3 DEF FirstN

(* A limited read returns no more entries than its limit: all of them but the   *)
(* newest are before the newest, and fewer than n are.                         *)
LEMMA FirstNBounded ==
  ASSUME NEW bound \in Nat, NEW ids \in SUBSET (0..bound), NEW n \in Nat
  PROVE  IsFiniteSet(FirstN(ids, n)) /\ Cardinality(FirstN(ids, n)) =< n
<1> DEFINE got == FirstN(ids, n)
<1>1. IsFiniteSet(ids) /\ got \subseteq ids /\ IsFiniteSet(got)
  <2>1. IsFiniteSet(0..bound)
    BY FS_Interval
  <2>2. got \subseteq ids
    BY DEF FirstN
  <2>3. QED
    BY <2>1, <2>2, FS_Subset
<1>2. CASE got = {}
  BY <1>1, <1>2, FS_EmptySet
<1>3. CASE got # {}
  <2> DEFINE last == Newest(got)
             before == {j \in ids : j < last}
  <2>1. last \in got /\ \A j \in got : j =< last
    <3>1. got \in SUBSET (0..bound)
      BY <1>1
    <3>2. QED
      BY <1>3, <3>1, NewestIsGreatest
  <2>2. IsFiniteSet(before) /\ Cardinality(before) < n
    <3>1. Cardinality(before) < n
      BY <2>1 DEF FirstN
    <3>2. before \in SUBSET ids
      OBVIOUS
    <3>3. QED
      BY <1>1, <3>1, <3>2, FS_Subset
  <2>3. got \subseteq before \cup {last}
    <3>1. ASSUME NEW j \in got, j # last PROVE j \in before
      <4>1. j \in ids /\ last \in ids
        BY <1>1, <2>1, <3>1
      <4>2. j \in 0..bound /\ last \in 0..bound
        BY <4>1
      <4>3. j =< last /\ j # last
        BY <2>1, <3>1
      <4>4. j < last
        BY <4>2, <4>3
      <4>5. QED
        BY <4>1, <4>4
    <3>2. QED
      BY <3>1
  <2>4. IsFiniteSet(before \cup {last}) /\ Cardinality(before \cup {last}) =< n
    <3>1. Cardinality(before) \in Nat
      BY <2>2, FS_CardinalityType
    <3>2. /\ IsFiniteSet(before \cup {last})
          /\ Cardinality(before \cup {last}) =
               IF last \in before THEN Cardinality(before) ELSE Cardinality(before) + 1
      BY <2>2, FS_AddElement
    <3>3. QED
      BY <2>2, <3>1, <3>2
  <2>5. Cardinality(got) =< Cardinality(before \cup {last})
    BY <2>3, <2>4, FS_Subset
  <2>6. Cardinality(got) \in Nat /\ Cardinality(before \cup {last}) \in Nat
    BY <1>1, <2>4, FS_CardinalityType
  <2>7. QED
    BY <1>1, <2>4, <2>5, <2>6
<1>4. QED
  BY <1>2, <1>3

(* A limited read of a log, from the entry after the cursor to the last one,    *)
(* returns the run of entries up to the newest it returns.                     *)
LEMMA FirstNOfRun ==
  ASSUME NEW a \in Nat, NEW b \in Nat, NEW n \in Nat, FirstN((a + 1)..b, n) # {}
  PROVE  /\ Newest(FirstN((a + 1)..b, n)) \in (a + 1)..b
         /\ FirstN((a + 1)..b, n) = (a + 1)..Newest(FirstN((a + 1)..b, n))
         /\ IsFiniteSet(FirstN((a + 1)..b, n))
         /\ Cardinality(FirstN((a + 1)..b, n)) =< n
<1> DEFINE run == (a + 1)..b
           got == FirstN(run, n)
<1>1. run \in SUBSET Nat /\ run \in SUBSET (0..b) /\ IsFiniteSet(run)
  BY FS_Interval
<1>2. IsFiniteSet(got) /\ Cardinality(got) =< n
  BY <1>1, FirstNBounded
<1>3. /\ got \subseteq run
      /\ \A i \in run, k \in got : i < k => i \in got
  BY <1>1, FirstNIsHead
<1>4. Newest(got) \in got /\ \A j \in got : j =< Newest(got)
  <2>1. got \in SUBSET (0..b)
    BY <1>1, <1>3
  <2>2. QED
    BY <2>1, NewestIsGreatest
<1>5. Newest(got) \in run
  BY <1>3, <1>4
<1>6. ASSUME NEW i \in (a + 1)..Newest(got) PROVE i \in got
  BY <1>3, <1>4, <1>5
<1>7. got \subseteq (a + 1)..Newest(got)
  BY <1>3, <1>4, <1>5
<1>8. QED
  BY <1>2, <1>5, <1>6, <1>7

(* A read whose count covers all there is returns all there is.                *)
LEMMA FirstNTakesAll ==
  ASSUME NEW a \in Nat, NEW b \in Nat, NEW n \in Nat, b =< n
  PROVE  FirstN((a + 1)..b, n) = (a + 1)..b
<1> DEFINE run == (a + 1)..b
<1>1. ASSUME NEW i \in run PROVE Cardinality({j \in run : j < i}) < n
  <2>1. {j \in run : j < i} = (a + 1)..(i - 1)
    OBVIOUS
  <2>2. Cardinality((a + 1)..(i - 1)) = IF a + 1 > i - 1 THEN 0 ELSE (i - 1) - (a + 1) + 1
    BY FS_Interval
  <2>3. i \in Nat /\ a < i /\ i =< b
    OBVIOUS
  <2>4. Cardinality((a + 1)..(i - 1)) < n
    BY <2>2, <2>3
  <2>5. QED
    BY <2>1, <2>4, Zenon
<1>2. QED
  BY <1>1 DEF FirstN
=============================================================================
