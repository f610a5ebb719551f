---------------------------- MODULE SourceProofs ----------------------------
(***************************************************************************)
(* Proofs about the two parts of src/src/observer.ts. SourceCapture, for   *)
(* any sessions, commands, histories, sizes of a page and moments at which *)
(* learning is switched: first what reading backwards collects; then one   *)
(* invariant of a single capture, whatever the others do; then what the    *)
(* captures and the queue have to do with each other. SourceBounds, for    *)
(* any limit and any texts and tools: what is cut fits.                    *)
(***************************************************************************)
EXTENDS SourceCapture, SourceBounds, SequenceTheorems, WellFoundedInduction, TLAPS

-----------------------------------------------------------------------------
(* Numbers.                                                                 *)

\* A nonempty set of naturals has a least element, which Min denotes.
LEMMA Least ==
  ASSUME NEW S \in SUBSET Nat, S # {}
  PROVE  Min(S) \in S /\ \A n \in S : Min(S) <= n
<1>1. PICK x \in S : \A y \in S : ~ (<<y, x>> \in OpToRel(<, Nat))
  BY WFMin, NatLessThanWellFounded
<1>2. \A y \in S : ~(y < x)
  BY <1>1 DEF OpToRel
<1>3. \A y \in S : x <= y
  BY <1>2
<1> QED
  BY <1>3 DEF Min

\* A nonempty set of naturals with a bound has a greatest element, Max.
LEMMA Greatest ==
  ASSUME NEW S \in SUBSET Nat, S # {}, NEW b \in Nat, \A n \in S : n <= b
  PROVE  Max(S) \in S /\ \A n \in S : n <= Max(S)
<1> DEFINE D == {b - n : n \in S}
<1>1. D \in SUBSET Nat /\ D # {}
  OBVIOUS
<1> HIDE DEF D
<1>2. Min(D) \in D /\ \A d \in D : Min(D) <= d
  BY <1>1, Least
<1>3. PICK x \in S : Min(D) = b - x
  BY <1>2 DEF D
<1>4. \A n \in S : b - n \in D
  BY DEF D
<1>5. \A n \in S : x >= n
  BY <1>2, <1>3, <1>4
<1> QED
  BY <1>5 DEF Max

\* A set of numbers with zero and with every successor has them all.
LEMMA Induction ==
  ASSUME NEW S, 0 \in S, \A n \in Nat : n \in S => n + 1 \in S
  PROVE  Nat \subseteq S
<1> SUFFICES ASSUME Nat \ S # {} PROVE FALSE
  OBVIOUS
<1> DEFINE D == Nat \ S
<1>1. D \in SUBSET Nat /\ D # {}
  OBVIOUS
<1> HIDE DEF D
<1>2. Min(D) \in D /\ \A m \in D : Min(D) <= m
  BY <1>1, Least
<1>3. Min(D) \in Nat /\ Min(D) \notin S
  BY <1>2 DEF D
<1>4. Min(D) # 0 /\ Min(D) - 1 \in Nat /\ (Min(D) - 1) + 1 = Min(D)
  BY <1>3
<1>5. Min(D) - 1 \in S
  BY <1>2, <1>4 DEF D
<1> QED
  BY <1>3, <1>4, <1>5

-----------------------------------------------------------------------------
(* Lists of records.                                                        *)

\* q lists the numbers in S, from the first to the last; from the last to the
\* first.
Lists(q, S) ==
  /\ q \in Seq(Nat)
  /\ ToSet(q) = S
  /\ \A i, k \in 1..Len(q) : i < k => q[i] < q[k]
Descends(q, S) ==
  /\ q \in Seq(Nat)
  /\ ToSet(q) = S
  /\ \A i, k \in 1..Len(q) : i < k => q[k] < q[i]

\* What a list of numbers is made of.
LEMMA Members ==
  ASSUME NEW q \in Seq(Nat)
  PROVE  /\ Len(q) \in Nat /\ DOMAIN q = 1..Len(q)
         /\ \A i \in 1..Len(q) : q[i] \in Nat /\ q[i] \in ToSet(q)
         /\ \A n \in ToSet(q) : \E i \in 1..Len(q) : q[i] = n
         /\ ToSet(q) \subseteq Nat
<1>1. Len(q) \in Nat /\ DOMAIN q = 1..Len(q)
  BY LenProperties
<1>2. \A i \in 1..Len(q) : q[i] \in Nat
  BY <1>1, ElementOfSeq
<1> QED
  BY <1>1, <1>2 DEF ToSet

\* There is only one list of a set.
LEMMA ListedOnce ==
  ASSUME NEW S, NEW q, NEW r, Lists(q, S), Lists(r, S)
  PROVE  q = r
<1>1. q \in Seq(Nat) /\ r \in Seq(Nat) /\ ToSet(q) = S /\ ToSet(r) = S
  BY DEF Lists
<1>2. /\ Len(q) \in Nat /\ Len(r) \in Nat
      /\ \A i \in 1..Len(q) : q[i] \in Nat
      /\ \A i \in 1..Len(r) : r[i] \in Nat
  BY <1>1, Members
<1>3. /\ \A i, k \in 1..Len(q) : i < k => q[i] < q[k]
      /\ \A i, k \in 1..Len(r) : i < k => r[i] < r[k]
  BY DEF Lists
<1>4. /\ \A i \in 1..Len(q) : \E k \in 1..Len(r) : r[k] = q[i]
      /\ \A i \in 1..Len(r) : \E k \in 1..Len(q) : q[k] = r[i]
  BY <1>1, Members
<1>5. ASSUME NEW n \in Nat, n + 1 <= Len(q), n + 1 <= Len(r),
             \A m \in 1..n : q[m] = r[m]
      PROVE  q[n + 1] = r[n + 1]
  <2>1. n + 1 \in 1..Len(q) /\ n + 1 \in 1..Len(r)
    BY <1>5, <1>2
  <2>2. PICK k \in 1..Len(r) : r[k] = q[n + 1]
    BY <1>4, <2>1
  <2>3. PICK i \in 1..Len(q) : q[i] = r[n + 1]
    BY <1>4, <2>1
  <2>4. ~(k < n + 1)
    <3> SUFFICES ASSUME k < n + 1 PROVE FALSE
      OBVIOUS
    <3>1. k \in 1..n /\ k \in 1..Len(q)
      BY <1>2, <1>5
    <3>2. q[k] < q[n + 1]
      BY <1>3, <2>1, <3>1
    <3> QED
      BY <1>2, <1>5, <2>1, <2>2, <3>1, <3>2
  <2>5. ~(i < n + 1)
    <3> SUFFICES ASSUME i < n + 1 PROVE FALSE
      OBVIOUS
    <3>1. i \in 1..n /\ i \in 1..Len(r)
      BY <1>2, <1>5
    <3>2. r[i] < r[n + 1]
      BY <1>3, <2>1, <3>1
    <3> QED
      BY <1>2, <1>5, <2>1, <2>3, <3>1, <3>2
  <2>6. r[n + 1] <= q[n + 1]
    <3>1. k = n + 1 \/ n + 1 < k
      BY <1>2, <2>4
    <3>2. n + 1 < k => r[n + 1] < r[k]
      BY <1>3, <2>1
    <3> QED
      BY <1>2, <2>1, <2>2, <3>1, <3>2
  <2>7. q[n + 1] <= r[n + 1]
    <3>1. i = n + 1 \/ n + 1 < i
      BY <1>2, <2>5
    <3>2. n + 1 < i => q[n + 1] < q[i]
      BY <1>3, <2>1
    <3> QED
      BY <1>2, <2>1, <2>3, <3>1, <3>2
  <2>8. q[n + 1] \in Nat /\ r[n + 1] \in Nat
    BY <1>2, <2>1
  <2> QED
    BY <2>6, <2>7, <2>8
<1> DEFINE T == {n \in Nat : \A m \in 1..n : m <= Len(q) /\ m <= Len(r) => q[m] = r[m]}
<1>6. 0 \in T
  OBVIOUS
<1>7. ASSUME NEW n \in Nat, n \in T
      PROVE  n + 1 \in T
  <2>1. \A m \in 1..n : m <= Len(q) /\ m <= Len(r) => q[m] = r[m]
    BY <1>7
  <2>2. n + 1 <= Len(q) /\ n + 1 <= Len(r) => \A m \in 1..n : q[m] = r[m]
    BY <1>2, <2>1
  <2>3. n + 1 <= Len(q) /\ n + 1 <= Len(r) => q[n + 1] = r[n + 1]
    BY <1>5, <2>2
  <2>4. \A m \in 1..(n + 1) : m \in 1..n \/ m = n + 1
    OBVIOUS
  <2> QED
    BY <2>1, <2>3, <2>4
<1>8. \A n \in Nat : n \in T
  <2> HIDE DEF T
  <2> QED
    BY <1>6, <1>7, Induction
<1>9. \A n \in 1..Len(q) : n <= Len(r) => q[n] = r[n]
  <2> SUFFICES ASSUME NEW n \in 1..Len(q), n <= Len(r) PROVE q[n] = r[n]
    OBVIOUS
  <2>1. n \in Nat /\ n \in 1..n
    BY <1>2
  <2> QED
    BY <1>8, <2>1
<1> HIDE DEF T
<1>10. ~(Len(q) < Len(r))
  <2> SUFFICES ASSUME Len(q) < Len(r) PROVE FALSE
    OBVIOUS
  <2>1. Len(q) + 1 \in 1..Len(r)
    BY <1>2
  <2>2. PICK k \in 1..Len(q) : q[k] = r[Len(q) + 1]
    BY <1>4, <2>1
  <2>3. k \in 1..Len(r) /\ k < Len(q) + 1 /\ q[k] = r[k]
    BY <1>2, <1>9
  <2>4. r[k] < r[Len(q) + 1]
    BY <1>3, <2>1, <2>3
  <2> QED
    BY <1>2, <2>1, <2>2, <2>3, <2>4
<1>11. ~(Len(r) < Len(q))
  <2> SUFFICES ASSUME Len(r) < Len(q) PROVE FALSE
    OBVIOUS
  <2>1. Len(r) + 1 \in 1..Len(q)
    BY <1>2
  <2>2. PICK k \in 1..Len(r) : r[k] = q[Len(r) + 1]
    BY <1>4, <2>1
  <2>3. k \in 1..Len(q) /\ k < Len(r) + 1 /\ q[k] = r[k]
    BY <1>2, <1>9
  <2>4. q[k] < q[Len(r) + 1]
    BY <1>3, <2>1, <2>3
  <2> QED
    BY <1>2, <2>1, <2>2, <2>3, <2>4
<1>12. Len(q) = Len(r)
  BY <1>2, <1>10, <1>11
<1>13. \A i \in 1..Len(q) : q[i] = r[i]
  BY <1>2, <1>9, <1>12
<1> QED
  BY <1>1, <1>12, <1>13, SeqEqual

\* Records lists the numbers it is asked for.
LEMMA RecordsList ==
  ASSUME NEW low \in Nat, NEW high \in Nat, low <= high + 1
  PROVE  Lists(Records(low, high), low..high)
<1> DEFINE n == high + 1 - low
           q == [i \in 1..n |-> low + i - 1]
<1>1. n \in Nat
  OBVIOUS
<1>2. \A i \in 1..n : low + i - 1 \in Nat
  OBVIOUS
<1>3. q \in Seq(Nat) /\ Len(q) = n
  <2> HIDE DEF n
  <2>1. q \in [1..n -> Nat]
    BY <1>1, <1>2
  <2>2. q \in Seq(Nat) /\ DOMAIN q = 1..n
    BY <1>1, <2>1, IsASeq, SeqDef
  <2> QED
    BY <1>1, <2>2, LenProperties
<1>4. \A i \in 1..n : q[i] = low + i - 1
  OBVIOUS
<1>5. ToSet(q) = low..high
  <2>1. \A m \in low..high : m - low + 1 \in 1..n /\ low + (m - low + 1) - 1 = m
    OBVIOUS
  <2>2. \A i \in 1..n : low + i - 1 \in low..high
    OBVIOUS
  <2>3. DOMAIN q = 1..n
    OBVIOUS
  <2>4. \A m \in low..high : q[m - low + 1] = m
    BY <1>4, <2>1
  <2> HIDE DEF q, n
  <2>5. ToSet(q) \subseteq low..high
    BY <1>4, <2>2, <2>3 DEF ToSet
  <2>6. low..high \subseteq ToSet(q)
    BY <2>1, <2>3, <2>4 DEF ToSet
  <2> QED
    BY <2>5, <2>6
<1>6. \A i, k \in 1..n : i < k => q[i] < q[k]
  OBVIOUS
<1> HIDE DEF q
<1>7. Lists(q, low..high)
  BY <1>3, <1>5, <1>6 DEF Lists
<1> QED
  BY <1>7 DEF q, Records

\* What Those keeps of the first i records, given what it keeps of fewer.
Kept(records, S, i, kept) ==
  IF i = 0 THEN <<>>
  ELSE IF records[i] \in S THEN Append(kept[i - 1], records[i])
  ELSE kept[i - 1]

\* The recursion of Those defines a function.
LEMMA KeptExists ==
  ASSUME NEW records \in Seq(Nat), NEW S
  PROVE  \E kept : kept = [i \in 0..Len(records) |-> Kept(records, S, i, kept)]
<1> DEFINE T == {n \in Nat : \E kept : kept = [i \in 0..n |-> Kept(records, S, i, kept)]}
<1>1. 0 \in T
  <2> DEFINE kept == [i \in 0..0 |-> <<>>]
  <2>1. kept = [i \in 0..0 |-> Kept(records, S, i, kept)]
    BY DEF Kept
  <2> QED
    BY <2>1
<1>2. ASSUME NEW n \in Nat, n \in T
      PROVE  n + 1 \in T
  <2>1. PICK kept : kept = [i \in 0..n |-> Kept(records, S, i, kept)]
    BY <1>2
  <2> DEFINE more == [i \in 0..(n + 1) |->
                        IF i = n + 1 THEN Kept(records, S, i, kept) ELSE kept[i]]
  <2>2. ASSUME NEW i \in 0..(n + 1)
        PROVE  more[i] = Kept(records, S, i, more)
    <3>1. i # 0 => i - 1 \in 0..n /\ more[i - 1] = kept[i - 1]
      OBVIOUS
    <3>2. i # n + 1 => i \in 0..n
      OBVIOUS
    <3>3. Kept(records, S, i, more) = Kept(records, S, i, kept)
      BY <3>1 DEF Kept
    <3> QED
      BY <2>1, <3>2, <3>3
  <2>3. more = [i \in 0..(n + 1) |-> Kept(records, S, i, more)]
    BY <2>2
  <2> HIDE DEF more
  <2>4. \E k : k = [i \in 0..(n + 1) |-> Kept(records, S, i, k)]
    BY <2>3
  <2> QED
    BY <2>4
<1> HIDE DEF T
<1>3. Len(records) \in T
  BY <1>1, <1>2, Induction, LenProperties
<1> QED
  BY <1>3 DEF T

\* A number after all others extends a list.
LEMMA Extended ==
  ASSUME NEW q, NEW S, Lists(q, S), NEW n \in Nat, \A m \in S : m < n
  PROVE  Lists(Append(q, n), S \cup {n})
<1> DEFINE l == Len(q)
<1>1. q \in Seq(Nat) /\ ToSet(q) = S /\ l \in Nat
      /\ \A i, k \in 1..l : i < k => q[i] < q[k]
  BY Members DEF Lists
<1>2. /\ Append(q, n) \in Seq(Nat) /\ Len(Append(q, n)) = l + 1
      /\ \A i \in 1..l : Append(q, n)[i] = q[i]
      /\ Append(q, n)[l + 1] = n
  BY <1>1, AppendProperties
<1>3. \A i \in 1..l : q[i] \in S /\ q[i] < n
  BY <1>1, Members
<1> DEFINE a == Append(q, n)
<1>4. \A i \in 1..(l + 1) : i \in 1..l \/ i = l + 1
  BY <1>1
<1> HIDE DEF a
<1>5. a \in Seq(Nat) /\ Len(a) = l + 1 /\ (\A i \in 1..l : a[i] = q[i]) /\ a[l + 1] = n
  BY <1>2 DEF a
<1>6. ASSUME NEW i \in 1..(l + 1), NEW k \in 1..(l + 1), i < k
      PROVE  a[i] < a[k]
  <2>1. i \in 1..l
    BY <1>1, <1>6
  <2> QED
    BY <1>1, <1>3, <1>4, <1>5, <1>6, <2>1
<1>7. ToSet(a) = S \cup {n}
  <2>1. \A i \in 1..(l + 1) : a[i] \in S \cup {n}
    BY <1>3, <1>4, <1>5
  <2>2. \A i \in 1..l : i \in 1..(l + 1) /\ a[i] = q[i]
    BY <1>1, <1>5
  <2>3. l + 1 \in 1..(l + 1)
    BY <1>1
  <2>4. DOMAIN a = 1..(l + 1) /\ DOMAIN q = 1..l
    BY <1>1, <1>5, LenProperties
  <2>5. ToSet(a) \subseteq S \cup {n}
    BY <2>1, <2>4 DEF ToSet
  <2>6. S \cup {n} \subseteq ToSet(a)
    BY <1>1, <1>5, <2>2, <2>3, <2>4 DEF ToSet
  <2> QED
    BY <2>5, <2>6
<1>8. Lists(a, S \cup {n})
  BY <1>5, <1>6, <1>7 DEF Lists
<1> QED
  BY <1>8 DEF a

\* Those lists the numbers that are asked for.
LEMMA ThoseListed ==
  ASSUME NEW records, NEW All, Lists(records, All), NEW S
  PROVE  Lists(Those(records, S), All \cap S)
<1> DEFINE l == Len(records)
           kept == CHOOSE k : k = [i \in 0..l |-> Kept(records, S, i, k)]
<1>1. records \in Seq(Nat) /\ l \in Nat /\ ToSet(records) = All
  BY Members DEF Lists
<1>2. kept = [i \in 0..l |-> Kept(records, S, i, kept)]
  BY <1>1, KeptExists
<1>3. Those(records, S) = kept[l]
  BY DEF Those, Kept
<1> HIDE DEF kept
<1>4. kept[0] = <<>>
  BY <1>1, <1>2 DEF Kept
<1>5. ASSUME NEW n \in Nat, n + 1 <= l
      PROVE  kept[n + 1] = IF records[n + 1] \in S THEN Append(kept[n], records[n + 1])
                           ELSE kept[n]
  <2>1. n + 1 \in 0..l /\ n + 1 # 0 /\ (n + 1) - 1 = n
    BY <1>1, <1>5
  <2>2. kept[n + 1] = Kept(records, S, n + 1, kept)
    BY <1>2, <2>1
  <2> QED
    BY <2>1, <2>2 DEF Kept
<1> DEFINE First(n) == {records[i] : i \in 1..n}
           T == {n \in Nat : n <= l => Lists(kept[n], First(n) \cap S)}
<1>6. 0 \in T
  <2>1. First(0) = {}
    OBVIOUS
  <2>2. kept[0] \in Seq(Nat) /\ Len(kept[0]) = 0 /\ ToSet(kept[0]) = {}
    BY <1>4, EmptySeq DEF ToSet
  <2> QED
    BY <2>1, <2>2 DEF Lists
<1>7. ASSUME NEW n \in Nat, n \in T
      PROVE  n + 1 \in T
  <2> SUFFICES ASSUME n + 1 <= l PROVE Lists(kept[n + 1], First(n + 1) \cap S)
    OBVIOUS
  <2>1. Lists(kept[n], First(n) \cap S)
    BY <1>1, <1>7
  <2>2. n + 1 \in 1..l /\ records[n + 1] \in Nat
    BY <1>1, Members
  <2>3. \A i \in 1..n : records[i] < records[n + 1]
    <3>1. \A i \in 1..n : i \in 1..l /\ i < n + 1
      BY <1>1
    <3> QED
      BY <2>2, <3>1 DEF Lists
  <2>4. First(n + 1) = First(n) \cup {records[n + 1]}
    <3>1. 1..(n + 1) = 1..n \cup {n + 1}
      OBVIOUS
    <3> QED
      BY <3>1
  <2>5. \A m \in First(n) \cap S : m < records[n + 1]
    BY <2>3
  <2> HIDE DEF First
  <2>6. CASE records[n + 1] \in S
    <3>1. Lists(Append(kept[n], records[n + 1]), (First(n) \cap S) \cup {records[n + 1]})
      BY <2>1, <2>2, <2>5, Extended
    <3>2. First(n + 1) \cap S = (First(n) \cap S) \cup {records[n + 1]}
      BY <2>4, <2>6
    <3> QED
      BY <1>5, <2>6, <3>1, <3>2
  <2>7. CASE records[n + 1] \notin S
    <3>1. First(n + 1) \cap S = First(n) \cap S
      BY <2>4, <2>7
    <3> QED
      BY <1>5, <2>1, <2>7, <3>1
  <2> QED
    BY <2>6, <2>7
<1>8. l \in T
  <2> HIDE DEF T
  <2> QED
    BY <1>1, <1>6, <1>7, Induction
<1>9. First(l) = All
  BY <1>1, LenProperties DEF ToSet
<1> HIDE DEF First
<1>10. l <= l /\ Lists(kept[l], First(l) \cap S)
  BY <1>1, <1>8
<1> HIDE DEF T
<1> QED
  BY <1>3, <1>9, <1>10

\* Backwards a list descends, and the other way round.
LEMMA Reversed ==
  ASSUME NEW q, NEW S
  PROVE  /\ Lists(q, S) => Descends(Reverse(q), S)
         /\ Descends(q, S) => Lists(Reverse(q), S)
<1> SUFFICES ASSUME q \in Seq(Nat), ToSet(q) = S
             PROVE  /\ Reverse(q) \in Seq(Nat) /\ Len(Reverse(q)) = Len(q)
                    /\ ToSet(Reverse(q)) = S
                    /\ \A i \in 1..Len(q) : /\ Len(q) - i + 1 \in 1..Len(q)
                                            /\ Reverse(q)[i] = q[Len(q) - i + 1]
  <2> DEFINE r == Reverse(q)
             l == Len(q)
             at(i) == Len(q) - i + 1
  <2>1. ASSUME Lists(q, S) PROVE Descends(r, S)
    <3>1. /\ r \in Seq(Nat) /\ Len(r) = l /\ ToSet(r) = S /\ l \in Nat
          /\ \A i \in 1..l : at(i) \in 1..l /\ r[i] = q[at(i)]
      BY <2>1, LenProperties DEF Lists
    <3>2. \A i, k \in 1..l : i < k => at(k) < at(i)
      BY <3>1
    <3>3. \A i, k \in 1..l : i < k => q[i] < q[k]
      BY <2>1 DEF Lists
    <3> HIDE DEF r, at
    <3> QED
      BY <3>1, <3>2, <3>3 DEF Descends
  <2>2. ASSUME Descends(q, S) PROVE Lists(r, S)
    <3>1. /\ r \in Seq(Nat) /\ Len(r) = l /\ ToSet(r) = S /\ l \in Nat
          /\ \A i \in 1..l : at(i) \in 1..l /\ r[i] = q[at(i)]
      BY <2>2, LenProperties DEF Descends
    <3>2. \A i, k \in 1..l : i < k => at(k) < at(i)
      BY <3>1
    <3>3. \A i, k \in 1..l : i < k => q[k] < q[i]
      BY <2>2 DEF Descends
    <3> HIDE DEF r, at
    <3> QED
      BY <3>1, <3>2, <3>3 DEF Lists
  <2> QED
    BY <2>1, <2>2
<1> DEFINE r == Reverse(q)
           l == Len(q)
<1>1. l \in Nat /\ \A i \in 1..l : q[i] \in Nat
  BY Members
<1>2. \A i \in 1..l : l - i + 1 \in 1..l /\ l - (l - i + 1) + 1 = i
  BY <1>1
<1>3. r = [i \in 1..l |-> q[l - i + 1]]
  BY DEF Reverse
<1>4. r \in [1..l -> Nat]
  BY <1>1, <1>2, <1>3
<1>5. r \in Seq(Nat) /\ Len(r) = l
  BY <1>1, <1>4, SeqDef, LenProperties
<1>6. \A i \in 1..l : r[i] = q[l - i + 1] /\ r[l - i + 1] = q[i]
  BY <1>2, <1>3
<1>7. ToSet(r) = S
  <2>1. DOMAIN r = 1..l /\ DOMAIN q = 1..l
    BY <1>4, LenProperties
  <2> DEFINE at(i) == l - i + 1
  <2>2. \A i \in 1..l : at(i) \in 1..l /\ r[i] = q[at(i)] /\ r[at(i)] = q[i]
    BY <1>2, <1>6
  <2> HIDE DEF r, at
  <2>3. ToSet(r) \subseteq ToSet(q)
    BY <2>1, <2>2 DEF ToSet
  <2>4. ToSet(q) \subseteq ToSet(r)
    BY <2>1, <2>2 DEF ToSet
  <2> QED
    BY <2>3, <2>4
<1> QED
  BY <1>2, <1>5, <1>6, <1>7

\* A descent up to its m-th number, and from there.
LEMMA Divided ==
  ASSUME NEW b, NEW S, Descends(b, S), NEW m \in 1..Len(b)
  PROVE  /\ b[m] \in S
         /\ Descends(SubSeq(b, 1, m), {n \in S : n >= b[m]})
         /\ Descends(SubSeq(b, m + 1, Len(b)), {n \in S : n < b[m]})
<1> DEFINE l == Len(b)
<1>1. b \in Seq(Nat) /\ ToSet(b) = S /\ l \in Nat
      /\ (\A i, k \in 1..l : i < k => b[k] < b[i])
  BY LenProperties DEF Descends
<1>2. /\ \A i \in 1..l : b[i] \in Nat /\ b[i] \in S
      /\ \A n \in S : \E i \in 1..l : b[i] = n
  BY <1>1, Members
<1>3. m \in Nat /\ m <= l /\ m >= 1
  BY <1>1
<1>4. \A i \in 1..l : (i <= m => b[i] >= b[m]) /\ (i > m => b[i] < b[m])
  <2> TAKE i \in 1..l
  <2>1. i < m \/ i = m \/ i > m
    BY <1>1, <1>3
  <2>2. i < m => b[m] < b[i]
    BY <1>1
  <2>3. i > m => b[i] < b[m]
    BY <1>1
  <2>4. b[i] \in Nat /\ b[m] \in Nat
    BY <1>2
  <2> QED
    BY <1>1, <1>3, <2>1, <2>2, <2>3, <2>4
<1>5. Descends(SubSeq(b, 1, m), {n \in S : n >= b[m]})
  <2> DEFINE a == SubSeq(b, 1, m)
  <2>1. a \in Seq(Nat) /\ Len(a) = m /\ \A i \in 1..m : a[i] = b[i]
    <3>1. a \in Seq(Nat) /\ Len(a) = m - 1 + 1 /\ \A i \in 1..(m - 1 + 1) : a[i] = b[1 + i - 1]
      BY <1>1, <1>3, SubSeqProperties
    <3> QED
      BY <1>3, <3>1
  <2> HIDE DEF a
  <2>2. \A i \in 1..m : i \in 1..l /\ a[i] = b[i]
    BY <1>1, <1>3, <2>1
  <2>3. \A n \in S : n >= b[m] => \E i \in 1..m : a[i] = n
    <3> SUFFICES ASSUME NEW n \in S, n >= b[m] PROVE \E i \in 1..m : a[i] = n
      OBVIOUS
    <3>1. PICK i \in 1..l : b[i] = n
      BY <1>2
    <3>2. i <= m
      BY <1>1, <1>2, <1>3, <1>4, <3>1
    <3>3. i \in 1..m
      BY <1>1, <1>3, <3>2
    <3> QED
      BY <2>2, <3>1, <3>3
  <2>4. \A i \in 1..m : a[i] \in S /\ a[i] >= b[m]
    BY <1>2, <1>3, <1>4, <2>2
  <2>5. ToSet(a) = {n \in S : n >= b[m]}
    <3>1. DOMAIN a = 1..m
      BY <2>1, LenProperties
    <3> QED
      BY <2>3, <2>4, <3>1 DEF ToSet
  <2>6. \A i, k \in 1..m : i < k => a[k] < a[i]
    BY <1>1, <2>2
  <2>7. Descends(a, {n \in S : n >= b[m]})
    BY <2>1, <2>5, <2>6 DEF Descends
  <2> QED
    BY <2>7 DEF a
<1>6. Descends(SubSeq(b, m + 1, l), {n \in S : n < b[m]})
  <2> DEFINE a == SubSeq(b, m + 1, l)
             d == l - m
  <2>1. a \in Seq(Nat) /\ Len(a) = d /\ d \in Nat /\ \A i \in 1..d : a[i] = b[i + m]
    <3>1. CASE m = l
      <4>1. a = <<>>
        BY <1>1, <1>3, <3>1, SubSeqEmpty
      <4> QED
        BY <1>1, <1>3, <3>1, <4>1, EmptySeq
    <3>2. CASE m < l
      <4>1. m + 1 \in 1..l /\ l \in (m + 1)..l
        BY <1>1, <1>3, <3>2
      <4>2. a \in Seq(Nat) /\ Len(a) = l - (m + 1) + 1
            /\ \A i \in 1..(l - (m + 1) + 1) : a[i] = b[(m + 1) + i - 1]
        BY <1>1, <4>1, SubSeqProperties
      <4>3. \A i \in 1..d : (m + 1) + i - 1 = i + m
        BY <1>1, <1>3
      <4> QED
        BY <1>1, <1>3, <4>2, <4>3
    <3> QED
      BY <1>1, <1>3, <3>1, <3>2
  <2> HIDE DEF a
  <2>2. \A i \in 1..d : i + m \in 1..l /\ i + m > m /\ a[i] = b[i + m]
    BY <1>1, <1>3, <2>1
  <2>3. \A n \in S : n < b[m] => \E i \in 1..d : a[i] = n
    <3> SUFFICES ASSUME NEW n \in S, n < b[m] PROVE \E i \in 1..d : a[i] = n
      OBVIOUS
    <3>1. PICK i \in 1..l : b[i] = n
      BY <1>2
    <3>2. b[i] \in Nat /\ b[m] \in Nat
      BY <1>2
    <3>3. i > m
      BY <1>1, <1>3, <1>4, <3>1, <3>2
    <3>4. i - m \in 1..d /\ (i - m) + m = i
      BY <1>1, <1>3, <3>3
    <3> QED
      BY <2>2, <3>1, <3>4
  <2>4. \A i \in 1..d : a[i] \in S /\ a[i] < b[m]
    BY <1>2, <1>3, <1>4, <2>2
  <2>5. ToSet(a) = {n \in S : n < b[m]}
    <3>1. DOMAIN a = 1..d
      BY <2>1, LenProperties
    <3> QED
      BY <2>3, <2>4, <3>1 DEF ToSet
  <2>6. \A i, k \in 1..d : i < k => a[k] < a[i]
    <3>1. \A i, k \in 1..d : i < k => i + m < k + m
      BY <1>3
    <3> QED
      BY <1>1, <2>2, <3>1
  <2>7. Descends(a, {n \in S : n < b[m]})
    BY <2>1, <2>5, <2>6 DEF Descends
  <2> QED
    BY <2>7 DEF a
<1> QED
  BY <1>2, <1>5, <1>6

\* A list followed by a list of greater numbers.
LEMMA Joined ==
  ASSUME NEW q, NEW r, NEW S, NEW T, Lists(q, S), Lists(r, T),
         \A m \in S, n \in T : m < n
  PROVE  Lists(q \o r, S \cup T)
<1> DEFINE l == Len(q)
           h == Len(r)
           a == q \o r
<1>1. /\ q \in Seq(Nat) /\ r \in Seq(Nat) /\ ToSet(q) = S /\ ToSet(r) = T
      /\ l \in Nat /\ h \in Nat
  BY LenProperties DEF Lists
<1>2. /\ a \in Seq(Nat) /\ Len(a) = l + h
      /\ \A i \in 1..(l + h) : a[i] = IF i <= l THEN q[i] ELSE r[i - l]
  BY <1>1, ConcatProperties
<1> HIDE DEF a
<1>3. \A i \in 1..l : i \in 1..(l + h) /\ a[i] = q[i] /\ q[i] \in S /\ q[i] \in Nat
  <2>1. \A i \in 1..l : i \in 1..(l + h) /\ i <= l
    BY <1>1
  <2> QED
    BY <1>1, <1>2, <2>1, Members
<1>4. \A i \in 1..h : i + l \in 1..(l + h) /\ a[i + l] = r[i] /\ r[i] \in T /\ r[i] \in Nat
  <2>1. \A i \in 1..h : i + l \in 1..(l + h) /\ ~(i + l <= l) /\ (i + l) - l = i
    BY <1>1
  <2> QED
    BY <1>1, <1>2, <2>1, Members
<1>5. \A i \in 1..(l + h) : i \in 1..l \/ (i - l \in 1..h /\ (i - l) + l = i)
  BY <1>1
<1>6. ASSUME NEW i \in 1..(l + h), NEW k \in 1..(l + h), i < k
      PROVE  a[i] < a[k]
  <2>1. CASE k \in 1..l
    <3>1. i \in 1..l
      BY <1>1, <1>6, <2>1
    <3> QED
      BY <1>3, <1>6, <2>1, <3>1 DEF Lists
  <2>2. CASE k \notin 1..l /\ i \in 1..l
    <3>1. a[i] \in S
      BY <1>3, <2>2
    <3>2. k - l \in 1..h /\ (k - l) + l = k
      BY <1>5, <2>2
    <3>3. a[k] \in T
      BY <1>4, <3>2
    <3> QED
      BY <3>1, <3>3
  <2>3. CASE k \notin 1..l /\ i \notin 1..l
    <3>1. /\ i - l \in 1..h /\ (i - l) + l = i
          /\ k - l \in 1..h /\ (k - l) + l = k
      BY <1>5, <2>3
    <3>2. i - l < k - l
      BY <1>1, <1>6
    <3>3. r[i - l] < r[k - l]
      BY <3>1, <3>2 DEF Lists
    <3>4. a[i] = r[i - l] /\ a[k] = r[k - l]
      BY <1>4, <3>1
    <3> QED
      BY <3>3, <3>4
  <2> QED
    BY <2>1, <2>2, <2>3
<1>7. ToSet(a) = S \cup T
  <2>1. DOMAIN a = 1..(l + h) /\ DOMAIN q = 1..l /\ DOMAIN r = 1..h
    BY <1>1, <1>2, LenProperties
  <2>2. ToSet(a) \subseteq S \cup T
    <3>1. \A i \in 1..(l + h) : a[i] \in S \cup T
      <4> TAKE i \in 1..(l + h)
      <4>1. CASE i \in 1..l
        BY <1>3, <4>1
      <4>2. CASE i \notin 1..l
        <5>1. i - l \in 1..h /\ (i - l) + l = i
          BY <1>5, <4>2
        <5> QED
          BY <1>4, <5>1
      <4> QED
        BY <4>1, <4>2
    <3> QED
      BY <2>1, <3>1 DEF ToSet
  <2>3. S \subseteq ToSet(a)
    BY <1>1, <1>3, <2>1 DEF ToSet
  <2>4. T \subseteq ToSet(a)
    BY <1>1, <1>4, <2>1 DEF ToSet
  <2> QED
    BY <2>2, <2>3, <2>4
<1>8. Lists(a, S \cup T)
  BY <1>2, <1>6, <1>7 DEF Lists
<1> QED
  BY <1>8 DEF a

\* A whole list up to its last number, and no further.
LEMMA All ==
  ASSUME NEW b \in Seq(Nat)
  PROVE  SubSeq(b, 1, Len(b)) = b /\ SubSeq(b, Len(b) + 1, Len(b)) = <<>>
<1> DEFINE l == Len(b)
<1>1. l \in Nat
  BY LenProperties
<1>2. SubSeq(b, 1, l) = b
  <2>1. CASE l = 0
    BY <2>1, <1>1, EmptySeq, SubSeqEmpty
  <2>2. CASE l # 0
    <3>1. 1 \in 1..l + 1 /\ l \in 0..l
      BY <1>1, <2>2
    <3>2. /\ SubSeq(b, 1, l) \in Seq(Nat) /\ Len(SubSeq(b, 1, l)) = l - 1 + 1
          /\ \A i \in 1..(l - 1 + 1) : SubSeq(b, 1, l)[i] = b[1 + i - 1]
      BY <1>1, <3>1, SubSeqProperties
    <3>3. l - 1 + 1 = l /\ \A i \in 1..l : 1 + i - 1 = i
      BY <1>1
    <3> QED
      BY <3>2, <3>3, SeqEqual
  <2> QED
    BY <2>1, <2>2
<1>3. SubSeq(b, l + 1, l) = <<>>
  BY <1>1, SubSeqEmpty
<1> QED
  BY <1>2, <1>3

\* An empty list lists nothing, and nothing else does.
LEMMA Nothing ==
  ASSUME NEW q, NEW S, Lists(q, S) \/ Descends(q, S)
  PROVE  (q = <<>>) <=> (S = {})
<1>1. q \in Seq(Nat) /\ ToSet(q) = S
  BY DEF Lists, Descends
<1>2. Len(q) \in Nat /\ (Len(q) = 0 <=> q = <<>>)
  BY <1>1, EmptySeq
<1>3. Len(q) # 0 => 1 \in 1..Len(q)
  BY <1>2
<1> QED
  BY <1>1, <1>2, <1>3, Members

\* The empty list.
LEMMA Empty ==
  Lists(<<>>, {}) /\ Descends(<<>>, {})
<1>1. <<>> \in Seq(Nat) /\ Len(<<>>) = 0
  BY EmptySeq
<1>2. ToSet(<<>>) = {}
  BY DEF ToSet
<1> QED
  BY <1>1, <1>2 DEF Lists, Descends

-----------------------------------------------------------------------------
(* Readers.                                                                 *)

\* The events of s from low on that lie before pos.
Between(s, low, pos) ==
  {n \in Nat : low <= n /\ n < pos /\ Kind(s, n) # "chunk"}

\* What a reader has still to yield is every event of s before pos.
Remains(s, r, pos) ==
  /\ r = [cursor |-> r.cursor, more |-> r.more, buffer |-> r.buffer]
  /\ r.cursor \in Nat /\ pos \in Nat /\ r.cursor <= pos
  /\ r.more <=> r.cursor > 0
  /\ Descends(r.buffer, Between(s, r.cursor, pos))

\* A new reader has everything before it.
LEMMA ReaderRemains ==
  ASSUME NEW s, NEW n \in Nat
  PROVE  Remains(s, Reader(n), n) /\ Reader(n).buffer = <<>>
<1>1. Between(s, n, n) = {}
  BY DEF Between
<1>2. Reader(n).more <=> n > 0
  BY DEF Reader
<1>3. /\ Reader(n).cursor = n /\ Reader(n).buffer = <<>>
      /\ Reader(n) = [cursor |-> n, more |-> Reader(n).more, buffer |-> <<>>]
  BY DEF Reader
<1>4. Descends(Reader(n).buffer, Between(s, Reader(n).cursor, n))
  BY <1>1, <1>3, Empty
<1> HIDE DEF Reader
<1> QED
  BY <1>2, <1>3, <1>4 DEF Remains

\* The page below the cursor brings the events of the records it stands for,
\* whichever page it is, and no other.
LEMMA PageTurned ==
  ASSUME NEW s, NEW r, NEW pos, NEW cut \in Nat, Remains(s, r, pos), Turns(r),
         NEW p \in Pages(r, cut), ~Stalled(r, p)
  PROVE  /\ Remains(s, Turned(s, r, p), r.cursor)
         /\ Turned(s, r, p).cursor < r.cursor
         /\ Between(s, r.cursor, pos) = {}
<1> DEFINE low == p.low
           high == p.high
           c == r.cursor
<1>1. /\ c \in Nat /\ pos \in Nat /\ c <= pos /\ c > 0
      /\ Descends(r.buffer, Between(s, c, pos)) /\ r.buffer = <<>>
  BY DEF Remains, Turns
<1>2. low \in Nat /\ high \in Nat /\ low < c /\ high >= c - 1 /\ low <= high + 1
  <2>1. p \in [low : 0..c, high : {c - 1, c} \cap 0..cut - 1]
    BY DEF Pages
  <2>2. low \in 0..c /\ high \in {c - 1, c} \cap 0..cut - 1
    BY <2>1
  <2> QED
    BY <1>1, <2>2 DEF Stalled
<1>3. Lists(Records(low, high), low..high)
  BY <1>2, RecordsList
<1> DEFINE S == {n \in Settled(s, low, high) : n < c}
<1>4. Lists(Events(s, r, p), (low..high) \cap S)
  BY <1>3, ThoseListed DEF Events
<1>5. (low..high) \cap S = Between(s, low, c)
  BY <1>1, <1>2 DEF Settled, Between
<1>6. Descends(Reverse(Events(s, r, p)), Between(s, low, c))
  BY <1>4, <1>5, Reversed
<1>7. Between(s, c, pos) = {}
  BY <1>1, Nothing
<1> DEFINE t == Turned(s, r, p)
<1>8. t = [cursor |-> low, more |-> low > 0, buffer |-> Reverse(Events(s, r, p))]
  BY DEF Turned, Below
<1> HIDE DEF t
<1>9. t.more <=> low > 0
  BY <1>8
<1>10. /\ t.cursor = low /\ t.buffer = Reverse(Events(s, r, p))
       /\ t = [cursor |-> t.cursor, more |-> t.more, buffer |-> t.buffer]
  BY <1>8
<1>11. Remains(s, t, c) /\ t.cursor < c
  BY <1>1, <1>2, <1>6, <1>9, <1>10 DEF Remains
<1> QED
  BY <1>7, <1>11 DEF t

-----------------------------------------------------------------------------
(* A turn is collected.                                                     *)

\* The fields of a capture.
FieldNames ==
  {"id", "session", "generation", "asked", "mode", "want", "outer", "end", "inner",
   "got", "cut", "status", "capsule"}
Shaped(j) == j = [f \in FieldNames |-> j[f]]

\* A capture that collects the turn that ends at "end" has every event from its
\* cursor to the end, and has not come to the start.
Gathers(j) ==
  /\ j.end \in Nat
  /\ Remains(j.session, j.inner, j.inner.cursor) /\ j.inner.buffer = <<>>
  /\ j.inner.cursor <= j.end + 1
  /\ Lists(j.got, Between(j.session, j.inner.cursor, j.end + 1))
  /\ \A n \in Starts(j.session, j.end) : n < j.inner.cursor

\* The slice of a turn lists its events from the last start on.
LEMMA SliceListed ==
  ASSUME NEW s, NEW end \in Nat, NEW start \in Starts(s, end),
         \A n \in Starts(s, end) : n <= start
  PROVE  Lists(Slice(s, end), Between(s, start, end + 1))
<1>1. start \in Nat /\ start <= end
  BY DEF Starts
<1>2. Starts(s, end) \in SUBSET Nat /\ \A n \in Starts(s, end) : n \in Nat /\ n <= end
  BY DEF Starts
<1>3. Max(Starts(s, end)) = start
  <2>1. /\ Max(Starts(s, end)) \in Starts(s, end)
        /\ \A n \in Starts(s, end) : n <= Max(Starts(s, end))
    BY <1>2, Greatest
  <2>2. Max(Starts(s, end)) <= start /\ start <= Max(Starts(s, end))
    BY <2>1
  <2>3. Max(Starts(s, end)) \in Nat
    BY <1>2, <2>1
  <2> QED
    BY <1>1, <2>2, <2>3
<1>4. Lists(Records(start, end), start..end)
  BY <1>1, RecordsList
<1>5. Lists(Those(Records(start, end), Settled(s, start, end)),
            (start..end) \cap Settled(s, start, end))
  BY <1>4, ThoseListed
<1>6. (start..end) \cap Settled(s, start, end) = Between(s, start, end + 1)
  BY <1>1 DEF Settled, Between
<1> QED
  BY <1>3, <1>5, <1>6 DEF Slice

\* A page more, and the capture has come to the start and is what a capture of
\* the turn should be; or to the end of the history; or it goes on gathering.
LEMMA CollectsWell ==
  ASSUME NEW j, Shaped(j), Gathers(j), Turns(j.inner), NEW cut \in Nat,
         NEW p \in Pages(j.inner, cut), ~Stalled(j.inner, p)
  PROVE  LET next == Collects(j, Turned(j.session, j.inner, p)) IN
         \/ next = Collected(j, Captured(j.session, j.end))
         \/ /\ \E got, inner : next = [j EXCEPT !.got = got, !.inner = inner]
            /\ Gathers(next)
<1> DEFINE s == j.session
           end == j.end
           c == j.inner.cursor
           r == Turned(s, j.inner, p)
           b == r.buffer
           S == Between(s, r.cursor, c)
           hits == {i \in DOMAIN b : Kind(s, b[i]) = "start" /\ Turn(s, b[i]) = Turn(s, end)}
           upto == IF hits = {} THEN Len(b) ELSE Min(hits)
           got == Reverse(SubSeq(b, 1, upto)) \o j.got
           next == Collects(j, r)
<1>1. /\ end \in Nat /\ c <= end + 1 /\ Lists(j.got, Between(s, c, end + 1))
      /\ \A n \in Starts(s, end) : n < c
  BY DEF Gathers
<1>2. Remains(s, r, c) /\ r.cursor < c
  BY PageTurned DEF Gathers
<1>3. /\ r = [cursor |-> r.cursor, more |-> r.more, buffer |-> b]
      /\ c \in Nat /\ r.cursor \in Nat /\ (r.more <=> r.cursor > 0) /\ Descends(b, S)
  BY <1>2 DEF Remains
<1>4. next = IF hits # {} THEN Collected(j, Capsule(s, got, end))
             ELSE IF ~r.more THEN Collected(j, None)
             ELSE [j EXCEPT !.got = got, !.inner = [r EXCEPT !.buffer = <<>>]]
  BY DEF Collects
<1> HIDE DEF r, next
<1>5. b \in Seq(Nat) /\ ToSet(b) = S
  BY <1>3 DEF Descends
<1>6. /\ Len(b) \in Nat /\ DOMAIN b = 1..Len(b)
      /\ \A i \in 1..Len(b) : b[i] \in Nat /\ b[i] \in S
      /\ \A n \in S : \E i \in 1..Len(b) : b[i] = n
  BY <1>5, Members
<1>7. CASE hits # {}
  <2> DEFINE m == Min(hits)
             start == b[m]
  <2>1. hits \in SUBSET Nat
    BY <1>6
  <2>2. m \in hits /\ \A i \in hits : m <= i
    BY <1>7, <2>1, Least
  <2>3. m \in 1..Len(b) /\ Kind(s, start) = "start" /\ Turn(s, start) = Turn(s, end)
    BY <1>6, <2>2
  <2> HIDE DEF m
  <2>4. start \in S /\ Descends(SubSeq(b, 1, m), {n \in S : n >= start})
    BY <1>3, <2>3, Divided
  <2>5. start \in Nat /\ start < c /\ r.cursor <= start
    BY <2>4 DEF Between
  <2>6. start \in Starts(s, end)
    BY <1>1, <1>3, <2>3, <2>5 DEF Starts
  <2>7. \A n \in Starts(s, end) : n <= start
    <3> SUFFICES ASSUME NEW n \in Starts(s, end), ~(n <= start) PROVE FALSE
      OBVIOUS
    <3>1. n \in Nat /\ n < c /\ Kind(s, n) = "start" /\ Turn(s, n) = Turn(s, end)
      BY <1>1 DEF Starts
    <3>2. start < n
      BY <2>5, <3>1
    <3>3. n \in S
      BY <1>3, <2>5, <3>1, <3>2 DEF Between
    <3>4. PICK i \in 1..Len(b) : b[i] = n
      BY <1>6, <3>3
    <3>5. i \in hits
      BY <1>6, <3>1, <3>4
    <3>6. m <= i
      BY <2>2, <3>5 DEF m
    <3>7. m < i => b[i] < b[m]
      BY <1>3, <2>3, <3>4 DEF Descends
    <3>8. m < i
      BY <1>6, <2>3, <2>5, <3>2, <3>4, <3>6
    <3> QED
      BY <2>5, <3>1, <3>2, <3>4, <3>7, <3>8
  <2>8. Lists(Slice(s, end), Between(s, start, end + 1))
    BY <1>1, <2>6, <2>7, SliceListed
  <2>9. Lists(Reverse(SubSeq(b, 1, m)), {n \in S : n >= start})
    BY <2>4, Reversed
  <2>10. \A n \in {n \in S : n >= start}, k \in Between(s, c, end + 1) : n < k
    BY <1>3 DEF Between
  <2>11. {n \in S : n >= start} \cup Between(s, c, end + 1) = Between(s, start, end + 1)
    BY <1>1, <1>3, <2>5 DEF Between
  <2>12. upto = m
    BY <1>7 DEF m
  <2>13. Lists(got, Between(s, start, end + 1))
    BY <1>1, <2>9, <2>10, <2>11, <2>12, Joined
  <2>14. got = Slice(s, end)
    BY <2>8, <2>13, ListedOnce
  <2>15. Starts(s, end) # {}
    BY <2>6
  <2>16. Captured(s, end) = Capsule(s, got, end)
    BY <2>14, <2>15 DEF Captured
  <2> QED
    BY <1>4, <1>7, <2>16 DEF next, r
<1>8. CASE hits = {}
  <2>1. SubSeq(b, 1, upto) = b
    BY <1>5, <1>8, All
  <2>2. Lists(Reverse(b), S)
    BY <1>3, Reversed
  <2>3. \A n \in S, k \in Between(s, c, end + 1) : n < k
    BY <1>3 DEF Between
  <2>4. S \cup Between(s, c, end + 1) = Between(s, r.cursor, end + 1)
    BY <1>1, <1>2, <1>3 DEF Between
  <2>5. Lists(got, Between(s, r.cursor, end + 1))
    <3>1. Lists(Reverse(b) \o j.got, Between(s, r.cursor, end + 1))
      BY <1>1, <2>2, <2>3, <2>4, Joined
    <3> QED
      BY <2>1, <3>1
  <2>6. \A n \in Starts(s, end) : n < r.cursor
    <3> SUFFICES ASSUME NEW n \in Starts(s, end), ~(n < r.cursor) PROVE FALSE
      OBVIOUS
    <3>1. n \in Nat /\ n < c /\ Kind(s, n) = "start" /\ Turn(s, n) = Turn(s, end)
      BY <1>1 DEF Starts
    <3>2. n \in S
      BY <1>3, <3>1 DEF Between
    <3>3. PICK i \in 1..Len(b) : b[i] = n
      BY <1>6, <3>2
    <3>4. i \in hits
      BY <1>6, <3>1, <3>3
    <3> QED
      BY <1>8, <3>4
  <2>7. CASE ~r.more
    <3>1. r.cursor = 0
      BY <1>3, <2>7
    <3>2. Starts(s, end) = {}
      BY <2>6, <3>1 DEF Starts
    <3>3. Captured(s, end) = None
      BY <3>2 DEF Captured
    <3> QED
      BY <1>4, <1>8, <2>7, <3>3 DEF next, r
  <2>8. CASE r.more
    <3> DEFINE inner == [cursor |-> r.cursor, more |-> r.more, buffer |-> <<>>]
    <3>1. [r EXCEPT !.buffer = <<>>] = inner
      BY <1>3
    <3>2. next = [j EXCEPT !.got = got, !.inner = inner]
      BY <1>4, <1>8, <2>8, <3>1
    <3> HIDE DEF got
    <3>3. /\ next.session = s /\ next.end = end /\ next.got = got /\ next.inner = inner
      BY <3>2 DEF Shaped, FieldNames
    <3>4. Between(s, r.cursor, r.cursor) = {}
      BY <1>3 DEF Between
    <3>5. Remains(s, inner, r.cursor) /\ inner.buffer = <<>> /\ inner.cursor = r.cursor
      <4>1. inner.cursor = r.cursor /\ inner.more = r.more /\ inner.buffer = <<>>
        OBVIOUS
      <4>2. inner = [cursor |-> inner.cursor, more |-> inner.more, buffer |-> inner.buffer]
        OBVIOUS
      <4>3. r.more <=> r.cursor > 0
        BY <1>3
      <4> HIDE DEF inner
      <4>4. inner.more <=> inner.cursor > 0
        BY <4>1, <4>3
      <4>5. Descends(inner.buffer, Between(s, inner.cursor, r.cursor))
        BY <3>4, <4>1, Empty
      <4> QED
        BY <1>3, <4>1, <4>2, <4>4, <4>5 DEF Remains
    <3>6. r.cursor <= end + 1
      BY <1>1, <1>2, <1>3
    <3> HIDE DEF inner
    <3>7. Gathers(next)
      BY <1>1, <2>5, <2>6, <3>3, <3>5, <3>6 DEF Gathers
    <3> QED
      BY <3>2, <3>7 DEF next, r
  <2> QED
    BY <2>7, <2>8
<1> QED
  BY <1>7, <1>8

-----------------------------------------------------------------------------
(* What a search still owes.                                                *)

\* What a command is to find, by what it asked.
Goal(j) ==
  CASE j.asked[1] = "latest" -> LastEnd(j.session, j.cut, Automatic)
    [] j.asked[1] = "turn" -> EndOf(j.session, j.cut, j.asked[2])
    [] j.asked[1] = "search" -> Selected(j.session, j.cut, j.asked[2])

\* What there is to find before pos, by what is looked for now.
Sought(s, pos, cut, x) ==
  Latest({n \in 0..pos - 1 : Matches(s, n, x)},
       LAMBDA n : IF Kind(s, n) = "say" THEN EndOf(s, cut, Turn(s, n))
                  ELSE LastEnd(s, n, Explicit))
Promise(j, pos) ==
  CASE j.mode = "latest" -> LastEnd(j.session, pos, Automatic)
    [] j.mode = "before" -> LastEnd(j.session, pos, Explicit)
    [] j.mode = "turn" -> EndOf(j.session, pos, j.want)
    [] j.mode = "search" -> Sought(j.session, pos, j.cut, j.want)
SearchModes == {"latest", "before", "turn", "search"}

\* Max of a set whose greatest member is known.
LEMMA MaxIs ==
  ASSUME NEW S \in SUBSET Nat, NEW n \in S, \A m \in S : m <= n
  PROVE  Max(S) = n
<1>1. Max(S) \in S /\ \A m \in S : m <= Max(S)
  BY Greatest
<1>2. Max(S) <= n /\ n <= Max(S) /\ Max(S) \in Nat
  BY <1>1
<1> QED
  BY <1>2

\* The latest turn before pos, when n is the last that may be it: either a
\* capture of n comes to something, or it is one before n.
LEMMA LastEndAt ==
  ASSUME NEW s, NEW pos \in Nat, NEW reasons, NEW n \in Nat, n < pos,
         Kind(s, n) = "end", Reason(s, n) \in reasons,
         \A k \in Nat : n < k /\ k < pos => ~(Kind(s, k) = "end" /\ Reason(s, k) \in reasons)
  PROVE  LastEnd(s, pos, reasons) =
           IF Captured(s, n) # None THEN Captured(s, n) ELSE LastEnd(s, n, reasons)
<1> DEFINE Is(k) == Kind(s, k) = "end" /\ Reason(s, k) \in reasons /\ Captured(s, k) # None
           S(p) == {k \in 0..p - 1 : Is(k)}
<1>1. \A p : LastEnd(s, p, reasons) = IF S(p) = {} THEN None ELSE Captured(s, Max(S(p)))
  BY DEF LastEnd, Latest
<1>2. \A k \in S(pos) : k \in Nat /\ k < pos /\ k <= n /\ Is(k)
  <2> SUFFICES ASSUME NEW k \in S(pos) PROVE k \in Nat /\ k < pos /\ k <= n /\ Is(k)
    OBVIOUS
  <2>1. k \in Nat /\ k < pos /\ Is(k)
    OBVIOUS
  <2>2. ~(n < k)
    BY <2>1
  <2> QED
    BY <2>1, <2>2
<1>3. CASE Captured(s, n) # None
  <2>1. n \in S(pos)
    BY <1>3
  <2> HIDE DEF S
  <2>2. S(pos) \in SUBSET Nat
    BY <1>2
  <2>3. Max(S(pos)) = n
    BY <1>2, <2>1, <2>2, MaxIs
  <2> QED
    BY <1>1, <1>3, <2>1, <2>3
<1>4. CASE Captured(s, n) = None
  <2>1. \A k \in S(pos) : k # n
    BY <1>4
  <2>2. S(pos) = S(n)
    BY <1>2, <2>1
  <2> HIDE DEF S
  <2> QED
    BY <1>1, <1>4, <2>2
<1> QED
  BY <1>3, <1>4

\* Where no such end lies, the latest turn before pos is the one before c.
LEMMA LastEndBelow ==
  ASSUME NEW s, NEW pos \in Nat, NEW reasons, NEW c \in Nat, c <= pos,
         \A k \in Nat : c <= k /\ k < pos => ~(Kind(s, k) = "end" /\ Reason(s, k) \in reasons)
  PROVE  LastEnd(s, pos, reasons) = LastEnd(s, c, reasons)
<1> DEFINE Is(k) == Kind(s, k) = "end" /\ Reason(s, k) \in reasons /\ Captured(s, k) # None
           S(p) == {k \in 0..p - 1 : Is(k)}
<1>1. \A p : LastEnd(s, p, reasons) = IF S(p) = {} THEN None ELSE Captured(s, Max(S(p)))
  BY DEF LastEnd, Latest
<1>2. \A k \in S(pos) : k < c
  <2> SUFFICES ASSUME NEW k \in S(pos) PROVE k < c
    OBVIOUS
  <2>1. k \in Nat /\ k < pos /\ Is(k)
    OBVIOUS
  <2>2. ~(c <= k)
    BY <2>1
  <2> QED
    BY <2>1, <2>2
<1>3. S(pos) = S(c)
  BY <1>2
<1> HIDE DEF S
<1> QED
  BY <1>1, <1>3

\* The end of a turn, when n is the last.
LEMMA EndOfAt ==
  ASSUME NEW s, NEW pos \in Nat, NEW t, NEW n \in Nat, n < pos,
         Kind(s, n) = "end", Turn(s, n) = t,
         \A k \in Nat : n < k /\ k < pos => ~(Kind(s, k) = "end" /\ Turn(s, k) = t)
  PROVE  EndOf(s, pos, t) = IF Reason(s, n) \in Explicit THEN Captured(s, n) ELSE None
<1> DEFINE S == {k \in 0..pos - 1 : Kind(s, k) = "end" /\ Turn(s, k) = t}
<1>1. EndOf(s, pos, t) =
        IF S = {} THEN None
        ELSE IF Reason(s, Max(S)) \in Explicit THEN Captured(s, Max(S)) ELSE None
  BY DEF EndOf, Latest
<1>2. n \in S /\ S \in SUBSET Nat
  OBVIOUS
<1>3. \A k \in S : k <= n
  <2> SUFFICES ASSUME NEW k \in S PROVE k <= n
    OBVIOUS
  <2>1. k \in Nat /\ k < pos /\ Kind(s, k) = "end" /\ Turn(s, k) = t
    OBVIOUS
  <2>2. ~(n < k)
    BY <2>1
  <2> QED
    BY <2>1, <2>2
<1> HIDE DEF S
<1>4. Max(S) = n
  BY <1>2, <1>3, MaxIs
<1> QED
  BY <1>1, <1>2, <1>4

\* The end of a turn, where none lies from c on.
LEMMA EndOfBelow ==
  ASSUME NEW s, NEW pos \in Nat, NEW t, NEW c \in Nat, c <= pos,
         \A k \in Nat : c <= k /\ k < pos => ~(Kind(s, k) = "end" /\ Turn(s, k) = t)
  PROVE  EndOf(s, pos, t) = EndOf(s, c, t)
<1> DEFINE S(p) == {k \in 0..p - 1 : Kind(s, k) = "end" /\ Turn(s, k) = t}
<1>1. \A p : EndOf(s, p, t) =
        IF S(p) = {} THEN None
        ELSE IF Reason(s, Max(S(p))) \in Explicit THEN Captured(s, Max(S(p))) ELSE None
  BY DEF EndOf, Latest
<1>2. \A k \in S(pos) : k < c
  <2> SUFFICES ASSUME NEW k \in S(pos) PROVE k < c
    OBVIOUS
  <2>1. k \in Nat /\ k < pos /\ Kind(s, k) = "end" /\ Turn(s, k) = t
    OBVIOUS
  <2>2. ~(c <= k)
    BY <2>1
  <2> QED
    BY <2>1, <2>2
<1>3. S(pos) = S(c)
  BY <1>2
<1> HIDE DEF S
<1> QED
  BY <1>1, <1>3

\* A selection, when its text was last said at n.
LEMMA SoughtAt ==
  ASSUME NEW s, NEW pos \in Nat, NEW cut, NEW x, NEW n \in Nat, n < pos, Matches(s, n, x),
         \A k \in Nat : n < k /\ k < pos => ~Matches(s, k, x)
  PROVE  Sought(s, pos, cut, x) =
           IF Kind(s, n) = "say" THEN EndOf(s, cut, Turn(s, n)) ELSE LastEnd(s, n, Explicit)
<1> DEFINE S == {k \in 0..pos - 1 : Matches(s, k, x)}
<1>1. Sought(s, pos, cut, x) =
        IF S = {} THEN None
        ELSE IF Kind(s, Max(S)) = "say" THEN EndOf(s, cut, Turn(s, Max(S)))
        ELSE LastEnd(s, Max(S), Explicit)
  BY DEF Sought, Latest
<1>2. n \in S /\ S \in SUBSET Nat
  OBVIOUS
<1>3. \A k \in S : k <= n
  <2> SUFFICES ASSUME NEW k \in S PROVE k <= n
    OBVIOUS
  <2>1. k \in Nat /\ k < pos /\ Matches(s, k, x)
    OBVIOUS
  <2>2. ~(n < k)
    BY <2>1
  <2> QED
    BY <2>1, <2>2
<1> HIDE DEF S
<1>4. Max(S) = n
  BY <1>2, <1>3, MaxIs
<1> QED
  BY <1>1, <1>2, <1>4

\* A selection, where its text is not found from c on.
LEMMA SoughtBelow ==
  ASSUME NEW s, NEW pos \in Nat, NEW cut, NEW x, NEW c \in Nat, c <= pos,
         \A k \in Nat : c <= k /\ k < pos => ~Matches(s, k, x)
  PROVE  Sought(s, pos, cut, x) = Sought(s, c, cut, x)
<1> DEFINE S(p) == {k \in 0..p - 1 : Matches(s, k, x)}
<1>1. \A p : Sought(s, p, cut, x) =
        IF S(p) = {} THEN None
        ELSE IF Kind(s, Max(S(p))) = "say" THEN EndOf(s, cut, Turn(s, Max(S(p))))
        ELSE LastEnd(s, Max(S(p)), Explicit)
  BY DEF Sought, Latest
<1>2. \A k \in S(pos) : k < c
  <2> SUFFICES ASSUME NEW k \in S(pos) PROVE k < c
    OBVIOUS
  <2>1. k \in Nat /\ k < pos /\ Matches(s, k, x)
    OBVIOUS
  <2>2. ~(c <= k)
    BY <2>1
  <2> QED
    BY <2>1, <2>2
<1>3. S(pos) = S(c)
  BY <1>2
<1> HIDE DEF S
<1> QED
  BY <1>1, <1>3

\* At the start of the history nothing is owed.
LEMMA PromiseNone ==
  ASSUME NEW j, j.mode \in SearchModes
  PROVE  Promise(j, 0) = None
<1>1. \A k \in 0..0 - 1 : FALSE
  OBVIOUS
<1>2. \A s, reasons : LastEnd(s, 0, reasons) = None
  BY <1>1 DEF LastEnd, Latest
<1>3. \A s, t : EndOf(s, 0, t) = None
  BY <1>1 DEF EndOf, Latest
<1>4. \A s, cut, x : Sought(s, 0, cut, x) = None
  BY <1>1 DEF Sought, Latest
<1> QED
  BY <1>2, <1>3, <1>4 DEF Promise, SearchModes

\* Where nothing that is wanted lies, what is owed does not change.
LEMMA PromiseBelow ==
  ASSUME NEW j, j.mode \in SearchModes, NEW pos \in Nat, NEW c \in Nat, c <= pos,
         \A k \in Nat : c <= k /\ k < pos => ~Wanted(j, k)
  PROVE  Promise(j, pos) = Promise(j, c)
<1>1. CASE j.mode \in {"latest", "before"}
  <2>1. \A k \in Nat : c <= k /\ k < pos =>
          ~(Kind(j.session, k) = "end" /\ Reason(j.session, k) \in Reasons(j.mode))
    BY <1>1 DEF Wanted
  <2>2. LastEnd(j.session, pos, Reasons(j.mode)) = LastEnd(j.session, c, Reasons(j.mode))
    BY <2>1, LastEndBelow
  <2> QED
    BY <1>1, <2>2 DEF Promise, Reasons
<1>2. CASE j.mode = "turn"
  <2>1. \A k \in Nat : c <= k /\ k < pos =>
          ~(Kind(j.session, k) = "end" /\ Turn(j.session, k) = j.want)
    BY <1>2 DEF Wanted
  <2>2. EndOf(j.session, pos, j.want) = EndOf(j.session, c, j.want)
    BY <2>1, EndOfBelow
  <2> QED
    BY <1>2, <2>2 DEF Promise
<1>3. CASE j.mode = "search"
  <2>1. \A k \in Nat : c <= k /\ k < pos => ~Matches(j.session, k, j.want)
    BY <1>3 DEF Wanted
  <2>2. Sought(j.session, pos, j.cut, j.want) = Sought(j.session, c, j.cut, j.want)
    BY <2>1, SoughtBelow
  <2> QED
    BY <1>3, <2>2 DEF Promise
<1> QED
  BY <1>1, <1>2, <1>3 DEF SearchModes

\* When n is the last that is wanted, what is owed is what comes of n.
LEMMA PromiseAt ==
  ASSUME NEW j, j.mode \in SearchModes, NEW pos \in Nat, NEW n \in Nat, n < pos,
         Wanted(j, n), \A k \in Nat : n < k /\ k < pos => ~Wanted(j, k)
  PROVE  LET s == j.session IN
         /\ j.mode \in {"latest", "before"} =>
              Promise(j, pos) = IF Captured(s, n) # None THEN Captured(s, n)
                                ELSE Promise(j, n)
         /\ j.mode = "turn" =>
              Promise(j, pos) = IF Reason(s, n) \in Explicit THEN Captured(s, n)
                                ELSE None
         /\ j.mode = "search" =>
              Promise(j, pos) = IF Kind(s, n) = "say" THEN EndOf(s, j.cut, Turn(s, n))
                                ELSE LastEnd(s, n, Explicit)
<1> DEFINE s == j.session
<1>1. CASE j.mode \in {"latest", "before"}
  <2>1. Kind(s, n) = "end" /\ Reason(s, n) \in Reasons(j.mode)
    BY <1>1 DEF Wanted
  <2>2. \A k \in Nat : n < k /\ k < pos =>
          ~(Kind(s, k) = "end" /\ Reason(s, k) \in Reasons(j.mode))
    BY <1>1 DEF Wanted
  <2>3. LastEnd(s, pos, Reasons(j.mode)) =
          IF Captured(s, n) # None THEN Captured(s, n)
          ELSE LastEnd(s, n, Reasons(j.mode))
    BY <2>1, <2>2, LastEndAt
  <2> QED
    BY <1>1, <2>3 DEF Promise, Reasons
<1>2. CASE j.mode = "turn"
  <2>1. Kind(s, n) = "end" /\ Turn(s, n) = j.want
    BY <1>2 DEF Wanted
  <2>2. \A k \in Nat : n < k /\ k < pos => ~(Kind(s, k) = "end" /\ Turn(s, k) = j.want)
    BY <1>2 DEF Wanted
  <2>3. EndOf(s, pos, j.want) = IF Reason(s, n) \in Explicit THEN Captured(s, n) ELSE None
    BY <2>1, <2>2, EndOfAt
  <2> QED
    BY <1>2, <2>3 DEF Promise
<1>3. CASE j.mode = "search"
  <2>1. Matches(s, n, j.want)
    BY <1>3 DEF Wanted
  <2>2. \A k \in Nat : n < k /\ k < pos => ~Matches(s, k, j.want)
    BY <1>3 DEF Wanted
  <2>3. Sought(s, pos, j.cut, j.want) =
          IF Kind(s, n) = "say" THEN EndOf(s, j.cut, Turn(s, n)) ELSE LastEnd(s, n, Explicit)
    BY <2>1, <2>2, SoughtAt
  <2> QED
    BY <1>3, <2>3 DEF Promise
<1> QED
  BY <1>1, <1>2, <1>3 DEF SearchModes

\* What is wanted is an event.
LEMMA WantedIsEvent ==
  ASSUME NEW j, j.mode \in SearchModes, NEW n, Wanted(j, n)
  PROVE  Kind(j.session, n) # "chunk"
  BY DEF Wanted, Matches, SearchModes

\* The first of a reader's buffer that is wanted is the last event that is, and
\* the reader keeps what lies before it.
LEMMA HitIsLast ==
  ASSUME NEW j, j.mode \in SearchModes, NEW r, NEW pos, Remains(j.session, r, pos),
         NEW hits, \A i : i \in hits <=> i \in DOMAIN r.buffer /\ Wanted(j, r.buffer[i]),
         NEW m, m = Min(hits)
  PROVE  /\ hits = {} => \A k \in Nat : r.cursor <= k /\ k < pos => ~Wanted(j, k)
         /\ hits # {} =>
              /\ r.buffer[m] \in Nat /\ r.buffer[m] < pos /\ Wanted(j, r.buffer[m])
              /\ \A k \in Nat : r.buffer[m] < k /\ k < pos => ~Wanted(j, k)
              /\ Remains(j.session,
                         [r EXCEPT !.buffer = SubSeq(r.buffer, m + 1, Len(r.buffer))],
                         r.buffer[m])
<1> DEFINE s == j.session
           b == r.buffer
           c == r.cursor
           S == Between(s, c, pos)
<1>1. /\ r = [cursor |-> c, more |-> r.more, buffer |-> b]
      /\ c \in Nat /\ pos \in Nat /\ c <= pos /\ (r.more <=> c > 0) /\ Descends(b, S)
  BY DEF Remains
<1>2. b \in Seq(Nat) /\ ToSet(b) = S
  BY <1>1 DEF Descends
<1>3. /\ Len(b) \in Nat /\ DOMAIN b = 1..Len(b)
      /\ \A i \in 1..Len(b) : b[i] \in Nat /\ b[i] \in S
      /\ \A n \in S : \E i \in 1..Len(b) : b[i] = n
  BY <1>2, Members
<1>4. ASSUME NEW k \in Nat, c <= k, k < pos, Wanted(j, k)
      PROVE  \E i \in hits : b[i] = k
  <2>1. k \in S
    BY <1>4, WantedIsEvent DEF Between
  <2>2. PICK i \in 1..Len(b) : b[i] = k
    BY <1>3, <2>1
  <2> QED
    BY <1>3, <1>4, <2>2
<1>5. CASE hits = {}
  BY <1>4, <1>5
<1>6. CASE hits # {}
  <2> DEFINE n == b[m]
  <2>1. hits \in SUBSET Nat
    BY <1>3
  <2>2. m \in hits /\ \A i \in hits : m <= i
    BY <1>6, <2>1, Least
  <2>3. m \in 1..Len(b) /\ Wanted(j, n) /\ \A i \in hits : i \in 1..Len(b)
    BY <1>3, <2>2
  <2>4. n \in Nat /\ c <= n /\ n < pos
    BY <1>3, <2>3 DEF Between
  <2>5. \A k \in Nat : n < k /\ k < pos => ~Wanted(j, k)
    <3> SUFFICES ASSUME NEW k \in Nat, n < k, k < pos, Wanted(j, k) PROVE FALSE
      OBVIOUS
    <3>1. c <= k
      BY <1>1, <2>4
    <3>2. PICK i \in hits : b[i] = k
      BY <1>4, <3>1
    <3>3. i \in 1..Len(b) /\ m <= i
      BY <2>2, <2>3, <3>2
    <3>4. m < i => b[i] < b[m]
      BY <1>1, <2>3, <3>3 DEF Descends
    <3>5. m = i \/ m < i
      BY <1>3, <2>3, <3>3
    <3> QED
      BY <2>4, <3>2, <3>4, <3>5
  <2> DEFINE q == SubSeq(b, m + 1, Len(b))
             t == [r EXCEPT !.buffer = q]
  <2>6. Descends(q, {k \in S : k < n})
    BY <1>1, <2>3, Divided
  <2>7. {k \in S : k < n} = Between(s, c, n)
    BY <1>1, <2>4 DEF Between
  <2> HIDE DEF q
  <2>8. /\ t.cursor = c /\ t.more = r.more /\ t.buffer = q
        /\ t = [cursor |-> t.cursor, more |-> t.more, buffer |-> t.buffer]
    BY <1>1
  <2> HIDE DEF t
  <2>9. t.more <=> t.cursor > 0
    BY <1>1, <2>8
  <2>10. Remains(s, t, n)
    BY <1>1, <2>4, <2>6, <2>7, <2>8, <2>9 DEF Remains
  <2> QED
    BY <1>6, <2>3, <2>4, <2>5, <2>10 DEF t, q
<1> QED
  BY <1>5, <1>6

-----------------------------------------------------------------------------
(* One capture.                                                             *)

\* A reader stays below the cut.
Placed(r, cut) ==
  /\ r.cursor \in Nat /\ r.cursor <= cut
  /\ \A n \in ToSet(r.buffer) : n \in Nat /\ r.cursor <= n /\ n < cut

\* It looks for something: what it is to find is what is owed from here on.
Searches(j) ==
  /\ ~Collecting(j)
  /\ \E pos \in Nat : /\ pos <= j.cut /\ Remains(j.session, j.outer, pos)
                      /\ Goal(j) = Promise(j, pos)

\* It collects what it found, and looks further before it if that comes to nothing.
Tries(j) ==
  /\ Gathers(j) /\ j.end < j.cut /\ j.mode # "search"
  /\ Remains(j.session, j.outer, j.end)
  /\ Goal(j) = IF Captured(j.session, j.end) # None \/ j.mode = "turn"
               THEN Captured(j.session, j.end) ELSE Promise(j, j.end)

\* It has a turn, or has found none, as it should.
Answered(j) ==
  /\ j.capsule = None \/ \E n \in Nat : j.capsule = Captured(j.session, n)
  /\ j.mode # "end" => j.capsule = Goal(j)

Framed(j) ==
  /\ Shaped(j) /\ j.session \in Session /\ j.cut \in Nat
  /\ Placed(j.outer, j.cut) /\ Placed(j.inner, j.cut)
  /\ j.status \in {"queued", "reading", "resolved"}
  /\ j.mode \in SearchModes \cup {"end"}
  /\ j.mode = "end" => j.end \in Nat
Sound(j) ==
  /\ Framed(j)
  /\ j.status = "queued" => j.mode = "end" /\ j.cut = 0
  /\ j.status = "reading" /\ j.mode = "end" => Gathers(j) /\ j.end < j.cut
  /\ j.status = "reading" /\ j.mode # "end" => Searches(j) \/ Tries(j)
  /\ j.status = "resolved" => Answered(j)

\* What the steps of a capture leave alone.
Follows(j, next) ==
  /\ next.id = j.id /\ next.session = j.session /\ next.generation = j.generation
  /\ next.asked = j.asked /\ (next.mode = "end" <=> j.mode = "end")
  /\ j.mode = "end" => next.end = j.end
  /\ j.status # "queued" => next.cut = j.cut

\* What a reader still has to yield lies below the cut if its position does.
LEMMA RemainsPlaced ==
  ASSUME NEW s, NEW r, NEW pos, Remains(s, r, pos), NEW cut \in Nat, pos <= cut
  PROVE  Placed(r, cut)
<1>1. /\ r.cursor \in Nat /\ pos \in Nat /\ r.cursor <= pos
      /\ ToSet(r.buffer) = Between(s, r.cursor, pos)
  BY DEF Remains, Descends
<1>2. \A n \in Between(s, r.cursor, pos) : n \in Nat /\ r.cursor <= n /\ n < pos
  BY DEF Between
<1> QED
  BY <1>1, <1>2 DEF Placed

\* What is to be found is fixed when it is asked for.
LEMMA GoalFixed ==
  ASSUME NEW j, NEW next, next.asked = j.asked, next.session = j.session, next.cut = j.cut
  PROVE  Goal(next) = Goal(j)
BY DEF Goal

\* A capture that resolves.
LEMMA ResolvedSound ==
  ASSUME NEW j, Framed(j), NEW found,
         found = None \/ \E n \in Nat : found = Captured(j.session, n),
         j.mode # "end" => found = Goal(j)
  PROVE  Sound(Resolved(j, found)) /\ Follows(j, Resolved(j, found))
<1> DEFINE next == Resolved(j, found)
<1>1. /\ Shaped(next) /\ next.id = j.id /\ next.session = j.session
      /\ next.generation = j.generation /\ next.asked = j.asked
      /\ next.mode = j.mode /\ next.want = j.want /\ next.outer = j.outer
      /\ next.end = j.end /\ next.inner = j.inner /\ next.cut = j.cut
      /\ next.status = "resolved" /\ next.capsule = found
  BY DEF Framed, Shaped, FieldNames, Resolved
<1> HIDE DEF next
<1>2. Goal(next) = Goal(j)
  BY <1>1, GoalFixed
<1>3. Answered(next)
  BY <1>1, <1>2 DEF Answered
<1>4. Sound(next)
  BY <1>1, <1>3 DEF Sound, Framed
<1> QED
  BY <1>1, <1>4 DEF Follows, next

\* A capture that begins to collect a turn has nothing, and has missed nothing.
LEMMA CollectGathers ==
  ASSUME NEW j, Shaped(j), NEW n \in Nat
  PROVE  LET next == Collect(j, n) IN
         /\ Shaped(next) /\ Gathers(next) /\ next.end = n
         /\ next.inner.cursor = n + 1
         /\ Remains(j.session, next.inner, n + 1)
         /\ next.id = j.id /\ next.session = j.session
         /\ next.generation = j.generation /\ next.asked = j.asked
         /\ next.mode = j.mode /\ next.want = j.want /\ next.outer = j.outer
         /\ next.cut = j.cut /\ next.status = j.status
<1> DEFINE next == Collect(j, n)
<1>1. /\ Shaped(next) /\ next.end = n /\ next.inner = Reader(n + 1) /\ next.got = <<>>
      /\ next.id = j.id /\ next.session = j.session
      /\ next.generation = j.generation /\ next.asked = j.asked
      /\ next.mode = j.mode /\ next.want = j.want /\ next.outer = j.outer
      /\ next.cut = j.cut /\ next.status = j.status
  BY DEF Shaped, FieldNames, Collect
<1> HIDE DEF next
<1>2. /\ Remains(j.session, Reader(n + 1), n + 1) /\ Reader(n + 1).buffer = <<>>
      /\ Reader(n + 1).cursor = n + 1
  BY ReaderRemains DEF Reader
<1>3. Between(j.session, n + 1, n + 1) = {}
  BY DEF Between
<1>4. \A k \in Starts(j.session, n) : k < n + 1
  BY DEF Starts
<1>5. Gathers(next)
  <2>1. Between(j.session, n + 1, n + 1) = {} => Lists(<<>>, Between(j.session, n + 1, n + 1))
    BY Empty
  <2>2. /\ next.inner.cursor = n + 1 /\ next.inner.buffer = <<>>
        /\ Remains(next.session, next.inner, n + 1)
        /\ Lists(next.got, Between(next.session, n + 1, n + 1))
    BY <1>1, <1>2, <1>3, <2>1
  <2> QED
    BY <1>1, <1>4, <2>2 DEF Gathers
<1> QED
  BY <1>1, <1>2, <1>5 DEF next

\* The microtask of a turn's end.
LEMMA BeginSound ==
  ASSUME NEW j, Sound(j), Begin(j), seq[j.session] \in Nat, j.end < seq[j.session]
  PROVE  \/ reads' = reads \ {j}
         \/ \E next : /\ Becomes(j, next) /\ Sound(next) /\ Follows(j, next)
                      /\ next.cut = j.cut \/ next.cut = seq[j.session]
<1> DEFINE start == [j EXCEPT !.cut = seq[j.session], !.status = "reading"]
           next == Collect(start, j.end)
<1>1. j.mode = "end" /\ j.end \in Nat /\ j.status = "queued"
  BY DEF Sound, Framed, Begin
<1>2. CASE reads' = reads \ {j}
  BY <1>2
<1>3. CASE Becomes(j, Resolved(j, None))
  <2>1. Sound(Resolved(j, None)) /\ Follows(j, Resolved(j, None))
    BY <1>1, ResolvedSound DEF Sound
  <2>2. Resolved(j, None).cut = j.cut
    BY DEF Sound, Framed, Shaped, FieldNames, Resolved
  <2> QED
    BY <1>3, <2>1, <2>2
<1>4. CASE Becomes(j, next)
  <2>1. /\ Shaped(start) /\ start.cut = seq[j.session] /\ start.status = "reading"
        /\ start.id = j.id /\ start.session = j.session
        /\ start.generation = j.generation /\ start.asked = j.asked
        /\ start.mode = j.mode /\ start.outer = j.outer
    BY DEF Sound, Framed, Shaped, FieldNames
  <2> HIDE DEF start
  <2>2. /\ Shaped(next) /\ Gathers(next) /\ next.end = j.end
        /\ Remains(start.session, next.inner, j.end + 1)
        /\ next.id = start.id /\ next.session = start.session
        /\ next.generation = start.generation /\ next.asked = start.asked
        /\ next.mode = start.mode /\ next.outer = start.outer
        /\ next.cut = start.cut /\ next.status = start.status
    BY <1>1, <2>1, CollectGathers
  <2> HIDE DEF next
  <2>3. Placed(next.inner, next.cut)
    BY <1>1, <2>1, <2>2, RemainsPlaced
  <2>4. Placed(next.outer, next.cut)
    <3>1. Placed(j.outer, 0)
      BY DEF Sound, Framed, Begin
    <3>2. Placed(j.outer, seq[j.session])
      BY <3>1 DEF Placed
    <3> QED
      BY <2>1, <2>2, <3>2
  <2>5. Sound(next)
    BY <1>1, <2>1, <2>2, <2>3, <2>4 DEF Sound, Framed
  <2> QED
    BY <1>1, <1>4, <2>1, <2>2, <2>5 DEF Follows
<1> QED
  BY <1>2, <1>3, <1>4 DEF Begin

\* A turn has been collected, as a capture of it should be.
LEMMA CollectedSound ==
  ASSUME NEW j, Sound(j), j.status = "reading", Collecting(j)
  PROVE  LET next == Collected(j, Captured(j.session, j.end)) IN
         Sound(next) /\ Follows(j, next)
<1> DEFINE s == j.session
           found == Captured(s, j.end)
           next == Collected(j, found)
<1>1. CASE j.mode = "end"
  <2>1. j.end \in Nat /\ next = Resolved(j, found)
    BY <1>1 DEF Sound, Framed, Collected
  <2> QED
    BY <1>1, <2>1, ResolvedSound DEF Sound
<1>2. CASE j.mode # "end"
  <2>1. Tries(j)
    BY <1>2 DEF Sound, Framed, Searches
  <2>2. /\ j.end \in Nat /\ j.end < j.cut /\ j.mode # "search"
        /\ Remains(s, j.outer, j.end)
        /\ Goal(j) = IF found # None \/ j.mode = "turn" THEN found ELSE Promise(j, j.end)
    BY <2>1 DEF Tries, Gathers
  <2>3. CASE found # None \/ j.mode = "turn"
    <3>1. next = Resolved(j, found) /\ found = Goal(j)
      BY <2>2, <2>3 DEF Collected
    <3> QED
      BY <2>2, <3>1, ResolvedSound DEF Sound
  <2>4. CASE ~(found # None \/ j.mode = "turn")
    <3>1. j.mode \in {"latest", "before"}
      BY <1>2, <2>2, <2>4 DEF Sound, Framed, SearchModes
    <3>2. next = [j EXCEPT !.end = None]
      BY <2>4, <3>1 DEF Collected
    <3>3. /\ Shaped(next) /\ next.end = None
          /\ next.id = j.id /\ next.session = s /\ next.generation = j.generation
          /\ next.asked = j.asked /\ next.mode = j.mode /\ next.want = j.want
          /\ next.outer = j.outer /\ next.inner = j.inner
          /\ next.cut = j.cut /\ next.status = j.status
      BY <3>2 DEF Sound, Framed, Shaped, FieldNames
    <3> HIDE DEF next
    <3>4. Goal(next) = Goal(j)
      BY <3>3, GoalFixed
    <3>5. Promise(next, j.end) = Promise(j, j.end)
      BY <3>3 DEF Promise
    <3>6. Searches(next)
      <4>1. ~Collecting(next)
        BY <3>3 DEF Collecting
      <4>2. Remains(next.session, next.outer, j.end) /\ j.end <= next.cut
        BY <2>2, <3>3 DEF Sound, Framed
      <4>3. Goal(next) = Promise(next, j.end)
        BY <2>2, <2>4, <3>4, <3>5
      <4> QED
        BY <2>2, <4>1, <4>2, <4>3 DEF Searches
    <3>7. Sound(next)
      BY <1>2, <3>3, <3>6 DEF Sound, Framed
    <3> QED
      BY <1>2, <3>3, <3>7 DEF next, Follows
  <2> QED
    BY <2>3, <2>4
<1> QED
  BY <1>1, <1>2

\* A page more of the turn that is collected.
LEMMA GathersSound ==
  ASSUME NEW j, Sound(j), j.status = "reading", Collecting(j), Turns(j.inner),
         NEW p \in Pages(j.inner, j.cut), ~Stalled(j.inner, p)
  PROVE  LET next == Collects(j, Turned(j.session, j.inner, p)) IN
         Sound(next) /\ Follows(j, next)
<1> DEFINE s == j.session
           next == Collects(j, Turned(s, j.inner, p))
<1>1. Shaped(j) /\ Gathers(j) /\ j.cut \in Nat /\ j.end < j.cut
  BY DEF Sound, Framed, Searches, Tries
<1>2. \/ next = Collected(j, Captured(s, j.end))
      \/ /\ \E got, inner : next = [j EXCEPT !.got = got, !.inner = inner]
         /\ Gathers(next)
  BY <1>1, CollectsWell
<1> HIDE DEF next
<1>3. CASE next = Collected(j, Captured(s, j.end))
  BY <1>3, CollectedSound DEF next
<1>4. CASE /\ \E got, inner : next = [j EXCEPT !.got = got, !.inner = inner]
           /\ Gathers(next)
  <2>1. PICK got, inner : next = [j EXCEPT !.got = got, !.inner = inner]
    BY <1>4
  <2>2. /\ Shaped(next) /\ next.end = j.end
        /\ next.id = j.id /\ next.session = s /\ next.generation = j.generation
        /\ next.asked = j.asked /\ next.mode = j.mode /\ next.want = j.want
        /\ next.outer = j.outer
        /\ next.cut = j.cut /\ next.status = j.status
    BY <1>1, <2>1 DEF Shaped, FieldNames
  <2>3. Goal(next) = Goal(j) /\ Promise(next, j.end) = Promise(j, j.end)
    BY <2>2, GoalFixed DEF Promise
  <2>4. j.mode # "end" => Tries(next)
    <3>1. j.mode # "end" => Tries(j)
      BY DEF Sound, Framed, Searches
    <3> QED
      BY <1>4, <2>2, <2>3, <3>1 DEF Tries
  <2>5. Placed(next.inner, next.cut)
    <3>1. /\ next.end \in Nat /\ next.inner.cursor <= next.end + 1
          /\ Remains(s, next.inner, next.inner.cursor)
      BY <1>4, <2>2 DEF Gathers
    <3>2. next.inner.cursor \in Nat
      BY <3>1 DEF Remains
    <3>3. next.inner.cursor <= j.cut
      BY <1>1, <2>2, <3>1, <3>2
    <3> QED
      BY <1>1, <2>2, <3>1, <3>3, RemainsPlaced
  <2>6. Sound(next)
    BY <1>1, <1>4, <2>2, <2>4, <2>5 DEF Sound, Framed
  <2> QED
    BY <2>2, <2>6 DEF Follows, next
<1> QED
  BY <1>2, <1>3, <1>4

\* A page more of the search.
LEMMA SearchedSound ==
  ASSUME NEW j, Sound(j), j.status = "reading", ~Collecting(j), Turns(j.outer),
         NEW p \in Pages(j.outer, j.cut), ~Stalled(j.outer, p)
  PROVE  LET next == [j EXCEPT !.outer = Turned(j.session, j.outer, p)] IN
         Sound(next) /\ Follows(j, next)
<1> DEFINE s == j.session
           t == Turned(s, j.outer, p)
           next == [j EXCEPT !.outer = t]
           c == j.outer.cursor
<1>1. j.mode # "end" /\ Searches(j) /\ j.mode \in SearchModes /\ j.cut \in Nat
  BY NoneAssumption DEF Sound, Framed, Collecting, Tries, Gathers
<1>2. PICK pos \in Nat : pos <= j.cut /\ Remains(s, j.outer, pos) /\ Goal(j) = Promise(j, pos)
  BY <1>1 DEF Searches
<1>3. Remains(s, t, c) /\ Between(s, c, pos) = {} /\ c \in Nat /\ c <= pos
  BY <1>1, <1>2, PageTurned DEF Remains
<1> HIDE DEF t
<1>4. \A k \in Nat : c <= k /\ k < pos => ~Wanted(j, k)
  <2>1. \A k \in Nat : c <= k /\ k < pos => Kind(s, k) = "chunk"
    BY <1>3 DEF Between
  <2> QED
    BY <1>1, <2>1, WantedIsEvent
<1>5. Goal(j) = Promise(j, c)
  BY <1>1, <1>2, <1>3, <1>4, PromiseBelow
<1>6. /\ Shaped(next) /\ next.outer = t /\ next.end = j.end
      /\ next.id = j.id /\ next.session = s /\ next.generation = j.generation
      /\ next.asked = j.asked /\ next.mode = j.mode /\ next.want = j.want
      /\ next.inner = j.inner /\ next.cut = j.cut /\ next.status = j.status
  BY DEF Sound, Framed, Shaped, FieldNames
<1> HIDE DEF next
<1>7. Goal(next) = Goal(j) /\ Promise(next, c) = Promise(j, c)
  BY <1>6, GoalFixed DEF Promise
<1>8. c <= j.cut
  BY <1>1, <1>2, <1>3
<1>9. Searches(next)
  <2>1. ~Collecting(next)
    BY <1>6 DEF Collecting
  <2>2. Remains(next.session, next.outer, c)
    BY <1>3, <1>6
  <2> QED
    BY <1>3, <1>5, <1>6, <1>7, <1>8, <2>1, <2>2 DEF Searches
<1>10. Placed(next.outer, next.cut)
  BY <1>1, <1>3, <1>6, <1>8, RemainsPlaced
<1>11. Sound(next)
  BY <1>1, <1>6, <1>9, <1>10 DEF Sound, Framed
<1> QED
  BY <1>6, <1>11 DEF next, Follows, t

\* The next page of whatever is read, or an error.
LEMMA FetchSound ==
  ASSUME NEW j, Sound(j), Fetch(j)
  PROVE  \/ Failed(j)
         \/ /\ answer' = answer
            /\ \E next : /\ Becomes(j, next) /\ Sound(next) /\ Follows(j, next)
                         /\ j.status = "reading"
<1> SUFFICES ASSUME ~Failed(j)
             PROVE  /\ answer' = answer
                    /\ \E next : /\ Becomes(j, next) /\ Sound(next) /\ Follows(j, next)
                                 /\ j.status = "reading"
  OBVIOUS
<1>1. PICK p \in Pages(Reading(j), j.cut) :
        IF Stalled(Reading(j), p) \/ (stopped /\ j.id \notin Command)
        THEN Failed(j)
        ELSE \E next \in {Turned(j.session, Reading(j), p)} :
               /\ Becomes(j, IF Collecting(j) THEN Collects(j, next)
                             ELSE [j EXCEPT !.outer = next])
               /\ UNCHANGED answer
  BY DEF Fetch
<1> DEFINE t == Turned(j.session, Reading(j), p)
<1>2. /\ ~Stalled(Reading(j), p) /\ answer' = answer
      /\ Becomes(j, IF Collecting(j) THEN Collects(j, t) ELSE [j EXCEPT !.outer = t])
  BY <1>1
<1>3. j.status = "reading" /\ Turns(Reading(j))
  BY DEF Fetch
<1>4. CASE Collecting(j)
  <2>1. Sound(Collects(j, t)) /\ Follows(j, Collects(j, t))
    BY <1>2, <1>3, <1>4, GathersSound DEF Reading
  <2> QED
    BY <1>2, <1>3, <1>4, <2>1
<1>5. CASE ~Collecting(j)
  <2> DEFINE next == [j EXCEPT !.outer = t]
  <2>1. Sound(next) /\ Follows(j, next)
    BY <1>2, <1>3, <1>5, SearchedSound DEF Reading
  <2> HIDE DEF next
  <2>2. Becomes(j, next)
    BY <1>2, <1>5 DEF next
  <2> QED
    BY <1>2, <1>3, <2>1, <2>2
<1> QED
  BY <1>4, <1>5

\* What is looked for is found at n: the search becomes what it should, with its
\* reader before n.
LEMMA FoundSound ==
  ASSUME NEW j, Framed(j), j.status = "reading", ~Collecting(j),
         j.mode # "end", NEW n \in Nat, n < j.cut, Wanted(j, n),
          NEW pos \in Nat, n < pos, pos <= j.cut,
         \A k \in Nat : n < k /\ k < pos => ~Wanted(j, k),
         Goal(j) = Promise(j, pos),
         Remains(j.session, j.outer, n)
  PROVE  Sound(Found(j, n)) /\ Follows(j, Found(j, n))
<1> DEFINE s == j.session
           next == Found(j, n)
<1>1. /\ j.mode # "end" /\ j.mode \in SearchModes /\ j.cut \in Nat /\ Shaped(j)
      /\ s \in Session
  BY DEF Framed
<1>2. /\ j.mode \in {"latest", "before"} =>
           Goal(j) = IF Captured(s, n) # None THEN Captured(s, n) ELSE Promise(j, n)
      /\ j.mode = "turn" =>
           Goal(j) = IF Reason(s, n) \in Explicit THEN Captured(s, n) ELSE None
      /\ j.mode = "search" =>
           Goal(j) = IF Kind(s, n) = "say" THEN EndOf(s, j.cut, Turn(s, n))
                     ELSE LastEnd(s, n, Explicit)
  BY <1>1, PromiseAt
<1>3. CASE next = Collect(j, n) /\ j.mode \in {"latest", "before", "turn"}
           /\ (j.mode = "turn" => Reason(s, n) \in Explicit)
  <2> DEFINE start == Collect(j, n)
  <2>0. /\ Shaped(start) /\ Gathers(start) /\ start.end = n
        /\ Remains(s, start.inner, n + 1)
        /\ start.id = j.id /\ start.session = s
        /\ start.generation = j.generation /\ start.asked = j.asked
        /\ start.mode = j.mode /\ start.want = j.want /\ start.outer = j.outer
        /\ start.cut = j.cut /\ start.status = j.status
    BY <1>1, CollectGathers
  <2> HIDE DEF start
  <2>1. /\ Shaped(next) /\ Gathers(next) /\ next.end = n
        /\ Remains(s, next.inner, n + 1)
        /\ next.id = j.id /\ next.session = s
        /\ next.generation = j.generation /\ next.asked = j.asked
        /\ next.mode = j.mode /\ next.want = j.want /\ next.outer = j.outer
        /\ next.cut = j.cut /\ next.status = j.status
    BY <1>3, <2>0 DEF start
  <2> HIDE DEF next
  <2>2. Goal(next) = Goal(j) /\ Promise(next, n) = Promise(j, n)
    BY <2>1, GoalFixed DEF Promise
  <2>3. Goal(j) = IF Captured(s, n) # None \/ j.mode = "turn"
                  THEN Captured(s, n) ELSE Promise(j, n)
    BY <1>2, <1>3
  <2>4. Tries(next)
    BY <1>3, <2>1, <2>2, <2>3 DEF Tries
  <2>5. Placed(next.inner, next.cut)
    BY <1>1, <2>1, RemainsPlaced
  <2>6. Sound(next)
    BY <1>1, <2>1, <2>4, <2>5 DEF Sound, Framed
  <2> QED
    BY <1>1, <2>1, <2>6 DEF Follows, next
<1>4. CASE next = Resolved(j, None) /\ j.mode = "turn" /\ Reason(s, n) \notin Explicit
  <2>1. Goal(j) = None
    BY <1>2, <1>4
  <2> QED
    BY <1>4, <2>1, ResolvedSound
<1>5. ASSUME NEW mode \in {"turn", "before"}, NEW want, NEW at \in Nat, at <= j.cut,
             next = [j EXCEPT !.mode = mode, !.want = want, !.outer = Reader(at)],
             Goal(j) = IF mode = "turn" THEN EndOf(s, at, want)
                       ELSE LastEnd(s, at, Explicit)
      PROVE  Sound(next) /\ Follows(j, next)
  <2>1. /\ Shaped(next) /\ next.end = j.end /\ next.inner = j.inner
        /\ next.id = j.id /\ next.session = s
        /\ next.generation = j.generation /\ next.asked = j.asked
        /\ next.mode = mode /\ next.want = want /\ next.outer = Reader(at)
        /\ next.cut = j.cut /\ next.status = j.status
    BY <1>1, <1>5 DEF Shaped, FieldNames
  <2> HIDE DEF next
  <2>2. Goal(next) = Goal(j)
    BY <2>1, GoalFixed
  <2>3. Promise(next, at) = Goal(j)
    BY <1>5, <2>1 DEF Promise
  <2>4. Remains(s, next.outer, at)
    BY <2>1, ReaderRemains
  <2>5. ~Collecting(next)
    BY <2>1 DEF Collecting
  <2>6. Searches(next)
    BY <1>5, <2>1, <2>2, <2>3, <2>4, <2>5 DEF Searches
  <2>7. Placed(next.outer, next.cut)
    BY <1>1, <1>5, <2>1, <2>4, RemainsPlaced
  <2>8. mode # "end" /\ mode \in SearchModes
    BY DEF SearchModes
  <2>9. Sound(next)
    BY <1>1, <2>1, <2>6, <2>7, <2>8 DEF Sound, Framed
  <2> QED
    BY <1>1, <2>1, <2>8, <2>9 DEF Follows, next
<1>6. CASE j.mode = "search" /\ Kind(s, n) = "say"
  <2>1. next = [j EXCEPT !.mode = "turn", !.want = Turn(s, n), !.outer = Reader(j.cut)]
    BY <1>6 DEF Found
  <2>2. Goal(j) = EndOf(s, j.cut, Turn(s, n))
    BY <1>2, <1>6
  <2>3. j.cut \in Nat /\ j.cut <= j.cut
    BY <1>1
  <2> HIDE DEF next
  <2> QED
    BY <1>5, <2>1, <2>2, <2>3 DEF next
<1>7. CASE j.mode = "search" /\ Kind(s, n) # "say"
  <2>1. next = [j EXCEPT !.mode = "before", !.outer = Reader(n)]
    BY <1>7 DEF Found
  <2>2. next = [j EXCEPT !.mode = "before", !.want = j.want, !.outer = Reader(n)]
    BY <1>1, <2>1 DEF Shaped, FieldNames
  <2>3. Goal(j) = LastEnd(s, n, Explicit)
    BY <1>2, <1>7
  <2>4. n <= j.cut
    BY <1>1
  <2> QED
    BY <1>5, <2>2, <2>3, <2>4
<1>8. j.mode \in {"latest", "before", "turn"} \/ j.mode = "search"
  BY <1>1 DEF SearchModes
<1>9. CASE j.mode \in {"latest", "before"}
  <2>1. next = Collect(j, n)
    BY <1>9 DEF Found
  <2> QED
    BY <1>3, <1>9, <2>1
<1>10. CASE j.mode = "turn"
  <2>1. next = IF Reason(s, n) \in Explicit THEN Collect(j, n) ELSE Resolved(j, None)
    BY <1>10 DEF Found
  <2> QED
    BY <1>3, <1>4, <1>10, <2>1
<1> QED
  BY <1>6, <1>7, <1>8, <1>9, <1>10

\* The buffer is searched.
LEMMA LookSound ==
  ASSUME NEW j, Sound(j), Look(j)
  PROVE  \E next : /\ Becomes(j, next) /\ Sound(next) /\ Follows(j, next)
                   /\ j.status = "reading"
<1> DEFINE s == j.session
           b == j.outer.buffer
           c == j.outer.cursor
           hits == {i \in DOMAIN b : Wanted(j, b[i])}
           after(i) == [j EXCEPT !.outer.buffer = SubSeq(b, i + 1, Len(b))]
<1>1. /\ j.status = "reading" /\ ~Collecting(j)
      /\ Becomes(j, IF hits # {} THEN Found(after(Min(hits)), b[Min(hits)])
                    ELSE IF j.outer.more THEN after(Len(b))
                    ELSE Resolved(j, None))
  BY DEF Look
<1>2. /\ j.mode # "end" /\ Searches(j) /\ j.mode \in SearchModes /\ j.cut \in Nat
      /\ Shaped(j)
  BY <1>1, NoneAssumption DEF Sound, Framed, Collecting, Tries, Gathers
<1>3. PICK pos \in Nat : pos <= j.cut /\ Remains(s, j.outer, pos) /\ Goal(j) = Promise(j, pos)
  BY <1>2 DEF Searches
<1>4. /\ j.outer = [cursor |-> c, more |-> j.outer.more, buffer |-> b]
      /\ c \in Nat /\ c <= pos /\ (j.outer.more <=> c > 0) /\ b \in Seq(Nat)
  BY <1>3 DEF Remains, Descends
<1>5. ASSUME NEW i, NEW at \in Nat, at <= pos,
             Remains(s, [j.outer EXCEPT !.buffer = SubSeq(b, i + 1, Len(b))], at)
      PROVE  /\ Shaped(after(i)) /\ after(i).end = j.end /\ after(i).inner = j.inner
             /\ after(i).id = j.id /\ after(i).session = s
             /\ after(i).generation = j.generation /\ after(i).asked = j.asked
             /\ after(i).mode = j.mode /\ after(i).want = j.want
             /\ after(i).cut = j.cut /\ after(i).status = j.status
             /\ Remains(s, after(i).outer, at) /\ Placed(after(i).outer, j.cut)
             /\ Goal(after(i)) = Goal(j)
             /\ \A p : Promise(after(i), p) = Promise(j, p)
             /\ \A n : Wanted(after(i), n) = Wanted(j, n)
  <2> DEFINE next == after(i)
             t == [j.outer EXCEPT !.buffer = SubSeq(b, i + 1, Len(b))]
  <2>1. /\ Shaped(next) /\ next.end = j.end /\ next.inner = j.inner
        /\ next.id = j.id /\ next.session = s
        /\ next.generation = j.generation /\ next.asked = j.asked
        /\ next.mode = j.mode /\ next.want = j.want /\ next.outer = t
        /\ next.cut = j.cut /\ next.status = j.status
    BY <1>2 DEF Shaped, FieldNames
  <2> HIDE DEF next
  <2>2. Goal(next) = Goal(j) /\ \A p : Promise(next, p) = Promise(j, p)
    BY <2>1, GoalFixed DEF Promise
  <2>3. \A n : Wanted(next, n) = Wanted(j, n)
    BY <2>1 DEF Wanted
  <2>4. Remains(s, next.outer, at)
    BY <1>5, <2>1
  <2>5. at <= j.cut
    BY <1>2, <1>3, <1>5
  <2>6. Placed(next.outer, j.cut)
    BY <1>2, <2>4, <2>5, RemainsPlaced
  <2> QED
    BY <2>1, <2>2, <2>3, <2>4, <2>6 DEF next
<1>6. CASE hits # {}
  <2> DEFINE m == Min(hits)
             n == b[m]
             found == after(m)
  <2>1. /\ n \in Nat /\ n < pos /\ Wanted(j, n)
        /\ \A k \in Nat : n < k /\ k < pos => ~Wanted(j, k)
        /\ Remains(s, [j.outer EXCEPT !.buffer = SubSeq(b, m + 1, Len(b))], n)
    <3>1. j.mode \in SearchModes /\ Remains(j.session, j.outer, pos)
      BY <1>2, <1>3
    <3>2. \A i : i \in hits <=> i \in DOMAIN j.outer.buffer /\ Wanted(j, j.outer.buffer[i])
      OBVIOUS
    <3>3. m = Min(hits)
      OBVIOUS
    <3> HIDE DEF hits, m
    <3> QED
      BY <3>1, <3>2, <3>3, <1>6, HitIsLast
  <2>2. Becomes(j, Found(found, n))
    BY <1>1, <1>6
  <2> HIDE DEF m
  <2>3. n <= pos
    BY <2>1
  <2>4. /\ Shaped(found) /\ found.end = j.end /\ found.inner = j.inner
        /\ found.id = j.id /\ found.session = s
        /\ found.generation = j.generation /\ found.asked = j.asked
        /\ found.mode = j.mode /\ found.want = j.want
        /\ found.cut = j.cut /\ found.status = j.status
        /\ Remains(s, found.outer, n) /\ Placed(found.outer, j.cut)
        /\ Goal(found) = Goal(j)
        /\ \A p : Promise(found, p) = Promise(j, p)
        /\ \A k : Wanted(found, k) = Wanted(j, k)
    BY <1>5, <2>1, <2>3
  <2> HIDE DEF found
  <2>5. ~Collecting(found)
    BY <1>1, <2>4 DEF Collecting
  <2>6. Framed(found)
    BY <2>4 DEF Sound, Framed
  <2>7. n < j.cut
    BY <1>2, <1>3, <2>1
  <2>8. Goal(found) = Promise(found, pos)
    BY <1>3, <2>4
  <2>9. /\ Wanted(found, n)
        /\ \A k \in Nat : n < k /\ k < pos => ~Wanted(found, k)
    BY <2>1, <2>4
  <2>10. Sound(Found(found, n)) /\ Follows(found, Found(found, n))
    <3>1. found.mode # "end" /\ found.status = "reading"
      BY <1>1, <1>2, <2>4
    <3>2. n \in Nat /\ n < pos /\ pos <= found.cut /\ n < found.cut
      BY <1>3, <2>1, <2>4, <2>7
    <3>3. Remains(found.session, found.outer, n)
      BY <2>4
    <3> HIDE DEF n
    <3> QED
      BY <2>5, <2>6, <2>8, <2>9, <3>1, <3>2, <3>3, FoundSound
  <2>11. Follows(j, Found(found, n))
    BY <1>1, <1>2, <2>4, <2>10 DEF Follows
  <2> QED
    BY <1>1, <2>2, <2>10, <2>11
<1>7. CASE hits = {}
  <2>1. \A k \in Nat : c <= k /\ k < pos => ~Wanted(j, k)
    BY <1>2, <1>3, <1>7, HitIsLast
  <2>2. Goal(j) = Promise(j, c)
    BY <1>2, <1>3, <1>4, <2>1, PromiseBelow
  <2>3. CASE j.outer.more
    <3> DEFINE next == after(Len(b))
               q == SubSeq(b, Len(b) + 1, Len(b))
               t == [j.outer EXCEPT !.buffer = q]
    <3>0. q = <<>>
      BY <1>4, All
    <3> HIDE DEF q
    <3>1. /\ t.cursor = c /\ t.more = j.outer.more /\ t.buffer = q
          /\ t = [cursor |-> t.cursor, more |-> t.more, buffer |-> t.buffer]
      BY <1>4
    <3> HIDE DEF t
    <3>2. t.cursor = c /\ t.buffer = <<>> /\ (t.more <=> c > 0)
      BY <1>4, <3>0, <3>1
    <3>3. Between(s, c, c) = {}
      BY <1>4 DEF Between
    <3>4. Descends(t.buffer, Between(s, t.cursor, c))
      BY <3>2, <3>3, Empty
    <3>5. Remains(s, t, c)
      BY <1>4, <3>1, <3>2, <3>4 DEF Remains
    <3>6. /\ Shaped(next) /\ next.end = j.end /\ next.inner = j.inner
          /\ next.id = j.id /\ next.session = s
          /\ next.generation = j.generation /\ next.asked = j.asked
          /\ next.mode = j.mode /\ next.want = j.want
          /\ next.cut = j.cut /\ next.status = j.status
          /\ Remains(s, next.outer, c) /\ Placed(next.outer, j.cut)
          /\ Goal(next) = Goal(j)
          /\ \A p : Promise(next, p) = Promise(j, p)
      BY <1>4, <1>5, <3>5 DEF t, q
    <3>7. Becomes(j, next)
      BY <1>1, <1>7, <2>3
    <3> HIDE DEF next
    <3>8. ~Collecting(next)
      BY <1>1, <3>6 DEF Collecting
    <3>9. c <= j.cut
      BY <1>2, <1>3, <1>4
    <3>10. Searches(next)
      BY <1>4, <2>2, <3>6, <3>8, <3>9 DEF Searches
    <3>11. Sound(next)
      BY <1>1, <1>2, <3>6, <3>10 DEF Sound, Framed
    <3> QED
      BY <1>1, <1>2, <3>6, <3>7, <3>11 DEF Follows
  <2>4. CASE ~j.outer.more
    <3>1. c = 0
      BY <1>4, <2>4
    <3>2. Goal(j) = None
      BY <1>2, <2>2, <3>1, PromiseNone
    <3>3. Sound(Resolved(j, None)) /\ Follows(j, Resolved(j, None))
      BY <3>2, ResolvedSound DEF Sound
    <3> QED
      BY <1>1, <1>7, <2>4, <3>3
  <2> QED
    BY <2>3, <2>4
<1> QED
  BY <1>6, <1>7

-----------------------------------------------------------------------------
(* The histories are what they are: what is true of a capture stays true.   *)

\* Nothing that is said of a capture depends on more than the histories.
LEMMA SoundStays ==
  ASSUME script' = script, NEW j, Sound(j)
  PROVE  Sound(j)'
<1>1. \A s, n : /\ Kind(s, n)' = Kind(s, n) /\ Turn(s, n)' = Turn(s, n)
                /\ EventAt(s, n)' = EventAt(s, n) /\ Reason(s, n)' = Reason(s, n)
  BY DEF Kind, Turn, EventAt, Reason
<1>2. \A s, low, high : Between(s, low, high)' = Between(s, low, high)
  BY <1>1 DEF Between
<1>3. \A s, r, pos : Remains(s, r, pos)' <=> Remains(s, r, pos)
  BY <1>2 DEF Remains
<1>4. \A s, end : Starts(s, end)' = Starts(s, end)
  BY <1>1 DEF Starts
<1>5. \A s, low, high : Settled(s, low, high)' = Settled(s, low, high)
  BY <1>1 DEF Settled
<1>6. \A s, end : Slice(s, end)' = Slice(s, end)
  BY <1>4, <1>5 DEF Slice
<1>7. ASSUME NEW s, NEW slice, NEW end
      PROVE  Capsule(s, slice, end)' = Capsule(s, slice, end)
  <2>1. {n \in ToSet(slice) : Kind(s, n)' = "step" /\ Turn(s, n)' = Turn(s, end)'}
          = {n \in ToSet(slice) : Kind(s, n) = "step" /\ Turn(s, n) = Turn(s, end)}
    BY <1>1
  <2>2. {n \in ToSet(slice) : Kind(s, n)' = "say" /\ Turn(s, n)' = Turn(s, end)'}
          = {n \in ToSet(slice) : Kind(s, n) = "say" /\ Turn(s, n) = Turn(s, end)}
    BY <1>1
  <2> QED
    BY <1>1, <2>1, <2>2 DEF Capsule
<1>8. \A s, end : Captured(s, end)' = Captured(s, end)
  BY <1>4, <1>6, <1>7 DEF Captured
<1>9. \A s, pos, reasons : LastEnd(s, pos, reasons)' = LastEnd(s, pos, reasons)
  BY <1>1, <1>8 DEF LastEnd, Latest
<1>10. \A s, pos, t : EndOf(s, pos, t)' = EndOf(s, pos, t)
  BY <1>1, <1>8 DEF EndOf, Latest
<1>11. \A s, n, x : Matches(s, n, x)' = Matches(s, n, x)
  BY <1>1 DEF Matches
<1>12. /\ \A s, pos, x : Selected(s, pos, x)' = Selected(s, pos, x)
       /\ \A s, pos, cut, x : Sought(s, pos, cut, x)' = Sought(s, pos, cut, x)
  BY <1>1, <1>9, <1>10, <1>11 DEF Selected, Sought, Latest
<1>13. Goal(j)' = Goal(j) /\ \A pos : Promise(j, pos)' = Promise(j, pos)
  BY <1>9, <1>10, <1>12 DEF Goal, Promise
<1>14. Gathers(j)' <=> Gathers(j)
  BY <1>2, <1>3, <1>4 DEF Gathers
<1>15. Searches(j)' <=> Searches(j)
  BY <1>3, <1>13 DEF Searches
<1>16. Tries(j)' <=> Tries(j)
  BY <1>3, <1>8, <1>13, <1>14 DEF Tries
<1>17. Answered(j)' <=> Answered(j)
  BY <1>8, <1>13 DEF Answered
<1> QED
  BY <1>14, <1>15, <1>16, <1>17 DEF Sound

-----------------------------------------------------------------------------
(* All captures, and the queue.                                             *)

\* The host's and the runtime's numbers.
Numbered ==
  /\ script \in [Session -> Scripts] /\ stalls \in BOOLEAN
  /\ seq \in [Session -> Nat] /\ \A s \in Session : seq[s] <= Len(script[s])
  /\ enabled \in BOOLEAN /\ failed \in BOOLEAN /\ resetting \in BOOLEAN
  /\ stopped \in BOOLEAN
  /\ epoch \in Nat /\ epoch <= MaxEpoch + 1 /\ (~stopped => epoch <= MaxEpoch)
  /\ swept \in Nat /\ swept <= epoch
  /\ answer \in [Command -> {"none", "reading", "failed", "unavailable", "cancelled",
                             "disabled", "refused", "requested"}]

\* A capture is of what has happened, and of a generation that was; a command
\* that waits for one waits for one only.
Known ==
  /\ \A j \in reads :
       /\ Sound(j)
       /\ j.generation \in Nat /\ j.generation <= epoch
       /\ j.cut <= seq[j.session]
       /\ j.mode = "end" => j.id \notin Command
       /\ j.mode # "end" => j.id \in Command /\ answer[j.id] = "reading"
  /\ \A j, k \in reads : j.id \in Command /\ k.id = j.id => k = j

\* The end of a turn that is captured, or queued, has been admitted, and there
\* is one capture of it or it is queued once.
Ends == {j \in reads : j.mode = "end"}
Admitted ==
  /\ seen \in [Session -> Nat \cup {None}]
  /\ \A s \in Session : seen[s] # None => seen[s] < seq[s]
  /\ \A j \in Ends : seen[j.session] # None /\ j.end <= seen[j.session]
  /\ \A j, k \in Ends : j.session = k.session /\ j.end = k.end => j = k
Queued ==
  /\ pushed \in [Session -> Seq(Nat)]
  /\ \A s \in Session : \A i \in DOMAIN pushed[s] :
       seen[s] # None /\ pushed[s][i] <= seen[s]
  /\ \A j \in Ends : \A i \in DOMAIN pushed[j.session] : pushed[j.session][i] # j.end
  /\ QueuedOnce

\* What is queued is of a generation since the last sweep.
Waiting ==
  /\ pending \in [Session -> {None} \cup [end : Nat, generation : Nat]]
  /\ \A s \in Session : pending[s] # None =>
       /\ pending[s].end < seq[s]
       /\ swept <= pending[s].generation /\ pending[s].generation <= epoch

CaptureInv == Numbered /\ Known /\ Admitted /\ Queued /\ Waiting

\* A session's histories have a length.
LEMMA Lasting ==
  ASSUME Numbered
  PROVE  \A s \in Session : Len(script[s]) \in Nat
BY ScriptAssumption, LenProperties DEF Numbered

\* A capture that is asked for has everything to find.
LEMMA CaptureSound ==
  ASSUME NEW id, NEW s \in Session, NEW mode \in {"latest", "turn", "search"}, NEW want,
         NEW cut \in Nat, epoch \in Nat
  PROVE  LET j == Capture(id, s, mode, want, None, cut) IN
         /\ Sound(j) /\ j.id = id /\ j.session = s /\ j.generation = epoch
         /\ j.mode = mode /\ j.cut = cut /\ j.status = "reading"
<1> DEFINE j == Capture(id, s, mode, want, None, cut)
<1>1. /\ Shaped(j) /\ j.id = id /\ j.session = s /\ j.generation = epoch
      /\ j.asked = <<mode, want>> /\ j.mode = mode /\ j.want = want /\ j.outer = Reader(cut)
      /\ j.end = None /\ j.inner = Reader(0) /\ j.cut = cut /\ j.status = "reading"
  BY DEF Shaped, FieldNames, Capture
<1> HIDE DEF j
<1>2. Remains(s, j.outer, cut) /\ Remains(s, j.inner, 0) /\ 0 <= cut
  BY <1>1, ReaderRemains
<1>3. Placed(j.outer, cut) /\ Placed(j.inner, cut)
  BY <1>2, RemainsPlaced
<1>4. Goal(j) = Promise(j, cut)
  <2>1. j.asked[1] = mode /\ j.asked[2] = want
    BY <1>1
  <2>2. Selected(s, cut, want) = Sought(s, cut, cut, want)
    BY DEF Selected, Sought, Latest
  <2>3. CASE mode = "latest"
    BY <1>1, <2>1, <2>3 DEF Goal, Promise
  <2>4. CASE mode = "turn"
    BY <1>1, <2>1, <2>4 DEF Goal, Promise
  <2>5. CASE mode = "search"
    BY <1>1, <2>1, <2>2, <2>5 DEF Goal, Promise
  <2> QED
    BY <2>3, <2>4, <2>5
<1>5. Searches(j)
  <2>1. ~Collecting(j) /\ cut <= j.cut
    BY <1>1 DEF Collecting
  <2> QED
    BY <1>1, <1>2, <1>4, <2>1 DEF Searches
<1>6. Sound(j)
  BY <1>1, <1>3, <1>5 DEF Sound, Framed, SearchModes
<1> QED
  BY <1>1, <1>6 DEF j

\* So is the capture of a turn's end, which waits for its turn.
LEMMA EndSound ==
  ASSUME NEW s \in Session, NEW n \in Nat, epoch \in Nat
  PROVE  LET j == [Capture(<<s, n>>, s, "end", None, n, 0) EXCEPT !.status = "queued"] IN
         /\ Sound(j) /\ j.id = <<s, n>> /\ j.session = s /\ j.generation = epoch
         /\ j.mode = "end" /\ j.end = n /\ j.cut = 0
<1> DEFINE j == [Capture(<<s, n>>, s, "end", None, n, 0) EXCEPT !.status = "queued"]
<1>1. /\ Shaped(j) /\ j.id = <<s, n>> /\ j.session = s /\ j.generation = epoch
      /\ j.mode = "end" /\ j.outer = Reader(0)
      /\ j.end = n /\ j.inner = Reader(0) /\ j.cut = 0 /\ j.status = "queued"
  BY DEF Shaped, FieldNames, Capture
<1> HIDE DEF j
<1>2. Remains(s, Reader(0), 0) /\ 0 \in Nat /\ 0 <= 0
  BY ReaderRemains
<1>3. Placed(Reader(0), 0)
  BY <1>2, RemainsPlaced
<1>4. Sound(j)
  BY <1>1, <1>3 DEF Sound, Framed
<1> QED
  BY <1>1, <1>4 DEF j

-----------------------------------------------------------------------------
(* The steps.                                                               *)

\* At first there is nothing.
LEMMA CaptureInit ==
  ASSUME Init
  PROVE  CaptureInv
<1>1. Numbered
  <2>1. script \in [Session -> Scripts] /\ seq = [s \in Session |-> 0]
    BY DEF Init
  <2>2. \A s \in Session : Len(script[s]) \in Nat
    BY <2>1, ScriptAssumption, LenProperties
  <2>3. seq \in [Session -> Nat] /\ \A s \in Session : seq[s] <= Len(script[s])
    BY <2>1, <2>2
  <2>4. /\ stalls \in BOOLEAN /\ enabled \in BOOLEAN /\ failed \in BOOLEAN
        /\ resetting \in BOOLEAN /\ stopped \in BOOLEAN
    BY LoadedAssumption DEF Init
  <2>5. epoch = 0 /\ swept = 0 /\ answer = [c \in Command |-> "none"]
    BY DEF Init
  <2>6. /\ epoch \in Nat /\ epoch <= MaxEpoch + 1 /\ epoch <= MaxEpoch
        /\ swept \in Nat /\ swept <= epoch
    BY <2>5, BoundAssumption
  <2>7. answer \in [Command -> {"none", "reading", "failed", "unavailable", "cancelled",
                               "disabled", "refused", "requested"}]
    BY <2>5
  <2> QED
    BY <2>1, <2>3, <2>4, <2>6, <2>7 DEF Numbered
<1>2. Known /\ Admitted
  BY DEF Init, Known, Admitted, Ends
<1>3. Queued
  <2>1. <<>> \in Seq(Nat) /\ DOMAIN <<>> = {}
    BY EmptySeq
  <2> QED
    BY <2>1 DEF Init, Queued, QueuedOnce, Ends
<1>4. Waiting
  BY DEF Init, Waiting
<1> QED
  BY <1>1, <1>2, <1>3, <1>4 DEF CaptureInv

\* The end of a turn is told, for the first time or again.
LEMMA Dispatched ==
  ASSUME CaptureInv, NEW s \in Session, NEW n \in Nat, Dispatch(s, n), Numbered',
         \A t \in Session : seq[t] <= seq'[t], n < seq'[s],
         UNCHANGED <<script, runtimeVars, queueVars, answer>>
  PROVE  CaptureInv'
<1> DEFINE start == [Capture(<<s, n>>, s, "end", None, n, 0) EXCEPT !.status = "queued"]
<1>1. /\ Numbered /\ Known /\ Admitted /\ Queued /\ Waiting
      /\ seq \in [Session -> Nat] /\ seq' \in [Session -> Nat] /\ epoch \in Nat
      /\ epoch' = epoch /\ answer' = answer /\ pushed' = pushed /\ pending' = pending
      /\ swept' = swept /\ script' = script
  BY DEF CaptureInv, Numbered, runtimeVars, queueVars
<1>2. Waiting'
  <2>1. \A t \in Session : pending[t] # None => pending[t].end < seq'[t]
    <3> SUFFICES ASSUME NEW t \in Session, pending[t] # None PROVE pending[t].end < seq'[t]
      OBVIOUS
    <3>1. pending[t].end \in Nat /\ pending[t].end < seq[t]
      BY <1>1 DEF Waiting
    <3> QED
      BY <1>1, <3>1
  <2> QED
    BY <1>1, <2>1 DEF Waiting
<1>3. CASE reads' = reads /\ seen' = seen
  <2>1. Known'
    <3> SUFFICES ASSUME NEW j \in reads PROVE Sound(j)' /\ j.cut <= seq'[j.session]
      BY <1>1, <1>3 DEF Known
    <3>1. /\ Sound(j) /\ j.cut <= seq[j.session]
      BY <1>1 DEF Known
    <3>2. j.session \in Session /\ j.cut \in Nat
      BY <3>1 DEF Sound, Framed
    <3> QED
      BY <1>1, <3>1, <3>2, SoundStays
  <2>2. Admitted'
    <3>1. \A t \in Session : seen[t] # None => seen[t] < seq'[t]
      <4> SUFFICES ASSUME NEW t \in Session, seen[t] # None PROVE seen[t] < seq'[t]
        OBVIOUS
      <4>1. seen[t] \in Nat /\ seen[t] < seq[t]
        BY <1>1 DEF Admitted
      <4> QED
        BY <1>1, <4>1
    <3> QED
      BY <1>1, <1>3, <3>1 DEF Admitted, Ends
  <2>3. Queued'
    BY <1>1, <1>3 DEF Queued, QueuedOnce, Ends
  <2> QED
    BY <1>2, <2>1, <2>2, <2>3 DEF CaptureInv
<1>4. CASE /\ seen[s] = None \/ seen[s] < n
           /\ seen' = [seen EXCEPT ![s] = n] /\ reads' = reads \cup {start}
  <2>0. PICK new : new = start
    OBVIOUS
  <2>1. /\ Sound(new) /\ new.id = <<s, n>> /\ new.session = s /\ new.generation = epoch
        /\ new.mode = "end" /\ new.end = n /\ new.cut = 0
    BY <1>1, <2>0, EndSound
  <2>2. /\ seen \in [Session -> Nat \cup {None}] /\ seen' \in [Session -> Nat \cup {None}]
        /\ seen'[s] = n /\ \A t \in Session : t # s => seen'[t] = seen[t]
    BY <1>1, <1>4 DEF Admitted
  <2>3. n # None /\ \A t \in Session : seen[t] # None =>
          seen[t] \in Nat /\ seen'[t] # None /\ seen'[t] \in Nat /\ seen[t] <= seen'[t]
    BY <1>4, <2>2, NoneAssumption
  <2>4. \A j \in Ends : j.session \in Session /\ j.end \in Nat
    BY <1>1 DEF Known, Sound, Framed, Ends
  <2>5. Known'
    <3>1. \A j \in reads : /\ Sound(j)' /\ j.cut <= seq'[j.session]
      <4> TAKE j \in reads
      <4>1. /\ Sound(j) /\ j.cut <= seq[j.session]
        BY <1>1 DEF Known
      <4>2. j.session \in Session /\ j.cut \in Nat
        BY <4>1 DEF Sound, Framed
      <4> QED
        BY <1>1, <4>1, <4>2, SoundStays
    <3>2. Sound(new)' /\ new.cut <= seq'[s]
      BY <1>1, <2>1, SoundStays
    <3>3. new.id \notin Command
      BY <2>1, CommandAssumption
    <3>4. \A j \in reads' : j \in reads \/ j = new
      BY <1>4, <2>0
    <3>5. ASSUME NEW j \in reads'
          PROVE  /\ Sound(j)' /\ j.generation \in Nat /\ j.generation <= epoch
                 /\ j.cut <= seq'[j.session]
                 /\ j.mode = "end" => j.id \notin Command
                 /\ j.mode # "end" => j.id \in Command /\ answer[j.id] = "reading"
      <4>1. CASE j \in reads
        BY <1>1, <3>1, <4>1 DEF Known
      <4>2. CASE j = new
        BY <1>1, <2>1, <3>2, <3>3, <4>2
      <4> QED
        BY <3>4, <4>1, <4>2
    <3>6. \A j, k \in reads' : j.id \in Command /\ k.id = j.id => k = j
      BY <1>1, <3>3, <3>4 DEF Known
    <3> QED
      BY <1>1, <3>5, <3>6 DEF Known
  <2>6. Ends' = Ends \cup {new}
    BY <1>4, <2>0, <2>1 DEF Ends
  <2>7. Admitted'
    <3>1. \A t \in Session : seen'[t] # None => seen'[t] < seq'[t]
      <4> SUFFICES ASSUME NEW t \in Session, seen'[t] # None PROVE seen'[t] < seq'[t]
        OBVIOUS
      <4>1. CASE t = s
        BY <2>2, <4>1
      <4>2. CASE t # s
        <5>1. seen[t] \in Nat /\ seen[t] < seq[t] /\ seen'[t] = seen[t]
          BY <1>1, <2>2, <4>2 DEF Admitted
        <5> QED
          BY <1>1, <5>1
      <4> QED
        BY <4>1, <4>2
    <3>2. \A j \in Ends : seen'[j.session] # None /\ j.end <= seen'[j.session]
      <4> TAKE j \in Ends
      <4>1. seen[j.session] # None /\ j.end <= seen[j.session]
        BY <1>1 DEF Admitted
      <4> QED
        BY <2>3, <2>4, <4>1
    <3>3. \A j \in Ends : j.session = s => j.end < n
      <4> SUFFICES ASSUME NEW j \in Ends, j.session = s PROVE j.end < n
        OBVIOUS
      <4>1. seen[s] # None /\ j.end <= seen[s]
        BY <1>1 DEF Admitted
      <4> QED
        BY <1>4, <2>3, <2>4, <4>1
    <3>4. \A j, k \in Ends \cup {new} : j.session = k.session /\ j.end = k.end => j = k
      BY <1>1, <2>1, <2>4, <3>3 DEF Admitted
    <3>5. \A j \in Ends \cup {new} : seen'[j.session] # None /\ j.end <= seen'[j.session]
      BY <2>1, <2>2, <2>3, <3>2
    <3> QED
      BY <2>2, <2>6, <3>1, <3>4, <3>5 DEF Admitted
  <2>8. Queued'
    <3>0. \A t \in Session : \A i \in DOMAIN pushed[t] : pushed[t][i] \in Nat
      BY <1>1, ElementOfSeq, LenProperties DEF Queued
    <3>1. \A t \in Session : \A i \in DOMAIN pushed[t] :
            seen'[t] # None /\ pushed[t][i] <= seen'[t]
      <4> TAKE t \in Session
      <4> TAKE i \in DOMAIN pushed[t]
      <4>1. seen[t] # None /\ pushed[t][i] <= seen[t]
        BY <1>1 DEF Queued
      <4> QED
        BY <2>3, <3>0, <4>1
    <3>2. \A i \in DOMAIN pushed[s] : pushed[s][i] # n
      <4> SUFFICES ASSUME NEW i \in DOMAIN pushed[s], pushed[s][i] = n PROVE FALSE
        OBVIOUS
      <4>1. seen[s] # None /\ n <= seen[s]
        BY <1>1 DEF Queued
      <4> QED
        BY <1>4, <2>3, <4>1
    <3>3. \A j \in Ends \cup {new} : \A i \in DOMAIN pushed[j.session] :
            pushed[j.session][i] # j.end
      BY <1>1, <2>1, <3>2 DEF Queued
    <3> QED
      BY <1>1, <2>6, <3>1, <3>3 DEF Queued, QueuedOnce
  <2> QED
    BY <1>2, <2>5, <2>7, <2>8 DEF CaptureInv
<1> QED
  BY <1>3, <1>4 DEF Dispatch, Admits

\* A capture takes a step.
LEMMA Replaced ==
  ASSUME CaptureInv, NEW j \in reads, NEW next, Becomes(j, next), Sound(next),
         Follows(j, next), next.cut <= seq[j.session],
         UNCHANGED <<hostVars, runtimeVars, queueVars, seen, answer>>
  PROVE  CaptureInv'
<1>1. /\ Numbered /\ Known /\ Admitted /\ Queued /\ Waiting
      /\ script' = script /\ seq' = seq /\ stalls' = stalls
      /\ enabled' = enabled /\ epoch' = epoch /\ failed' = failed
      /\ resetting' = resetting /\ stopped' = stopped /\ swept' = swept
      /\ pending' = pending /\ pushed' = pushed /\ seen' = seen /\ answer' = answer
  BY DEF CaptureInv, hostVars, runtimeVars, queueVars
<1>2. Numbered' /\ Waiting'
  BY <1>1 DEF Numbered, Waiting
<1>3. /\ next.id = j.id /\ next.session = j.session /\ next.generation = j.generation
      /\ (next.mode = "end" <=> j.mode = "end")
      /\ j.mode = "end" => next.end = j.end
  BY DEF Follows
<1>4. reads' = (reads \ {j}) \cup {next}
  BY DEF Becomes
<1>5. Known'
  <2>1. ASSUME NEW k \in reads'
        PROVE  /\ Sound(k)' /\ k.generation \in Nat /\ k.generation <= epoch
               /\ k.cut <= seq[k.session]
               /\ k.mode = "end" => k.id \notin Command
               /\ k.mode # "end" => k.id \in Command /\ answer[k.id] = "reading"
    <3>1. CASE k \in reads
      <4>1. Sound(k)'
        BY <1>1, <3>1, SoundStays DEF Known
      <4> QED
        BY <1>1, <3>1, <4>1 DEF Known
    <3>2. CASE k = next
      <4>1. Sound(next)'
        BY <1>1, SoundStays
      <4> QED
        BY <1>1, <1>3, <3>2, <4>1 DEF Known
    <3> QED
      BY <1>4, <3>1, <3>2
  <2>2. \A i, k \in reads' : i.id \in Command /\ k.id = i.id => k = i
    BY <1>1, <1>3, <1>4 DEF Known
  <2> QED
    BY <1>1, <2>1, <2>2 DEF Known
<1>6. Ends' \subseteq (Ends \ {j}) \cup {next} /\ (next \in Ends' => j \in Ends)
  BY <1>3, <1>4 DEF Ends
<1>7. Admitted'
  <2>1. \A k \in Ends' : seen[k.session] # None /\ k.end <= seen[k.session]
    BY <1>1, <1>3, <1>6 DEF Admitted, Ends
  <2>2. \A i, k \in Ends' : i.session = k.session /\ i.end = k.end => i = k
    BY <1>1, <1>3, <1>6 DEF Admitted, Ends
  <2> QED
    BY <1>1, <2>1, <2>2 DEF Admitted
<1>8. Queued'
  <2>1. \A k \in Ends' : \A i \in DOMAIN pushed[k.session] : pushed[k.session][i] # k.end
    BY <1>1, <1>3, <1>6 DEF Queued, Ends
  <2> QED
    BY <1>1, <2>1 DEF Queued, QueuedOnce
<1> QED
  BY <1>2, <1>5, <1>7, <1>8 DEF CaptureInv

\* A capture is over: what is left of the captures is as it should be.
LEMMA Removed ==
  ASSUME CaptureInv, NEW j \in reads, reads' = reads \ {j},
         \/ answer' = answer
         \/ j.id \in Command /\ \E v : /\ v \in {"failed", "unavailable", "cancelled",
                                                 "disabled", "refused", "requested"}
                                       /\ answer' = [answer EXCEPT ![j.id] = v],
         UNCHANGED <<hostVars, runtimeVars, seen>>
  PROVE  /\ Numbered' /\ Known' /\ Admitted' /\ Ends' = Ends \ {j}
         /\ UNCHANGED queueVars => CaptureInv'
<1>1. /\ Numbered /\ Known /\ Admitted /\ Queued /\ Waiting
      /\ script' = script /\ seq' = seq /\ stalls' = stalls
      /\ enabled' = enabled /\ epoch' = epoch /\ failed' = failed
      /\ resetting' = resetting /\ stopped' = stopped /\ swept' = swept /\ seen' = seen
  BY DEF CaptureInv, hostVars, runtimeVars
<1>2. Numbered'
  <2>1. answer' \in [Command -> {"none", "reading", "failed", "unavailable", "cancelled",
                               "disabled", "refused", "requested"}]
    BY <1>1 DEF Numbered
  <2> QED
    BY <1>1, <2>1 DEF Numbered
<1>3. Known'
  <2>1. ASSUME NEW k \in reads'
        PROVE  /\ Sound(k)' /\ k.generation \in Nat /\ k.generation <= epoch
               /\ k.cut <= seq[k.session]
               /\ k.mode = "end" => k.id \notin Command
               /\ k.mode # "end" => k.id \in Command /\ answer'[k.id] = "reading"
    <3>1. k \in reads /\ k # j
      OBVIOUS
    <3>2. Sound(k)'
      BY <1>1, <3>1, SoundStays DEF Known
    <3>3. k.mode # "end" => k.id \in Command /\ answer[k.id] = "reading" /\ k.id # j.id
      BY <1>1, <3>1 DEF Known
    <3>4. k.mode # "end" => answer'[k.id] = "reading"
      BY <1>1, <3>3 DEF Numbered
    <3> QED
      BY <1>1, <3>1, <3>2, <3>3, <3>4 DEF Known
  <2> QED
    BY <1>1, <2>1 DEF Known
<1>4. Ends' = Ends \ {j}
  BY DEF Ends
<1>5. Admitted'
  BY <1>1, <1>4 DEF Admitted
<1>6. ASSUME UNCHANGED queueVars PROVE CaptureInv'
  <2>1. pending' = pending /\ pushed' = pushed
    BY <1>6 DEF queueVars
  <2>2. Queued' /\ Waiting'
    BY <1>1, <1>4, <2>1 DEF Queued, QueuedOnce, Waiting
  <2> QED
    BY <1>2, <1>3, <1>5, <2>2 DEF CaptureInv
<1> QED
  BY <1>2, <1>3, <1>4, <1>5, <1>6

\* A session goes on, or tells an event again.
LEMMA SessionsStep ==
  ASSUME CaptureInv, NEW s \in Session, Happens(s) \/ Redispatch(s)
  PROVE  CaptureInv'
<1>1. /\ Numbered /\ seq \in [Session -> Nat] /\ seq[s] \in Nat
      /\ \A t \in Session : Len(script[t]) \in Nat
  BY Lasting DEF CaptureInv, Numbered
<1>2. CASE Happens(s)
  <2>1. /\ seq[s] < Len(script[s]) /\ seq' = [seq EXCEPT ![s] = @ + 1]
        /\ Dispatch(s, seq[s]) /\ script' = script /\ stalls' = stalls
        /\ UNCHANGED <<runtimeVars, queueVars, answer>> /\ stopped' = stopped
    BY <1>2 DEF Happens, runtimeVars
  <2>2. /\ seq' \in [Session -> Nat] /\ \A t \in Session : seq[t] <= seq'[t]
        /\ seq[s] < seq'[s]
    BY <1>1, <2>1
  <2>3. \A t \in Session : seq'[t] <= Len(script'[t])
    BY <1>1, <2>1 DEF Numbered
  <2>4. Numbered'
    BY <1>1, <2>1, <2>2, <2>3 DEF Numbered, runtimeVars
  <2> QED
    BY <1>1, <2>1, <2>2, <2>4, Dispatched
<1>3. CASE Redispatch(s)
  <2>1. PICK n \in 0..seq[s] - 1 : Dispatch(s, n)
    BY <1>3 DEF Redispatch
  <2>2. /\ script' = script /\ seq' = seq /\ stalls' = stalls /\ stopped' = stopped
        /\ UNCHANGED <<script, runtimeVars, queueVars, answer>>
    BY <1>3 DEF Redispatch, hostVars, runtimeVars
  <2>3. n \in Nat /\ n < seq'[s] /\ \A t \in Session : seq[t] <= seq'[t]
    BY <1>1, <2>2
  <2>4. Numbered'
    BY <1>1, <2>2 DEF Numbered, runtimeVars
  <2> QED
    BY <2>1, <2>2, <2>3, <2>4, Dispatched
<1> QED
  BY <1>2, <1>3

\* A command asks for a turn.
LEMMA AskStep ==
  ASSUME CaptureInv, NEW c \in Command, Ask(c)
  PROVE  CaptureInv'
<1>1. /\ Numbered /\ Known /\ Admitted /\ Queued /\ Waiting
      /\ script' = script /\ seq' = seq /\ stalls' = stalls
      /\ enabled' = enabled /\ epoch' = epoch /\ failed' = failed
      /\ resetting' = resetting /\ stopped' = stopped /\ swept' = swept
      /\ pending' = pending /\ pushed' = pushed /\ seen' = seen
      /\ answer[c] = "none" /\ answer' = [answer EXCEPT ![c] = "reading"]
      /\ epoch \in Nat
  BY DEF CaptureInv, Ask, hostVars, runtimeVars, queueVars, Numbered
<1>0. PICK s \in Session, mode \in {"latest", "turn", "search"} :
        \E want : reads' = reads \cup {Capture(c, s, mode, want, None, seq[s])}
  <2>1. PICK s \in Session :
          \/ reads' = reads \cup {Capture(c, s, "latest", None, None, seq[s])}
          \/ \E t \in {Turn(s, n) : n \in 0..seq[s] - 1} :
               reads' = reads \cup {Capture(c, s, "turn", t, None, seq[s])}
          \/ \E x \in Texts :
               reads' = reads \cup {Capture(c, s, "search", x, None, seq[s])}
    BY DEF Ask
  <2> QED
    BY <2>1
<1>2. PICK want : reads' = reads \cup {Capture(c, s, mode, want, None, seq[s])}
  BY <1>0
<1>3. PICK cut : cut = seq[s]
  OBVIOUS
<1>4. cut \in Nat
  BY <1>1, <1>3 DEF Numbered
<1>5. PICK new : new = Capture(c, s, mode, want, None, cut)
  OBVIOUS
<1>6. /\ Sound(new) /\ new.id = c /\ new.session = s /\ new.generation = epoch
      /\ new.mode = mode /\ new.cut = cut
  BY <1>1, <1>4, <1>5, CaptureSound
<1>7. reads' = reads \cup {new} /\ mode # "end"
  BY <1>2, <1>3, <1>5
<1>8. Numbered'
  <2>1. answer' \in [Command -> {"none", "reading", "failed", "unavailable", "cancelled",
                               "disabled", "refused", "requested"}]
    BY <1>1 DEF Numbered
  <2> QED
    BY <1>1, <2>1 DEF Numbered
<1>9. Known'
  <2>1. \A k \in reads : k.id # c
    BY <1>1 DEF Known
  <2>2. ASSUME NEW k \in reads'
        PROVE  /\ Sound(k)' /\ k.generation \in Nat /\ k.generation <= epoch
               /\ k.cut <= seq[k.session]
               /\ k.mode = "end" => k.id \notin Command
               /\ k.mode # "end" => k.id \in Command /\ answer'[k.id] = "reading"
    <3>1. CASE k \in reads
      <4>1. Sound(k)'
        BY <1>1, <3>1, SoundStays DEF Known
      <4>2. k.mode # "end" => k.id \in Command /\ answer'[k.id] = "reading"
        BY <1>1, <2>1, <3>1 DEF Known, Numbered
      <4> QED
        BY <1>1, <3>1, <4>1, <4>2 DEF Known
    <3>2. CASE k = new
      <4>1. Sound(new)'
        BY <1>1, <1>6, SoundStays
      <4>2. answer'[c] = "reading"
        BY <1>1 DEF Numbered
      <4>3. cut <= seq[s] /\ epoch <= epoch
        BY <1>1, <1>3, <1>4
      <4> QED
        BY <1>1, <1>6, <1>7, <3>2, <4>1, <4>2, <4>3
    <3> QED
      BY <1>7, <3>1, <3>2
  <2>3. \A i, k \in reads' : i.id \in Command /\ k.id = i.id => k = i
    BY <1>1, <1>6, <1>7, <2>1 DEF Known
  <2> QED
    BY <1>1, <2>2, <2>3 DEF Known
<1>10. Ends' = Ends
  BY <1>6, <1>7 DEF Ends
<1> QED
  BY <1>1, <1>8, <1>9, <1>10 DEF CaptureInv, Admitted, Queued, QueuedOnce, Waiting

\* A capture goes on, or ends in an error.
LEMMA ReadStep ==
  ASSUME CaptureInv, NEW j \in reads, Begin(j) \/ Fetch(j) \/ Look(j) \/ Abort(j)
  PROVE  CaptureInv'
<1>1. /\ Sound(j) /\ j.cut <= seq[j.session] /\ j.session \in Session
      /\ seq[j.session] \in Nat
  BY DEF CaptureInv, Known, Numbered, Sound, Framed
<1>2. UNCHANGED <<hostVars, runtimeVars, queueVars, seen>>
  BY DEF Begin, Fetch, Look, Abort
<1>3. ASSUME Failed(j) PROVE CaptureInv'
  BY <1>2, <1>3, Removed DEF Failed
<1>4. ASSUME NEW next, Becomes(j, next), Sound(next), Follows(j, next),
             j.status = "reading", answer' = answer
      PROVE  CaptureInv'
  <2>1. next.cut <= seq[j.session]
    BY <1>1, <1>4 DEF Follows
  <2> QED
    BY <1>2, <1>4, <2>1, Replaced
<1>5. CASE Begin(j)
  <2>1. answer' = answer
    BY <1>5 DEF Begin
  <2>2. j.end < seq[j.session]
    <3>1. j \in Ends /\ j.end \in Nat
      BY <1>1, <1>5 DEF Begin, Sound, Framed, Ends
    <3>2. /\ seen[j.session] # None /\ j.end <= seen[j.session]
          /\ seen[j.session] < seq[j.session] /\ seen[j.session] \in Nat
      BY <1>1, <3>1 DEF CaptureInv, Admitted
    <3> QED
      BY <1>1, <3>1, <3>2
  <2>3. CASE reads' = reads \ {j}
    BY <1>2, <2>1, <2>3, Removed
  <2>4. CASE \E next : /\ Becomes(j, next) /\ Sound(next) /\ Follows(j, next)
                       /\ next.cut = j.cut \/ next.cut = seq[j.session]
    <3>1. PICK next : /\ Becomes(j, next) /\ Sound(next) /\ Follows(j, next)
                      /\ next.cut = j.cut \/ next.cut = seq[j.session]
      BY <2>4
    <3>2. next.cut <= seq[j.session]
      BY <1>1, <3>1
    <3> QED
      BY <1>2, <2>1, <3>1, <3>2, Replaced
  <2> QED
    BY <1>1, <1>5, <2>2, <2>3, <2>4, BeginSound
<1>6. CASE Fetch(j)
  BY <1>1, <1>3, <1>4, <1>6, FetchSound
<1>7. CASE Look(j)
  <2>1. answer' = answer
    BY <1>7 DEF Look
  <2> QED
    BY <1>1, <1>4, <1>7, <2>1, LookSound
<1>8. CASE Abort(j)
  BY <1>3, <1>8 DEF Abort
<1> QED
  BY <1>5, <1>6, <1>7, <1>8

\* A command is answered.
LEMMA RequestStep ==
  ASSUME CaptureInv, NEW j \in reads, Request(j)
  PROVE  CaptureInv'
<1>1. j.id \in Command
  BY DEF CaptureInv, Known, Request
<1>2. PICK v \in {"unavailable", "cancelled", "disabled", "refused", "requested"} :
        answer' = [answer EXCEPT ![j.id] = v]
  BY DEF Request
<1>3. reads' = reads \ {j} /\ UNCHANGED <<hostVars, runtimeVars, seen>> /\ UNCHANGED queueVars
  BY DEF Request
<1> QED
  BY <1>1, <1>2, <1>3, Removed

\* A turn is queued, or comes too late.
LEMMA PushStep ==
  ASSUME CaptureInv, NEW j \in reads, Push(j)
  PROVE  CaptureInv'
<1>1. /\ Numbered /\ Known /\ Admitted /\ Queued /\ Waiting
      /\ script' = script /\ seq' = seq /\ epoch' = epoch /\ swept' = swept /\ seen' = seen
  BY DEF CaptureInv, Push, hostVars, runtimeVars
<1>2. reads' = reads \ {j} /\ answer' = answer
      /\ UNCHANGED <<hostVars, runtimeVars, seen>>
  BY DEF Push
<1>3. Numbered' /\ Known' /\ Admitted' /\ Ends' = Ends \ {j}
  BY <1>2, Removed
<1>4. CASE UNCHANGED queueVars
  BY <1>2, <1>4, Removed
<1>5. CASE /\ Queues(j)
           /\ pending' = [pending EXCEPT ![j.session] =
                            [end |-> j.end, generation |-> j.generation]]
           /\ pushed' = [pushed EXCEPT ![j.session] = Append(@, j.end)]
  <2>1. /\ j \in Ends /\ j.session \in Session /\ j.end \in Nat
        /\ j.generation = epoch /\ epoch \in Nat /\ swept <= epoch
    BY <1>1, <1>5 DEF Push, Ends, Known, Sound, Framed, Queues, Accepts, Numbered
  <2>2. /\ seen[j.session] # None /\ j.end <= seen[j.session]
        /\ seen[j.session] < seq[j.session] /\ seen[j.session] \in Nat
        /\ seq[j.session] \in Nat
    BY <1>1, <2>1 DEF Admitted, Numbered
  <2>3. Waiting'
    <3>1. [end |-> j.end, generation |-> j.generation] \in [end : Nat, generation : Nat]
      BY <2>1
    <3>2. pending' \in [Session -> {None} \cup [end : Nat, generation : Nat]]
      BY <1>1, <1>5, <2>1, <3>1 DEF Waiting
    <3>3. ASSUME NEW s \in Session, pending'[s] # None
          PROVE  /\ pending'[s].end < seq[s]
                 /\ swept <= pending'[s].generation /\ pending'[s].generation <= epoch
      <4>1. CASE s = j.session
        <5>1. pending'[s] = [end |-> j.end, generation |-> j.generation]
          BY <1>1, <1>5, <2>1, <4>1 DEF Waiting
        <5>2. pending'[s].end = j.end /\ pending'[s].generation = epoch
          BY <2>1, <5>1
        <5>3. j.end < seq[s] /\ epoch <= epoch
          BY <2>1, <2>2, <4>1
        <5> QED
          BY <2>1, <5>2, <5>3
      <4>2. CASE s # j.session
        <5>1. pending'[s] = pending[s]
          BY <1>1, <1>5, <4>2 DEF Waiting
        <5> QED
          BY <1>1, <3>3, <5>1 DEF Waiting
      <4> QED
        BY <4>1, <4>2
    <3> QED
      BY <1>1, <3>2, <3>3 DEF Waiting
  <2>4. Queued'
    <3> DEFINE q == pushed[j.session]
               r == Append(q, j.end)
    <3>1. q \in Seq(Nat) /\ pushed \in [Session -> Seq(Nat)] /\ Len(q) \in Nat
          /\ DOMAIN q = 1..Len(q)
      BY <1>1, <2>1, LenProperties DEF Queued
    <3>2. /\ r \in Seq(Nat) /\ Len(r) = Len(q) + 1
          /\ \A i \in 1..Len(q) : r[i] = q[i]
          /\ r[Len(q) + 1] = j.end
      BY <2>1, <3>1, AppendProperties
    <3>3. DOMAIN r = 1..(Len(q) + 1)
      BY <3>1, <3>2, LenProperties
    <3>4. pushed' \in [Session -> Seq(Nat)] /\ pushed'[j.session] = r
          /\ \A s \in Session : s # j.session => pushed'[s] = pushed[s]
      BY <1>5, <2>1, <3>1, <3>2
    <3>5. \A i \in 1..Len(q) : q[i] # j.end /\ q[i] <= seen[j.session]
      BY <1>1, <2>1, <3>1 DEF Queued
    <3>6. \A i, k \in 1..Len(q) : q[i] = q[k] => i = k
      BY <1>1, <2>1, <3>1 DEF Queued, QueuedOnce
    <3>7. \A i \in 1..(Len(q) + 1) : i \in 1..Len(q) \/ i = Len(q) + 1
      BY <3>1
    <3> HIDE DEF r
    <3>8. \A i, k \in DOMAIN r : r[i] = r[k] => i = k
      BY <3>2, <3>3, <3>5, <3>6, <3>7
    <3>9. \A i \in DOMAIN r : seen[j.session] # None /\ r[i] <= seen[j.session]
      BY <2>2, <3>2, <3>3, <3>5, <3>7
    <3>10. ASSUME NEW k \in Ends, k # j, k.session = j.session, NEW i \in DOMAIN r
           PROVE  r[i] # k.end
      <4>1. k.end # j.end
        BY <1>1, <2>1, <3>10 DEF Admitted
      <4>2. \A m \in 1..Len(q) : q[m] # k.end
        BY <1>1, <3>1, <3>10 DEF Queued
      <4> QED
        BY <3>2, <3>3, <3>7, <4>1, <4>2
    <3>11. \A s \in Session : \A i \in DOMAIN pushed'[s] :
             seen[s] # None /\ pushed'[s][i] <= seen[s]
      BY <1>1, <3>4, <3>9 DEF Queued
    <3>12. \A k \in Ends : k.session \in Session
      BY <1>1 DEF Ends, Known, Sound, Framed
    <3>13. \A k \in Ends \ {j} : \A i \in DOMAIN pushed'[k.session] :
             pushed'[k.session][i] # k.end
      BY <1>1, <3>4, <3>10, <3>12 DEF Queued
    <3>14. \A s \in Session : \A i, k \in DOMAIN pushed'[s] :
             pushed'[s][i] = pushed'[s][k] => i = k
      BY <1>1, <3>4, <3>8 DEF Queued, QueuedOnce
    <3> QED
      BY <1>1, <1>3, <3>4, <3>11, <3>13, <3>14 DEF Queued, QueuedOnce
  <2> QED
    BY <1>3, <2>3, <2>4 DEF CaptureInv
<1> QED
  BY <1>4, <1>5 DEF Push

\* The scheduler moves on.
LEMMA ScheduleStep ==
  ASSUME CaptureInv, Schedule \/ Stop
  PROVE  CaptureInv'
<1>1. /\ Numbered /\ Known /\ Admitted /\ Queued /\ Waiting
      /\ script' = script /\ seq' = seq /\ stalls' = stalls /\ seen' = seen
      /\ reads' = reads /\ answer' = answer /\ pushed' = pushed
  BY DEF CaptureInv, Schedule, Stop, hostVars, queueVars
<1>2. /\ epoch \in Nat /\ swept \in Nat /\ swept <= epoch /\ MaxEpoch \in Nat
      /\ epoch <= MaxEpoch + 1 /\ (~stopped => epoch <= MaxEpoch)
      /\ stopped \in BOOLEAN
  BY <1>1, BoundAssumption DEF Numbered
<1>3. /\ enabled' \in BOOLEAN /\ failed' \in BOOLEAN /\ resetting' \in BOOLEAN
      /\ stopped' \in BOOLEAN
  BY <1>1 DEF Numbered, Schedule, Disable, Enable, Change, Fail, Recover, ResetBegins,
              ResetEnds, Take, Stop
<1>4. /\ epoch' \in Nat /\ epoch <= epoch' /\ epoch' <= MaxEpoch + 1
      /\ (~stopped' => epoch' <= MaxEpoch)
  <2>1. CASE Stop
    BY <1>2, <2>1 DEF Stop
  <2>2. CASE Schedule
    <3>1. stopped' = stopped /\ ~stopped
      BY <2>2 DEF Schedule
    <3>2. epoch' = epoch \/ Moves
      BY <2>2 DEF Schedule, Disable, Enable, Change, Fail, Recover, ResetBegins,
                  ResetEnds, Take
    <3>3. epoch' = epoch \/ (epoch < MaxEpoch /\ epoch' = epoch + 1)
      BY <3>2 DEF Moves
    <3> QED
      BY <1>2, <3>1, <3>3
  <2> QED
    BY <2>1, <2>2
<1>5. \/ swept' = swept
      \/ swept' = epoch' /\ Clears
  BY DEF Schedule, Disable, Enable, Change, Fail, Recover, ResetBegins, ResetEnds, Take,
         Stop, runtimeVars
<1>6. swept' \in Nat /\ swept' <= epoch'
  BY <1>2, <1>4, <1>5
<1>7. Numbered'
  BY <1>1, <1>3, <1>4, <1>6 DEF Numbered
<1>8. Known'
  <2>1. \A j \in reads : Sound(j)'
    BY <1>1, SoundStays DEF Known
  <2>2. \A j \in reads : j.generation \in Nat /\ j.generation <= epoch'
    <3> TAKE j \in reads
    <3>1. j.generation \in Nat /\ j.generation <= epoch
      BY <1>1 DEF Known
    <3> QED
      BY <1>2, <1>4, <3>1
  <2> QED
    BY <1>1, <2>1, <2>2 DEF Known
<1>9. Admitted' /\ Queued'
  BY <1>1 DEF Admitted, Queued, QueuedOnce, Ends
<1>10. Waiting'
  <2>1. \/ Clears
        \/ swept' = swept /\ pending' = pending
        \/ swept' = swept /\ \E s \in Session : pending' = [pending EXCEPT ![s] = None]
    BY DEF Schedule, Disable, Enable, Change, Fail, Recover, ResetBegins, ResetEnds,
           Take, Stop, runtimeVars, queueVars
  <2>2. CASE Clears
    BY <1>1, <2>2 DEF Clears, Waiting
  <2>3. CASE swept' = swept /\ (\/ pending' = pending
                                \/ \E s \in Session : pending' = [pending EXCEPT ![s] = None])
    <3>1. /\ pending' \in [Session -> {None} \cup [end : Nat, generation : Nat]]
          /\ \A s \in Session : pending'[s] # None => pending'[s] = pending[s]
      BY <1>1, <2>3 DEF Waiting
    <3>2. ASSUME NEW s \in Session, pending'[s] # None
          PROVE  /\ pending'[s].end < seq'[s]
                 /\ swept' <= pending'[s].generation /\ pending'[s].generation <= epoch'
      <4>1. /\ pending'[s] = pending[s] /\ pending[s] \in [end : Nat, generation : Nat]
            /\ pending[s].end < seq[s]
            /\ swept <= pending[s].generation /\ pending[s].generation <= epoch
        BY <1>1, <3>1, <3>2 DEF Waiting
      <4>2. pending[s].generation \in Nat
        BY <4>1
      <4> QED
        BY <1>1, <1>2, <1>4, <2>3, <4>1, <4>2
    <3> QED
      BY <3>1, <3>2 DEF Waiting
  <2> QED
    BY <2>1, <2>2, <2>3
<1> QED
  BY <1>7, <1>8, <1>9, <1>10 DEF CaptureInv

\* The invariant holds: of every step of every session, capture and command.
THEOREM CaptureInvariant == Spec => []CaptureInv
<1>1. CaptureInv /\ [Next]_vars => CaptureInv'
  <2> SUFFICES ASSUME CaptureInv, [Next]_vars
               PROVE  CaptureInv'
    OBVIOUS
  <2>1. ASSUME NEW s \in Session, Happens(s) \/ Redispatch(s)
        PROVE  CaptureInv'
    BY <2>1, SessionsStep
  <2>2. ASSUME NEW j \in reads, Serve(j)
        PROVE  CaptureInv'
    BY <2>2, ReadStep, PushStep, RequestStep DEF Serve
  <2>3. CASE Schedule \/ Stop
    BY <2>3, ScheduleStep
  <2>4. ASSUME NEW c \in Command, Ask(c)
        PROVE  CaptureInv'
    BY <2>4, AskStep
  <2>5. ASSUME NEW j \in reads, Abort(j)
        PROVE  CaptureInv'
    BY <2>5, ReadStep
  <2>6. CASE UNCHANGED vars
    <3>1. /\ script' = script /\ seq' = seq /\ stalls' = stalls
          /\ enabled' = enabled /\ epoch' = epoch /\ failed' = failed
          /\ resetting' = resetting /\ stopped' = stopped /\ swept' = swept
          /\ pending' = pending /\ pushed' = pushed /\ seen' = seen
          /\ reads' = reads /\ answer' = answer
      BY <2>6 DEF vars, hostVars, runtimeVars, queueVars
    <3>2. Known'
      <4>1. \A j \in reads : Sound(j)'
        BY <3>1, SoundStays DEF CaptureInv, Known
      <4> QED
        BY <3>1, <4>1 DEF CaptureInv, Known
    <3>3. Numbered' /\ Admitted' /\ Queued' /\ Waiting'
      BY <3>1 DEF CaptureInv, Numbered, Admitted, Queued, QueuedOnce, Waiting, Ends
    <3> QED
      BY <3>2, <3>3 DEF CaptureInv
  <2> QED
    BY <2>1, <2>2, <2>3, <2>4, <2>5, <2>6 DEF Next, Sessions, Captures
<1> QED
  BY <1>1, CaptureInit, PTL DEF Spec

\* The types.
LEMMA CaptureTyped ==
  ASSUME CaptureInv
  PROVE  TypeOK
<1>1. Numbered /\ Known /\ Admitted /\ Queued /\ Waiting
  BY DEF CaptureInv
<1>2. /\ \A s \in Session : seq[s] \in 0..Len(script[s])
      /\ epoch \in 0..MaxEpoch + 1 /\ swept \in 0..epoch
  BY <1>1, Lasting, BoundAssumption DEF Numbered
<1>3. ASSUME NEW s \in Session
      PROVE  /\ seen[s] = None \/ seen[s] \in 0..seq[s] - 1
             /\ pushed[s] \in Seq(0..seq[s] - 1)
             /\ pending[s] = None
                \/ pending[s] \in [end : 0..seq[s] - 1, generation : 0..epoch]
  <2>1. seq[s] \in Nat /\ epoch \in Nat /\ seen[s] \in Nat \cup {None}
        /\ (seen[s] # None => seen[s] < seq[s])
    BY <1>1 DEF Numbered, Admitted
  <2>2. pushed[s] \in Seq(Nat) /\ \A i \in DOMAIN pushed[s] :
          seen[s] # None /\ pushed[s][i] <= seen[s]
    BY <1>1 DEF Queued
  <2>3. Len(pushed[s]) \in Nat /\ DOMAIN pushed[s] = 1..Len(pushed[s])
        /\ \A i \in 1..Len(pushed[s]) : pushed[s][i] \in Nat
    BY <2>2, ElementOfSeq, LenProperties
  <2>4. \A i \in 1..Len(pushed[s]) : pushed[s][i] \in 0..seq[s] - 1
    <3> TAKE i \in 1..Len(pushed[s])
    <3>1. seen[s] # None /\ pushed[s][i] <= seen[s] /\ pushed[s][i] \in Nat
      BY <2>2, <2>3
    <3>2. seen[s] \in Nat /\ seen[s] < seq[s]
      BY <2>1, <3>1
    <3> QED
      BY <2>1, <3>1, <3>2
  <2>5. pushed[s] = [i \in 1..Len(pushed[s]) |-> pushed[s][i]]
    BY <2>2, <2>3, SeqDef
  <2>6. pushed[s] \in [1..Len(pushed[s]) -> 0..seq[s] - 1]
    BY <2>4, <2>5
  <2>7. pushed[s] \in Seq(0..seq[s] - 1)
    BY <2>3, <2>6, SeqDef
  <2>8. ASSUME pending[s] # None
        PROVE  pending[s] \in [end : 0..seq[s] - 1, generation : 0..epoch]
    <3>1. /\ pending[s] \in [end : Nat, generation : Nat]
          /\ pending[s].end < seq[s] /\ pending[s].generation <= epoch
      BY <1>1, <2>8 DEF Waiting
    <3>2. pending[s].end \in 0..seq[s] - 1 /\ pending[s].generation \in 0..epoch
      BY <2>1, <3>1
    <3> QED
      BY <3>1, <3>2
  <2> QED
    BY <2>1, <2>7, <2>8
<1>4. ASSUME NEW j \in reads
      PROVE  /\ j.session \in Session /\ j.generation \in 0..epoch
             /\ j.status \in {"queued", "reading", "resolved"}
             /\ j.cut \in 0..seq[j.session]
             /\ \A r \in {j.outer, j.inner} :
                  r.cursor <= j.cut /\ ToSet(r.buffer) \subseteq r.cursor..j.cut - 1
             /\ (j.id \in Command => answer[j.id] = "reading")
  <2>1. /\ j.session \in Session /\ j.cut \in Nat /\ j.cut <= seq[j.session]
        /\ j.generation \in Nat /\ j.generation <= epoch
        /\ j.status \in {"queued", "reading", "resolved"}
        /\ Placed(j.outer, j.cut) /\ Placed(j.inner, j.cut)
        /\ j.id \in Command => answer[j.id] = "reading"
    BY <1>1 DEF Known, Sound, Framed
  <2>2. seq[j.session] \in Nat /\ epoch \in Nat
    BY <1>1, <2>1 DEF Numbered
  <2>3. ASSUME NEW r \in {j.outer, j.inner}
        PROVE  r.cursor <= j.cut /\ ToSet(r.buffer) \subseteq r.cursor..j.cut - 1
    <3>1. r.cursor \in Nat /\ r.cursor <= j.cut
          /\ \A n \in ToSet(r.buffer) : n \in Nat /\ r.cursor <= n /\ n < j.cut
      BY <2>1 DEF Placed
    <3> QED
      BY <2>1, <3>1
  <2> QED
    BY <2>1, <2>2, <2>3
<1> QED
  BY <1>1, <1>2, <1>3, <1>4 DEF TypeOK, Numbered

\* Every capture and every command has what its code says it has, and a reader
\* stays below its cut (observer.ts:23-42).
THEOREM CapturesAreTyped == Spec => []TypeOK
BY CaptureInvariant, CaptureTyped, PTL

\* A capture holds the whole turn once, in order, whatever the pages and whatever
\* has happened in the session meanwhile (observer.ts:29-42, 67-84).
THEOREM CapturesWholeTurns == Spec => []WholeTurn
<1>1. CaptureInv => WholeTurn
  <2> SUFFICES ASSUME CaptureInv, NEW j \in reads, j.status = "resolved", j.capsule # None
               PROVE  j.capsule.slice = Slice(j.session, j.capsule.end)
    BY DEF WholeTurn
  <2>1. PICK n \in Nat : j.capsule = Captured(j.session, n)
    BY DEF CaptureInv, Known, Sound, Answered
  <2>2. j.capsule = [turn |-> Turn(j.session, n), end |-> n, slice |-> Slice(j.session, n)]
    BY <2>1 DEF Captured, Capsule
  <2> QED
    BY <2>2
<1> QED
  BY <1>1, CaptureInvariant, PTL

\* A search finds what was there to find when it was asked for: it neither skips
\* a turn at the edge of a page nor sees one that came later (observer.ts:206-267).
THEOREM SearchesReadOneCut == Spec => []ReadsOneCut
<1>1. CaptureInv => ReadsOneCut
  BY DEF CaptureInv, Known, Sound, Answered, ReadsOneCut, Goal
<1> QED
  BY <1>1, CaptureInvariant, PTL

\* No candidate outlives the disabling or the reset it was captured across
\* (index.ts:73-82).
THEOREM NothingIsFromBefore == Spec => []NothingFromBefore
<1>1. CaptureInv => NothingFromBefore
  <2> SUFFICES ASSUME CaptureInv, NEW s \in Session, pending[s] # None
               PROVE  pending[s].generation >= swept
    BY DEF NothingFromBefore
  <2>1. /\ swept <= pending[s].generation /\ swept \in Nat
        /\ pending[s] \in [end : Nat, generation : Nat]
    BY DEF CaptureInv, Waiting, Numbered
  <2> QED
    BY <2>1
<1> QED
  BY <1>1, CaptureInvariant, PTL

\* A turn is queued once, however often its end is told (index.ts:69-70).
THEOREM QueuesOnce == Spec => []QueuedOnce
<1>1. CaptureInv => QueuedOnce
  BY DEF CaptureInv, Queued
<1> QED
  BY <1>1, CaptureInvariant, PTL
-----------------------------------------------------------------------------
(* The cuts of a turn.                                                      *)

Tools == Seq((Nat \ {0}) \X Nat)

\* A tool has a name, of some length, and a preview.
LEMMA ToolsHave ==
  ASSUME NEW tools \in Tools
  PROVE  /\ Len(tools) \in Nat /\ DOMAIN tools = 1..Len(tools)
         /\ \A i \in 1..Len(tools) :
              /\ tools[i] = <<tools[i][1], tools[i][2]>>
              /\ tools[i][1] \in Nat \ {0} /\ tools[i][2] \in Nat
<1>1. Len(tools) \in Nat /\ DOMAIN tools = 1..Len(tools)
  BY LenProperties DEF Tools
<1>2. \A i \in 1..Len(tools) : tools[i] \in (Nat \ {0}) \X Nat
  BY <1>1, ElementOfSeq DEF Tools
<1> QED
  BY <1>1, <1>2

\* A cut text fits, and a text is not cut to nothing where there is room.
LEMMA CutFits ==
  ASSUME NEW length \in Nat, NEW room \in Nat
  PROVE  /\ CutTo(length, room) \in Nat /\ CutTo(length, room) <= room
         /\ length > 0 /\ room > 0 => CutTo(length, room) > 0
<1>1. CASE length <= room
  BY <1>1 DEF CutTo
<1>2. CASE ~(length <= room) /\ room <= 0
  BY <1>2 DEF CutTo
<1>3. CASE ~(length <= room) /\ ~(room <= 0)
  <2>1. room \div 2 \in Nat /\ (room - 1) \div 2 \in Nat
    BY <1>3
  <2>2. room \div 2 + 1 + (room - 1) \div 2 = room
    BY <1>3
  <2> QED
    BY <1>3, <2>1, <2>2 DEF CutTo, HeadChars, TailChars
<1> QED
  BY <1>1, <1>2, <1>3

\* What the first tools come to, as ToolChars adds them up.
Sum(tools, i, sum) ==
  IF i = 0 THEN 0 ELSE sum[i - 1] + tools[i][1] + tools[i][2]

\* There are such sums.
LEMMA SumExists ==
  ASSUME NEW tools, Len(tools) \in Nat
  PROVE  \E sum : sum = [i \in 0..Len(tools) |-> Sum(tools, i, sum)]
<1> DEFINE T == {n \in Nat : \E sum : sum = [i \in 0..n |-> Sum(tools, i, sum)]}
<1>1. 0 \in T
  <2> DEFINE sum == [i \in 0..0 |-> 0]
  <2>1. sum = [i \in 0..0 |-> Sum(tools, i, sum)]
    BY DEF Sum
  <2> QED
    BY <2>1
<1>2. ASSUME NEW n \in Nat, n \in T
      PROVE  n + 1 \in T
  <2>1. PICK sum : sum = [i \in 0..n |-> Sum(tools, i, sum)]
    BY <1>2
  <2> DEFINE more == [i \in 0..(n + 1) |->
                        IF i = n + 1 THEN Sum(tools, i, sum) ELSE sum[i]]
  <2>2. ASSUME NEW i \in 0..(n + 1)
        PROVE  more[i] = Sum(tools, i, more)
    <3>1. i # 0 => i - 1 \in 0..n /\ more[i - 1] = sum[i - 1]
      OBVIOUS
    <3>2. i # n + 1 => i \in 0..n
      OBVIOUS
    <3>3. Sum(tools, i, more) = Sum(tools, i, sum)
      BY <3>1 DEF Sum
    <3> QED
      BY <2>1, <3>2, <3>3
  <2>3. more = [i \in 0..(n + 1) |-> Sum(tools, i, more)]
    BY <2>2
  <2> HIDE DEF more
  <2>4. \E m : m = [i \in 0..(n + 1) |-> Sum(tools, i, m)]
    BY <2>3
  <2> QED
    BY <2>4
<1> HIDE DEF T
<1>3. Len(tools) \in T
  BY <1>1, <1>2, Induction
<1> QED
  BY <1>3 DEF T

\* ToolChars is the last of the sums.
LEMMA AddsUp ==
  ASSUME NEW tools \in Tools
  PROVE  \E sum : /\ sum[0] = 0 /\ ToolChars(tools) = sum[Len(tools)]
                  /\ \A n \in 0..Len(tools) : sum[n] \in Nat
                  /\ \A n \in Nat : n + 1 <= Len(tools) =>
                       sum[n + 1] = sum[n] + tools[n + 1][1] + tools[n + 1][2]
<1> DEFINE l == Len(tools)
           sum == CHOOSE sum : sum = [i \in 0..l |-> Sum(tools, i, sum)]
<1>1. /\ l \in Nat
      /\ \A i \in 1..l : tools[i][1] \in Nat /\ tools[i][2] \in Nat
  BY ToolsHave
<1>2. sum = [i \in 0..l |-> Sum(tools, i, sum)]
  BY <1>1, SumExists
<1>3. ToolChars(tools) = sum[l]
  BY DEF ToolChars, Sum
<1> HIDE DEF sum
<1>4. sum[0] = 0
  BY <1>1, <1>2 DEF Sum
<1>5. ASSUME NEW n \in Nat, n + 1 <= l
      PROVE  sum[n + 1] = sum[n] + tools[n + 1][1] + tools[n + 1][2]
  <2>1. n + 1 \in 0..l /\ n + 1 # 0 /\ (n + 1) - 1 = n
    BY <1>1, <1>5
  <2>2. sum[n + 1] = Sum(tools, n + 1, sum)
    BY <1>2, <2>1
  <2> QED
    BY <2>1, <2>2 DEF Sum
<1> DEFINE T == {n \in Nat : n <= l => sum[n] \in Nat}
<1>6. 0 \in T
  BY <1>4
<1>7. ASSUME NEW n \in Nat, n \in T
      PROVE  n + 1 \in T
  <2> SUFFICES ASSUME n + 1 <= l PROVE sum[n + 1] \in Nat
    OBVIOUS
  <2>1. n + 1 \in 1..l /\ sum[n] \in Nat
    BY <1>1, <1>7
  <2>2. tools[n + 1][1] \in Nat /\ tools[n + 1][2] \in Nat
    BY <1>1, <2>1
  <2> QED
    BY <1>5, <2>1, <2>2
<1> HIDE DEF T
<1>8. Nat \subseteq T
  BY <1>6, <1>7, Induction
<1>9. \A n \in 0..l : sum[n] \in Nat
  <2> SUFFICES ASSUME NEW n \in 0..l PROVE sum[n] \in Nat
    OBVIOUS
  <2>1. n \in Nat /\ n <= l
    BY <1>1
  <2> QED
    BY <1>8, <2>1 DEF T
<1> QED
  BY <1>3, <1>4, <1>5, <1>9

\* No tools come to nothing.
LEMMA NothingToAdd ==
  ToolChars(<<>>) = 0
<1>1. <<>> \in Tools /\ Len(<<>>) = 0
  BY EmptySeq DEF Tools
<1> QED
  BY <1>1, AddsUp

\* One more tool adds its name and its preview.
LEMMA OneMore ==
  ASSUME NEW tools \in Tools, NEW name \in Nat \ {0}, NEW preview \in Nat
  PROVE  /\ Append(tools, <<name, preview>>) \in Tools
         /\ ToolChars(tools) \in Nat
         /\ ToolChars(Append(tools, <<name, preview>>)) =
              ToolChars(tools) + name + preview
<1> DEFINE l == Len(tools)
           more == Append(tools, <<name, preview>>)
<1>1. l \in Nat
  BY ToolsHave
<1>2. /\ more \in Tools /\ Len(more) = l + 1 /\ more[l + 1] = <<name, preview>>
      /\ \A i \in 1..l : more[i] = tools[i]
  <2>1. <<name, preview>> \in (Nat \ {0}) \X Nat
    OBVIOUS
  <2> QED
    BY <2>1, AppendProperties DEF Tools
<1> HIDE DEF more
<1>3. PICK a : /\ a[0] = 0 /\ ToolChars(tools) = a[l]
               /\ \A n \in 0..l : a[n] \in Nat
               /\ \A n \in Nat : n + 1 <= l =>
                    a[n + 1] = a[n] + tools[n + 1][1] + tools[n + 1][2]
  BY AddsUp
<1>4. PICK b : /\ b[0] = 0 /\ ToolChars(more) = b[Len(more)]
               /\ \A n \in 0..Len(more) : b[n] \in Nat
               /\ \A n \in Nat : n + 1 <= Len(more) =>
                    b[n + 1] = b[n] + more[n + 1][1] + more[n + 1][2]
  BY <1>2, AddsUp
<1> DEFINE T == {n \in Nat : n <= l => a[n] = b[n]}
<1>5. 0 \in T
  BY <1>3, <1>4
<1>6. ASSUME NEW n \in Nat, n \in T
      PROVE  n + 1 \in T
  <2> SUFFICES ASSUME n + 1 <= l PROVE a[n + 1] = b[n + 1]
    OBVIOUS
  <2>1. n + 1 \in 1..l /\ n + 1 <= Len(more) /\ a[n] = b[n]
    BY <1>1, <1>2, <1>6
  <2>2. more[n + 1] = tools[n + 1]
    BY <1>2, <2>1
  <2> QED
    BY <1>3, <1>4, <2>1, <2>2
<1> HIDE DEF T
<1>7. a[l] = b[l]
  <2>1. l \in T
    BY <1>1, <1>5, <1>6, Induction
  <2> QED
    BY <1>1, <2>1 DEF T
<1>8. b[l + 1] = b[l] + name + preview
  <2>1. b[l + 1] = b[l] + more[l + 1][1] + more[l + 1][2]
    BY <1>1, <1>2, <1>4
  <2> QED
    BY <1>2, <2>1
<1>9. a[l] \in Nat
  BY <1>1, <1>3
<1>10. ToolChars(tools) \in Nat /\ ToolChars(more) = ToolChars(tools) + name + preview
  BY <1>2, <1>3, <1>4, <1>7, <1>8, <1>9
<1> QED
  BY <1>2, <1>10 DEF more

\* What is kept of the tools, and the room they leave.
Roomy(kept, room) ==
  /\ kept = [tools |-> kept.tools, room |-> kept.room]
  /\ kept.tools \in Tools /\ kept.room \in Nat
  /\ ToolChars(kept.tools) + kept.room <= room

\* A tool more takes no more than the room that is left.
LEMMA WithToolFits ==
  ASSUME NEW room \in Nat, NEW kept, Roomy(kept, room),
         NEW tool, tool[1] \in Nat \ {0}, tool[2] \in Nat
  PROVE  Roomy(WithTool(kept, tool), room)
<1> DEFINE name == CutTo(tool[1], kept.room)
           preview == CutTo(tool[2], kept.room - name)
<1>1. /\ kept = [tools |-> kept.tools, room |-> kept.room]
      /\ kept.tools \in Tools /\ kept.room \in Nat
      /\ ToolChars(kept.tools) + kept.room <= room
  BY DEF Roomy
<1>2. name \in Nat /\ name <= kept.room
  BY <1>1, CutFits
<1>3. preview \in Nat /\ preview <= kept.room - name
  <2>1. kept.room - name \in Nat
    BY <1>1, <1>2
  <2> QED
    BY <2>1, CutFits
<1>4. ToolChars(kept.tools) \in Nat
  <2>1. 1 \in Nat \ {0} /\ 0 \in Nat
    OBVIOUS
  <2> QED
    BY <1>1, <2>1, OneMore
<1>5. CASE kept.room <= 0 \/ name = 0
  <2>1. WithTool(kept, tool) = [kept EXCEPT !.room = 0]
    BY <1>5 DEF WithTool
  <2>2. [kept EXCEPT !.room = 0] = [tools |-> kept.tools, room |-> 0]
    BY <1>1
  <2> HIDE DEF name, preview
  <2> QED
    BY <1>1, <1>4, <2>1, <2>2 DEF Roomy
<1>6. CASE ~(kept.room <= 0 \/ name = 0)
  <2>1. WithTool(kept, tool) =
          [tools |-> Append(kept.tools, <<name, preview>>),
           room |-> kept.room - name - preview]
    BY <1>6 DEF WithTool, Left
  <2> HIDE DEF name, preview
  <2>2. /\ Append(kept.tools, <<name, preview>>) \in Tools
        /\ ToolChars(Append(kept.tools, <<name, preview>>)) =
             ToolChars(kept.tools) + name + preview
    BY <1>1, <1>2, <1>3, <1>6, OneMore
  <2>3. kept.room - name - preview \in Nat
    BY <1>1, <1>2, <1>3
  <2> DEFINE next == WithTool(kept, tool)
  <2>4. /\ next = [tools |-> next.tools, room |-> next.room]
        /\ next.tools = Append(kept.tools, <<name, preview>>)
        /\ next.room = kept.room - name - preview
    BY <2>1
  <2> HIDE DEF next
  <2>5. ToolChars(next.tools) + next.room <= room
    BY <1>1, <1>2, <1>3, <1>4, <2>2, <2>4
  <2>6. Roomy(next, room)
    BY <2>2, <2>3, <2>4, <2>5 DEF Roomy
  <2> QED
    BY <2>6 DEF next
<1> QED
  BY <1>5, <1>6

\* What BoundedTools has kept of the first tools.
Fit(tools, room, i, kept) ==
  IF i = 0 THEN [tools |-> <<>>, room |-> room] ELSE WithTool(kept[i - 1], tools[i])

\* There is such a choice of tools.
LEMMA FitExists ==
  ASSUME NEW tools \in Tools, NEW room \in Nat
  PROVE  \E kept : kept = [i \in 0..Len(tools) |-> Fit(tools, room, i, kept)]
<1> DEFINE T == {n \in Nat : \E kept : kept = [i \in 0..n |-> Fit(tools, room, i, kept)]}
<1>1. 0 \in T
  <2> DEFINE kept == [i \in 0..0 |-> [tools |-> <<>>, room |-> room]]
  <2>1. kept = [i \in 0..0 |-> Fit(tools, room, i, kept)]
    BY DEF Fit
  <2> QED
    BY <2>1
<1>2. ASSUME NEW n \in Nat, n \in T
      PROVE  n + 1 \in T
  <2>1. PICK kept : kept = [i \in 0..n |-> Fit(tools, room, i, kept)]
    BY <1>2
  <2> DEFINE more == [i \in 0..(n + 1) |->
                        IF i = n + 1 THEN Fit(tools, room, i, kept) ELSE kept[i]]
  <2>2. ASSUME NEW i \in 0..(n + 1)
        PROVE  more[i] = Fit(tools, room, i, more)
    <3>1. i # 0 => i - 1 \in 0..n /\ more[i - 1] = kept[i - 1]
      OBVIOUS
    <3>2. i # n + 1 => i \in 0..n
      OBVIOUS
    <3>3. Fit(tools, room, i, more) = Fit(tools, room, i, kept)
      BY <3>1 DEF Fit
    <3> QED
      BY <2>1, <3>2, <3>3
  <2>3. more = [i \in 0..(n + 1) |-> Fit(tools, room, i, more)]
    BY <2>2
  <2> HIDE DEF more
  <2>4. \E m : m = [i \in 0..(n + 1) |-> Fit(tools, room, i, m)]
    BY <2>3
  <2> QED
    BY <2>4
<1> HIDE DEF T
<1>3. Len(tools) \in T
  BY <1>1, <1>2, Induction, ToolsHave
<1> QED
  BY <1>3 DEF T

\* The tools that are kept fit into the room there is.
LEMMA ToolsFit ==
  ASSUME NEW tools \in Tools, NEW room \in Nat
  PROVE  /\ BoundedTools(tools, room) \in Tools
         /\ ToolChars(BoundedTools(tools, room)) \in Nat
         /\ ToolChars(BoundedTools(tools, room)) <= room
<1> DEFINE l == Len(tools)
           kept == CHOOSE kept : kept = [i \in 0..l |-> Fit(tools, room, i, kept)]
<1>1. /\ l \in Nat
      /\ \A i \in 1..l : tools[i][1] \in Nat \ {0} /\ tools[i][2] \in Nat
  BY ToolsHave
<1>2. kept = [i \in 0..l |-> Fit(tools, room, i, kept)]
  BY <1>1, FitExists
<1>3. BoundedTools(tools, room) = kept[l].tools
  BY DEF BoundedTools, Fit
<1> HIDE DEF kept
<1> DEFINE T == {n \in Nat : n <= l => Roomy(kept[n], room)}
<1>4. 0 \in T
  <2>1. kept[0] = [tools |-> <<>>, room |-> room]
    BY <1>1, <1>2 DEF Fit
  <2>2. <<>> \in Tools
    BY EmptySeq DEF Tools
  <2>3. Roomy(kept[0], room)
    BY <2>1, <2>2, NothingToAdd DEF Roomy
  <2> QED
    BY <2>3
<1>5. ASSUME NEW n \in Nat, n \in T
      PROVE  n + 1 \in T
  <2> SUFFICES ASSUME n + 1 <= l PROVE Roomy(kept[n + 1], room)
    OBVIOUS
  <2>1. n + 1 \in 1..l /\ n + 1 \in 0..l /\ n + 1 # 0 /\ (n + 1) - 1 = n
    BY <1>1
  <2>2. Roomy(kept[n], room)
    BY <1>1, <1>5
  <2>3. kept[n + 1] = WithTool(kept[n], tools[n + 1])
    <3>1. kept[n + 1] = Fit(tools, room, n + 1, kept)
      BY <1>2, <2>1
    <3> QED
      BY <2>1, <3>1 DEF Fit
  <2>4. tools[n + 1][1] \in Nat \ {0} /\ tools[n + 1][2] \in Nat
    BY <1>1, <2>1
  <2> QED
    BY <2>2, <2>3, <2>4, WithToolFits
<1> HIDE DEF T
<1>6. Roomy(kept[l], room)
  <2>1. l \in T
    BY <1>1, <1>4, <1>5, Induction
  <2> QED
    BY <1>1, <2>1 DEF T
<1>7. kept[l].tools \in Tools /\ kept[l].room \in Nat
      /\ ToolChars(kept[l].tools) + kept[l].room <= room
  BY <1>6 DEF Roomy
<1>8. ToolChars(kept[l].tools) \in Nat
  <2>1. 1 \in Nat \ {0} /\ 0 \in Nat
    OBVIOUS
  <2> QED
    BY <1>7, <2>1, OneMore
<1> QED
  BY <1>3, <1>7, <1>8

\* The shares of a limit are no more than it.
LEMMA Shares ==
  ASSUME NEW l \in Nat \ {0}
  PROVE  /\ UserLimit(l) \in Nat /\ AssistantLimit(l) \in Nat
         /\ AtLeast(0, l - UserLimit(l) - AssistantLimit(l)) \in Nat
         /\ UserLimit(l) + AssistantLimit(l)
              + AtLeast(0, l - UserLimit(l) - AssistantLimit(l)) = l
         /\ l >= 4 => UserLimit(l) > 0
<1>1. /\ (l * 3) \div 10 \in Nat /\ (l * 55) \div 100 \in Nat
      /\ (l * 3) \div 10 + (l * 55) \div 100 <= l
      /\ (l * 3) \div 10 + 1 <= l
      /\ l >= 4 => (l * 3) \div 10 > 0
  OBVIOUS
<1>2. UserLimit(l) = (l * 3) \div 10
  BY DEF UserLimit
<1>3. AssistantLimit(l) = 1 \/ AssistantLimit(l) = (l * 55) \div 100
  BY DEF AssistantLimit, AtLeast
<1>4. l - UserLimit(l) - AssistantLimit(l) \in Nat
  BY <1>1, <1>2, <1>3
<1>5. AtLeast(0, l - UserLimit(l) - AssistantLimit(l)) =
        l - UserLimit(l) - AssistantLimit(l)
  BY <1>4 DEF AtLeast
<1> QED
  BY <1>1, <1>2, <1>3, <1>4, <1>5

\* What a turn says, or a request with a turn's answer.
Speech(said) ==
  /\ said.user \in Nat /\ said.assistant \in Nat /\ said.tools \in Tools

\* A capsule keeps to its limit, and keeps something of what the user said.
LEMMA CapsuleFits ==
  ASSUME NEW said, Speech(said), NEW l \in Nat \ {0}
  PROVE  /\ BoundCapsule(said, l) \in Cuts
         /\ Chars(BoundCapsule(said, l)) <= l
         /\ said.user > 0 /\ l >= 4 => BoundCapsule(said, l).user > 0
<1> DEFINE c == BoundCapsule(said, l)
<1>1. said.user \in Nat /\ said.assistant \in Nat /\ said.tools \in Tools
  BY DEF Speech
<1>2. CASE Chars(said) <= l
  <2>1. c = [user |-> said.user, assistant |-> said.assistant,
             tools |-> said.tools, truncated |-> FALSE]
    BY <1>2 DEF BoundCapsule
  <2>2. c.user = said.user /\ c.assistant = said.assistant /\ c.tools = said.tools
    BY <2>1
  <2> HIDE DEF c
  <2>3. c \in Cuts
    BY <1>1, <2>1 DEF Cuts, Tools
  <2>4. Chars(c) <= l /\ (said.user > 0 /\ l >= 4 => c.user > 0)
    BY <1>1, <1>2, <2>2 DEF Chars
  <2> QED
    BY <2>3, <2>4 DEF c
<1>3. CASE ~(Chars(said) <= l)
  <2> DEFINE room == AtLeast(0, l - UserLimit(l) - AssistantLimit(l))
  <2>1. c = [user |-> CutTo(said.user, UserLimit(l)),
             assistant |-> CutTo(said.assistant, AssistantLimit(l)),
             tools |-> BoundedTools(said.tools, room), truncated |-> TRUE]
    BY <1>3 DEF BoundCapsule
  <2>2. /\ c.user = CutTo(said.user, UserLimit(l))
        /\ c.assistant = CutTo(said.assistant, AssistantLimit(l))
        /\ c.tools = BoundedTools(said.tools, room)
    BY <2>1
  <2> HIDE DEF c
  <2>3. /\ UserLimit(l) \in Nat /\ AssistantLimit(l) \in Nat /\ room \in Nat
        /\ UserLimit(l) + AssistantLimit(l) + room = l
        /\ l >= 4 => UserLimit(l) > 0
    BY Shares
  <2> HIDE DEF room
  <2>4. /\ c.user \in Nat /\ c.user <= UserLimit(l)
        /\ said.user > 0 /\ UserLimit(l) > 0 => c.user > 0
    BY <1>1, <2>2, <2>3, CutFits
  <2>5. c.assistant \in Nat /\ c.assistant <= AssistantLimit(l)
    BY <1>1, <2>2, <2>3, CutFits
  <2>6. c.tools \in Tools /\ ToolChars(c.tools) \in Nat /\ ToolChars(c.tools) <= room
    BY <1>1, <2>2, <2>3, ToolsFit
  <2>7. Chars(c) <= l
    BY <2>3, <2>4, <2>5, <2>6 DEF Chars
  <2>8. c \in Cuts
    <3>1. c = [user |-> c.user, assistant |-> c.assistant, tools |-> c.tools,
               truncated |-> TRUE]
      BY <2>1, <2>2
    <3>2. ASSUME NEW u \in Nat, NEW a \in Nat, NEW t \in Tools
          PROVE  [user |-> u, assistant |-> a, tools |-> t, truncated |-> TRUE] \in Cuts
      BY DEF Cuts, Tools
    <3>3. c.user \in Nat /\ c.assistant \in Nat /\ c.tools \in Tools
      BY <2>4, <2>5, <2>6
    <3>4. [user |-> c.user, assistant |-> c.assistant, tools |-> c.tools,
           truncated |-> TRUE] \in Cuts
      BY <3>2, <3>3
    <3> QED
      BY <3>1, <3>4, Zenon
  <2> QED
    BY <2>3, <2>4, <2>7, <2>8 DEF c
<1> QED
  BY <1>2, <1>3

\* A preview is cut, and a tool without one has none.
LEMMA StillTools ==
  ASSUME NEW tools \in Tools
  PROVE  Previewed(tools) \in Tools
<1>1. /\ Len(tools) \in Nat /\ DOMAIN tools = 1..Len(tools)
      /\ \A i \in 1..Len(tools) : tools[i][1] \in Nat \ {0} /\ tools[i][2] \in Nat
  BY ToolsHave
<1>2. \A i \in 1..Len(tools) : CutTo(tools[i][2], PreviewChars) \in Nat
  BY <1>1, CutFits, CharsAssumption
<1>3. Previewed(tools) =
        [i \in 1..Len(tools) |-> <<tools[i][1], CutTo(tools[i][2], PreviewChars)>>]
  BY <1>1 DEF Previewed
<1>4. Previewed(tools) \in [1..Len(tools) -> (Nat \ {0}) \X Nat]
  BY <1>1, <1>2, <1>3
<1> QED
  BY <1>1, <1>4, SeqDef DEF Tools

\* What Distinct has kept of the first names.
New(names, i, kept) ==
  IF i = 0 THEN <<>>
  ELSE IF names[i] = 0 \/ names[i] \in ToSet(kept[i - 1]) THEN kept[i - 1]
  ELSE Append(kept[i - 1], names[i])

\* There is such a choice of names.
LEMMA NewExists ==
  ASSUME NEW names, Len(names) \in Nat
  PROVE  \E kept : kept = [i \in 0..Len(names) |-> New(names, i, kept)]
<1> DEFINE T == {n \in Nat : \E kept : kept = [i \in 0..n |-> New(names, i, kept)]}
<1>1. 0 \in T
  <2> DEFINE kept == [i \in 0..0 |-> <<>>]
  <2>1. kept = [i \in 0..0 |-> New(names, i, kept)]
    BY DEF New
  <2> QED
    BY <2>1
<1>2. ASSUME NEW n \in Nat, n \in T
      PROVE  n + 1 \in T
  <2>1. PICK kept : kept = [i \in 0..n |-> New(names, i, kept)]
    BY <1>2
  <2> DEFINE more == [i \in 0..(n + 1) |->
                        IF i = n + 1 THEN New(names, i, kept) ELSE kept[i]]
  <2>2. ASSUME NEW i \in 0..(n + 1)
        PROVE  more[i] = New(names, i, more)
    <3>1. i # 0 => i - 1 \in 0..n /\ more[i - 1] = kept[i - 1]
      OBVIOUS
    <3>2. i # n + 1 => i \in 0..n
      OBVIOUS
    <3>3. New(names, i, more) = New(names, i, kept)
      BY <3>1 DEF New
    <3> QED
      BY <2>1, <3>2, <3>3
  <2>3. more = [i \in 0..(n + 1) |-> New(names, i, more)]
    BY <2>2
  <2> HIDE DEF more
  <2>4. \E m : m = [i \in 0..(n + 1) |-> New(names, i, m)]
    BY <2>3
  <2> QED
    BY <2>4
<1> HIDE DEF T
<1>3. Len(names) \in T
  BY <1>1, <1>2, Induction
<1> QED
  BY <1>3 DEF T

\* The names that are kept are names.
LEMMA NamesAreSome ==
  ASSUME NEW names \in Seq(Nat)
  PROVE  Distinct(names) \in Seq(Nat \ {0})
<1> DEFINE l == Len(names)
           kept == CHOOSE kept : kept = [i \in 0..l |-> New(names, i, kept)]
<1>1. l \in Nat /\ \A i \in 1..l : names[i] \in Nat
  <2>1. l \in Nat
    BY LenProperties
  <2> QED
    BY <2>1, ElementOfSeq
<1>2. kept = [i \in 0..l |-> New(names, i, kept)]
  BY <1>1, NewExists
<1>3. Distinct(names) = kept[l]
  BY DEF Distinct, New
<1> HIDE DEF kept
<1> DEFINE T == {n \in Nat : n <= l => kept[n] \in Seq(Nat \ {0})}
<1>4. 0 \in T
  <2>1. kept[0] = <<>>
    BY <1>1, <1>2 DEF New
  <2> QED
    BY <2>1, EmptySeq
<1>5. ASSUME NEW n \in Nat, n \in T
      PROVE  n + 1 \in T
  <2> SUFFICES ASSUME n + 1 <= l PROVE kept[n + 1] \in Seq(Nat \ {0})
    OBVIOUS
  <2>1. n + 1 \in 1..l /\ n + 1 \in 0..l /\ n + 1 # 0 /\ (n + 1) - 1 = n
    BY <1>1
  <2>2. kept[n] \in Seq(Nat \ {0}) /\ names[n + 1] \in Nat
    BY <1>1, <1>5, <2>1
  <2>3. kept[n + 1] = New(names, n + 1, kept)
    BY <1>2, <2>1
  <2>4. \/ kept[n + 1] = kept[n]
        \/ names[n + 1] # 0 /\ kept[n + 1] = Append(kept[n], names[n + 1])
    BY <2>1, <2>3 DEF New
  <2>5. CASE kept[n + 1] = kept[n]
    BY <2>2, <2>5
  <2>6. CASE names[n + 1] # 0 /\ kept[n + 1] = Append(kept[n], names[n + 1])
    <3>1. names[n + 1] \in Nat \ {0}
      BY <2>2, <2>6
    <3>2. Append(kept[n], names[n + 1]) \in Seq(Nat \ {0})
      BY <2>2, <3>1, AppendProperties
    <3> QED
      BY <2>6, <3>2
  <2> QED
    BY <2>4, <2>5, <2>6
<1> HIDE DEF T
<1>6. l \in T
  BY <1>1, <1>4, <1>5, Induction
<1> QED
  BY <1>1, <1>3, <1>6 DEF T

\* The reader takes every summary that is written.
LEMMA SummaryReads ==
  ASSUME NEW c, Speech(c)
  PROVE  LET kept == SourceSummary(c) IN
         /\ kept.user <= UserChars /\ Len(kept.names) <= MaxNames
         /\ \A i \in DOMAIN kept.names : kept.names[i] \in 1..NameChars
<1> DEFINE names == Names(c.tools)
           kept == SourceSummary(c)
<1>1. kept.user = CutTo(c.user, UserChars) /\ kept.names = Bounded(names)
  BY DEF SourceSummary
<1>2. kept.user <= UserChars
  BY <1>1, CutFits, CharsAssumption DEF Speech
<1>3. names \in Seq(Nat \ {0})
  <2> DEFINE all == [i \in DOMAIN c.tools |-> c.tools[i][1]]
  <2>1. /\ Len(c.tools) \in Nat /\ DOMAIN c.tools = 1..Len(c.tools)
        /\ \A i \in 1..Len(c.tools) : c.tools[i][1] \in Nat
    BY ToolsHave DEF Speech
  <2>2. all \in [1..Len(c.tools) -> Nat]
    BY <2>1
  <2>3. all \in Seq(Nat)
    BY <2>1, <2>2, SeqDef
  <2>4. names = Distinct(all)
    BY DEF Names
  <2> QED
    BY <2>3, <2>4, NamesAreSome
<1> HIDE DEF names, kept
<1>4. /\ Len(names) \in Nat /\ DOMAIN names = 1..Len(names)
      /\ \A i \in 1..Len(names) : names[i] \in Nat \ {0}
  <2>1. Len(names) \in Nat /\ DOMAIN names = 1..Len(names)
    BY <1>3, LenProperties
  <2> QED
    BY <1>3, <2>1, ElementOfSeq
<1> DEFINE n == IF Len(names) <= MaxNames THEN Len(names) ELSE MaxNames
<1>5. n \in Nat /\ n <= MaxNames /\ n <= Len(names)
      /\ DOMAIN names \cap 1..MaxNames = 1..n
  BY <1>4, CharsAssumption
<1> HIDE DEF n
<1>6. kept.names = [i \in 1..n |-> CutTo(names[i], NameChars)]
  BY <1>1, <1>5 DEF Bounded
<1>7. \A i \in 1..n : CutTo(names[i], NameChars) \in 1..NameChars
  <2> SUFFICES ASSUME NEW i \in 1..n PROVE CutTo(names[i], NameChars) \in 1..NameChars
    OBVIOUS
  <2>1. names[i] \in Nat /\ names[i] > 0
    BY <1>4, <1>5
  <2>2. NameChars \in Nat /\ NameChars > 0
    BY CharsAssumption
  <2>3. /\ CutTo(names[i], NameChars) \in Nat
        /\ CutTo(names[i], NameChars) <= NameChars
        /\ CutTo(names[i], NameChars) > 0
    BY <2>1, <2>2, CutFits
  <2> QED
    BY <2>2, <2>3
<1>8. DOMAIN kept.names = 1..n /\ \A i \in 1..n : kept.names[i] \in 1..NameChars
  BY <1>6, <1>7
<1>9. Len(kept.names) = n
  <2>1. kept.names \in [1..n -> 1..NameChars]
    BY <1>6, <1>7
  <2>2. kept.names \in Seq(1..NameChars)
    BY <1>5, <2>1, SeqDef
  <2>3. Len(kept.names) \in Nat /\ DOMAIN kept.names = 1..Len(kept.names)
    BY <2>2, LenProperties
  <2> QED
    BY <1>5, <1>8, <2>3
<1>10. Len(kept.names) <= MaxNames
  BY <1>5, <1>9
<1> QED
  BY <1>2, <1>8, <1>10 DEF kept

\* Whatever a turn says, a capsule of it keeps to the limit; so does the request
\* that is put in front of a capsule that was bounded already.
BoundsInv ==
  BoundsTypeOK /\ Speech(turn) /\ WithinLimit /\ RequestKept /\ Readable

\* Nothing has been cut at first.
LEMMA FirstBounds ==
  ASSUME BoundsInit
  PROVE  BoundsInv
<1>1. limit \in Limits /\ asked = NoText
      /\ capsule = NoText /\ target = NoText /\ summary = NoText
  BY DEF BoundsInit
<1>2. Speech(turn)
  <2>1. PICK u \in Lengths \cup {0}, a \in Lengths, t \in ToolLists :
          turn = Said(u, a, t)
    BY DEF BoundsInit
  <2>2. u \in Nat /\ a \in Nat /\ t \in Tools
    BY LengthAssumption, ToolAssumption DEF Tools
  <2> QED
    BY <2>1, <2>2 DEF Said, Speech
<1> QED
  BY <1>1, <1>2 DEF BoundsInv, BoundsTypeOK, WithinLimit, RequestKept, Readable

\* What was cut may be cut again.
LEMMA CutSpeaks ==
  ASSUME NEW c \in Cuts
  PROVE  Speech(c)
BY DEF Cuts, Speech, Tools

\* Every cut keeps to the bounds.
LEMMA BoundsStep ==
  ASSUME BoundsInv, [BoundsNext]_boundsVars
  PROVE  BoundsInv'
<1>1. /\ limit \in Limits /\ limit \in Nat \ {0} /\ Speech(turn)
      /\ asked \in Lengths \cup {NoText}
      /\ capsule \in Cuts \cup {NoText} /\ target \in Cuts \cup {NoText}
      /\ (target = NoText) = (asked = NoText)
  BY LimitAssumption DEF BoundsInv, BoundsTypeOK
<1>2. WithinLimit /\ RequestKept /\ Readable
  BY DEF BoundsInv
<1>3. CASE Cut
  <2> DEFINE said == Said(turn.user, turn.assistant, Previewed(turn.tools))
  <2>1. Speech(said)
    BY <1>1, StillTools DEF Speech, Said
  <2> HIDE DEF said
  <2>2. /\ capsule' = BoundCapsule(said, limit)
        /\ UNCHANGED <<limit, turn, asked, target, summary>>
    BY <1>3 DEF Cut, said
  <2>3. capsule' \in Cuts /\ Chars(capsule') <= limit
    BY <1>1, <2>1, <2>2, CapsuleFits
  <2>4. BoundsTypeOK' /\ Speech(turn)'
    BY <1>1, <2>2, <2>3 DEF BoundsTypeOK
  <2>5. WithinLimit'
    BY <1>2, <2>2, <2>3 DEF WithinLimit
  <2> QED
    BY <1>2, <2>2, <2>4, <2>5 DEF BoundsInv, RequestKept, Readable
<1>4. CASE AskFor
  <2>1. PICK request \in Lengths :
          /\ asked' = request
          /\ target' = BoundCapsule(IF capsule = NoText THEN Said(request, 0, <<>>)
                                    ELSE Said(request, capsule.assistant,
                                              capsule.tools), limit)
    BY <1>4 DEF AskFor
  <2>2. UNCHANGED <<limit, turn, capsule, summary>>
    BY <1>4 DEF AskFor
  <2> DEFINE said == IF capsule = NoText THEN Said(request, 0, <<>>)
                     ELSE Said(request, capsule.assistant, capsule.tools)
  <2>3. request \in Nat /\ request > 0
    BY LengthAssumption
  <2>4. Speech(said) /\ said.user = request
    <3>1. CASE capsule = NoText
      <4>1. <<>> \in Tools
        BY EmptySeq DEF Tools
      <4> QED
        BY <2>3, <3>1, <4>1 DEF Said, Speech
    <3>2. CASE capsule # NoText
      <4>1. capsule.assistant \in Nat /\ capsule.tools \in Tools
        BY <1>1, <3>2, CutSpeaks DEF Speech
      <4> QED
        BY <2>3, <3>2, <4>1 DEF Said, Speech
    <3> QED
      BY <3>1, <3>2
  <2> HIDE DEF said
  <2>5. target' = BoundCapsule(said, limit)
    BY <2>1 DEF said
  <2>6. /\ target' \in Cuts /\ Chars(target') <= limit
        /\ limit >= 4 => target'.user > 0
    BY <1>1, <2>3, <2>4, <2>5, CapsuleFits
  <2>7. BoundsTypeOK' /\ Speech(turn)'
    <3>1. asked' # NoText /\ target' # NoText
      BY <2>1, <2>3, <2>6, NoTextAssumption
    <3> QED
      BY <1>1, <2>1, <2>2, <2>6, <3>1 DEF BoundsTypeOK
  <2>8. WithinLimit'
    BY <1>2, <2>2, <2>6 DEF WithinLimit
  <2>9. RequestKept'
    BY <2>2, <2>6 DEF RequestKept
  <2> QED
    BY <1>2, <2>2, <2>7, <2>8, <2>9 DEF BoundsInv, Readable
<1>5. CASE Keep
  <2>1. UNCHANGED <<limit, turn, asked, capsule, target>>
    BY <1>5 DEF Keep
  <2>2. PICK c \in {capsule, target} \ {NoText} : summary' = SourceSummary(c)
    BY <1>5 DEF Keep
  <2>3. Readable'
    <3>1. Speech(c)
      BY <1>1, CutSpeaks
    <3> QED
      BY <2>2, <3>1, SummaryReads DEF Readable
  <2>4. BoundsTypeOK' /\ Speech(turn)'
    BY <1>1, <2>1 DEF BoundsTypeOK
  <2> QED
    BY <1>2, <2>1, <2>3, <2>4 DEF BoundsInv, WithinLimit, RequestKept
<1>6. CASE UNCHANGED boundsVars
  <2>1. UNCHANGED <<limit, turn, asked, capsule, target, summary>>
    BY <1>6 DEF boundsVars
  <2>2. BoundsTypeOK' /\ Speech(turn)'
    BY <1>1, <2>1 DEF BoundsTypeOK
  <2> QED
    BY <1>2, <2>1, <2>2 DEF BoundsInv, WithinLimit, RequestKept, Readable
<1> QED
  BY <1>3, <1>4, <1>5, <1>6 DEF BoundsNext

\* The capsule of a turn, the target of a request and what is kept of them have
\* their types; there is a target once there was a request.
THEOREM CutsAreTyped == BoundsSpec => []BoundsTypeOK
<1>1. BoundsInv => BoundsTypeOK
  BY DEF BoundsInv
<1> QED
  BY <1>1, FirstBounds, BoundsStep, PTL DEF BoundsSpec

\* What goes to the model and what is stored of it is bounded, a request is cut
\* and not lost, and every stored summary can be read: whatever the limit, the
\* texts, the tools and the order in which they are cut (observer.ts:288-321,
\* store.ts:2394-2433).
THEOREM CutsAreWell == BoundsSpec => []WellCut
<1>1. BoundsInv => WellCut
  BY DEF BoundsInv, WellCut
<1> QED
  BY <1>1, FirstBounds, BoundsStep, PTL DEF BoundsSpec
=============================================================================
