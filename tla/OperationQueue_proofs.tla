-------------------------- MODULE OperationQueue_proofs --------------------------
(***************************************************************************)
(* Proofs about OperationQueue, for any devices, controllers, values and   *)
(* length, and the lemmas about the deque's operations they rest on, which *)
(* the proofs about Hub use as well.                                       *)
(***************************************************************************)
EXTENDS OperationQueue, FiniteSetTheorems, FunctionTheorems, SequenceTheorems, TLAPS

-----------------------------------------------------------------------------
(* What is kept of a sequence.                                             *)

\* A set of indices of a sequence is finite.
LEMMA FiniteIndices ==
    ASSUME NEW n \in Nat, NEW kept, kept \subseteq 1..n
    PROVE  IsFiniteSet(kept) /\ \A j \in kept : j \in Int
  <1>1. IsFiniteSet(1..n) /\ kept \in SUBSET (1..n)
    BY FS_Interval
  <1>2. IsFiniteSet(kept)
    BY <1>1, FS_Subset
  <1>3. QED
    BY <1>2

\* A later kept index has a higher rank among the kept ones.
LEMMA RankStrict ==
    ASSUME NEW n \in Nat, NEW kept, kept \subseteq 1..n, NEW i \in kept, NEW k \in kept, i < k
    PROVE  /\ Cardinality({j \in kept : j <= i}) \in 1..Cardinality(kept)
           /\ Cardinality({j \in kept : j <= i}) < Cardinality({j \in kept : j <= k})
  <1>1. IsFiniteSet(kept) /\ (\A j \in kept : j \in Int)
    BY FiniteIndices
  <1> DEFINE A == {j \in kept : j <= i}
             B == {j \in kept : j <= k}
  <1>2. A \subseteq B /\ k \in B /\ k \notin A /\ B \subseteq kept /\ A \subseteq kept /\ i \in A
    <2>1. i \in Int /\ k \in Int
      BY <1>1
    <2>2. i <= i /\ k <= k /\ ~(k <= i)
      BY <2>1
    <2>3. \A j \in kept : j <= i => j <= k
      BY <1>1, <2>1
    <2>4. QED
      BY <2>2, <2>3
  <1>3. IsFiniteSet(A) /\ IsFiniteSet(B)
    BY <1>1, <1>2, FS_Subset
  <1>4. Cardinality(A) < Cardinality(B)
    <2>1. A # B
      BY <1>2
    <2>2. Cardinality(A) <= Cardinality(B) /\ Cardinality(A) # Cardinality(B)
      BY <1>2, <1>3, <2>1, FS_Subset
    <2>3. QED
      BY <1>3, <2>2, FS_CardinalityType
  <1>5. Cardinality(A) <= Cardinality(kept) /\ Cardinality(A) \in Nat /\ Cardinality(A) # 0 /\ Cardinality(kept) \in Nat
    BY <1>1, <1>2, <1>3, FS_Subset, FS_EmptySet, FS_CardinalityType
  <1>6. QED
    BY <1>4, <1>5

\* Ranks run from 1 to the number of kept indices.
LEMMA RankRange ==
    ASSUME NEW n \in Nat, NEW kept, kept \subseteq 1..n, NEW i \in kept
    PROVE  Cardinality({j \in kept : j <= i}) \in 1..Cardinality(kept)
  <1>1. IsFiniteSet(kept) /\ (\A j \in kept : j \in Int)
    BY FiniteIndices
  <1> DEFINE A == {j \in kept : j <= i}
  <1>2. A \subseteq kept /\ i \in A
    BY <1>1
  <1>3. IsFiniteSet(A)
    BY <1>1, <1>2, FS_Subset
  <1>4. Cardinality(A) <= Cardinality(kept) /\ Cardinality(A) \in Nat /\ Cardinality(A) # 0 /\ Cardinality(kept) \in Nat
    BY <1>1, <1>2, <1>3, FS_Subset, FS_EmptySet, FS_CardinalityType
  <1>5. QED
    BY <1>4

\* at says where in q each entry that Select keeps was: in the same order, and none is missing.
Picks(q, kept, at) ==
    /\ at \in [1..Cardinality(kept) -> kept]
    /\ Select(q, kept) = [m \in 1..Cardinality(kept) |-> q[at[m]]]
    /\ \A m1, m2 \in 1..Cardinality(kept) : m1 < m2 => at[m1] < at[m2]
    /\ \A i \in kept : \E m \in 1..Cardinality(kept) : at[m] = i

\* Select keeps every wanted entry, once, and in order.
LEMMA Selects ==
    ASSUME NEW n \in Nat, NEW kept, kept \subseteq 1..n, NEW q
    PROVE  \E at : Picks(q, kept, at)
  <1> DEFINE rank == [i \in kept |-> Cardinality({j \in kept : j <= i})]
             size == Cardinality(kept)
  <1>1. IsFiniteSet(kept) /\ (\A j \in kept : j \in Int) /\ size \in Nat
    BY FiniteIndices, FS_CardinalityType
  <1>2. \A i, k \in kept : i < k => rank[i] < rank[k]
    BY RankStrict
  <1>3. rank \in [kept -> 1..size]
    BY RankRange
  <1>4. rank \in Injection(kept, 1..size)
    <2>1. \A i, k \in kept : rank[i] = rank[k] => i = k
      BY <1>2, <1>3
    <2> HIDE DEF rank, size
    <2>2. QED
      BY <1>3, <2>1, Fun_IsInj
  <1>5. IsFiniteSet(1..size) /\ Cardinality(1..size) = size
    BY <1>1, FS_Interval
  <1>6. rank \in Surjection(kept, 1..size)
    <2> HIDE DEF rank, size
    <2>1. Cardinality(kept) = Cardinality(1..size)
      BY <1>5 DEF size
    <2>2. QED
      BY <1>1, <1>4, <1>5, <2>1, FS_Injection
  <1>7. \A m \in 1..size : \E i \in kept : rank[i] = m
    BY <1>6 DEF Surjection
  <1> DEFINE at == [m \in 1..size |-> CHOOSE i \in kept : Cardinality({j \in kept : j <= i}) = m]
  <1>8. \A m \in 1..size : at[m] \in kept /\ rank[at[m]] = m
    BY <1>7
  <1>9. at \in [1..size -> kept]
    BY <1>8
  <1>10. Select(q, kept) = [m \in 1..size |-> q[at[m]]]
    BY DEF Select
  <1>11. \A i \in kept : rank[i] \in Int
    <2>1. size \in Nat
      BY <1>1
    <2> HIDE DEF rank, size
    <2>2. QED
      BY <1>3, <2>1
  <1> HIDE DEF at, rank, size
  <1>12. ASSUME NEW m1 \in 1..size, NEW m2 \in 1..size, m1 < m2 PROVE at[m1] < at[m2]
    <2>1. at[m1] \in kept /\ rank[at[m1]] = m1 /\ at[m2] \in kept /\ rank[at[m2]] = m2
      BY <1>8
    <2>2. at[m1] \in Int /\ at[m2] \in Int /\ m1 \in Int /\ m2 \in Int
      <3>1. at[m1] \in Int /\ at[m2] \in Int
        BY <1>1, <2>1
      <3>2. QED
        BY <3>1
    <2>3. ~(at[m2] < at[m1])
      BY <2>1, <2>2, <1>2, <1>12
    <2>4. at[m1] # at[m2]
      BY <2>1, <2>2, <1>12
    <2>5. QED
      BY <2>2, <2>3, <2>4
  <1>13. ASSUME NEW i \in kept PROVE \E m \in 1..size : at[m] = i
    <2>1. rank[i] \in 1..size
      BY <1>3
    <2>2. at[rank[i]] \in kept /\ rank[at[rank[i]]] = rank[i]
      BY <2>1, <1>8
    <2>3. at[rank[i]] = i
      <3>1. at[rank[i]] \in Int /\ i \in Int
        BY <1>1, <2>2
      <3>2. QED
        BY <3>1, <2>2, <1>2, <1>11
    <2>4. QED
      BY <2>1, <2>3
  <1>14. Picks(q, kept, at)
    BY <1>9, <1>10, <1>12, <1>13 DEF Picks, size
  <1>15. QED
    BY <1>14

-----------------------------------------------------------------------------
(* The queue.                                                              *)

\* The operations in a queue.
Held(q) == {q[i] : i \in DOMAIN q}

\* op inserted at place k.
Splice(s, op, k) == SubSeq(s, 1, k - 1) \o <<op>> \o SubSeq(s, k, Len(s))

\* What Splice makes of a sequence, entry by entry.
LEMMA Inserts ==
    ASSUME NEW S, NEW s \in Seq(S), NEW op \in S, NEW k \in 1..Len(s) + 1
    PROVE  /\ Splice(s, op, k) \in Seq(S) /\ Len(Splice(s, op, k)) = Len(s) + 1
           /\ \A i \in 1..Len(s) + 1 : Splice(s, op, k)[i] = IF i < k THEN s[i] ELSE IF i = k THEN op ELSE s[i - 1]
  <1> DEFINE a == SubSeq(s, 1, k - 1)
             b == SubSeq(s, k, Len(s))
             o == <<op>>
             t == (a \o o) \o b
  <1>1. Len(s) \in Nat /\ k \in Int /\ \A i \in 1..Len(s) : s[i] \in S
    BY LenProperties, ElementOfSeq
  <1>2. a \in Seq(S) /\ Len(a) = k - 1 /\ \A i \in 1..k - 1 : a[i] = s[i]
    <2>1. k - 1 \in Int /\ \A i \in 1..k - 1 : s[i] \in S
      BY <1>1
    <2>2. /\ a \in Seq(S) /\ Len(a) = (IF 1 <= k - 1 THEN (k - 1) - 1 + 1 ELSE 0)
          /\ \A i \in 1..(k - 1) - 1 + 1 : a[i] = s[1 + i - 1]
      BY <2>1, SubSeqProperties
    <2>3. QED
      BY <1>1, <2>2
  <1>3. b \in Seq(S) /\ Len(b) = Len(s) - k + 1 /\ \A i \in 1..Len(s) - k + 1 : b[i] = s[k + i - 1]
    <2>1. k \in Int /\ Len(s) \in Int /\ \A i \in k..Len(s) : s[i] \in S
      BY <1>1
    <2>2. /\ b \in Seq(S) /\ Len(b) = (IF k <= Len(s) THEN Len(s) - k + 1 ELSE 0)
          /\ \A i \in 1..Len(s) - k + 1 : b[i] = s[k + i - 1]
      BY <2>1, SubSeqProperties
    <2>3. QED
      BY <1>1, <2>2
  <1>4. o \in Seq(S) /\ Len(o) = 1 /\ o[1] = op
    OBVIOUS
  <1> HIDE DEF a, b, o
  <1>5. /\ a \o o \in Seq(S) /\ Len(a \o o) = k
        /\ \A i \in 1..k : (a \o o)[i] = IF i < k THEN s[i] ELSE op
    <2>1. /\ a \o o \in Seq(S) /\ Len(a \o o) = Len(a) + Len(o)
          /\ \A i \in 1..Len(a) + Len(o) : (a \o o)[i] = IF i <= Len(a) THEN a[i] ELSE o[i - Len(a)]
      BY <1>2, <1>4, ConcatProperties
    <2>2. QED
      BY <1>1, <1>2, <1>4, <2>1
  <1>6. /\ t \in Seq(S) /\ Len(t) = Len(s) + 1
        /\ \A i \in 1..Len(s) + 1 : t[i] = IF i < k THEN s[i] ELSE IF i = k THEN op ELSE s[i - 1]
    <2> DEFINE c == a \o o
    <2>1. c \in Seq(S) /\ Len(c) = k /\ \A i \in 1..k : c[i] = IF i < k THEN s[i] ELSE op
      BY <1>5
    <2> HIDE DEF c
    <2>2. /\ c \o b \in Seq(S) /\ Len(c \o b) = Len(c) + Len(b)
          /\ \A i \in 1..Len(c) + Len(b) : (c \o b)[i] = IF i <= Len(c) THEN c[i] ELSE b[i - Len(c)]
      BY <1>3, <2>1, ConcatProperties
    <2>3. ASSUME NEW i \in 1..Len(s) + 1
          PROVE (c \o b)[i] = IF i < k THEN s[i] ELSE IF i = k THEN op ELSE s[i - 1]
      <3>1. CASE i <= k
        BY <1>1, <1>3, <2>1, <2>2, <3>1
      <3>2. CASE i > k
        <4>1. i \in Int /\ i - k \in 1..Len(s) - k + 1 /\ k + (i - k) - 1 = i - 1
          BY <1>1, <3>2
        <4>2. b[i - k] = s[i - 1]
          BY <1>3, <4>1
        <4>3. (c \o b)[i] = b[i - k]
          BY <1>1, <1>3, <2>1, <2>2, <3>2
        <4>4. QED
          BY <1>1, <3>2, <4>2, <4>3
      <3>3. i <= k \/ i > k
        BY <1>1
      <3>4. QED
        BY <3>1, <3>2, <3>3
    <2>4. Len(c \o b) = Len(s) + 1
      BY <1>1, <1>3, <2>1, <2>2
    <2>5. QED
      BY <2>2, <2>3, <2>4 DEF c
  <1>7. QED
    BY <1>6 DEF a, b, o, Splice

\* First is the first.
LEMMA FirstIsFirst ==
    ASSUME NEW n \in Nat, NEW T, T \subseteq 1..n, T # {}
    PROVE  First(T) \in T /\ \A j \in T : First(T) <= j
  <1>1. PICK at : Picks(T, T, at)
    BY Selects
  <1> DEFINE size == Cardinality(T)
  <1>2. size \in Nat /\ size # 0 /\ \A j \in T : j \in Int
    BY FiniteIndices, FS_CardinalityType, FS_EmptySet
  <1>3. /\ at \in [1..size -> T]
        /\ \A m1, m2 \in 1..size : m1 < m2 => at[m1] < at[m2]
        /\ \A i \in T : \E m \in 1..size : at[m] = i
    BY <1>1 DEF Picks
  <1> HIDE DEF size
  <1>4. 1 \in 1..size /\ at[1] \in T
    BY <1>2, <1>3
  <1>5. ASSUME NEW j \in T PROVE at[1] <= j
    <2>1. PICK m \in 1..size : at[m] = j
      BY <1>3
    <2>2. 1 \in 1..size /\ at[1] \in Int /\ j \in Int
      BY <1>2, <1>4
    <2>3. CASE m = 1
      BY <2>1, <2>2, <2>3
    <2>4. CASE m # 1
      BY <1>2, <1>3, <2>1, <2>2, <2>4
    <2>5. QED
      BY <2>3, <2>4
  <1>6. QED
    BY <1>4, <1>5 DEF First

\* A sequence is a function on 1..Len.
LEMMA QueueIndices ==
    ASSUME NEW S, NEW q \in Seq(S)
    PROVE  Len(q) \in Nat /\ DOMAIN q = 1..Len(q) /\ \A i \in DOMAIN q : q[i] \in S
  BY LenProperties, ElementOfSeq
(***************************************************************************)
(* r is q but for the entries that are not in DOMAIN goes, which are gone, *)
(* and those at the places in new, which were not in q; the others kept    *)
(* their order, and goes says where.                                       *)
(***************************************************************************)
Carries(q, r, goes, new) ==
    /\ DOMAIN goes \subseteq DOMAIN q
    /\ goes \in [DOMAIN goes -> DOMAIN r \ new]
    /\ \A i, j \in DOMAIN goes : i < j => goes[i] < goes[j]
    /\ \A i \in DOMAIN goes : r[goes[i]] = q[i]
    /\ \A m \in DOMAIN r \ new : \E i \in DOMAIN goes : goes[i] = m

\* Select carries the wanted entries, and adds none.
LEMMA SelectCarries ==
    ASSUME NEW S, NEW q \in Seq(S), NEW kept, kept \subseteq DOMAIN q
    PROVE  /\ Select(q, kept) \in Seq(S)
           /\ \E goes : Carries(q, Select(q, kept), goes, {}) /\ DOMAIN goes = kept
  <1>1. Len(q) \in Nat /\ DOMAIN q = 1..Len(q) /\ \A i \in DOMAIN q : q[i] \in S
    BY QueueIndices
  <1>2. PICK at : Picks(q, kept, at)
    <2>1. Len(q) \in Nat /\ kept \subseteq 1..Len(q)
      BY <1>1
    <2>2. QED
      BY <2>1, Selects
  <1> DEFINE size == Cardinality(kept)
             goes == [i \in kept |-> CHOOSE m \in 1..size : at[m] = i]
             r == Select(q, kept)
  <1>3. size \in Nat /\ \A i \in kept : i \in Int
    BY <1>1, FiniteIndices, FS_CardinalityType
  <1>4. /\ at \in [1..size -> kept]
        /\ r = [m \in 1..size |-> q[at[m]]]
        /\ \A m1, m2 \in 1..size : m1 < m2 => at[m1] < at[m2]
        /\ \A i \in kept : \E m \in 1..size : at[m] = i
    BY <1>2 DEF Picks
  <1>5. DOMAIN goes = kept /\ \A i \in kept : goes[i] \in 1..size /\ at[goes[i]] = i
    BY <1>4
  <1> HIDE DEF size, goes, r
  <1>6. r \in Seq(S) /\ DOMAIN r = 1..size
    BY <1>1, <1>3, <1>4
  <1>7. ASSUME NEW i \in kept, NEW j \in kept, i < j PROVE goes[i] < goes[j]
    <2>1. goes[i] \in Int /\ goes[j] \in Int /\ i \in Int /\ j \in Int
      BY <1>3, <1>5
    <2>2. ~(goes[j] < goes[i]) /\ goes[j] # goes[i]
      BY <1>4, <1>5, <1>7, <2>1
    <2>3. QED
      BY <2>1, <2>2
  <1>8. ASSUME NEW m \in 1..size PROVE at[m] \in kept /\ goes[at[m]] = m
    <2>1. at[m] \in kept /\ goes[at[m]] \in 1..size /\ at[goes[at[m]]] = at[m]
      BY <1>4, <1>5
    <2>2. goes[at[m]] \in Int /\ m \in Int /\ at[m] \in Int
      BY <1>3, <2>1
    <2>3. ~(m < goes[at[m]]) /\ ~(goes[at[m]] < m)
      BY <1>4, <2>1, <2>2
    <2>4. QED
      BY <2>1, <2>2, <2>3
  <1>9. goes \in [kept -> 1..size]
    BY <1>5 DEF goes
  <1>10. Carries(q, r, goes, {})
    BY <1>1, <1>4, <1>5, <1>6, <1>7, <1>8, <1>9 DEF Carries
  <1>11. QED
    BY <1>5, <1>6, <1>10 DEF r

\* push_control_ puts its operation at the place before, before the first poll that is left.
Pushed(q, r, op, goes, before) ==
    /\ Carries(q, r, goes, {before}) /\ before \in DOMAIN r /\ r[before] = op
    /\ DOMAIN goes = {i \in DOMAIN q : addresses_a_device(op) => ~IsStatusOf(q[i], op.id)}
    /\ \A m \in DOMAIN r : m < before => ~is_background_op(r[m])
    /\ \A m \in DOMAIN r : m = before + 1 => is_background_op(r[m])

\* push_control_ adds its operation, and drops only the status poll the operation makes stale.
LEMMA PushCarries ==
    ASSUME NEW S, NEW q \in Seq(S), NEW op \in S
    PROVE  /\ push_control(q, op) \in Seq(S)
           /\ \E goes, before : Pushed(q, push_control(q, op), op, goes, before)
  <1> DEFINE fresh == {i \in DOMAIN q : ~IsStatusOf(q[i], op.id)}
             kept  == IF addresses_a_device(op) THEN Select(q, fresh) ELSE q
             bg    == {i \in DOMAIN kept : is_background_op(kept[i])}
             at    == IF bg = {} THEN Len(kept) + 1 ELSE First(bg)
             wanted == {i \in DOMAIN q : addresses_a_device(op) => ~IsStatusOf(q[i], op.id)}
             r     == push_control(q, op)
  <1>1. kept \in Seq(S) /\ \E goes : Carries(q, kept, goes, {}) /\ DOMAIN goes = wanted
    <2>1. CASE addresses_a_device(op)
      <3>1. wanted = fresh /\ fresh \subseteq DOMAIN q
        BY <2>1
      <3>2. QED
        BY <2>1, <3>1, SelectCarries
    <2>2. CASE ~addresses_a_device(op)
      <3> DEFINE same == [i \in DOMAIN q |-> i]
      <3>1. wanted = DOMAIN q /\ kept = q
        BY <2>2
      <3>2. Carries(q, q, same, {}) /\ DOMAIN same = DOMAIN q
        BY DEF Carries
      <3>3. \E goes : Carries(q, q, goes, {}) /\ DOMAIN goes = DOMAIN q
        BY <3>2
      <3> HIDE DEF kept, wanted
      <3>4. QED
        BY <3>1, <3>3
    <2>3. QED
      BY <2>1, <2>2
  <1>2. PICK g : Carries(q, kept, g, {}) /\ DOMAIN g = wanted
    BY <1>1
  <1>3. r = Splice(kept, op, at)
    BY DEF push_control, Splice
  <1> HIDE DEF kept, r, wanted
  <1>4. Len(kept) \in Nat /\ DOMAIN kept = 1..Len(kept)
    BY <1>1, QueueIndices
  <1>5. /\ at \in 1..Len(kept) + 1
        /\ \A i \in DOMAIN kept : i < at => ~is_background_op(kept[i])
        /\ \A i \in DOMAIN kept : i = at => is_background_op(kept[i])
    <2>1. bg \subseteq 1..Len(kept)
      BY <1>4
    <2>2. bg # {} => First(bg) \in bg /\ \A i \in bg : First(bg) <= i
      BY <1>4, <2>1, FirstIsFirst, Zenon
    <2>3. \A i \in DOMAIN kept : i \in bg <=> is_background_op(kept[i])
      BY Zenon
    <2> HIDE DEF bg
    <2> DEFINE f == First(bg)
    <2>4. bg # {} => f \in 1..Len(kept) /\ f \in bg /\ \A i \in bg : f <= i
      BY <2>1, <2>2
    <2> HIDE DEF f
    <2>5. at = IF bg = {} THEN Len(kept) + 1 ELSE f
      BY DEF f
    <2> HIDE DEF at
    <2>6. CASE bg = {}
      <3>1. at = Len(kept) + 1
        BY <2>5, <2>6
      <3>2. \A i \in DOMAIN kept : i # at /\ i \notin bg
        BY <1>4, <2>6, <3>1
      <3>3. at \in 1..Len(kept) + 1
        BY <1>4, <3>1
      <3>4. QED
        BY <2>3, <3>2, <3>3
    <2>7. CASE bg # {}
      <3>1. at = f /\ f \in 1..Len(kept) /\ f \in bg /\ \A i \in bg : f <= i
        BY <2>4, <2>5, <2>7
      <3>2. at \in 1..Len(kept) + 1
        BY <1>4, <3>1
      <3>3. \A i \in DOMAIN kept : i < at => i \notin bg
        BY <1>4, <3>1
      <3>4. QED
        BY <2>3, <3>1, <3>2, <3>3
    <2>8. QED
      BY <2>6, <2>7
  <1> HIDE DEF at
  <1>6. /\ r \in Seq(S) /\ Len(r) = Len(kept) + 1
        /\ \A i \in 1..Len(kept) + 1 : r[i] = IF i < at THEN kept[i] ELSE IF i = at THEN op ELSE kept[i - 1]
    <2>1. at \in 1..Len(kept) + 1
      BY <1>5
    <2>2. /\ Splice(kept, op, at) \in Seq(S) /\ Len(Splice(kept, op, at)) = Len(kept) + 1
          /\ \A i \in 1..Len(kept) + 1 :
                Splice(kept, op, at)[i] = IF i < at THEN kept[i] ELSE IF i = at THEN op ELSE kept[i - 1]
      BY <1>1, <2>1, Inserts
    <2>3. QED
      BY <1>3, <2>2
  <1>7. DOMAIN r = 1..Len(kept) + 1
    BY <1>6, QueueIndices
  <1> DEFINE goes == [i \in wanted |-> IF g[i] < at THEN g[i] ELSE g[i] + 1]
  <1>8. /\ wanted \subseteq DOMAIN q /\ g \in [wanted -> DOMAIN kept]
        /\ \A i, j \in wanted : i < j => g[i] < g[j]
        /\ \A i \in wanted : kept[g[i]] = q[i]
        /\ \A m \in DOMAIN kept : \E i \in wanted : g[i] = m
    BY <1>2 DEF Carries
  <1>9. at \in Int /\ \A i \in wanted : g[i] \in 1..Len(kept) /\ g[i] \in Int
    BY <1>4, <1>5, <1>8
  <1>10. ASSUME NEW i \in wanted PROVE goes[i] \in DOMAIN r \ {at} /\ r[goes[i]] = q[i]
    <2>1. CASE g[i] < at
      <3>1. goes[i] = g[i] /\ g[i] \in 1..Len(kept) + 1 /\ g[i] # at
        BY <1>4, <1>9, <2>1
      <3>2. r[g[i]] = kept[g[i]]
        BY <1>6, <2>1, <3>1
      <3>3. QED
        BY <1>7, <1>8, <3>1, <3>2
    <2>2. CASE ~(g[i] < at)
      <3>1. goes[i] = g[i] + 1 /\ g[i] + 1 \in 1..Len(kept) + 1 /\ ~(g[i] + 1 < at) /\ g[i] + 1 # at
            /\ (g[i] + 1) - 1 = g[i]
        BY <1>4, <1>9, <2>2
      <3>2. r[g[i] + 1] = kept[g[i]]
        BY <1>6, <3>1
      <3>3. QED
        BY <1>7, <1>8, <3>1, <3>2
    <2>3. QED
      BY <2>1, <2>2
  <1>11. ASSUME NEW i \in wanted, NEW j \in wanted, i < j PROVE goes[i] < goes[j]
    <2>1. g[i] < g[j]
      BY <1>8, <1>11
    <2>2. QED
      BY <1>9, <2>1
  <1>12. ASSUME NEW m \in DOMAIN r \ {at} PROVE \E i \in wanted : goes[i] = m
    <2>1. CASE m < at
      <3>1. m \in DOMAIN kept
        BY <1>4, <1>5, <1>7, <2>1
      <3>2. PICK i \in wanted : g[i] = m
        BY <1>8, <3>1
      <3>3. QED
        BY <2>1, <3>2
    <2>2. CASE ~(m < at)
      <3>1. m - 1 \in DOMAIN kept /\ ~(m - 1 < at) /\ (m - 1) + 1 = m
        BY <1>4, <1>5, <1>7, <1>9, <2>2
      <3>2. PICK i \in wanted : g[i] = m - 1
        BY <1>8, <3>1
      <3>3. QED
        BY <3>1, <3>2
    <2>3. QED
      BY <2>1, <2>2
  <1>13. ASSUME NEW m \in DOMAIN r PROVE (m < at => ~is_background_op(r[m])) /\ (m = at + 1 => is_background_op(r[m]))
    <2>1. ASSUME m < at PROVE ~is_background_op(r[m])
      <3>1. m \in DOMAIN kept /\ m \in 1..Len(kept) + 1
        BY <1>4, <1>5, <1>7, <2>1
      <3>2. r[m] = kept[m]
        BY <1>6, <2>1, <3>1
      <3>3. QED
        BY <1>5, <2>1, <3>1, <3>2
    <2>2. ASSUME m = at + 1 PROVE is_background_op(r[m])
      <3>1. at \in DOMAIN kept /\ m \in 1..Len(kept) + 1 /\ ~(m < at) /\ m # at /\ m - 1 = at
        BY <1>4, <1>5, <1>7, <1>9, <2>2
      <3>2. r[m] = kept[at]
        BY <1>6, <3>1
      <3>3. QED
        BY <1>5, <3>1, <3>2
    <2>3. QED
      BY <2>1, <2>2
  <1>14. at \in DOMAIN r /\ r[at] = op
    BY <1>5, <1>6, <1>7, <1>9
  <1>15. DOMAIN goes = wanted
    OBVIOUS
  <1>16. goes \in [wanted -> DOMAIN r \ {at}]
    BY <1>10
  <1> HIDE DEF goes
  <1>17. Carries(q, r, goes, {at})
    BY <1>8, <1>10, <1>11, <1>12, <1>15, <1>16 DEF Carries
  <1>18. Pushed(q, r, op, goes, at)
    BY <1>13, <1>14, <1>15, <1>17 DEF Pushed, wanted
  <1>19. QED
    BY <1>6, <1>18 DEF r

\* Select holds what was wanted, and nothing else.
LEMMA SelectHolds ==
    ASSUME NEW S, NEW q \in Seq(S), NEW kept, kept \subseteq DOMAIN q
    PROVE  Select(q, kept) \in Seq(S) /\ Held(Select(q, kept)) = {q[i] : i \in kept}
  <1> DEFINE r == Select(q, kept)
  <1>1. r \in Seq(S) /\ \E goes : Carries(q, r, goes, {}) /\ DOMAIN goes = kept
    BY SelectCarries
  <1> HIDE DEF r
  <1>2. PICK goes : Carries(q, r, goes, {}) /\ DOMAIN goes = kept
    BY <1>1
  <1>3. Held(r) = {q[i] : i \in kept}
    BY <1>2 DEF Carries, Held
  <1>4. QED
    BY <1>1, <1>3 DEF r

\* push_control_ adds its operation, and drops only the status poll the operation makes stale.
LEMMA PushHolds ==
    ASSUME NEW S, NEW q \in Seq(S), NEW op \in S
    PROVE  /\ push_control(q, op) \in Seq(S)
           /\ Held(push_control(q, op)) =
                {op} \cup {o \in Held(q) : addresses_a_device(op) => ~IsStatusOf(o, op.id)}
  <1> DEFINE r == push_control(q, op)
  <1>1. r \in Seq(S) /\ \E goes, before : Pushed(q, r, op, goes, before)
    BY PushCarries
  <1> HIDE DEF r
  <1>2. PICK goes, before : Pushed(q, r, op, goes, before)
    BY <1>1
  <1>3. Held(r) = {op} \cup {q[i] : i \in DOMAIN goes}
    BY <1>2 DEF Pushed, Carries, Held
  <1>4. {q[i] : i \in DOMAIN goes} = {o \in Held(q) : addresses_a_device(op) => ~IsStatusOf(o, op.id)}
    BY <1>2 DEF Pushed, Held
  <1>5. QED
    BY <1>1, <1>3, <1>4 DEF r

-----------------------------------------------------------------------------
(* Bands, and what the other operations carry.                             *)

\* The band of an operation.
LEMMA BandOf ==
    ASSUME NEW o
    PROVE  /\ Band(o) \in {1, 2, 3} /\ (Band(o) = 3 <=> is_background_op(o))
           /\ (Band(o) = 1 <=> o.type = "DISCOVER_AND_PAIR")
           /\ (IsOneway(o) => Band(o) = 2) /\ (o.type \in DeviceControlTypes => Band(o) = 2)
  BY DEF Band, is_background_op, BackgroundTypes, IsOneway, OneWayTypes, DeviceControlTypes

\* BandOrder of any queue.
Banded(q) == \A i, j \in DOMAIN q : i <= j => Band(q[i]) <= Band(q[j])

\* Entries that are carried along stay in their order of bands.
LEMMA CarriedBands ==
    ASSUME NEW S, NEW q \in Seq(S), NEW r \in Seq(S), NEW goes, NEW new, Carries(q, r, goes, new), Banded(q)
    PROVE  \A i, j \in DOMAIN r \ new : i <= j => Band(r[i]) <= Band(r[j])
  <1> SUFFICES ASSUME NEW i \in DOMAIN r \ new, NEW j \in DOMAIN r \ new, i <= j
               PROVE  Band(r[i]) <= Band(r[j])
    OBVIOUS
  <1>1. PICK a \in DOMAIN goes : goes[a] = i /\ r[i] = q[a]
    BY DEF Carries
  <1>2. PICK b \in DOMAIN goes : goes[b] = j /\ r[j] = q[b]
    BY DEF Carries
  <1>3. a \in DOMAIN q /\ b \in DOMAIN q /\ a \in Int /\ b \in Int /\ i \in Int /\ j \in Int
    BY QueueIndices DEF Carries
  <1>4. ~(b < a)
    BY <1>1, <1>2, <1>3 DEF Carries
  <1>5. a <= b
    BY <1>3, <1>4
  <1>6. QED
    BY <1>1, <1>2, <1>3, <1>5 DEF Banded

\* push_control_ leaves the bands in order, with its operation behind all that is no poll.
LEMMA PushBands ==
    ASSUME NEW S, NEW q \in Seq(S), NEW r \in Seq(S), NEW op, NEW goes, NEW before,
           Pushed(q, r, op, goes, before), Banded(q), Band(op) = 2
    PROVE  Banded(r) /\ \A i \in DOMAIN goes : ~is_background_op(q[i]) => goes[i] < before
  <1>1. /\ Carries(q, r, goes, {before}) /\ before \in DOMAIN r /\ r[before] = op
        /\ \A m \in DOMAIN r : m < before => ~is_background_op(r[m])
        /\ \A m \in DOMAIN r : m = before + 1 => is_background_op(r[m])
    BY DEF Pushed
  <1>2. Len(r) \in Nat /\ DOMAIN r = 1..Len(r) /\ DOMAIN q = 1..Len(q) /\ Len(q) \in Nat
    BY QueueIndices
  <1>3. \A i, j \in DOMAIN r \ {before} : i <= j => Band(r[i]) <= Band(r[j])
    BY <1>1, CarriedBands
  <1>4. ASSUME NEW m \in DOMAIN r, before < m PROVE is_background_op(r[m])
    <2>1. before + 1 \in DOMAIN r \ {before} /\ before + 1 <= m /\ m \in DOMAIN r \ {before}
      BY <1>1, <1>2, <1>4
    <2>2. is_background_op(r[before + 1])
      BY <1>1, <2>1
    <2>3. Band(r[before + 1]) = 3 /\ Band(r[before + 1]) <= Band(r[m])
      BY <1>3, <2>1, <2>2, BandOf
    <2>4. Band(r[m]) \in {1, 2, 3} /\ (Band(r[m]) = 3 <=> is_background_op(r[m]))
      BY BandOf
    <2>5. QED
      BY <2>3, <2>4
  <1>5. ASSUME NEW i \in DOMAIN r, NEW j \in DOMAIN r, i <= j PROVE Band(r[i]) <= Band(r[j])
    <2>1. /\ Band(r[i]) \in {1, 2, 3} /\ (Band(r[i]) = 3 <=> is_background_op(r[i]))
          /\ Band(r[j]) \in {1, 2, 3} /\ (Band(r[j]) = 3 <=> is_background_op(r[j]))
      BY BandOf
    <2>2. i \in Int /\ j \in Int /\ before \in Int
      BY <1>1, <1>2
    <2>3. CASE i # before /\ j # before
      BY <1>3, <1>5, <2>3
    <2>4. CASE i = before
      <3>1. j = before \/ before < j
        BY <1>5, <2>2, <2>4
      <3>2. QED
        BY <1>1, <1>4, <2>1, <2>4, <3>1
    <2>5. CASE j = before /\ i # before
      <3>1. ~is_background_op(r[i]) /\ Band(r[j]) = 2
        BY <1>1, <1>5, <2>2, <2>5
      <3>2. QED
        BY <2>1, <3>1
    <2>6. QED
      BY <2>3, <2>4, <2>5
  <1>6. ASSUME NEW i \in DOMAIN goes, ~is_background_op(q[i]) PROVE goes[i] < before
    <2>1. goes[i] \in DOMAIN r \ {before} /\ r[goes[i]] = q[i]
      BY <1>1 DEF Carries
    <2>2. goes[i] \in Int /\ before \in Int
      BY <1>1, <1>2, <2>1
    <2>3. ~(before < goes[i])
      BY <1>4, <1>6, <2>1
    <2>4. QED
      BY <2>1, <2>2, <2>3
  <1>7. QED
    BY <1>5, <1>6 DEF Banded

\* A poll is appended.
LEMMA AppendCarries ==
    ASSUME NEW S, NEW q \in Seq(S), NEW op \in S
    PROVE  /\ Append(q, op) \in Seq(S) /\ Len(q) + 1 \in DOMAIN Append(q, op) /\ Append(q, op)[Len(q) + 1] = op
           /\ \A m \in DOMAIN Append(q, op) : m <= Len(q) + 1
           /\ \E goes : Carries(q, Append(q, op), goes, {Len(q) + 1}) /\ DOMAIN goes = DOMAIN q
  <1> DEFINE goes == [i \in DOMAIN q |-> i]
             r == Append(q, op)
  <1>1. Len(q) \in Nat /\ DOMAIN q = 1..Len(q)
    BY QueueIndices
  <1>2. /\ r \in Seq(S) /\ Len(r) = Len(q) + 1
        /\ \A i \in 1..Len(q) : r[i] = q[i]
        /\ r[Len(q) + 1] = op
    BY AppendProperties
  <1>3. DOMAIN r = 1..Len(q) + 1
    BY <1>2, QueueIndices
  <1> HIDE DEF r
  <1>4. Carries(q, r, goes, {Len(q) + 1})
    BY <1>1, <1>2, <1>3 DEF Carries
  <1>5. DOMAIN goes = DOMAIN q
    OBVIOUS
  <1> HIDE DEF goes
  <1>6. QED
    BY <1>1, <1>2, <1>3, <1>4, <1>5 DEF r

\* loop() takes the first entry.
LEMMA TailCarries ==
    ASSUME NEW S, NEW q \in Seq(S), q # <<>>
    PROVE  /\ Tail(q) \in Seq(S) /\ 1 \in DOMAIN q
           /\ \E goes : Carries(q, Tail(q), goes, {}) /\ DOMAIN goes = {i \in DOMAIN q : i # 1}
  <1> DEFINE goes == [i \in 2..Len(q) |-> i - 1]
             r == Tail(q)
  <1>1. Len(q) \in Nat /\ DOMAIN q = 1..Len(q) /\ Len(q) # 0
    BY QueueIndices, EmptySeq
  <1>2. r \in Seq(S) /\ Len(r) = Len(q) - 1 /\ \A i \in 1..Len(r) : r[i] = q[i + 1]
    BY HeadTailProperties
  <1>3. DOMAIN r = 1..Len(q) - 1
    BY <1>2, QueueIndices
  <1> HIDE DEF r
  <1>4. \A i \in 2..Len(q) : i - 1 \in 1..Len(q) - 1 /\ r[i - 1] = q[i]
    BY <1>1, <1>2
  <1>5. \A m \in 1..Len(q) - 1 : m + 1 \in 2..Len(q) /\ goes[m + 1] = m
    BY <1>1
  <1>6. Carries(q, r, goes, {})
    BY <1>1, <1>3, <1>4, <1>5 DEF Carries
  <1>7. DOMAIN goes = {i \in DOMAIN q : i # 1} /\ 1 \in DOMAIN q
    BY <1>1
  <1> HIDE DEF goes
  <1>8. QED
    BY <1>2, <1>6, <1>7 DEF r

\* What is not a poll, and the deque in which an operation takes the place of every poll.
NotPolls(q) == {i \in DOMAIN q : ~is_background_op(q[i])}
Flushed(q, op) == <<op>> \o Select(q, NotPolls(q))

\* Pairing goes first, and takes the place of every poll.
LEMMA DiscoverCarries ==
    ASSUME NEW S, NEW q \in Seq(S), NEW op \in S
    PROVE  /\ Flushed(q, op) \in Seq(S) /\ 1 \in DOMAIN Flushed(q, op) /\ Flushed(q, op)[1] = op
           /\ \E goes : Carries(q, Flushed(q, op), goes, {1}) /\ DOMAIN goes = NotPolls(q)
  <1> DEFINE fg == NotPolls(q)
             s == Select(q, fg)
             o == <<op>>
             r == o \o s
  <1>1. s \in Seq(S) /\ \E g : Carries(q, s, g, {}) /\ DOMAIN g = fg
    <2>1. fg \subseteq DOMAIN q
      BY DEF NotPolls
    <2> HIDE DEF fg
    <2>2. QED
      BY <2>1, SelectCarries
  <1> HIDE DEF fg, s
  <1>2. PICK g : Carries(q, s, g, {}) /\ DOMAIN g = fg
    BY <1>1
  <1>3. o \in Seq(S) /\ Len(o) = 1 /\ o[1] = op
    OBVIOUS
  <1> HIDE DEF o
  <1>4. Len(s) \in Nat /\ DOMAIN s = 1..Len(s)
    BY <1>1, QueueIndices
  <1>5. /\ r \in Seq(S) /\ Len(r) = Len(o) + Len(s)
        /\ \A i \in 1..Len(o) + Len(s) : r[i] = IF i <= Len(o) THEN o[i] ELSE s[i - Len(o)]
    BY <1>1, <1>3, ConcatProperties
  <1> HIDE DEF r
  <1>6. /\ DOMAIN r = 1..Len(s) + 1 /\ r[1] = op
        /\ \A i \in 1..Len(s) : i + 1 \in 1..Len(s) + 1 /\ i + 1 # 1 /\ r[i + 1] = s[i]
    <2>1. DOMAIN r = 1..Len(s) + 1
      BY <1>3, <1>4, <1>5, QueueIndices
    <2>2. r[1] = op
      BY <1>3, <1>4, <1>5
    <2>3. ASSUME NEW i \in 1..Len(s) PROVE i + 1 \in 1..Len(s) + 1 /\ i + 1 # 1 /\ r[i + 1] = s[i]
      <3>1. i + 1 \in 1..Len(o) + Len(s) /\ ~(i + 1 <= Len(o)) /\ (i + 1) - Len(o) = i
        BY <1>3, <1>4
      <3>2. QED
        BY <1>3, <1>4, <1>5, <3>1
    <2>4. QED
      BY <2>1, <2>2, <2>3
  <1> DEFINE goes == [i \in fg |-> g[i] + 1]
  <1>7. /\ fg \subseteq DOMAIN q /\ g \in [fg -> 1..Len(s)]
        /\ \A i, j \in fg : i < j => g[i] < g[j]
        /\ \A i \in fg : s[g[i]] = q[i]
        /\ \A m \in 1..Len(s) : \E i \in fg : g[i] = m
    BY <1>2, <1>4 DEF Carries
  <1>8. goes \in [fg -> DOMAIN r \ {1}] /\ \A i \in fg : r[goes[i]] = q[i]
    BY <1>6, <1>7
  <1>9. \A i, j \in fg : i < j => goes[i] < goes[j]
    BY <1>4, <1>7
  <1>10. ASSUME NEW m \in DOMAIN r \ {1} PROVE \E i \in fg : goes[i] = m
    <2>1. m - 1 \in 1..Len(s) /\ (m - 1) + 1 = m
      BY <1>4, <1>6
    <2>2. PICK i \in fg : g[i] = m - 1
      BY <1>7, <2>1
    <2>3. QED
      BY <2>1, <2>2
  <1>11. DOMAIN goes = fg
    OBVIOUS
  <1> HIDE DEF goes
  <1>12. Carries(q, r, goes, {1})
    BY <1>7, <1>8, <1>9, <1>10, <1>11 DEF Carries
  <1>13. 1 \in DOMAIN r
    BY <1>4, <1>6
  <1>14. r \in Seq(S) /\ 1 \in DOMAIN r /\ r[1] = op /\ \E gs : Carries(q, r, gs, {1}) /\ DOMAIN gs = fg
    BY <1>5, <1>6, <1>11, <1>12, <1>13
  <1>15. QED
    BY <1>14 DEF Flushed, r, s, o, fg

-----------------------------------------------------------------------------
(* 1W presses.                                                             *)

\* What a press is remembered as.
Pressed(o) == <<o.type, o.id, IF o.type = "ONEWAY_COMMAND" THEN o.command ELSE o.position>>

OnewayAt(q) == {i \in DOMAIN q : IsOneway(q[i])}

\* at says where in q each press of pr is, and there is no other 1W operation.
Embeds(q, pr, at) ==
    /\ at \in [DOMAIN pr -> OnewayAt(q)]
    /\ \A m, n \in DOMAIN pr : m < n => at[m] < at[n]
    /\ \A i \in OnewayAt(q) : \E n \in DOMAIN pr : at[n] = i
    /\ \A n \in DOMAIN pr : pr[n] = Pressed(q[at[n]])

\* at lists the c members of kept, in order.
Enumerates(at, c, kept) ==
    /\ c \in Nat
    /\ at \in [1..c -> kept]
    /\ \A l, m \in 1..c : l < m => at[l] < at[m]
    /\ \A i \in kept : \E m \in 1..c : at[m] = i

\* The entries of q that at lists.
Listed(q, at, c) == [m \in 1..c |-> q[at[m]]]

\* There is one way only to enumerate a set of indices in order: Select's.
LEMMA OneEnumeration ==
    ASSUME NEW n \in Nat, NEW kept, kept \subseteq 1..n, NEW c, NEW at, Enumerates(at, c, kept), NEW q
    PROVE  Select(q, kept) = Listed(q, at, c)
  <1> USE DEF Enumerates
  <1>1. IsFiniteSet(kept) /\ (\A j \in kept : j \in Int)
    BY FiniteIndices
  <1>0. \A m \in 1..c : at[m] \in kept /\ at[m] \in Int
    <2>1. \A m \in 1..c : at[m] \in kept
      OBVIOUS
    <2>2. QED
      BY <1>1, <2>1
  <1>2. \A l, m \in 1..c : at[l] = at[m] => l = m
    <2>1. SUFFICES ASSUME NEW l \in 1..c, NEW m \in 1..c, at[l] = at[m] PROVE l = m
      OBVIOUS
    <2>2. at[l] \in Int /\ at[m] \in Int /\ l \in Int /\ m \in Int
      BY <1>0
    <2>3. ~(l < m) /\ ~(m < l)
      BY <2>1, <2>2
    <2>4. QED
      BY <2>2, <2>3
  <1>3. ASSUME NEW m \in 1..c PROVE Cardinality({j \in kept : j <= at[m]}) = m
    <2> DEFINE low == {j \in kept : j <= at[m]}
               f == [l \in 1..m |-> at[l]]
    <2>1. m \in Nat /\ 1..m \subseteq 1..c
      OBVIOUS
    <2>2. IsFiniteSet(1..m) /\ Cardinality(1..m) = m
      BY <2>1, FS_Interval
    <2>3. ASSUME NEW l \in 1..m PROVE at[l] \in low
      <3>1. at[l] \in kept /\ at[l] \in Int /\ at[m] \in Int /\ l \in Int /\ l \in 1..c
        BY <1>0, <2>1
      <3>2. l = m \/ l < m
        BY <2>1, <3>1
      <3>3. at[l] <= at[m]
        BY <3>1, <3>2
      <3>4. QED
        BY <3>1, <3>3
    <2>4. ASSUME NEW j \in low PROVE \E l \in 1..m : at[l] = j
      <3>1. PICK l \in 1..c : at[l] = j
        OBVIOUS
      <3>2. l \in Int /\ at[l] \in Int /\ at[m] \in Int /\ at[l] <= at[m]
        BY <1>0, <3>1
      <3>3. ~(m < l)
        BY <3>2
      <3>4. l \in 1..m
        BY <2>1, <3>2, <3>3
      <3>5. QED
        BY <3>1, <3>4
    <2>5. f \in [1..m -> low]
      BY <2>3
    <2>6. f \in Bijection(1..m, low)
      <3>1. \A a, b \in 1..m : f[a] = f[b] => a = b
        BY <1>2, <2>1
      <3>2. \A j \in low : \E l \in 1..m : f[l] = j
        BY <2>4
      <3> HIDE DEF f, low
      <3>3. f \in Injection(1..m, low)
        BY <2>5, <3>1, Fun_IsInj
      <3>4. f \in Surjection(1..m, low)
        BY <2>5, <3>2 DEF Surjection
      <3>5. QED
        BY <3>3, <3>4 DEF Bijection
    <2> HIDE DEF f, low
    <2>7. Cardinality(low) = Cardinality(1..m)
      BY <2>2, <2>6, FS_Bijection DEF ExistsBijection
    <2>8. QED
      BY <2>2, <2>7 DEF low
  <1>4. Cardinality(kept) = c
    <2>1. IsFiniteSet(1..c) /\ Cardinality(1..c) = c
      BY FS_Interval
    <2>2. at \in Injection(1..c, kept)
      BY <1>2, Fun_IsInj
    <2>3. at \in Surjection(1..c, kept)
      BY DEF Surjection
    <2>4. at \in Bijection(1..c, kept)
      BY <2>2, <2>3 DEF Bijection
    <2>5. QED
      BY <2>1, <2>4, FS_Bijection DEF ExistsBijection
  <1> DEFINE pick == [m \in 1..c |-> CHOOSE i \in kept : Cardinality({j \in kept : j <= i}) = m]
  <1>5. Select(q, kept) = [m \in 1..c |-> q[pick[m]]]
    BY <1>4 DEF Select
  <1>6. ASSUME NEW m \in 1..c PROVE pick[m] \in kept /\ Cardinality({j \in kept : j <= pick[m]}) = m
    BY <1>0, <1>3
  <1> HIDE DEF pick
  <1>7. ASSUME NEW m \in 1..c PROVE pick[m] = at[m]
    <2>1. PICK l \in 1..c : at[l] = pick[m]
      BY <1>6
    <2>2. Cardinality({j \in kept : j <= at[l]}) = l /\ Cardinality({j \in kept : j <= at[l]}) = m
      BY <1>3, <1>6, <2>1
    <2>3. QED
      BY <2>1, <2>2
  <1>8. QED
    BY <1>5, <1>7 DEF Listed

\* What embeds the presses is OnewayPressesKept.
LEMMA EmbeddedPresses ==
    ASSUME NEW S, queue \in Seq(S), NEW P, presses \in Seq(P), NEW at, Embeds(queue, presses, at)
    PROVE  OnewayPressesKept
  <1> DEFINE c == Len(presses)
             kept == OnewayAt(queue)
             oneway == Select(queue, kept)
  <1>1. c \in Nat /\ DOMAIN presses = 1..c /\ presses = [n \in 1..c |-> presses[n]]
    BY LenProperties
  <1>2. Len(queue) \in Nat /\ kept \subseteq 1..Len(queue)
    BY QueueIndices DEF OnewayAt
  <1>3. /\ at \in [1..c -> kept]
        /\ \A m, n \in 1..c : m < n => at[m] < at[n]
        /\ \A i \in kept : \E n \in 1..c : at[n] = i
        /\ \A n \in 1..c : presses[n] = Pressed(queue[at[n]])
    BY <1>1 DEF Embeds
  <1> HIDE DEF c, kept
  <1>4. oneway = [m \in 1..c |-> queue[at[m]]]
    <2>1. PICK n \in Nat : kept \subseteq 1..n
      BY <1>2
    <2>2. Enumerates(at, c, kept)
      BY <1>1, <1>3 DEF Enumerates
    <2>3. Select(queue, kept) = Listed(queue, at, c)
      BY <2>1, <2>2, OneEnumeration
    <2>4. QED
      BY <2>3 DEF Listed
  <1> HIDE DEF oneway
  <1>5. presses = [i \in DOMAIN oneway |-> Pressed(oneway[i])]
    BY <1>1, <1>3, <1>4
  <1>6. QED
    BY <1>5 DEF OnewayPressesKept, oneway, kept, OnewayAt, Pressed

\* Presses are kept by whatever carries the 1W operations, and adds none.
LEMMA PressesCarried ==
    ASSUME NEW S, NEW q \in Seq(S), NEW r \in Seq(S), NEW goes, NEW new, Carries(q, r, goes, new),
           OnewayAt(q) \subseteq DOMAIN goes, \A m \in new \cap DOMAIN r : ~IsOneway(r[m]),
           NEW pr, NEW at, Embeds(q, pr, at)
    PROVE  \E to : Embeds(r, pr, to)
  <1> DEFINE to == [n \in DOMAIN pr |-> goes[at[n]]]
  <1>1. \A n \in DOMAIN pr : at[n] \in DOMAIN goes /\ IsOneway(q[at[n]])
    BY DEF Embeds, OnewayAt
  <1>2. \A n \in DOMAIN pr : to[n] \in DOMAIN r /\ r[to[n]] = q[at[n]]
    BY <1>1 DEF Carries
  <1>3. \A m, n \in DOMAIN pr : m < n => to[m] < to[n]
    BY <1>1 DEF Carries, Embeds
  <1>4. ASSUME NEW k \in OnewayAt(r) PROVE \E n \in DOMAIN pr : to[n] = k
    <2>1. k \in DOMAIN r \ new
      BY DEF OnewayAt
    <2>2. PICK i \in DOMAIN goes : goes[i] = k /\ r[k] = q[i] /\ i \in DOMAIN q
      BY <2>1 DEF Carries
    <2>3. i \in OnewayAt(q)
      BY <2>2 DEF OnewayAt
    <2>4. QED
      BY <2>2, <2>3 DEF Embeds
  <1>5. to \in [DOMAIN pr -> OnewayAt(r)] /\ DOMAIN to = DOMAIN pr
    BY <1>1, <1>2 DEF OnewayAt
  <1>6. \A n \in DOMAIN pr : pr[n] = Pressed(r[to[n]])
    BY <1>2 DEF Embeds
  <1> HIDE DEF to
  <1>7. Embeds(r, pr, to)
    BY <1>3, <1>4, <1>5, <1>6 DEF Embeds
  <1>8. QED
    BY <1>7

\* A press goes behind the presses that are pending.
LEMMA PressesAdded ==
    ASSUME NEW S, NEW q \in Seq(S), NEW r \in Seq(S), NEW op, NEW goes, NEW before,
           Pushed(q, r, op, goes, before), Banded(q), IsOneway(op),
           NEW P, NEW pr \in Seq(P), Pressed(op) \in P, NEW at, Embeds(q, pr, at)
    PROVE  \E to : Embeds(r, Append(pr, Pressed(op)), to)
  <1> DEFINE c == Len(pr)
             p == Append(pr, Pressed(op))
             to == [n \in 1..c + 1 |-> IF n = c + 1 THEN before ELSE goes[at[n]]]
  <1>1. c \in Nat /\ DOMAIN pr = 1..c
    BY LenProperties
  <1>2. DOMAIN p = 1..c + 1 /\ p[c + 1] = Pressed(op) /\ \A n \in 1..c : p[n] = pr[n]
    BY AppendProperties
  <1>3. /\ Carries(q, r, goes, {before}) /\ before \in DOMAIN r /\ r[before] = op
        /\ DOMAIN goes = {i \in DOMAIN q : addresses_a_device(op) => ~IsStatusOf(q[i], op.id)}
    BY DEF Pushed
  <1>4. \A i \in DOMAIN goes : ~is_background_op(q[i]) => goes[i] < before
    BY PushBands, BandOf
  <1>5. \A i \in OnewayAt(q) : i \in DOMAIN goes /\ ~is_background_op(q[i])
    BY <1>3 DEF OnewayAt, IsOneway, OneWayTypes, is_background_op, BackgroundTypes, addresses_a_device
  <1>6. \A n \in 1..c : at[n] \in OnewayAt(q)
    BY <1>1 DEF Embeds
  <1> HIDE DEF c, p
  <1>7. /\ to[c + 1] = before
        /\ \A n \in 1..c : to[n] = goes[at[n]] /\ n \in 1..c + 1
        /\ \A n \in 1..c + 1 : n = c + 1 \/ n \in 1..c
        /\ to \in [1..c + 1 -> Int] /\ DOMAIN to = 1..c + 1
    <2>1. DOMAIN r \subseteq Int
      BY QueueIndices
    <2>2. \A n \in 1..c : goes[at[n]] \in Int
      BY <1>3, <1>5, <1>6, <2>1 DEF Carries
    <2>3. before \in Int
      BY <1>3, <2>1
    <2>4. \A n \in 1..c + 1 : (n = c + 1 \/ n \in 1..c) /\ n \in Int
      BY <1>1
    <2>5. \A n \in 1..c : n \in 1..c + 1 /\ n # c + 1
      BY <1>1
    <2>6. c + 1 \in 1..c + 1
      BY <1>1
    <2>7. QED
      BY <2>2, <2>3, <2>4, <2>5, <2>6
  <1> HIDE DEF to
  <1>8. ASSUME NEW n \in 1..c PROVE to[n] \in OnewayAt(r) /\ r[to[n]] = q[at[n]] /\ to[n] < before
    <2>1. at[n] \in DOMAIN goes /\ at[n] \in DOMAIN q /\ IsOneway(q[at[n]]) /\ ~is_background_op(q[at[n]])
      BY <1>5, <1>6 DEF OnewayAt
    <2>2. goes[at[n]] \in DOMAIN r /\ r[goes[at[n]]] = q[at[n]]
      BY <1>3, <2>1 DEF Carries
    <2>3. QED
      BY <1>4, <1>7, <2>1, <2>2 DEF OnewayAt
  <1>9. before \in OnewayAt(r)
    BY <1>3 DEF OnewayAt
  <1>10. ASSUME NEW m \in 1..c + 1, NEW n \in 1..c + 1, m < n PROVE to[m] < to[n]
    <2>1. m \in 1..c
      BY <1>1, <1>10
    <2>2. CASE n = c + 1
      BY <1>7, <1>8, <2>1, <2>2
    <2>3. CASE n \in 1..c
      <3>1. at[m] < at[n]
        BY <1>1, <1>10, <2>1, <2>3 DEF Embeds
      <3>2. QED
        BY <1>3, <1>5, <1>6, <1>7, <2>1, <2>3, <3>1 DEF Carries
    <2>4. QED
      BY <1>7, <2>2, <2>3
  <1>11. ASSUME NEW k \in OnewayAt(r) PROVE \E n \in 1..c + 1 : to[n] = k
    <2>1. CASE k = before
      <3>1. c + 1 \in 1..c + 1
        BY <1>1
      <3>2. QED
        BY <1>7, <2>1, <3>1
    <2>2. CASE k # before
      <3>1. k \in DOMAIN r \ {before} /\ IsOneway(r[k])
        BY <2>2 DEF OnewayAt
      <3>2. PICK i \in DOMAIN goes : goes[i] = k /\ r[k] = q[i] /\ i \in DOMAIN q
        BY <1>3, <3>1 DEF Carries
      <3>3. i \in OnewayAt(q)
        BY <3>1, <3>2 DEF OnewayAt
      <3>4. PICK n \in 1..c : at[n] = i
        BY <1>1, <3>3 DEF Embeds
      <3>5. QED
        BY <1>7, <3>2, <3>4
    <2>3. QED
      BY <2>1, <2>2
  <1>12. ASSUME NEW n \in 1..c + 1 PROVE p[n] = Pressed(r[to[n]]) /\ to[n] \in OnewayAt(r)
    <2>1. CASE n = c + 1
      BY <1>2, <1>3, <1>7, <1>9, <2>1
    <2>2. CASE n \in 1..c
      <3>1. pr[n] = Pressed(q[at[n]])
        BY <1>1, <2>2 DEF Embeds
      <3>2. p[n] = pr[n] /\ r[to[n]] = q[at[n]] /\ to[n] \in OnewayAt(r)
        BY <1>2, <1>8, <2>2
      <3>3. QED
        BY <3>1, <3>2
    <2>3. QED
      BY <1>7, <2>1, <2>2
  <1>13. to \in [1..c + 1 -> OnewayAt(r)]
    BY <1>7, <1>12
  <1>14. Embeds(r, p, to)
    BY <1>2, <1>10, <1>11, <1>12, <1>13 DEF Embeds
  <1>15. QED
    BY <1>14 DEF p

\* loop() pops the press that is first, and only if it pops a 1W operation.
LEMMA PressesPopped ==
    ASSUME NEW S, NEW q \in Seq(S), q # <<>>, NEW P, NEW pr \in Seq(P), NEW at, Embeds(q, pr, at)
    PROVE  /\ IF IsOneway(Head(q)) THEN pr # <<>> /\ \E to : Embeds(Tail(q), Tail(pr), to)
                                   ELSE \E to : Embeds(Tail(q), pr, to)
  <1> DEFINE c == Len(pr)
             r == Tail(q)
  <1>1. r \in Seq(S) /\ 1 \in DOMAIN q /\ \E goes : Carries(q, r, goes, {}) /\ DOMAIN goes = {i \in DOMAIN q : i # 1}
    BY TailCarries
  <1> HIDE DEF r
  <1>2. PICK goes : Carries(q, r, goes, {}) /\ DOMAIN goes = {i \in DOMAIN q : i # 1}
    BY <1>1
  <1>3. Head(q) = q[1] /\ DOMAIN q = 1..Len(q) /\ Len(q) \in Nat
    BY HeadTailProperties, QueueIndices
  <1>4. CASE ~IsOneway(Head(q))
    <2>1. OnewayAt(q) \subseteq DOMAIN goes
      BY <1>2, <1>3, <1>4 DEF OnewayAt
    <2>2. \E to : Embeds(r, pr, to)
      BY <1>1, <1>2, <2>1, PressesCarried
    <2>3. QED
      BY <1>4, <2>2 DEF r
  <1>5. CASE IsOneway(Head(q))
    <2>1. c \in Nat /\ DOMAIN pr = 1..c
      BY LenProperties
    <2>2. 1 \in OnewayAt(q)
      BY <1>1, <1>3, <1>5 DEF OnewayAt
    <2>3. PICK f \in 1..c : at[f] = 1
      BY <2>1, <2>2 DEF Embeds
    <2>4. 1 \in 1..c /\ c # 0 /\ \A n \in 1..c : at[n] \in 1..Len(q) /\ at[n] \in OnewayAt(q)
      BY <1>3, <2>1, <2>3 DEF Embeds, OnewayAt
    <2>5. f = 1
      <3>1. ~(1 < f)
        <4>1. 1 < f => at[1] < at[f]
          BY <2>1, <2>4 DEF Embeds
        <4>2. QED
          BY <1>3, <2>3, <2>4, <4>1
      <3>2. QED
        BY <2>1, <3>1
    <2>6. pr # <<>>
      BY <2>1, <2>4, EmptySeq
    <2> DEFINE t == Tail(pr)
               to == [n \in 1..c - 1 |-> goes[at[n + 1]]]
    <2>7. t \in Seq(P) /\ DOMAIN t = 1..c - 1 /\ \A n \in 1..c - 1 : t[n] = pr[n + 1]
      <3>1. t \in Seq(P) /\ Len(t) = c - 1 /\ \A n \in 1..Len(t) : t[n] = pr[n + 1]
        BY <2>6, HeadTailProperties
      <3>2. DOMAIN t = 1..Len(t)
        BY <3>1, LenProperties
      <3>3. QED
        BY <3>1, <3>2
    <2> HIDE DEF c, t
    <2>8. ASSUME NEW n \in 2..c PROVE at[n] \in DOMAIN goes /\ n \in 1..c
      <3>1. n \in 1..c /\ 1 < n
        BY <2>1
      <3>2. at[1] < at[n]
        BY <2>1, <2>4, <3>1 DEF Embeds
      <3>3. at[n] # 1 /\ at[n] \in DOMAIN q
        BY <1>3, <2>3, <2>4, <2>5, <3>1, <3>2
      <3>4. QED
        BY <1>2, <3>1, <3>3
    <2>9. \A n \in 1..c - 1 : n + 1 \in 2..c
      BY <2>1
    <2>10. ASSUME NEW n \in 1..c - 1
           PROVE  to[n] \in OnewayAt(r) /\ r[to[n]] = q[at[n + 1]] /\ t[n] = Pressed(r[to[n]])
      <3>1. n + 1 \in 1..c /\ at[n + 1] \in DOMAIN goes
        BY <2>8, <2>9
      <3>2. to[n] = goes[at[n + 1]]
        OBVIOUS
      <3> HIDE DEF to
      <3>3. to[n] \in DOMAIN r /\ r[to[n]] = q[at[n + 1]]
        BY <1>2, <3>1, <3>2 DEF Carries
      <3>4. IsOneway(q[at[n + 1]])
        BY <2>4, <3>1 DEF OnewayAt
      <3>5. pr[n + 1] = Pressed(q[at[n + 1]])
        BY <2>1, <3>1 DEF Embeds
      <3>6. QED
        BY <2>7, <3>3, <3>4, <3>5 DEF OnewayAt
    <2>11. ASSUME NEW m \in 1..c - 1, NEW n \in 1..c - 1, m < n PROVE to[m] < to[n]
      <3>1. m + 1 \in 1..c /\ n + 1 \in 1..c /\ m + 1 < n + 1
        BY <2>1, <2>11
      <3>2. at[m + 1] < at[n + 1]
        BY <2>1, <3>1 DEF Embeds
      <3>3. at[m + 1] \in DOMAIN goes /\ at[n + 1] \in DOMAIN goes
        BY <2>8, <2>9
      <3>4. QED
        BY <1>2, <3>2, <3>3 DEF Carries
    <2>12. ASSUME NEW k \in OnewayAt(r) PROVE \E n \in 1..c - 1 : to[n] = k
      <3>1. PICK i \in DOMAIN goes : goes[i] = k /\ r[k] = q[i] /\ i \in DOMAIN q /\ i # 1
        BY <1>2 DEF Carries, OnewayAt
      <3>2. i \in OnewayAt(q)
        BY <3>1 DEF OnewayAt
      <3>3. PICK n \in 1..c : at[n] = i
        BY <2>1, <3>2 DEF Embeds
      <3>4. n # 1
        BY <2>3, <2>5, <3>1, <3>3
      <3>5. n - 1 \in 1..c - 1 /\ (n - 1) + 1 = n
        BY <2>1, <3>4
      <3>6. to[n - 1] = k
        BY <3>1, <3>3, <3>5
      <3>7. QED
        BY <3>5, <3>6
    <2>13. to \in [1..c - 1 -> OnewayAt(r)]
      BY <2>10
    <2> HIDE DEF to
    <2>14. Embeds(r, t, to)
      BY <2>7, <2>10, <2>11, <2>12, <2>13 DEF Embeds
    <2>15. QED
      BY <1>5, <2>6, <2>14 DEF r, t
  <1>6. QED
    BY <1>4, <1>5

-----------------------------------------------------------------------------
(* Where a cover ends up.                                                  *)

CoverTypes == {"SET_POSITION", "SET_TILT", "SET_POSITION_AND_TILT"}
Singles(q, d) == Pending(q, {"SET_POSITION", "SET_TILT"}, d)
Both(q, d) == Pending(q, {"SET_POSITION_AND_TILT"}, d)
Positioning(q, d) == Pending(q, {"SET_POSITION", "SET_POSITION_AND_TILT"}, d)
Tilting(q, d) == Pending(q, {"SET_TILT", "SET_POSITION_AND_TILT"}, d)
TiltOf(o) == IF o.type = "SET_TILT" THEN o.position ELSE o.tilt

(***************************************************************************)
(* What coalescing keeps for a plain device: it never waits for a position *)
(* and a tilt of their own, the merged operations are in front of the      *)
(* unmerged ones, and the last of each kind asks for what is wanted.       *)
(***************************************************************************)
Covered(q, d, want) ==
    /\ \A i, j \in Singles(q, d) : q[i].type = q[j].type
    /\ \A b \in Both(q, d), s \in Singles(q, d) : b < s
    /\ \A i \in Positioning(q, d) : (\A j \in Positioning(q, d) : j <= i) => q[i].position = want.position
    /\ \A i \in Tilting(q, d) : (\A j \in Tilting(q, d) : j <= i) => TiltOf(q[i]) = want.tilt

\* Last is the last.
LEMMA LastIsLast ==
    ASSUME NEW n \in Nat, NEW T, T \subseteq 1..n, T # {}
    PROVE  Last(T) \in T /\ \A j \in T : j <= Last(T)
  <1>1. PICK at : Picks(T, T, at)
    BY Selects
  <1> DEFINE size == Cardinality(T)
  <1>2. size \in Nat /\ size # 0 /\ \A j \in T : j \in Int
    BY FiniteIndices, FS_CardinalityType, FS_EmptySet
  <1>3. /\ at \in [1..size -> T]
        /\ \A m1, m2 \in 1..size : m1 < m2 => at[m1] < at[m2]
        /\ \A i \in T : \E m \in 1..size : at[m] = i
    BY <1>1 DEF Picks
  <1> HIDE DEF size
  <1>4. size \in 1..size /\ at[size] \in T
    BY <1>2, <1>3
  <1>5. ASSUME NEW j \in T PROVE j <= at[size]
    <2>1. PICK m \in 1..size : at[m] = j
      BY <1>3
    <2>2. size \in 1..size /\ at[size] \in Int /\ j \in Int
      BY <1>2, <1>4
    <2>3. CASE m = size
      BY <2>1, <2>2, <2>3
    <2>4. CASE m # size
      BY <1>2, <1>3, <2>1, <2>2, <2>4
    <2>5. QED
      BY <2>3, <2>4
  <1>6. QED
    BY <1>4, <1>5 DEF Last

\* A plain cover's pending operations end where it was asked to go.
LEMMA CoveredEnds ==
    ASSUME NEW S, NEW q \in Seq(S), NEW d, NEW want, Covered(q, d, want)
    PROVE  /\ Positioning(q, d) # {} => q[Last(Positioning(q, d))].position = want.position
           /\ Tilting(q, d) # {} => TiltOf(q[Last(Tilting(q, d))]) = want.tilt
  <1>1. Len(q) \in Nat /\ Positioning(q, d) \subseteq 1..Len(q) /\ Tilting(q, d) \subseteq 1..Len(q)
    BY QueueIndices DEF Positioning, Tilting, Pending
  <1>2. ASSUME Positioning(q, d) # {} PROVE q[Last(Positioning(q, d))].position = want.position
    <2> DEFINE l == Last(Positioning(q, d))
    <2>1. l \in Positioning(q, d) /\ \A j \in Positioning(q, d) : j <= l
      BY <1>1, <1>2, LastIsLast, Zenon
    <2> HIDE DEF l
    <2>2. q[l].position = want.position
      BY <2>1 DEF Covered
    <2>3. QED
      BY <2>2 DEF l
  <1>3. ASSUME Tilting(q, d) # {} PROVE TiltOf(q[Last(Tilting(q, d))]) = want.tilt
    <2> DEFINE l == Last(Tilting(q, d))
    <2>1. l \in Tilting(q, d) /\ \A j \in Tilting(q, d) : j <= l
      BY <1>1, <1>3, LastIsLast, Zenon
    <2> HIDE DEF l
    <2>2. TiltOf(q[l]) = want.tilt
      BY <2>1 DEF Covered
    <2>3. QED
      BY <2>2 DEF l
  <1>4. QED
    BY <1>2, <1>3

\* The entries of a kind that a step carries, and none else, are of that kind after it.
LEMMA PendingCarried ==
    ASSUME NEW q, NEW r, NEW goes, NEW new, Carries(q, r, goes, new), NEW types, NEW d,
           \A m \in new \cap DOMAIN r : ~(r[m].type \in types /\ r[m].id = d)
    PROVE  /\ \A i \in Pending(q, types, d) \cap DOMAIN goes : goes[i] \in Pending(r, types, d) /\ r[goes[i]] = q[i]
           /\ \A m \in Pending(r, types, d) :
                \E i \in Pending(q, types, d) \cap DOMAIN goes : goes[i] = m /\ r[m] = q[i]
  BY DEF Carries, Pending

\* What is wanted stays wanted while nothing of d is added, and what is taken is taken from the front.
LEMMA CoverCarried ==
    ASSUME NEW S, NEW q \in Seq(S), NEW r \in Seq(S), NEW goes, NEW new, Carries(q, r, goes, new),
           NEW d, NEW want, Covered(q, d, want),
           \A m \in new \cap DOMAIN r : ~(r[m].type \in CoverTypes /\ r[m].id = d),
           \A i \in Pending(q, CoverTypes, d) \ DOMAIN goes : \A j \in DOMAIN goes : i < j
    PROVE  Covered(r, d, want)
  <1>1. DOMAIN q \subseteq Int /\ DOMAIN r \subseteq Int /\ DOMAIN goes \subseteq DOMAIN q
    BY QueueIndices DEF Carries
  <1>2. \A i, j \in DOMAIN goes : i < j => goes[i] < goes[j]
    BY DEF Carries
  <1>3. /\ \A i \in Singles(q, d) \cap DOMAIN goes : goes[i] \in Singles(r, d) /\ r[goes[i]] = q[i]
        /\ \A m \in Singles(r, d) : \E i \in Singles(q, d) \cap DOMAIN goes : goes[i] = m /\ r[m] = q[i]
    BY PendingCarried DEF Singles, CoverTypes
  <1>4. \A m \in Both(r, d) : \E i \in Both(q, d) \cap DOMAIN goes : goes[i] = m /\ r[m] = q[i]
    BY PendingCarried DEF Both, CoverTypes
  <1>5. ASSUME NEW K, NEW L, K \subseteq Pending(q, CoverTypes, d), L \subseteq DOMAIN r,
               \A i \in K \cap DOMAIN goes : goes[i] \in L,
               NEW i \in K \cap DOMAIN goes, \A m \in L : m <= goes[i]
        PROVE  \A j \in K : j <= i
    <2>1. SUFFICES ASSUME NEW j \in K PROVE j <= i
      OBVIOUS
    <2>2. i \in Int /\ j \in Int
      BY <1>1, <1>5 DEF Pending
    <2>3. CASE j \in DOMAIN goes
      <3>1. goes[j] \in L /\ goes[j] <= goes[i] /\ goes[j] \in Int /\ goes[i] \in Int
        BY <1>1, <1>5, <2>3
      <3>2. ~(i < j)
        BY <1>2, <2>3, <3>1
      <3>3. QED
        BY <2>2, <3>2
    <2>4. CASE j \notin DOMAIN goes
      <3>1. j \in Pending(q, CoverTypes, d) \ DOMAIN goes
        BY <1>5, <2>4
      <3>2. j < i
        BY <3>1
      <3>3. QED
        BY <2>2, <3>2
    <2>5. QED
      BY <2>3, <2>4
  <1>6. ASSUME NEW m \in Positioning(r, d), \A n \in Positioning(r, d) : n <= m PROVE r[m].position = want.position
    <2>1. /\ \A i \in Positioning(q, d) \cap DOMAIN goes : goes[i] \in Positioning(r, d) /\ r[goes[i]] = q[i]
          /\ \A k \in Positioning(r, d) : \E i \in Positioning(q, d) \cap DOMAIN goes : goes[i] = k /\ r[k] = q[i]
      BY PendingCarried DEF Positioning, CoverTypes
    <2>2. PICK i \in Positioning(q, d) \cap DOMAIN goes : goes[i] = m /\ r[m] = q[i]
      BY <2>1
    <2>3. Positioning(q, d) \subseteq Pending(q, CoverTypes, d) /\ Positioning(r, d) \subseteq DOMAIN r
      BY DEF Positioning, Pending, CoverTypes
    <2>4. \A j \in Positioning(q, d) : j <= i
      BY <1>5, <1>6, <2>1, <2>2, <2>3
    <2>5. QED
      BY <2>2, <2>4 DEF Covered
  <1>7. ASSUME NEW m \in Tilting(r, d), \A n \in Tilting(r, d) : n <= m PROVE TiltOf(r[m]) = want.tilt
    <2>1. /\ \A i \in Tilting(q, d) \cap DOMAIN goes : goes[i] \in Tilting(r, d) /\ r[goes[i]] = q[i]
          /\ \A k \in Tilting(r, d) : \E i \in Tilting(q, d) \cap DOMAIN goes : goes[i] = k /\ r[k] = q[i]
      BY PendingCarried DEF Tilting, CoverTypes
    <2>2. PICK i \in Tilting(q, d) \cap DOMAIN goes : goes[i] = m /\ r[m] = q[i]
      BY <2>1
    <2>3. Tilting(q, d) \subseteq Pending(q, CoverTypes, d) /\ Tilting(r, d) \subseteq DOMAIN r
      BY DEF Tilting, Pending, CoverTypes
    <2>4. \A j \in Tilting(q, d) : j <= i
      BY <1>5, <1>7, <2>1, <2>2, <2>3
    <2>5. QED
      BY <2>2, <2>4 DEF Covered
  <1>8. \A i, j \in Singles(r, d) : r[i].type = r[j].type
    BY <1>3 DEF Covered
  <1>9. \A b \in Both(r, d), s \in Singles(r, d) : b < s
    BY <1>2, <1>3, <1>4 DEF Covered
  <1>10. QED
    BY <1>6, <1>7, <1>8, <1>9 DEF Covered

\* The entries T of q became the entries U of r, in front of the place before, which may be one of U.
Stays(q, r, goes, before, T, U) ==
    /\ T \subseteq DOMAIN goes
    /\ \A i \in T : goes[i] \in U /\ r[goes[i]] = q[i] /\ goes[i] < before
    /\ \A m \in U : m = before \/ \E i \in T : goes[i] = m /\ r[m] = q[i]

\* A control operation goes behind every cover operation that is pending.
LEMMA PendingPushed ==
    ASSUME NEW S, NEW q \in Seq(S), NEW r \in Seq(S), NEW op, NEW goes, NEW before, Pushed(q, r, op, goes, before),
           Banded(q), Band(op) = 2, NEW types, types \subseteq CoverTypes, NEW d
    PROVE  Stays(q, r, goes, before, Pending(q, types, d), Pending(r, types, d))
  <1>1. /\ Carries(q, r, goes, {before})
        /\ DOMAIN goes = {i \in DOMAIN q : addresses_a_device(op) => ~IsStatusOf(q[i], op.id)}
    BY DEF Pushed
  <1>2. \A i \in DOMAIN goes : ~is_background_op(q[i]) => goes[i] < before
    BY PushBands
  <1>3. \A i \in Pending(q, types, d) : ~is_background_op(q[i]) /\ i \in DOMAIN goes
    BY <1>1 DEF Pending, CoverTypes, is_background_op, BackgroundTypes, IsStatusOf
  <1>4. \A i \in Pending(q, types, d) : goes[i] \in Pending(r, types, d) /\ r[goes[i]] = q[i]
    BY <1>1, <1>3 DEF Carries, Pending
  <1>5. \A m \in Pending(r, types, d) : m = before \/ \E i \in Pending(q, types, d) : goes[i] = m /\ r[m] = q[i]
    BY <1>1 DEF Carries, Pending
  <1>6. QED
    BY <1>2, <1>3, <1>4, <1>5 DEF Stays

\* So it does behind those a plain cover may have.
LEMMA CoversPushed ==
    ASSUME NEW S, NEW q \in Seq(S), NEW r \in Seq(S), NEW op, NEW goes, NEW before, Pushed(q, r, op, goes, before),
           Banded(q), Band(op) = 2, NEW d
    PROVE  /\ Stays(q, r, goes, before, Singles(q, d), Singles(r, d))
           /\ Stays(q, r, goes, before, Both(q, d), Both(r, d))
           /\ Stays(q, r, goes, before, Positioning(q, d), Positioning(r, d))
           /\ Stays(q, r, goes, before, Tilting(q, d), Tilting(r, d))
  <1>1. ASSUME NEW types, types \subseteq CoverTypes
        PROVE  Stays(q, r, goes, before, Pending(q, types, d), Pending(r, types, d))
    BY <1>1, PendingPushed
  <1>2. /\ {"SET_POSITION", "SET_TILT"} \subseteq CoverTypes
        /\ {"SET_POSITION_AND_TILT"} \subseteq CoverTypes
        /\ {"SET_POSITION", "SET_POSITION_AND_TILT"} \subseteq CoverTypes
        /\ {"SET_TILT", "SET_POSITION_AND_TILT"} \subseteq CoverTypes
    BY DEF CoverTypes
  <1>3. Stays(q, r, goes, before, Singles(q, d), Singles(r, d))
    BY <1>1, <1>2 DEF Singles
  <1>4. Stays(q, r, goes, before, Both(q, d), Both(r, d))
    BY <1>1, <1>2 DEF Both
  <1>5. Stays(q, r, goes, before, Positioning(q, d), Positioning(r, d))
    BY <1>1, <1>2 DEF Positioning
  <1>6. Stays(q, r, goes, before, Tilting(q, d), Tilting(r, d))
    BY <1>1, <1>2 DEF Tilting
  <1>7. QED
    BY <1>3, <1>4, <1>5, <1>6

\* A position is enqueued behind the others when no tilt waits for one.
LEMMA PositionPushed ==
    ASSUME NEW S, NEW q \in Seq(S), NEW r \in Seq(S), NEW op, NEW goes, NEW before, Pushed(q, r, op, goes, before),
           Banded(q), NEW d, op.type = "SET_POSITION", op.id = d, Pending(q, {"SET_TILT"}, d) = {},
           NEW want, Covered(q, d, want), NEW then, then.position = op.position, then.tilt = want.tilt
    PROVE  Covered(r, d, then)
  <1>1. Band(op) = 2
    BY BandOf DEF DeviceControlTypes
  <1>2. r[before] = op /\ before \in DOMAIN r /\ Carries(q, r, goes, {before})
    BY DEF Pushed
  <1>3. DOMAIN r \subseteq Int /\ DOMAIN q \subseteq Int
    BY QueueIndices
  <1>4. /\ Singles(q, d) \subseteq DOMAIN goes
        /\ \A i \in Singles(q, d) : goes[i] \in Singles(r, d) /\ r[goes[i]] = q[i] /\ goes[i] < before
        /\ \A m \in Singles(r, d) : m = before \/ \E i \in Singles(q, d) : goes[i] = m /\ r[m] = q[i]
    BY <1>1, CoversPushed DEF Stays
  <1>5. /\ Both(q, d) \subseteq DOMAIN goes
        /\ \A i \in Both(q, d) : goes[i] \in Both(r, d) /\ r[goes[i]] = q[i] /\ goes[i] < before
        /\ \A m \in Both(r, d) : m = before \/ \E i \in Both(q, d) : goes[i] = m /\ r[m] = q[i]
    BY <1>1, CoversPushed DEF Stays
  <1>6. /\ Positioning(q, d) \subseteq DOMAIN goes
        /\ \A i \in Positioning(q, d) : goes[i] \in Positioning(r, d) /\ r[goes[i]] = q[i] /\ goes[i] < before
        /\ \A m \in Positioning(r, d) : m = before \/ \E i \in Positioning(q, d) : goes[i] = m /\ r[m] = q[i]
    BY <1>1, CoversPushed DEF Stays
  <1>7. /\ Tilting(q, d) \subseteq DOMAIN goes
        /\ \A i \in Tilting(q, d) : goes[i] \in Tilting(r, d) /\ r[goes[i]] = q[i] /\ goes[i] < before
        /\ \A m \in Tilting(r, d) : m = before \/ \E i \in Tilting(q, d) : goes[i] = m /\ r[m] = q[i]
    BY <1>1, CoversPushed DEF Stays
  <1>8. before \in Positioning(r, d) /\ before \notin Tilting(r, d) /\ before \notin Both(r, d)
    BY <1>2 DEF Positioning, Tilting, Both, Pending
  <1>9. \A i \in Singles(r, d) : r[i].type = "SET_POSITION"
    <2>1. \A i \in Singles(q, d) : q[i].type = "SET_POSITION"
      BY DEF Singles, Pending
    <2>2. QED
      BY <1>2, <1>4, <2>1
  <1>10. ASSUME NEW b \in Both(r, d), NEW m \in Singles(r, d) PROVE b < m
    <2>1. PICK i \in Both(q, d) : goes[i] = b /\ goes[i] < before
      BY <1>5, <1>8
    <2>2. CASE m = before
      BY <2>1, <2>2
    <2>3. CASE m # before
      <3>1. PICK j \in Singles(q, d) : goes[j] = m
        BY <1>4, <2>3
      <3>2. i < j
        BY <2>1, <3>1 DEF Covered
      <3>3. QED
        BY <1>2, <1>4, <1>5, <2>1, <3>1, <3>2 DEF Carries
    <2>4. QED
      BY <2>2, <2>3
  <1>11. ASSUME NEW i \in Positioning(r, d), \A j \in Positioning(r, d) : j <= i PROVE r[i].position = then.position
    <2>1. before <= i /\ i \in Int /\ before \in Int
      BY <1>2, <1>3, <1>8, <1>11 DEF Positioning, Pending
    <2>2. ~(i < before)
      BY <2>1
    <2>3. i = before
      BY <1>6, <2>2
    <2>4. QED
      BY <1>2, <2>3
  <1>12. ASSUME NEW m \in Tilting(r, d), \A j \in Tilting(r, d) : j <= m PROVE TiltOf(r[m]) = then.tilt
    <2>1. PICK i \in Tilting(q, d) : goes[i] = m /\ r[m] = q[i]
      BY <1>7, <1>8
    <2>2. ASSUME NEW j \in Tilting(q, d) PROVE j <= i
      <3>1. goes[j] <= goes[i] /\ goes[j] \in Int /\ goes[i] \in Int /\ i \in Int /\ j \in Int
        <4>1. goes[j] \in Tilting(r, d) /\ goes[i] \in Tilting(r, d)
          BY <1>7
        <4>2. QED
          BY <1>3, <1>12, <2>1, <4>1 DEF Tilting, Pending
      <3>2. ~(i < j)
        <4>1. i < j => goes[i] < goes[j]
          BY <1>2, <1>7 DEF Carries
        <4>2. QED
          BY <3>1, <4>1
      <3>3. QED
        BY <3>1, <3>2
    <2>3. QED
      BY <2>1, <2>2 DEF Covered
  <1>13. QED
    BY <1>9, <1>10, <1>11, <1>12 DEF Covered

\* A tilt is enqueued behind the others when no position waits for one.
LEMMA TiltPushed ==
    ASSUME NEW S, NEW q \in Seq(S), NEW r \in Seq(S), NEW op, NEW goes, NEW before, Pushed(q, r, op, goes, before),
           Banded(q), NEW d, op.type = "SET_TILT", op.id = d, Pending(q, {"SET_POSITION"}, d) = {},
           NEW want, Covered(q, d, want), NEW then, then.position = want.position, then.tilt = op.position
    PROVE  Covered(r, d, then)
  <1>1. Band(op) = 2
    BY BandOf DEF DeviceControlTypes
  <1>2. r[before] = op /\ before \in DOMAIN r /\ Carries(q, r, goes, {before})
    BY DEF Pushed
  <1>3. DOMAIN r \subseteq Int /\ DOMAIN q \subseteq Int
    BY QueueIndices
  <1>4. /\ Singles(q, d) \subseteq DOMAIN goes
        /\ \A i \in Singles(q, d) : goes[i] \in Singles(r, d) /\ r[goes[i]] = q[i] /\ goes[i] < before
        /\ \A m \in Singles(r, d) : m = before \/ \E i \in Singles(q, d) : goes[i] = m /\ r[m] = q[i]
    BY <1>1, CoversPushed DEF Stays
  <1>5. /\ Both(q, d) \subseteq DOMAIN goes
        /\ \A i \in Both(q, d) : goes[i] \in Both(r, d) /\ r[goes[i]] = q[i] /\ goes[i] < before
        /\ \A m \in Both(r, d) : m = before \/ \E i \in Both(q, d) : goes[i] = m /\ r[m] = q[i]
    BY <1>1, CoversPushed DEF Stays
  <1>6. /\ Positioning(q, d) \subseteq DOMAIN goes
        /\ \A i \in Positioning(q, d) : goes[i] \in Positioning(r, d) /\ r[goes[i]] = q[i] /\ goes[i] < before
        /\ \A m \in Positioning(r, d) : m = before \/ \E i \in Positioning(q, d) : goes[i] = m /\ r[m] = q[i]
    BY <1>1, CoversPushed DEF Stays
  <1>7. /\ Tilting(q, d) \subseteq DOMAIN goes
        /\ \A i \in Tilting(q, d) : goes[i] \in Tilting(r, d) /\ r[goes[i]] = q[i] /\ goes[i] < before
        /\ \A m \in Tilting(r, d) : m = before \/ \E i \in Tilting(q, d) : goes[i] = m /\ r[m] = q[i]
    BY <1>1, CoversPushed DEF Stays
  <1>8. before \notin Positioning(r, d) /\ before \in Tilting(r, d) /\ before \notin Both(r, d)
    BY <1>2 DEF Positioning, Tilting, Both, Pending
  <1>9. \A i \in Singles(r, d) : r[i].type = "SET_TILT"
    <2>1. \A i \in Singles(q, d) : q[i].type = "SET_TILT"
      BY DEF Singles, Pending
    <2>2. QED
      BY <1>2, <1>4, <2>1
  <1>10. ASSUME NEW b \in Both(r, d), NEW m \in Singles(r, d) PROVE b < m
    <2>1. PICK i \in Both(q, d) : goes[i] = b /\ goes[i] < before
      BY <1>5, <1>8
    <2>2. CASE m = before
      BY <2>1, <2>2
    <2>3. CASE m # before
      <3>1. PICK j \in Singles(q, d) : goes[j] = m
        BY <1>4, <2>3
      <3>2. i < j
        BY <2>1, <3>1 DEF Covered
      <3>3. QED
        BY <1>2, <1>4, <1>5, <2>1, <3>1, <3>2 DEF Carries
    <2>4. QED
      BY <2>2, <2>3
  <1>11. ASSUME NEW i \in Tilting(r, d), \A j \in Tilting(r, d) : j <= i PROVE TiltOf(r[i]) = then.tilt
    <2>1. before <= i /\ i \in Int /\ before \in Int
      BY <1>2, <1>3, <1>8, <1>11 DEF Tilting, Pending
    <2>2. ~(i < before)
      BY <2>1
    <2>3. i = before
      BY <1>7, <2>2
    <2>4. QED
      BY <1>2, <2>3 DEF TiltOf
  <1>12. ASSUME NEW m \in Positioning(r, d), \A j \in Positioning(r, d) : j <= m PROVE r[m].position = then.position
    <2>1. PICK i \in Positioning(q, d) : goes[i] = m /\ r[m] = q[i]
      BY <1>6, <1>8
    <2>2. ASSUME NEW j \in Positioning(q, d) PROVE j <= i
      <3>1. goes[j] <= goes[i] /\ goes[j] \in Int /\ goes[i] \in Int /\ i \in Int /\ j \in Int
        <4>1. goes[j] \in Positioning(r, d) /\ goes[i] \in Positioning(r, d)
          BY <1>6
        <4>2. QED
          BY <1>3, <1>12, <2>1, <4>1 DEF Positioning, Pending
      <3>2. ~(i < j)
        <4>1. i < j => goes[i] < goes[j]
          BY <1>2, <1>6 DEF Carries
        <4>2. QED
          BY <3>1, <4>1
      <3>3. QED
        BY <3>1, <3>2
    <2>3. QED
      BY <2>1, <2>2 DEF Covered
  <1>13. QED
    BY <1>9, <1>10, <1>11, <1>12 DEF Covered

\* Entry i of q has been completed to a combined operation.
Merged(q, r, i) ==
    /\ DOMAIN r = DOMAIN q /\ i \in DOMAIN q
    /\ \A j \in DOMAIN q : j # i => r[j] = q[j]
    /\ q[i].type \in {"SET_POSITION", "SET_TILT"} /\ r[i].type = "SET_POSITION_AND_TILT" /\ r[i].id = q[i].id

\* A merge changes no band, no press, and nothing another device is asked.
LEMMA MergeKeeps ==
    ASSUME NEW q, NEW r, NEW i, Merged(q, r, i)
    PROVE  /\ Banded(q) => Banded(r)
           /\ \A pr, at : Embeds(q, pr, at) => Embeds(r, pr, at)
           /\ \A d, want : d # q[i].id /\ Covered(q, d, want) => Covered(r, d, want)
  <1>1. ASSUME Banded(q) PROVE Banded(r)
    <2>1. \A j \in DOMAIN q : Band(r[j]) = Band(q[j])
      BY DEF Merged, Band, is_background_op, BackgroundTypes
    <2>2. QED
      BY <1>1, <2>1 DEF Banded, Merged
  <1>2. ASSUME NEW pr, NEW at, Embeds(q, pr, at) PROVE Embeds(r, pr, at)
    <2>1. \A j \in DOMAIN q : (IsOneway(r[j]) <=> IsOneway(q[j])) /\ (IsOneway(q[j]) => r[j] = q[j])
      BY DEF Merged, IsOneway, OneWayTypes
    <2>2. OnewayAt(r) = OnewayAt(q)
      BY <2>1 DEF OnewayAt, Merged
    <2>3. \A n \in DOMAIN pr : r[at[n]] = q[at[n]]
      BY <1>2, <2>1 DEF Embeds, OnewayAt
    <2>4. QED
      BY <1>2, <2>2, <2>3 DEF Embeds
  <1>3. ASSUME NEW d, NEW want, d # q[i].id, Covered(q, d, want) PROVE Covered(r, d, want)
    <2>1. \A types : Pending(r, types, d) = Pending(q, types, d) /\ \A j \in Pending(q, types, d) : r[j] = q[j]
      BY <1>3 DEF Pending, Merged
    <2>2. /\ Singles(r, d) = Singles(q, d) /\ \A j \in Singles(q, d) : r[j] = q[j]
          /\ Both(r, d) = Both(q, d)
          /\ Positioning(r, d) = Positioning(q, d) /\ \A j \in Positioning(q, d) : r[j] = q[j]
          /\ Tilting(r, d) = Tilting(q, d) /\ \A j \in Tilting(q, d) : r[j] = q[j]
      BY <2>1 DEF Singles, Both, Positioning, Tilting
    <2>3. QED
      BY <1>3, <2>2 DEF Covered
  <1>4. QED
    BY <1>1, <1>2, <1>3

\* The first pending tilt takes the position along.
LEMMA PositionMerged ==
    ASSUME NEW S, NEW q \in Seq(S), NEW r, NEW i, Merged(q, r, i), NEW d,
           i \in Pending(q, {"SET_TILT"}, d), \A j \in Pending(q, {"SET_TILT"}, d) : i <= j,
           NEW want, Covered(q, d, want), NEW then,
           r[i].position = then.position, r[i].tilt = q[i].position, then.tilt = want.tilt
    PROVE  Covered(r, d, then)
  <1>1. DOMAIN q \subseteq Int /\ i \in Singles(q, d) /\ q[i].type = "SET_TILT" /\ q[i].id = d
    BY QueueIndices DEF Singles, Pending
  <1>2. \A j \in Singles(q, d) : q[j].type = "SET_TILT" /\ i <= j
    <2>1. \A j \in Singles(q, d) : q[j].type = "SET_TILT"
      BY <1>1 DEF Covered
    <2>2. QED
      BY <2>1 DEF Singles, Pending
  <1>3. /\ Singles(r, d) = Singles(q, d) \ {i} /\ \A j \in Singles(r, d) : r[j] = q[j]
        /\ Both(r, d) = Both(q, d) \cup {i}
    BY <1>1 DEF Singles, Both, Pending, Merged
  <1>4. Positioning(r, d) = Both(q, d) \cup {i}
    <2>1. \A j \in DOMAIN q : ~(q[j].type = "SET_POSITION" /\ q[j].id = d)
      BY <1>2 DEF Singles, Pending
    <2>2. QED
      BY <1>1, <2>1 DEF Positioning, Both, Pending, Merged
  <1>5. Tilting(r, d) = Tilting(q, d) /\ \A j \in Tilting(q, d) : TiltOf(r[j]) = TiltOf(q[j])
    BY <1>1 DEF Tilting, Pending, Merged, TiltOf
  <1>6. \A b \in Both(q, d) : b < i
    BY <1>1 DEF Covered
  <1>7. \A j, k \in Singles(r, d) : r[j].type = r[k].type
    BY <1>2, <1>3
  <1>8. ASSUME NEW b \in Both(r, d), NEW j \in Singles(r, d) PROVE b < j
    <2>1. CASE b = i
      <3>1. i <= j /\ i # j /\ i \in Int /\ j \in Int
        BY <1>1, <1>2, <1>3 DEF Singles, Pending
      <3>2. QED
        BY <2>1, <3>1
    <2>2. CASE b # i
      BY <1>3, <2>2 DEF Covered
    <2>3. QED
      BY <2>1, <2>2
  <1>9. ASSUME NEW m \in Positioning(r, d), \A j \in Positioning(r, d) : j <= m PROVE r[m].position = then.position
    <2>1. i <= m /\ i \in Int /\ m \in Int
      BY <1>1, <1>4, <1>9 DEF Both, Pending
    <2>2. ~(m < i)
      BY <2>1
    <2>3. m = i
      BY <1>4, <1>6, <2>2
    <2>4. QED
      BY <2>3
  <1>10. \A m \in Tilting(r, d) : (\A j \in Tilting(r, d) : j <= m) => TiltOf(r[m]) = then.tilt
    BY <1>5 DEF Covered
  <1>11. QED
    BY <1>7, <1>8, <1>9, <1>10 DEF Covered

\* The first pending position takes the tilt along.
LEMMA TiltMerged ==
    ASSUME NEW S, NEW q \in Seq(S), NEW r, NEW i, Merged(q, r, i), NEW d,
           i \in Pending(q, {"SET_POSITION"}, d), \A j \in Pending(q, {"SET_POSITION"}, d) : i <= j,
           NEW want, Covered(q, d, want), NEW then,
           r[i].position = q[i].position, r[i].tilt = then.tilt, then.position = want.position
    PROVE  Covered(r, d, then)
  <1>1. DOMAIN q \subseteq Int /\ i \in Singles(q, d) /\ q[i].type = "SET_POSITION" /\ q[i].id = d
    BY QueueIndices DEF Singles, Pending
  <1>2. \A j \in Singles(q, d) : q[j].type = "SET_POSITION" /\ i <= j
    <2>1. \A j \in Singles(q, d) : q[j].type = "SET_POSITION"
      BY <1>1 DEF Covered
    <2>2. QED
      BY <2>1 DEF Singles, Pending
  <1>3. /\ Singles(r, d) = Singles(q, d) \ {i} /\ \A j \in Singles(r, d) : r[j] = q[j]
        /\ Both(r, d) = Both(q, d) \cup {i}
    BY <1>1 DEF Singles, Both, Pending, Merged
  <1>4. Tilting(r, d) = Both(q, d) \cup {i}
    <2>1. \A j \in DOMAIN q : ~(q[j].type = "SET_TILT" /\ q[j].id = d)
      BY <1>2 DEF Singles, Pending
    <2>2. QED
      BY <1>1, <2>1 DEF Tilting, Both, Pending, Merged
  <1>5. Positioning(r, d) = Positioning(q, d) /\ \A j \in Positioning(q, d) : r[j].position = q[j].position
    BY <1>1 DEF Positioning, Pending, Merged
  <1>6. \A b \in Both(q, d) : b < i
    BY <1>1 DEF Covered
  <1>7. \A j, k \in Singles(r, d) : r[j].type = r[k].type
    BY <1>2, <1>3
  <1>8. ASSUME NEW b \in Both(r, d), NEW j \in Singles(r, d) PROVE b < j
    <2>1. CASE b = i
      <3>1. i <= j /\ i # j /\ i \in Int /\ j \in Int
        BY <1>1, <1>2, <1>3 DEF Singles, Pending
      <3>2. QED
        BY <2>1, <3>1
    <2>2. CASE b # i
      BY <1>3, <2>2 DEF Covered
    <2>3. QED
      BY <2>1, <2>2
  <1>9. ASSUME NEW m \in Tilting(r, d), \A j \in Tilting(r, d) : j <= m PROVE TiltOf(r[m]) = then.tilt
    <2>1. i <= m /\ i \in Int /\ m \in Int
      BY <1>1, <1>4, <1>9 DEF Both, Pending
    <2>2. ~(m < i)
      BY <2>1
    <2>3. m = i
      BY <1>4, <1>6, <2>2
    <2>4. QED
      BY <2>3 DEF Merged, TiltOf
  <1>10. \A m \in Positioning(r, d) : (\A j \in Positioning(r, d) : j <= m) => r[m].position = then.position
    BY <1>5 DEF Covered
  <1>11. QED
    BY <1>7, <1>8, <1>9, <1>10 DEF Covered

-----------------------------------------------------------------------------
(* The inductive invariant.                                                *)

OpTypes == {"DISCOVER_AND_PAIR"} \cup OneWayTypes \cup DeviceControlTypes \cup BackgroundTypes
QueuedOps ==
    [type : OpTypes, id : Devices \cup Controllers \cup {NoDevice},
     position : 0..255, tilt : 0..255, command : Commands]
Presses == OneWayTypes \X Controllers \X (Commands \cup 0..255)
Wants == [position : 0..255, tilt : 0..255]

\* The types of the variables.
QueueTypeInv ==
    /\ queue \in Seq(QueuedOps)
    /\ presses \in Seq(Presses)
    /\ intent \in [Devices -> Wants]
    /\ plain \in [Devices -> BOOLEAN]

PressesEmbedded == \E at : Embeds(queue, presses, at)
CoversCoalesced == \A d \in Devices : plain[d] => Covered(queue, d, intent[d])

QueueInv == QueueTypeInv /\ Banded(queue) /\ PressesEmbedded /\ CoversCoalesced

\* What a step does to the queue and leaves alone: bands, presses, and what covers but d are asked.
KeepsOrder(q, r, mine) ==
    /\ r \in Seq(QueuedOps) /\ Banded(r)
    /\ \A pr, at : Embeds(q, pr, at) => \E to : Embeds(r, pr, to)
    /\ \A d, want : d \notin mine /\ Covered(q, d, want) => Covered(r, d, want)

\* A control operation for a device.
LEMMA ControlPushed ==
    ASSUME NEW q \in Seq(QueuedOps), Banded(q), NEW op \in QueuedOps, op.type \in DeviceControlTypes,
           NEW mine, op.type \in CoverTypes => op.id \in mine
    PROVE  KeepsOrder(q, push_control(q, op), mine)
  <1> DEFINE r == push_control(q, op)
  <1>1. r \in Seq(QueuedOps) /\ \E goes, before : Pushed(q, r, op, goes, before)
    BY PushCarries
  <1> HIDE DEF r
  <1>2. PICK goes, before : Pushed(q, r, op, goes, before)
    BY <1>1
  <1>3. Banded(r)
    BY <1>1, <1>2, PushBands, BandOf
  <1>4. /\ Carries(q, r, goes, {before}) /\ r[before] = op
        /\ DOMAIN goes = {i \in DOMAIN q : addresses_a_device(op) => ~IsStatusOf(q[i], op.id)}
    BY <1>2 DEF Pushed
  <1>5. OnewayAt(q) \subseteq DOMAIN goes
    BY <1>4 DEF OnewayAt, IsOneway, OneWayTypes, IsStatusOf
  <1>6. \A m \in {before} \cap DOMAIN r : ~IsOneway(r[m])
    BY <1>4 DEF IsOneway, OneWayTypes, DeviceControlTypes
  <1>7. ASSUME NEW pr, NEW at, Embeds(q, pr, at) PROVE \E to : Embeds(r, pr, to)
    BY <1>1, <1>4, <1>5, <1>6, <1>7, PressesCarried
  <1>8. ASSUME NEW d, NEW want, d \notin mine, Covered(q, d, want) PROVE Covered(r, d, want)
    <2>1. \A m \in {before} \cap DOMAIN r : ~(r[m].type \in CoverTypes /\ r[m].id = d)
      BY <1>4, <1>8
    <2>2. Pending(q, CoverTypes, d) \ DOMAIN goes = {}
      BY <1>4 DEF Pending, CoverTypes, IsStatusOf
    <2>3. QED
      BY <1>1, <1>4, <1>8, <2>1, <2>2, CoverCarried
  <1>9. KeepsOrder(q, r, mine)
    BY <1>1, <1>3, <1>7, <1>8 DEF KeepsOrder
  <1>10. QED
    BY <1>9 DEF r

\* A poll.
LEMMA PollAppended ==
    ASSUME NEW q \in Seq(QueuedOps), Banded(q), NEW op \in QueuedOps, op.type \in BackgroundTypes
    PROVE  KeepsOrder(q, Append(q, op), {})
  <1> DEFINE r == Append(q, op)
             k == Len(q) + 1
  <1>1. /\ r \in Seq(QueuedOps) /\ k \in DOMAIN r /\ r[k] = op
        /\ \A m \in DOMAIN r : m <= k
        /\ \E goes : Carries(q, r, goes, {k}) /\ DOMAIN goes = DOMAIN q
    BY AppendCarries
  <1> HIDE DEF r, k
  <1>2. PICK goes : Carries(q, r, goes, {k}) /\ DOMAIN goes = DOMAIN q
    BY <1>1
  <1>3. Banded(r)
    <2>1. \A i, j \in DOMAIN r \ {k} : i <= j => Band(r[i]) <= Band(r[j])
      BY <1>1, <1>2, CarriedBands
    <2>2. Band(r[k]) = 3 /\ \A i \in DOMAIN r : Band(r[i]) \in {1, 2, 3} /\ (i \in Int /\ k \in Int)
      BY <1>1, QueueIndices, BandOf DEF is_background_op
    <2>3. ASSUME NEW i \in DOMAIN r, NEW j \in DOMAIN r, i <= j PROVE Band(r[i]) <= Band(r[j])
      <3>1. i = k => j = k
        BY <1>1, <2>2, <2>3
      <3>2. CASE j = k
        BY <2>2, <3>2
      <3>3. CASE j # k
        BY <2>1, <2>3, <3>1, <3>3
      <3>4. QED
        BY <3>2, <3>3
    <2>4. QED
      BY <2>3 DEF Banded
  <1>4. OnewayAt(q) \subseteq DOMAIN goes /\ \A m \in {k} \cap DOMAIN r : ~IsOneway(r[m])
    BY <1>1, <1>2 DEF OnewayAt, IsOneway, OneWayTypes, BackgroundTypes
  <1>5. ASSUME NEW pr, NEW at, Embeds(q, pr, at) PROVE \E to : Embeds(r, pr, to)
    BY <1>1, <1>2, <1>4, <1>5, PressesCarried
  <1>6. ASSUME NEW d, NEW want, Covered(q, d, want) PROVE Covered(r, d, want)
    <2>1. \A m \in {k} \cap DOMAIN r : ~(r[m].type \in CoverTypes /\ r[m].id = d)
      BY <1>1 DEF BackgroundTypes, CoverTypes
    <2>2. Pending(q, CoverTypes, d) \ DOMAIN goes = {}
      BY <1>2 DEF Pending
    <2>3. QED
      BY <1>1, <1>2, <1>6, <2>1, <2>2, CoverCarried
  <1>7. KeepsOrder(q, r, {})
    BY <1>1, <1>3, <1>5, <1>6 DEF KeepsOrder
  <1>8. QED
    BY <1>7 DEF r

\* Pairing.
LEMMA PairingPushed ==
    ASSUME NEW q \in Seq(QueuedOps), Banded(q), NEW op \in QueuedOps, op.type = "DISCOVER_AND_PAIR"
    PROVE  KeepsOrder(q, Flushed(q, op), {})
  <1> DEFINE r == Flushed(q, op)
  <1>1. /\ r \in Seq(QueuedOps) /\ 1 \in DOMAIN r /\ r[1] = op
        /\ \E goes : Carries(q, r, goes, {1}) /\ DOMAIN goes = NotPolls(q)
    BY DiscoverCarries
  <1> HIDE DEF r
  <1>2. PICK goes : Carries(q, r, goes, {1}) /\ DOMAIN goes = NotPolls(q)
    BY <1>1
  <1>3. Banded(r)
    <2>1. \A i, j \in DOMAIN r \ {1} : i <= j => Band(r[i]) <= Band(r[j])
      BY <1>1, <1>2, CarriedBands
    <2>2. Band(r[1]) = 1 /\ \A i \in DOMAIN r : Band(r[i]) \in {1, 2, 3} /\ i \in Int /\ 1 <= i
      BY <1>1, QueueIndices, BandOf
    <2>3. ASSUME NEW i \in DOMAIN r, NEW j \in DOMAIN r, i <= j PROVE Band(r[i]) <= Band(r[j])
      <3>1. j = 1 => i = 1
        BY <2>2, <2>3
      <3>2. CASE i = 1
        BY <2>2, <3>2
      <3>3. CASE i # 1
        BY <2>1, <2>3, <3>1, <3>3
      <3>4. QED
        BY <3>2, <3>3
    <2>4. QED
      BY <2>3 DEF Banded
  <1>4. OnewayAt(q) \subseteq DOMAIN goes /\ \A m \in {1} \cap DOMAIN r : ~IsOneway(r[m])
    BY <1>1, <1>2 DEF NotPolls, OnewayAt, IsOneway, OneWayTypes, BackgroundTypes, is_background_op
  <1>5. ASSUME NEW pr, NEW at, Embeds(q, pr, at) PROVE \E to : Embeds(r, pr, to)
    BY <1>1, <1>2, <1>4, <1>5, PressesCarried
  <1>6. ASSUME NEW d, NEW want, Covered(q, d, want) PROVE Covered(r, d, want)
    <2>1. \A m \in {1} \cap DOMAIN r : ~(r[m].type \in CoverTypes /\ r[m].id = d)
      BY <1>1 DEF CoverTypes
    <2>2. Pending(q, CoverTypes, d) \ DOMAIN goes = {}
      BY <1>2 DEF NotPolls, Pending, CoverTypes, BackgroundTypes, is_background_op
    <2>3. QED
      BY <1>1, <1>2, <1>6, <2>1, <2>2, CoverCarried
  <1>7. KeepsOrder(q, r, {})
    BY <1>1, <1>3, <1>5, <1>6 DEF KeepsOrder
  <1>8. QED
    BY <1>7 DEF r

\* A position completes the first tilt that is pending.
LEMMA PositionOntoTilt ==
    ASSUME NEW q \in Seq(QueuedOps), NEW d, NEW p \in 0..255, Pending(q, {"SET_TILT"}, d) # {}
    PROVE  LET tilts == Pending(q, {"SET_TILT"}, d)
               i == First(tilts)
               r == enqueue_set_position(q, d, p)
           IN  /\ i \in tilts /\ \A j \in tilts : i <= j
               /\ r \in Seq(QueuedOps) /\ Merged(q, r, i)
               /\ r[i].position = p /\ r[i].tilt = q[i].position
  <1> DEFINE tilts == Pending(q, {"SET_TILT"}, d)
             i == First(tilts)
             r == enqueue_set_position(q, d, p)
  <1>1. i \in tilts /\ \A j \in tilts : i <= j
    <2>1. Len(q) \in Nat /\ tilts \subseteq 1..Len(q)
      BY QueueIndices DEF Pending
    <2>2. QED
      BY <2>1, FirstIsFirst, Zenon
  <1>2. r = [q EXCEPT ![i].type = "SET_POSITION_AND_TILT", ![i].position = p, ![i].tilt = q[i].position]
    BY DEF enqueue_set_position
  <1> HIDE DEF i, r
  <1>3. i \in DOMAIN q /\ q[i].type = "SET_TILT" /\ q[i].id = d /\ q[i] \in QueuedOps
    BY <1>1, QueueIndices DEF Pending
  <1> DEFINE o == [q[i] EXCEPT !.type = "SET_POSITION_AND_TILT", !.position = p, !.tilt = q[i].position]
  <1>4. /\ o \in QueuedOps
        /\ o.type = "SET_POSITION_AND_TILT" /\ o.id = d /\ o.position = p /\ o.tilt = q[i].position
    BY <1>3 DEF QueuedOps, OpTypes, DeviceControlTypes
  <1>5. r = [q EXCEPT ![i] = o]
    BY <1>2, <1>3
  <1> HIDE DEF o
  <1>6. r \in Seq(QueuedOps) /\ DOMAIN r = DOMAIN q /\ r[i] = o /\ \A j \in DOMAIN q : j # i => r[j] = q[j]
    <2>1. Len(q) \in Nat /\ DOMAIN q = 1..Len(q) /\ \A j \in DOMAIN q : q[j] \in QueuedOps
      BY QueueIndices
    <2>2. DOMAIN r = DOMAIN q /\ r[i] = o /\ \A j \in DOMAIN q : j # i => r[j] = q[j]
      BY <1>3, <1>5
    <2>3. r = [j \in 1..Len(q) |-> r[j]]
      BY <1>5, <2>1
    <2>4. \A j \in 1..Len(q) : r[j] \in QueuedOps
      BY <1>4, <2>1, <2>2
    <2>5. QED
      BY <2>1, <2>2, <2>3, <2>4
  <1>7. Merged(q, r, i)
    BY <1>3, <1>4, <1>6 DEF Merged
  <1>8. QED
    BY <1>1, <1>4, <1>6, <1>7 DEF i, r

\* A cover is asked for a position: what it was asked before stays, but for the position.
LEMMA PositionEnqueued ==
    ASSUME NEW q \in Seq(QueuedOps), Banded(q), NEW d \in Devices, NEW p \in 0..255, "STOP" \in Commands
    PROVE  /\ KeepsOrder(q, enqueue_set_position(q, d, p), {d})
           /\ \A want, then : Covered(q, d, want) /\ then.position = p /\ then.tilt = want.tilt
                               => Covered(enqueue_set_position(q, d, p), d, then)
  <1> DEFINE tilts == Pending(q, {"SET_TILT"}, d)
             op == Op("SET_POSITION", d, p)
             r == enqueue_set_position(q, d, p)
  <1>1. op \in QueuedOps /\ op.type = "SET_POSITION" /\ op.id = d /\ op.position = p
    BY DEF Op, QueuedOps, OpTypes, DeviceControlTypes
  <1>2. CASE tilts = {}
    <2>1. r = push_control(q, op)
      BY <1>2 DEF enqueue_set_position
    <2> HIDE DEF op, r
    <2>2. KeepsOrder(q, r, {d})
      BY <1>1, <2>1, ControlPushed DEF DeviceControlTypes
    <2>3. PICK goes, before : Pushed(q, r, op, goes, before)
      BY <1>1, <2>1, PushCarries
    <2>4. r \in Seq(QueuedOps)
      BY <2>2 DEF KeepsOrder
    <2>5. ASSUME NEW want, NEW then, Covered(q, d, want), then.position = p, then.tilt = want.tilt
          PROVE Covered(r, d, then)
      BY <1>1, <1>2, <2>3, <2>4, <2>5, PositionPushed
    <2>6. QED
      BY <2>2, <2>5 DEF r
  <1>3. CASE tilts # {}
    <2> DEFINE i == First(tilts)
    <2>1. /\ i \in tilts /\ \A j \in tilts : i <= j
          /\ r \in Seq(QueuedOps) /\ Merged(q, r, i)
          /\ r[i].position = p /\ r[i].tilt = q[i].position
      BY <1>3, PositionOntoTilt
    <2> HIDE DEF i, r
    <2>2. q[i].id = d
      BY <2>1 DEF Pending
    <2>3. KeepsOrder(q, r, {d})
      BY <2>1, <2>2, MergeKeeps DEF KeepsOrder
    <2>4. ASSUME NEW want, NEW then, Covered(q, d, want), then.position = p, then.tilt = want.tilt
          PROVE Covered(r, d, then)
      BY <2>1, <2>4, PositionMerged
    <2>5. QED
      BY <2>3, <2>4 DEF r
  <1>4. QED
    BY <1>2, <1>3

\* A tilt completes the first position that is pending.
LEMMA TiltOntoPosition ==
    ASSUME NEW q \in Seq(QueuedOps), NEW d, NEW t \in 0..255, Pending(q, {"SET_POSITION"}, d) # {}
    PROVE  LET positions == Pending(q, {"SET_POSITION"}, d)
               i == First(positions)
               r == enqueue_set_tilt(q, d, t)
           IN  /\ i \in positions /\ \A j \in positions : i <= j
               /\ r \in Seq(QueuedOps) /\ Merged(q, r, i)
               /\ r[i].position = q[i].position /\ r[i].tilt = t
  <1> DEFINE positions == Pending(q, {"SET_POSITION"}, d)
             i == First(positions)
             r == enqueue_set_tilt(q, d, t)
  <1>1. i \in positions /\ \A j \in positions : i <= j
    <2>1. Len(q) \in Nat /\ positions \subseteq 1..Len(q)
      BY QueueIndices DEF Pending
    <2>2. QED
      BY <2>1, FirstIsFirst, Zenon
  <1>2. r = [q EXCEPT ![i].type = "SET_POSITION_AND_TILT", ![i].tilt = t]
    BY DEF enqueue_set_tilt
  <1> HIDE DEF i, r
  <1>3. i \in DOMAIN q /\ q[i].type = "SET_POSITION" /\ q[i].id = d /\ q[i] \in QueuedOps
    BY <1>1, QueueIndices DEF Pending
  <1> DEFINE o == [q[i] EXCEPT !.type = "SET_POSITION_AND_TILT", !.tilt = t]
  <1>4. /\ o \in QueuedOps
        /\ o.type = "SET_POSITION_AND_TILT" /\ o.id = d /\ o.position = q[i].position /\ o.tilt = t
    BY <1>3 DEF QueuedOps, OpTypes, DeviceControlTypes
  <1>5. r = [q EXCEPT ![i] = o]
    BY <1>2, <1>3
  <1> HIDE DEF o
  <1>6. r \in Seq(QueuedOps) /\ DOMAIN r = DOMAIN q /\ r[i] = o /\ \A j \in DOMAIN q : j # i => r[j] = q[j]
    <2>1. Len(q) \in Nat /\ DOMAIN q = 1..Len(q) /\ \A j \in DOMAIN q : q[j] \in QueuedOps
      BY QueueIndices
    <2>2. DOMAIN r = DOMAIN q /\ r[i] = o /\ \A j \in DOMAIN q : j # i => r[j] = q[j]
      BY <1>3, <1>5
    <2>3. r = [j \in 1..Len(q) |-> r[j]]
      BY <1>5, <2>1
    <2>4. \A j \in 1..Len(q) : r[j] \in QueuedOps
      BY <1>4, <2>1, <2>2
    <2>5. QED
      BY <2>1, <2>2, <2>3, <2>4
  <1>7. Merged(q, r, i)
    BY <1>3, <1>4, <1>6 DEF Merged
  <1>8. QED
    BY <1>1, <1>4, <1>6, <1>7 DEF i, r

\* The same for a tilt.
LEMMA TiltEnqueued ==
    ASSUME NEW q \in Seq(QueuedOps), Banded(q), NEW d \in Devices, NEW t \in 0..255, "STOP" \in Commands
    PROVE  /\ KeepsOrder(q, enqueue_set_tilt(q, d, t), {d})
           /\ \A want, then : Covered(q, d, want) /\ then.position = want.position /\ then.tilt = t
                               => Covered(enqueue_set_tilt(q, d, t), d, then)
  <1> DEFINE positions == Pending(q, {"SET_POSITION"}, d)
             op == Op("SET_TILT", d, t)
             r == enqueue_set_tilt(q, d, t)
  <1>1. op \in QueuedOps /\ op.type = "SET_TILT" /\ op.id = d /\ op.position = t
    BY DEF Op, QueuedOps, OpTypes, DeviceControlTypes
  <1>2. CASE positions = {}
    <2>1. r = push_control(q, op)
      BY <1>2 DEF enqueue_set_tilt
    <2> HIDE DEF op, r
    <2>2. KeepsOrder(q, r, {d})
      BY <1>1, <2>1, ControlPushed DEF DeviceControlTypes
    <2>3. PICK goes, before : Pushed(q, r, op, goes, before)
      BY <1>1, <2>1, PushCarries
    <2>4. r \in Seq(QueuedOps)
      BY <2>2 DEF KeepsOrder
    <2>5. ASSUME NEW want, NEW then, Covered(q, d, want), then.position = want.position, then.tilt = t
          PROVE Covered(r, d, then)
      BY <1>1, <1>2, <2>3, <2>4, <2>5, TiltPushed
    <2>6. QED
      BY <2>2, <2>5 DEF r
  <1>3. CASE positions # {}
    <2> DEFINE i == First(positions)
    <2>1. /\ i \in positions /\ \A j \in positions : i <= j
          /\ r \in Seq(QueuedOps) /\ Merged(q, r, i)
          /\ r[i].position = q[i].position /\ r[i].tilt = t
      BY <1>3, TiltOntoPosition
    <2> HIDE DEF i, r
    <2>2. q[i].id = d
      BY <2>1 DEF Pending
    <2>3. KeepsOrder(q, r, {d})
      BY <2>1, <2>2, MergeKeeps DEF KeepsOrder
    <2>4. ASSUME NEW want, NEW then, Covered(q, d, want), then.position = want.position, then.tilt = t
          PROVE Covered(r, d, then)
      BY <2>1, <2>4, TiltMerged
    <2>5. QED
      BY <2>3, <2>4 DEF r
  <1>4. QED
    BY <1>2, <1>3

\* A 1W press.
LEMMA OnewayPushed ==
    ASSUME NEW q \in Seq(QueuedOps), Banded(q), NEW op \in QueuedOps, IsOneway(op), Pressed(op) \in Presses
    PROVE  LET r == push_control(q, op)
           IN  /\ r \in Seq(QueuedOps) /\ Banded(r)
               /\ \A pr \in Seq(Presses) : \A at : Embeds(q, pr, at) => \E to : Embeds(r, Append(pr, Pressed(op)), to)
               /\ \A d, want : Covered(q, d, want) => Covered(r, d, want)
  <1> DEFINE r == push_control(q, op)
  <1>1. r \in Seq(QueuedOps) /\ \E goes, before : Pushed(q, r, op, goes, before)
    BY PushCarries
  <1> HIDE DEF r
  <1>2. PICK goes, before : Pushed(q, r, op, goes, before)
    BY <1>1
  <1>3. Banded(r)
    BY <1>1, <1>2, PushBands, BandOf
  <1>4. /\ Carries(q, r, goes, {before}) /\ r[before] = op
        /\ DOMAIN goes = {i \in DOMAIN q : addresses_a_device(op) => ~IsStatusOf(q[i], op.id)}
    BY <1>2 DEF Pushed
  <1>5. ASSUME NEW pr \in Seq(Presses), NEW at, Embeds(q, pr, at)
        PROVE  \E to : Embeds(r, Append(pr, Pressed(op)), to)
    BY <1>1, <1>2, <1>5, PressesAdded
  <1>6. ASSUME NEW d, NEW want, Covered(q, d, want) PROVE Covered(r, d, want)
    <2>1. \A m \in {before} \cap DOMAIN r : ~(r[m].type \in CoverTypes /\ r[m].id = d)
      BY <1>4 DEF IsOneway, OneWayTypes, CoverTypes
    <2>2. Pending(q, CoverTypes, d) \ DOMAIN goes = {}
      BY <1>4 DEF Pending, CoverTypes, IsStatusOf
    <2>3. QED
      BY <1>1, <1>4, <1>6, <2>1, <2>2, CoverCarried
  <1>7. QED
    BY <1>1, <1>3, <1>5, <1>6 DEF r

\* loop() pops an operation.
LEMMA HeadPopped ==
    ASSUME NEW q \in Seq(QueuedOps), q # <<>>, Banded(q)
    PROVE  /\ Tail(q) \in Seq(QueuedOps) /\ Banded(Tail(q))
           /\ \A d, want : Covered(q, d, want) => Covered(Tail(q), d, want)
  <1> DEFINE r == Tail(q)
  <1>1. /\ r \in Seq(QueuedOps) /\ 1 \in DOMAIN q
        /\ \E goes : Carries(q, r, goes, {}) /\ DOMAIN goes = {i \in DOMAIN q : i # 1}
    BY TailCarries
  <1> HIDE DEF r
  <1>2. PICK goes : Carries(q, r, goes, {}) /\ DOMAIN goes = {i \in DOMAIN q : i # 1}
    BY <1>1
  <1>3. Banded(r)
    <2>1. \A i, j \in DOMAIN r \ {} : i <= j => Band(r[i]) <= Band(r[j])
      BY <1>1, <1>2, CarriedBands
    <2>2. QED
      BY <2>1 DEF Banded
  <1>4. ASSUME NEW d, NEW want, Covered(q, d, want) PROVE Covered(r, d, want)
    <2>1. \A i \in Pending(q, CoverTypes, d) \ DOMAIN goes : \A j \in DOMAIN goes : i < j
      BY <1>2, QueueIndices DEF Pending
    <2>2. QED
      BY <1>1, <1>2, <1>4, <2>1, CoverCarried
  <1>5. QED
    BY <1>1, <1>3, <1>4 DEF r

\* A device that has no control operation pending has nothing that could be wrong.
LEMMA NothingPending ==
    ASSUME NEW q, NEW d, Pending(q, DeviceControlTypes, d) = {}, NEW want
    PROVE  Covered(q, d, want)
  BY DEF Covered, Singles, Both, Positioning, Tilting, Pending, DeviceControlTypes

-----------------------------------------------------------------------------
(* The operations preserve the invariant.                                  *)

\* What a step keeps that adds no press.
LEMMA InvKept ==
    ASSUME QueueInv, NEW mine, KeepsOrder(queue, queue', mine), UNCHANGED presses,
           intent' \in [Devices -> Wants], plain' \in [Devices -> BOOLEAN],
           \A d \in Devices : plain'[d] => \/ d \notin mine /\ plain[d] /\ intent'[d] = intent[d]
                                         \/ Covered(queue', d, intent'[d])
    PROVE  QueueInv'
  <1>1. QueueTypeInv'
    BY DEF QueueInv, QueueTypeInv, KeepsOrder
  <1>2. Banded(queue') /\ PressesEmbedded'
    BY DEF QueueInv, PressesEmbedded, KeepsOrder
  <1>3. CoversCoalesced'
    BY DEF QueueInv, CoversCoalesced, KeepsOrder
  <1>4. QED
    BY <1>1, <1>2, <1>3 DEF QueueInv

LEMMA SetPositionKeeps ==
    ASSUME QueueInv, NEW d \in Devices, NEW p \in Positions, EnqueueSetPosition(d, p)
    PROVE  QueueInv'
  <1>1. p \in 0..255 /\ "STOP" \in Commands /\ queue \in Seq(QueuedOps) /\ Banded(queue)
    BY QueueAssumption DEF QueueInv, QueueTypeInv
  <1>2. /\ queue' = enqueue_set_position(queue, d, p) /\ UNCHANGED <<presses, plain>>
        /\ intent' = [intent EXCEPT ![d].position = p]
    BY DEF EnqueueSetPosition
  <1>3. KeepsOrder(queue, queue', {d})
    BY <1>1, <1>2, PositionEnqueued
  <1>4. intent' \in [Devices -> Wants] /\ \A e \in Devices : e # d => intent'[e] = intent[e]
    <2>1. intent \in [Devices -> Wants]
      BY DEF QueueInv, QueueTypeInv
    <2>2. PICK w \in Wants : w = intent[d]
      BY <2>1
    <2>3. [w EXCEPT !.position = p] \in Wants
      BY <1>1 DEF Wants
    <2>4. intent' = [intent EXCEPT ![d] = [w EXCEPT !.position = p]]
      BY <1>2, <2>2
    <2>5. QED
      BY <2>1, <2>3, <2>4
  <1>5. intent'[d].position = p /\ intent'[d].tilt = intent[d].tilt
    BY <1>1, <1>2 DEF QueueInv, QueueTypeInv, Wants
  <1>6. plain[d] => Covered(queue', d, intent'[d])
    BY <1>1, <1>2, <1>5, PositionEnqueued DEF QueueInv, CoversCoalesced
  <1>7. plain' \in [Devices -> BOOLEAN] /\ UNCHANGED presses /\ plain' = plain
    BY <1>2 DEF QueueInv, QueueTypeInv
  <1>8. QED
    BY <1>3, <1>4, <1>6, <1>7, InvKept

LEMMA SetTiltKeeps ==
    ASSUME QueueInv, NEW d \in Devices, NEW t \in Positions, EnqueueSetTilt(d, t)
    PROVE  QueueInv'
  <1>1. t \in 0..255 /\ "STOP" \in Commands /\ queue \in Seq(QueuedOps) /\ Banded(queue)
    BY QueueAssumption DEF QueueInv, QueueTypeInv
  <1>2. /\ queue' = enqueue_set_tilt(queue, d, t) /\ UNCHANGED <<presses, plain>>
        /\ intent' = [intent EXCEPT ![d].tilt = t]
    BY DEF EnqueueSetTilt
  <1>3. KeepsOrder(queue, queue', {d})
    BY <1>1, <1>2, TiltEnqueued
  <1>4. intent' \in [Devices -> Wants] /\ \A e \in Devices : e # d => intent'[e] = intent[e]
    <2>1. intent \in [Devices -> Wants]
      BY DEF QueueInv, QueueTypeInv
    <2>2. PICK w \in Wants : w = intent[d]
      BY <2>1
    <2>3. [w EXCEPT !.tilt = t] \in Wants
      BY <1>1 DEF Wants
    <2>4. intent' = [intent EXCEPT ![d] = [w EXCEPT !.tilt = t]]
      BY <1>2, <2>2
    <2>5. QED
      BY <2>1, <2>3, <2>4
  <1>5. intent'[d].position = intent[d].position /\ intent'[d].tilt = t
    BY <1>1, <1>2 DEF QueueInv, QueueTypeInv, Wants
  <1>6. plain[d] => Covered(queue', d, intent'[d])
    BY <1>1, <1>2, <1>5, TiltEnqueued DEF QueueInv, CoversCoalesced
  <1>7. plain' \in [Devices -> BOOLEAN] /\ UNCHANGED presses /\ plain' = plain
    BY <1>2 DEF QueueInv, QueueTypeInv
  <1>8. QED
    BY <1>3, <1>4, <1>6, <1>7, InvKept

\* A combined call or a named command: the device is no longer plain.
LEMMA NotPlainKeeps ==
    ASSUME QueueInv, NEW d \in Devices, NEW op \in QueuedOps, op.type \in DeviceControlTypes, op.id = d,
           queue' = push_control(queue, op), plain' = [plain EXCEPT ![d] = FALSE], UNCHANGED presses,
           intent' \in [Devices -> Wants], \A e \in Devices \ {d} : intent'[e] = intent[e]
    PROVE  QueueInv'
  <1>1. KeepsOrder(queue, queue', {d})
    BY ControlPushed DEF QueueInv, QueueTypeInv
  <1>2. plain' \in [Devices -> BOOLEAN] /\ ~plain'[d] /\ \A e \in Devices \ {d} : plain'[e] = plain[e]
    BY DEF QueueInv, QueueTypeInv
  <1>3. QED
    BY <1>1, <1>2, InvKept

LEMMA SetPositionAndTiltKeeps ==
    ASSUME QueueInv, NEW d \in Devices, NEW p \in Positions, NEW t \in Positions, EnqueueSetPositionAndTilt(d, p, t)
    PROVE  QueueInv'
  <1> DEFINE op == [Op("SET_POSITION_AND_TILT", d, p) EXCEPT !.tilt = t]
  <1>1. op \in QueuedOps /\ op.type \in DeviceControlTypes /\ op.id = d
    BY QueueAssumption DEF Op, QueuedOps, OpTypes, DeviceControlTypes
  <1>2. queue' = push_control(queue, op)
    BY DEF EnqueueSetPositionAndTilt, enqueue_set_position_and_tilt
  <1>3. [position |-> p, tilt |-> t] \in Wants
    BY QueueAssumption DEF Wants
  <1>4. intent' \in [Devices -> Wants] /\ \A e \in Devices \ {d} : intent'[e] = intent[e]
    BY <1>3 DEF EnqueueSetPositionAndTilt, QueueInv, QueueTypeInv
  <1>5. plain' = [plain EXCEPT ![d] = FALSE] /\ UNCHANGED presses
    BY DEF EnqueueSetPositionAndTilt
  <1> HIDE DEF op
  <1>6. QED
    BY <1>1, <1>2, <1>4, <1>5, NotPlainKeeps

LEMMA DeviceCommandKeeps ==
    ASSUME QueueInv, NEW d \in Devices, NEW cmd \in Commands, EnqueueDeviceCommand(d, cmd)
    PROVE  QueueInv'
  <1> DEFINE op == [Op("DEVICE_COMMAND", d, 0) EXCEPT !.command = cmd]
  <1>1. op \in QueuedOps /\ op.type \in DeviceControlTypes /\ op.id = d
    BY QueueAssumption DEF Op, QueuedOps, OpTypes, DeviceControlTypes
  <1>2. queue' = push_control(queue, op)
    BY DEF EnqueueDeviceCommand, enqueue_device_command
  <1>3. intent' \in [Devices -> Wants] /\ intent' = intent
    BY DEF EnqueueDeviceCommand, QueueInv, QueueTypeInv
  <1>4. plain' = [plain EXCEPT ![d] = FALSE] /\ UNCHANGED presses
    BY DEF EnqueueDeviceCommand
  <1> HIDE DEF op
  <1>5. QED
    BY <1>1, <1>2, <1>3, <1>4, NotPlainKeeps

\* Lights, locks, switches and polls are none of a cover's business.
LEMMA OthersKeep ==
    ASSUME QueueInv, KeepsOrder(queue, queue', {}), UNCHANGED <<presses, intent, plain>>
    PROVE  QueueInv'
  <1>1. UNCHANGED presses /\ intent' \in [Devices -> Wants] /\ plain' \in [Devices -> BOOLEAN]
    BY DEF QueueInv, QueueTypeInv
  <1>2. QED
    BY <1>1, InvKept

LEMMA SameQueue ==
    ASSUME QueueInv
    PROVE  KeepsOrder(queue, queue, {})
  BY DEF QueueInv, QueueTypeInv, KeepsOrder

LEMMA BinaryKeeps ==
    ASSUME QueueInv, NEW d \in Devices,
           \/ \E p \in Positions : EnqueueSetLightPosition(d, p)
           \/ \E b \in BOOLEAN : EnqueueSetLockState(d, b) \/ EnqueueSetSwitchState(d, b)
    PROVE  QueueInv'
  <1>1. PICK op \in QueuedOps :
            /\ op.type \in {"SET_LIGHT_STATE", "SET_LOCK_STATE", "SET_SWITCH_STATE"}
            /\ queue' = push_control(queue, op) /\ UNCHANGED <<presses, intent, plain>>
    <2>1. /\ \A type \in {"SET_LIGHT_STATE", "SET_LOCK_STATE", "SET_SWITCH_STATE"}, p \in 0..255 :
                 Op(type, d, p) \in QueuedOps /\ Op(type, d, p).type = type
          /\ \A p \in Positions : p \in 0..255
      BY QueueAssumption DEF Op, QueuedOps, OpTypes, DeviceControlTypes
    <2>2. CASE \E p \in Positions : EnqueueSetLightPosition(d, p)
      BY <2>1, <2>2 DEF EnqueueSetLightPosition, enqueue_set_light_position
    <2>3. CASE \E b \in BOOLEAN : EnqueueSetLockState(d, b)
      <3>1. PICK b \in BOOLEAN : EnqueueSetLockState(d, b)
        BY <2>3
      <3> DEFINE p == IF b THEN 100 ELSE 0
      <3>2. p \in 0..255
        OBVIOUS
      <3>3. queue' = push_control(queue, Op("SET_LOCK_STATE", d, p)) /\ UNCHANGED <<presses, intent, plain>>
        BY <3>1 DEF EnqueueSetLockState, enqueue_set_lock_state
      <3> HIDE DEF p
      <3>4. QED
        BY <2>1, <3>2, <3>3
    <2>4. CASE \E b \in BOOLEAN : EnqueueSetSwitchState(d, b)
      <3>1. PICK b \in BOOLEAN : EnqueueSetSwitchState(d, b)
        BY <2>4
      <3> DEFINE p == IF b THEN 0 ELSE 100
      <3>2. p \in 0..255
        OBVIOUS
      <3>3. queue' = push_control(queue, Op("SET_SWITCH_STATE", d, p)) /\ UNCHANGED <<presses, intent, plain>>
        BY <3>1 DEF EnqueueSetSwitchState, enqueue_set_switch_state
      <3> HIDE DEF p
      <3>4. QED
        BY <2>1, <3>2, <3>3
    <2>5. QED
      BY <2>2, <2>3, <2>4
  <1>2. op.type \in DeviceControlTypes /\ op.type \notin CoverTypes
    BY <1>1 DEF DeviceControlTypes, CoverTypes
  <1>3. KeepsOrder(queue, queue', {})
    BY <1>1, <1>2, ControlPushed DEF QueueInv, QueueTypeInv
  <1>4. QED
    BY <1>1, <1>3, OthersKeep

LEMMA PollKeeps ==
    ASSUME QueueInv, NEW d \in Devices, EnqueueRequestStatus(d) \/ EnqueueRequestName(d)
    PROVE  QueueInv'
  <1>1. \A type \in BackgroundTypes : Op(type, d, 0) \in QueuedOps /\ Op(type, d, 0).type = type
    BY QueueAssumption DEF Op, QueuedOps, OpTypes
  <1>2. /\ UNCHANGED <<presses, intent, plain>>
        /\ queue' = queue \/ \E type \in BackgroundTypes : queue' = Append(queue, Op(type, d, 0))
    BY DEF EnqueueRequestStatus, EnqueueRequestName, enqueue_request_status, enqueue_request_name, BackgroundTypes
  <1>3. KeepsOrder(queue, queue', {})
    <2>1. CASE queue' = queue
      BY <2>1, SameQueue
    <2>2. ASSUME NEW type \in BackgroundTypes, queue' = Append(queue, Op(type, d, 0))
          PROVE  KeepsOrder(queue, queue', {})
      BY <1>1, <2>2, PollAppended DEF QueueInv, QueueTypeInv
    <2>3. QED
      BY <1>2, <2>1, <2>2
  <1>4. QED
    BY <1>2, <1>3, OthersKeep

LEMMA DiscoverKeeps ==
    ASSUME QueueInv, EnqueueDiscoverAndPair
    PROVE  QueueInv'
  <1> DEFINE op == Op("DISCOVER_AND_PAIR", NoDevice, 0)
             r == Flushed(queue, op)
  <1>1. op \in QueuedOps /\ op.type = "DISCOVER_AND_PAIR"
    BY QueueAssumption DEF Op, QueuedOps, OpTypes
  <1>2. UNCHANGED <<presses, intent, plain>> /\ (queue' = queue \/ queue' = r)
    BY DEF EnqueueDiscoverAndPair, enqueue_discover_and_pair, Flushed, NotPolls
  <1> HIDE DEF op
  <1>3. KeepsOrder(queue, r, {})
    BY <1>1, PairingPushed DEF QueueInv, QueueTypeInv
  <1> HIDE DEF r
  <1>4. KeepsOrder(queue, queue', {})
    BY <1>2, <1>3, SameQueue
  <1>5. QED
    BY <1>2, <1>4, OthersKeep

LEMMA OnewayKeeps ==
    ASSUME QueueInv, NEW c \in Controllers, EnqueueOneway(c)
    PROVE  QueueInv'
  <1>1. PICK op \in QueuedOps :
            /\ IsOneway(op) /\ Pressed(op) \in Presses
            /\ queue' = push_control(queue, op) /\ presses' = Append(presses, Pressed(op))
            /\ UNCHANGED <<intent, plain>>
    <2>1. UNCHANGED <<intent, plain>>
      BY DEF EnqueueOneway
    <2>2. \A p \in Positions : p \in 0..255
      BY QueueAssumption
    <2>3. ASSUME NEW cmd \in Commands,
                 Press(enqueue_oneway_command(queue, c, cmd), <<"ONEWAY_COMMAND", c, cmd>>)
          PROVE  \E op \in QueuedOps : /\ IsOneway(op) /\ Pressed(op) \in Presses
                                       /\ queue' = push_control(queue, op) /\ presses' = Append(presses, Pressed(op))
      <3> DEFINE op == [Op("ONEWAY_COMMAND", c, 0) EXCEPT !.command = cmd]
      <3>1. op \in QueuedOps /\ IsOneway(op) /\ Pressed(op) = <<"ONEWAY_COMMAND", c, cmd>>
        BY QueueAssumption DEF Op, QueuedOps, OpTypes, IsOneway, OneWayTypes, Pressed
      <3>2. Pressed(op) \in Presses
        BY <3>1 DEF Presses, OneWayTypes
      <3>3. queue' = push_control(queue, op) /\ presses' = Append(presses, Pressed(op))
        BY <2>3, <3>1 DEF Press, enqueue_oneway_command
      <3> HIDE DEF op
      <3>4. QED
        BY <3>1, <3>2, <3>3
    <2>4. ASSUME NEW type \in {"ONEWAY_POSITION", "ONEWAY_ENROLL", "ONEWAY_UNENROLL"}, NEW p \in 0..255,
                 Press(push_control(queue, Op(type, c, p)), <<type, c, p>>)
          PROVE  \E op \in QueuedOps : /\ IsOneway(op) /\ Pressed(op) \in Presses
                                       /\ queue' = push_control(queue, op) /\ presses' = Append(presses, Pressed(op))
      <3> DEFINE op == Op(type, c, p)
      <3>1. op \in QueuedOps /\ IsOneway(op) /\ Pressed(op) = <<type, c, p>>
        BY QueueAssumption DEF Op, QueuedOps, OpTypes, IsOneway, OneWayTypes, Pressed
      <3>2. Pressed(op) \in Presses
        BY <3>1 DEF Presses, OneWayTypes
      <3>3. queue' = push_control(queue, op) /\ presses' = Append(presses, Pressed(op))
        BY <2>4, <3>1 DEF Press
      <3> HIDE DEF op
      <3>4. QED
        BY <3>1, <3>2, <3>3
    <2>5. CASE \E cmd \in Commands : Press(enqueue_oneway_command(queue, c, cmd), <<"ONEWAY_COMMAND", c, cmd>>)
      BY <2>1, <2>3, <2>5
    <2>6. CASE \E p \in Positions : Press(enqueue_oneway_position(queue, c, p), <<"ONEWAY_POSITION", c, p>>)
      BY <2>1, <2>2, <2>4, <2>6 DEF enqueue_oneway_position
    <2>7. CASE Press(enqueue_oneway_enroll(queue, c), <<"ONEWAY_ENROLL", c, 0>>)
      <3>1. Press(push_control(queue, Op("ONEWAY_ENROLL", c, 0)), <<"ONEWAY_ENROLL", c, 0>>) /\ 0 \in 0..255
        BY <2>7 DEF enqueue_oneway_enroll
      <3>2. QED
        BY <2>1, <2>4, <3>1
    <2>8. CASE Press(enqueue_oneway_unenroll(queue, c), <<"ONEWAY_UNENROLL", c, 0>>)
      <3>1. Press(push_control(queue, Op("ONEWAY_UNENROLL", c, 0)), <<"ONEWAY_UNENROLL", c, 0>>) /\ 0 \in 0..255
        BY <2>8 DEF enqueue_oneway_unenroll
      <3>2. QED
        BY <2>1, <2>4, <3>1
    <2>9. QED
      BY <2>5, <2>6, <2>7, <2>8 DEF EnqueueOneway
  <1>2. /\ queue' \in Seq(QueuedOps) /\ Banded(queue')
        /\ \A pr \in Seq(Presses) : \A at : Embeds(queue, pr, at) => \E to : Embeds(queue', Append(pr, Pressed(op)), to)
        /\ \A d, want : Covered(queue, d, want) => Covered(queue', d, want)
    BY <1>1, OnewayPushed DEF QueueInv, QueueTypeInv
  <1>3. presses' \in Seq(Presses)
    BY <1>1, AppendProperties DEF QueueInv, QueueTypeInv
  <1>4. QueueTypeInv'
    BY <1>1, <1>2, <1>3 DEF QueueInv, QueueTypeInv
  <1>5. PressesEmbedded'
    BY <1>1, <1>2 DEF QueueInv, QueueTypeInv, PressesEmbedded
  <1>6. CoversCoalesced'
    BY <1>1, <1>2 DEF QueueInv, CoversCoalesced
  <1>7. QED
    BY <1>2, <1>4, <1>5, <1>6 DEF QueueInv

LEMMA PopKeeps ==
    ASSUME QueueInv, Pop
    PROVE  QueueInv'
  <1>1. /\ queue # <<>> /\ queue' = Tail(queue) /\ UNCHANGED intent
        /\ presses' = IF IsOneway(Head(queue)) THEN Tail(presses) ELSE presses
        /\ plain' = [d \in Devices |-> plain[d] \/ Pending(queue', DeviceControlTypes, d) = {}]
    BY DEF Pop
  <1>2. /\ queue' \in Seq(QueuedOps) /\ Banded(queue')
        /\ \A d, want : Covered(queue, d, want) => Covered(queue', d, want)
    BY <1>1, HeadPopped DEF QueueInv, QueueTypeInv
  <1>3. PICK at : Embeds(queue, presses, at)
    BY DEF QueueInv, PressesEmbedded
  <1>4. IF IsOneway(Head(queue)) THEN presses # <<>> /\ \E to : Embeds(Tail(queue), Tail(presses), to)
                                 ELSE \E to : Embeds(Tail(queue), presses, to)
    BY <1>1, <1>3, PressesPopped DEF QueueInv, QueueTypeInv
  <1>5. PressesEmbedded'
    BY <1>1, <1>4 DEF PressesEmbedded
  <1>6. presses' \in Seq(Presses)
    BY <1>1, <1>4, HeadTailProperties DEF QueueInv, QueueTypeInv
  <1>7. plain' \in [Devices -> BOOLEAN] /\ \A d \in Devices : plain'[d] => plain[d] \/ Pending(queue', DeviceControlTypes, d) = {}
    BY <1>1 DEF QueueInv, QueueTypeInv
  <1>8. QueueTypeInv'
    BY <1>1, <1>2, <1>6, <1>7 DEF QueueInv, QueueTypeInv
  <1>9. CoversCoalesced'
    BY <1>1, <1>2, <1>7, NothingPending DEF QueueInv, CoversCoalesced
  <1>10. QED
    BY <1>2, <1>5, <1>8, <1>9 DEF QueueInv

-----------------------------------------------------------------------------
(* The theorems.                                                           *)

LEMMA InvInit == QueueInit => QueueInv
  <1> SUFFICES ASSUME QueueInit PROVE QueueInv
    OBVIOUS
  <1>1. queue = <<>> /\ presses = <<>> /\ DOMAIN queue = {} /\ DOMAIN presses = {}
    BY DEF QueueInit
  <1>2. QueueTypeInv
    <2>1. [position |-> 0, tilt |-> 0] \in Wants
      BY DEF Wants
    <2>2. queue \in Seq(QueuedOps) /\ presses \in Seq(Presses)
      BY <1>1
    <2>3. QED
      BY <2>1, <2>2 DEF QueueInit, QueueTypeInv
  <1>3. Banded(queue)
    BY <1>1 DEF Banded
  <1>4. PressesEmbedded
    <2> DEFINE at == [n \in {} |-> n]
    <2>1. Embeds(queue, presses, at)
      BY <1>1 DEF Embeds, OnewayAt
    <2>2. QED
      BY <2>1 DEF PressesEmbedded
  <1>5. CoversCoalesced
    BY <1>1, NothingPending DEF CoversCoalesced, Pending
  <1>6. QED
    BY <1>2, <1>3, <1>4, <1>5 DEF QueueInv

LEMMA InvNext == QueueInv /\ [QueueNext]_queueVars => QueueInv'
  <1> SUFFICES ASSUME QueueInv, [QueueNext]_queueVars PROVE QueueInv'
    OBVIOUS
  <1>1. ASSUME NEW d \in Devices, NEW p \in Positions, EnqueueSetPosition(d, p) PROVE QueueInv'
    BY <1>1, SetPositionKeeps
  <1>2. ASSUME NEW d \in Devices, NEW p \in Positions, EnqueueSetTilt(d, p) PROVE QueueInv'
    BY <1>2, SetTiltKeeps
  <1>3. ASSUME NEW d \in Devices, NEW p \in Positions, NEW t \in Positions, EnqueueSetPositionAndTilt(d, p, t)
        PROVE  QueueInv'
    BY <1>3, SetPositionAndTiltKeeps
  <1>4. ASSUME NEW d \in Devices,
               \/ \E p \in Positions : EnqueueSetLightPosition(d, p)
               \/ \E b \in BOOLEAN : EnqueueSetLockState(d, b) \/ EnqueueSetSwitchState(d, b)
        PROVE  QueueInv'
    BY <1>4, BinaryKeeps
  <1>5. ASSUME NEW d \in Devices, NEW cmd \in Commands, EnqueueDeviceCommand(d, cmd) PROVE QueueInv'
    BY <1>5, DeviceCommandKeeps
  <1>6. ASSUME NEW d \in Devices, EnqueueRequestStatus(d) \/ EnqueueRequestName(d) PROVE QueueInv'
    BY <1>6, PollKeeps
  <1>7. ASSUME NEW c \in Controllers, EnqueueOneway(c) PROVE QueueInv'
    BY <1>7, OnewayKeeps
  <1>8. CASE EnqueueDiscoverAndPair
    BY <1>8, DiscoverKeeps
  <1>9. CASE Pop
    BY <1>9, PopKeeps
  <1>10. CASE UNCHANGED queueVars
    <2>1. UNCHANGED <<presses, intent, plain>> /\ queue' = queue
      BY <1>10 DEF queueVars
    <2>2. QED
      BY <2>1, SameQueue, OthersKeep
  <1>11. QED
    BY <1>1, <1>2, <1>3, <1>4, <1>5, <1>6, <1>7, <1>8, <1>9, <1>10 DEF QueueNext

THEOREM QueueInvariance == QueueSpec => []QueueInv
  BY InvInit, InvNext, PTL DEF QueueSpec

(***************************************************************************)
(* DISCOVER_AND_PAIR is in front of the control operations, and they are   *)
(* in front of the polls, whatever is enqueued, merged, dropped or popped. *)
(***************************************************************************)
THEOREM BandsInOrder == QueueSpec => []BandOrder
  <1>1. QueueInv => BandOrder
    BY DEF QueueInv, Banded, BandOrder
  <1>2. QED
    BY <1>1, QueueInvariance, PTL

(***************************************************************************)
(* The 1W operations in the deque are the presses not yet sent, in the     *)
(* order they were made, each once.                                        *)
(***************************************************************************)
THEOREM NoPressLost == QueueSpec => []OnewayPressesKept
  <1>1. QueueInv => OnewayPressesKept
    BY EmbeddedPresses DEF QueueInv, QueueTypeInv, PressesEmbedded
  <1>2. QED
    BY <1>1, QueueInvariance, PTL

(***************************************************************************)
(* Coalescing does not change where a plain cover ends up.                 *)
(***************************************************************************)
THEOREM CoalescingKeepsIntent == QueueSpec => []LatestIntentWins
  <1>1. QueueInv => LatestIntentWins
    <2> SUFFICES ASSUME QueueInv, NEW d \in Devices, plain[d]
                 PROVE  /\ Positioning(queue, d) # {}
                             => queue[Last(Positioning(queue, d))].position = intent[d].position
                        /\ Tilting(queue, d) # {} => TiltOf(queue[Last(Tilting(queue, d))]) = intent[d].tilt
      BY DEF LatestIntentWins, Positioning, Tilting, TiltOf
    <2>1. queue \in Seq(QueuedOps) /\ Covered(queue, d, intent[d])
      BY DEF QueueInv, QueueTypeInv, CoversCoalesced
    <2>2. QED
      BY <2>1, CoveredEnds
  <1>2. QED
    BY <1>1, QueueInvariance, PTL

-----------------------------------------------------------------------------
(* Nothing is lost without a cause.                                        *)

ForDeviceOrOneway == DeviceControlTypes \cup OneWayTypes

\* Every control operation for d in q has one of its own in r.
EachHasItsOwn(q, r, d) ==
    \E f \in [Pending(q, ForDeviceOrOneway, d) -> Pending(r, ForDeviceOrOneway, d)] :
        \A i, j \in DOMAIN f : f[i] = f[j] => i = j

\* What is carried has its own.
LEMMA CarriedHasItsOwn ==
    ASSUME NEW S, NEW q \in Seq(S), NEW r \in Seq(S), NEW goes, NEW new, Carries(q, r, goes, new),
           NEW d, Pending(q, ForDeviceOrOneway, d) \subseteq DOMAIN goes
    PROVE  EachHasItsOwn(q, r, d)
  <1> DEFINE K == Pending(q, ForDeviceOrOneway, d)
             f == [i \in K |-> goes[i]]
  <1>1. K \subseteq DOMAIN goes
    OBVIOUS
  <1>2. \A i \in K : goes[i] \in Pending(r, ForDeviceOrOneway, d)
    BY DEF Carries, Pending
  <1>3. \A i, j \in K : goes[i] = goes[j] => i = j
    <2> SUFFICES ASSUME NEW i \in K, NEW j \in K, goes[i] = goes[j] PROVE i = j
      OBVIOUS
    <2>1. i \in Int /\ j \in Int /\ goes[i] \in Int /\ goes[j] \in Int
      BY <1>1, QueueIndices DEF Carries
    <2>2. ~(i < j) /\ ~(j < i)
      BY <1>1, <2>1 DEF Carries
    <2>3. QED
      BY <2>1, <2>2
  <1> HIDE DEF K
  <1>4. f \in [K -> Pending(r, ForDeviceOrOneway, d)] /\ \A i, j \in DOMAIN f : f[i] = f[j] => i = j
    BY <1>2, <1>3
  <1>5. QED
    BY <1>4 DEF EachHasItsOwn, K

\* Entries that stay where they are, of the same kind and for the same device, have their own.
LEMMA StayingHasItsOwn ==
    ASSUME NEW q, NEW r, NEW d, Pending(q, ForDeviceOrOneway, d) \subseteq Pending(r, ForDeviceOrOneway, d)
    PROVE  EachHasItsOwn(q, r, d)
  <1> DEFINE f == [i \in Pending(q, ForDeviceOrOneway, d) |-> i]
  <1>1. /\ f \in [Pending(q, ForDeviceOrOneway, d) -> Pending(r, ForDeviceOrOneway, d)]
        /\ \A i, j \in DOMAIN f : f[i] = f[j] => i = j
    OBVIOUS
  <1>2. QED
    BY <1>1 DEF EachHasItsOwn

\* A control operation drops the status poll of its device, if it addresses one, and nothing else.
LEMMA PushLoses ==
    ASSUME NEW S, NEW q \in Seq(S), NEW op \in S
    PROVE  /\ \A d : HasStatus(q, d) /\ ~(addresses_a_device(op) /\ op.id = d) => HasStatus(push_control(q, op), d)
           /\ \A d : EachHasItsOwn(q, push_control(q, op), d)
  <1> DEFINE r == push_control(q, op)
  <1>1. r \in Seq(S) /\ \E goes, before : Pushed(q, r, op, goes, before)
    BY PushCarries
  <1> HIDE DEF r
  <1>2. PICK goes, before : Pushed(q, r, op, goes, before)
    BY <1>1
  <1>3. /\ Carries(q, r, goes, {before})
        /\ DOMAIN goes = {i \in DOMAIN q : addresses_a_device(op) => ~IsStatusOf(q[i], op.id)}
    BY <1>2 DEF Pushed
  <1>4. ASSUME NEW d, HasStatus(q, d), ~(addresses_a_device(op) /\ op.id = d) PROVE HasStatus(r, d)
    <2>1. PICK i \in DOMAIN q : q[i].type = "REQUEST_STATUS" /\ q[i].id = d
      BY <1>4 DEF HasStatus, Pending
    <2>2. i \in DOMAIN goes
      BY <1>3, <1>4, <2>1 DEF IsStatusOf
    <2>3. goes[i] \in DOMAIN r /\ r[goes[i]] = q[i]
      BY <1>3, <2>2 DEF Carries
    <2>4. QED
      BY <2>1, <2>3 DEF HasStatus, Pending
  <1>5. ASSUME NEW d PROVE EachHasItsOwn(q, r, d)
    <2>1. Pending(q, ForDeviceOrOneway, d) \subseteq DOMAIN goes
      BY <1>3 DEF Pending, ForDeviceOrOneway, DeviceControlTypes, OneWayTypes, IsStatusOf
    <2>2. QED
      BY <1>1, <1>3, <2>1, CarriedHasItsOwn
  <1>6. QED
    BY <1>4, <1>5 DEF r

\* A merge drops nothing.
LEMMA MergeLoses ==
    ASSUME NEW q, NEW r, NEW i, Merged(q, r, i)
    PROVE  /\ \A d : HasStatus(q, d) => HasStatus(r, d)
           /\ \A d : EachHasItsOwn(q, r, d)
  <1>1. ASSUME NEW d, HasStatus(q, d) PROVE HasStatus(r, d)
    BY <1>1 DEF HasStatus, Pending, Merged
  <1>2. ASSUME NEW d PROVE EachHasItsOwn(q, r, d)
    <2>1. Pending(q, ForDeviceOrOneway, d) \subseteq Pending(r, ForDeviceOrOneway, d)
      BY DEF Pending, Merged, ForDeviceOrOneway, DeviceControlTypes
    <2>2. QED
      BY <2>1, StayingHasItsOwn
  <1>3. QED
    BY <1>1, <1>2

\* An operation of a control kind for device d loses at most the poll of d.
LEMMA ControlLoses ==
    ASSUME QueueInv, NEW d \in Devices, ControlFor(d)
    PROVE  /\ \A e \in Devices \ {d} : HasStatus(queue, e) => HasStatus(queue', e)
           /\ \A e : EachHasItsOwn(queue, queue', e)
  <1>1. queue \in Seq(QueuedOps) /\ "STOP" \in Commands /\ \A p \in Positions : p \in 0..255
    BY QueueAssumption DEF QueueInv, QueueTypeInv
  <1>2. (\E i : Merged(queue, queue', i)) \/ \E op \in QueuedOps : op.id = d /\ queue' = push_control(queue, op)
    <2>1. \A type \in DeviceControlTypes, p \in 0..255 : Op(type, d, p) \in QueuedOps /\ Op(type, d, p).id = d
      BY <1>1 DEF Op, QueuedOps, OpTypes
    <2>2. ASSUME NEW p \in Positions, EnqueueSetPosition(d, p)
          PROVE  (\E i : Merged(queue, queue', i)) \/ queue' = push_control(queue, Op("SET_POSITION", d, p))
      <3>1. queue' = enqueue_set_position(queue, d, p)
        BY <2>2 DEF EnqueueSetPosition
      <3>2. CASE Pending(queue, {"SET_TILT"}, d) = {}
        BY <3>1, <3>2 DEF enqueue_set_position
      <3>3. CASE Pending(queue, {"SET_TILT"}, d) # {}
        BY <1>1, <3>1, <3>3, PositionOntoTilt
      <3>4. QED
        BY <3>2, <3>3
    <2>3. ASSUME NEW p \in Positions, EnqueueSetTilt(d, p)
          PROVE  (\E i : Merged(queue, queue', i)) \/ queue' = push_control(queue, Op("SET_TILT", d, p))
      <3>1. queue' = enqueue_set_tilt(queue, d, p)
        BY <2>3 DEF EnqueueSetTilt
      <3>2. CASE Pending(queue, {"SET_POSITION"}, d) = {}
        BY <3>1, <3>2 DEF enqueue_set_tilt
      <3>3. CASE Pending(queue, {"SET_POSITION"}, d) # {}
        BY <1>1, <3>1, <3>3, TiltOntoPosition
      <3>4. QED
        BY <3>2, <3>3
    <2>4. ASSUME NEW p \in Positions, NEW t \in Positions, EnqueueSetPositionAndTilt(d, p, t)
          PROVE  \E op \in QueuedOps : op.id = d /\ queue' = push_control(queue, op)
      <3> DEFINE op == [Op("SET_POSITION_AND_TILT", d, p) EXCEPT !.tilt = t]
      <3>1. op \in QueuedOps /\ op.id = d
        BY <1>1 DEF Op, QueuedOps, OpTypes, DeviceControlTypes
      <3>2. queue' = push_control(queue, op)
        BY <2>4 DEF EnqueueSetPositionAndTilt, enqueue_set_position_and_tilt
      <3> HIDE DEF op
      <3>3. QED
        BY <3>1, <3>2
    <2>5. ASSUME NEW cmd \in Commands, EnqueueDeviceCommand(d, cmd)
          PROVE  \E op \in QueuedOps : op.id = d /\ queue' = push_control(queue, op)
      <3> DEFINE op == [Op("DEVICE_COMMAND", d, 0) EXCEPT !.command = cmd]
      <3>1. op \in QueuedOps /\ op.id = d
        BY <1>1 DEF Op, QueuedOps, OpTypes, DeviceControlTypes
      <3>2. queue' = push_control(queue, op)
        BY <2>5 DEF EnqueueDeviceCommand, enqueue_device_command
      <3> HIDE DEF op
      <3>3. QED
        BY <3>1, <3>2
    <2>6. ASSUME NEW p \in Positions, EnqueueSetLightPosition(d, p)
          PROVE  queue' = push_control(queue, Op("SET_LIGHT_STATE", d, p))
      BY <2>6 DEF EnqueueSetLightPosition, enqueue_set_light_position
    <2>7. ASSUME NEW b \in BOOLEAN, EnqueueSetLockState(d, b)
          PROVE  \E p \in 0..255 : queue' = push_control(queue, Op("SET_LOCK_STATE", d, p))
      <3>1. (IF b THEN 100 ELSE 0) \in 0..255
        OBVIOUS
      <3>2. QED
        BY <2>7, <3>1 DEF EnqueueSetLockState, enqueue_set_lock_state
    <2>8. ASSUME NEW b \in BOOLEAN, EnqueueSetSwitchState(d, b)
          PROVE  \E p \in 0..255 : queue' = push_control(queue, Op("SET_SWITCH_STATE", d, p))
      <3>1. (IF b THEN 0 ELSE 100) \in 0..255
        OBVIOUS
      <3>2. QED
        BY <2>8, <3>1 DEF EnqueueSetSwitchState, enqueue_set_switch_state
    <2>9. {"SET_POSITION", "SET_TILT", "SET_LIGHT_STATE", "SET_LOCK_STATE", "SET_SWITCH_STATE"} \subseteq DeviceControlTypes
      BY DEF DeviceControlTypes
    <2>10. CASE \E p \in Positions : EnqueueSetPosition(d, p)
      BY <1>1, <2>1, <2>2, <2>9, <2>10
    <2>11. CASE \E p \in Positions : EnqueueSetTilt(d, p)
      BY <1>1, <2>1, <2>3, <2>9, <2>11
    <2>12. CASE \E p \in Positions : EnqueueSetLightPosition(d, p)
      BY <1>1, <2>1, <2>6, <2>9, <2>12
    <2>13. CASE \E b \in BOOLEAN : EnqueueSetLockState(d, b)
      BY <2>1, <2>7, <2>9, <2>13
    <2>14. CASE \E b \in BOOLEAN : EnqueueSetSwitchState(d, b)
      BY <2>1, <2>8, <2>9, <2>14
    <2>15. QED
      BY <2>4, <2>5, <2>10, <2>11, <2>12, <2>13, <2>14 DEF ControlFor
  <1>3. CASE \E i : Merged(queue, queue', i)
    BY <1>3, MergeLoses
  <1>4. ASSUME NEW op \in QueuedOps, op.id = d, queue' = push_control(queue, op)
        PROVE  /\ \A e \in Devices \ {d} : HasStatus(queue, e) => HasStatus(queue', e)
               /\ \A e : EachHasItsOwn(queue, queue', e)
    BY <1>1, <1>4, PushLoses
  <1>5. QED
    BY <1>2, <1>3, <1>4

\* A 1W press loses nothing, not even the poll of a device with the same number.
LEMMA OnewayLoses ==
    ASSUME QueueInv, NEW c \in Controllers, EnqueueOneway(c)
    PROVE  /\ \A e \in Devices : HasStatus(queue, e) => HasStatus(queue', e)
           /\ \A e : EachHasItsOwn(queue, queue', e)
  <1>1. PICK op \in QueuedOps : IsOneway(op) /\ queue' = push_control(queue, op)
    <2>1. "STOP" \in Commands /\ \A p \in Positions : p \in 0..255
      BY QueueAssumption
    <2>2. \A type \in OneWayTypes, p \in 0..255 : Op(type, c, p) \in QueuedOps /\ IsOneway(Op(type, c, p))
      BY <2>1 DEF Op, QueuedOps, OpTypes, IsOneway
    <2>3. ASSUME NEW cmd \in Commands, queue' = enqueue_oneway_command(queue, c, cmd)
          PROVE  \E op \in QueuedOps : IsOneway(op) /\ queue' = push_control(queue, op)
      <3> DEFINE op == [Op("ONEWAY_COMMAND", c, 0) EXCEPT !.command = cmd]
      <3>1. op \in QueuedOps /\ IsOneway(op)
        BY <2>1 DEF Op, QueuedOps, OpTypes, IsOneway, OneWayTypes
      <3>2. queue' = push_control(queue, op)
        BY <2>3 DEF enqueue_oneway_command
      <3> HIDE DEF op
      <3>3. QED
        BY <3>1, <3>2
    <2>4. {"ONEWAY_POSITION", "ONEWAY_ENROLL", "ONEWAY_UNENROLL"} \subseteq OneWayTypes /\ 0 \in 0..255
      BY DEF OneWayTypes
    <2>5. \/ \E cmd \in Commands : queue' = enqueue_oneway_command(queue, c, cmd)
          \/ \E p \in Positions : queue' = push_control(queue, Op("ONEWAY_POSITION", c, p))
          \/ queue' = push_control(queue, Op("ONEWAY_ENROLL", c, 0))
          \/ queue' = push_control(queue, Op("ONEWAY_UNENROLL", c, 0))
      BY DEF EnqueueOneway, Press, enqueue_oneway_position, enqueue_oneway_enroll, enqueue_oneway_unenroll
    <2>6. QED
      BY <2>1, <2>2, <2>3, <2>4, <2>5
  <1>2. ~addresses_a_device(op)
    BY <1>1 DEF addresses_a_device
  <1>3. QED
    BY <1>1, <1>2, PushLoses DEF QueueInv, QueueTypeInv

\* A poll is added behind all there is.
LEMMA PollLoses ==
    ASSUME QueueInv, NEW d \in Devices, EnqueueRequestStatus(d) \/ EnqueueRequestName(d)
    PROVE  /\ \A e \in Devices : HasStatus(queue, e) => HasStatus(queue', e)
           /\ \A e : EachHasItsOwn(queue, queue', e)
  <1>1. queue' = queue \/ \E op \in QueuedOps : queue' = Append(queue, op)
    <2>1. \A type \in BackgroundTypes : Op(type, d, 0) \in QueuedOps
      BY QueueAssumption DEF Op, QueuedOps, OpTypes
    <2>2. queue' = queue \/ \E type \in BackgroundTypes : queue' = Append(queue, Op(type, d, 0))
      BY DEF EnqueueRequestStatus, EnqueueRequestName, enqueue_request_status, enqueue_request_name, BackgroundTypes
    <2>3. QED
      BY <2>1, <2>2
  <1>2. \A i \in DOMAIN queue : i \in DOMAIN queue' /\ queue'[i] = queue[i]
    <2>1. queue \in Seq(QueuedOps)
      BY DEF QueueInv, QueueTypeInv
    <2>2. ASSUME NEW op \in QueuedOps, queue' = Append(queue, op)
          PROVE  \A i \in DOMAIN queue : i \in DOMAIN queue' /\ queue'[i] = queue[i]
      <3>1. Len(queue) \in Nat /\ DOMAIN queue = 1..Len(queue)
        BY <2>1, QueueIndices
      <3>2. Append(queue, op) \in Seq(QueuedOps) /\ Len(Append(queue, op)) = Len(queue) + 1
            /\ \A i \in 1..Len(queue) : Append(queue, op)[i] = queue[i]
        BY <2>1, AppendProperties
      <3>3. DOMAIN Append(queue, op) = 1..Len(queue) + 1
        BY <3>2, QueueIndices
      <3>4. QED
        BY <2>2, <3>1, <3>2, <3>3
    <2>3. QED
      BY <1>1, <2>2
  <1>3. \A types, e : Pending(queue, types, e) \subseteq Pending(queue', types, e)
    BY <1>2 DEF Pending
  <1>4. \A e \in Devices : HasStatus(queue, e) => HasStatus(queue', e)
    BY <1>3 DEF HasStatus
  <1>5. \A e : EachHasItsOwn(queue, queue', e)
    BY <1>3, StayingHasItsOwn
  <1>6. QED
    BY <1>4, <1>5

\* Pairing drops polls only.
LEMMA DiscoverLoses ==
    ASSUME QueueInv, EnqueueDiscoverAndPair
    PROVE  \A e : EachHasItsOwn(queue, queue', e)
  <1> DEFINE op == Op("DISCOVER_AND_PAIR", NoDevice, 0)
             fg == NotPolls(queue)
             r == Flushed(queue, op)
  <1>1. op \in QueuedOps
    BY QueueAssumption DEF Op, QueuedOps, OpTypes
  <1>2. queue' = queue \/ queue' = r
    BY DEF EnqueueDiscoverAndPair, enqueue_discover_and_pair, Flushed, NotPolls
  <1>3. queue \in Seq(QueuedOps)
    BY DEF QueueInv, QueueTypeInv
  <1> HIDE DEF op
  <1>4. /\ r \in Seq(QueuedOps) /\ 1 \in DOMAIN r /\ r[1] = op
        /\ \E goes : Carries(queue, r, goes, {1}) /\ DOMAIN goes = fg
    BY <1>1, <1>3, DiscoverCarries
  <1> HIDE DEF r
  <1>5. PICK goes : Carries(queue, r, goes, {1}) /\ DOMAIN goes = fg
    BY <1>4
  <1>6. \A e : Pending(queue, ForDeviceOrOneway, e) \subseteq fg
    BY DEF NotPolls, Pending, ForDeviceOrOneway, DeviceControlTypes, OneWayTypes, is_background_op, BackgroundTypes
  <1> HIDE DEF fg
  <1>7. \A e : EachHasItsOwn(queue, r, e)
    BY <1>3, <1>4, <1>5, <1>6, CarriedHasItsOwn
  <1>8. \A e : EachHasItsOwn(queue, queue, e)
    BY StayingHasItsOwn
  <1>9. QED
    BY <1>2, <1>7, <1>8

\* What NothingLostWithoutCause says of a step.
LosesNothing ==
    /\ \A d \in Devices : HasStatus(queue, d) /\ ~HasStatus(queue', d)
         => Pop \/ EnqueueDiscoverAndPair \/ ControlFor(d)
    /\ Pop \/ \A d \in Devices \cup Controllers :
         \E f \in [Pending(queue, DeviceControlTypes \cup OneWayTypes, d) ->
                   Pending(queue', DeviceControlTypes \cup OneWayTypes, d)] :
             \A i, j \in DOMAIN f : f[i] = f[j] => i = j

(***************************************************************************)
(* A status poll goes by being popped, by pairing or by an operation for   *)
(* its own device; every step but Pop keeps each device's and each 1W      *)
(* identity's control operations, at most merged.                          *)
(***************************************************************************)
THEOREM NothingIsLost == QueueSpec => NothingLostWithoutCause
  <1>1. QueueInv /\ [QueueNext]_queueVars => [LosesNothing]_queueVars
    <2> SUFFICES ASSUME QueueInv, QueueNext PROVE LosesNothing
      OBVIOUS
    <2>1. (\A d \in Devices \cup Controllers : EachHasItsOwn(queue, queue', d)) =>
             \A d \in Devices \cup Controllers :
                \E f \in [Pending(queue, DeviceControlTypes \cup OneWayTypes, d) ->
                          Pending(queue', DeviceControlTypes \cup OneWayTypes, d)] :
                    \A i, j \in DOMAIN f : f[i] = f[j] => i = j
      BY DEF EachHasItsOwn, ForDeviceOrOneway
    <2>2. CASE Pop
      BY <2>2 DEF LosesNothing
    <2>3. CASE EnqueueDiscoverAndPair
      BY <2>1, <2>3, DiscoverLoses DEF LosesNothing
    <2>4. ASSUME NEW d \in Devices, ControlFor(d) PROVE LosesNothing
      <3>1. \A e \in Devices \ {d} : HasStatus(queue, e) => HasStatus(queue', e)
        BY <2>4, ControlLoses
      <3>2. \A e : EachHasItsOwn(queue, queue', e)
        BY <2>4, ControlLoses
      <3>3. QED
        BY <2>1, <2>4, <3>1, <3>2 DEF LosesNothing
    <2>5. ASSUME \A e \in Devices : HasStatus(queue, e) => HasStatus(queue', e),
                 \A e : EachHasItsOwn(queue, queue', e)
          PROVE LosesNothing
      BY <2>1, <2>5 DEF LosesNothing
    <2>6. ASSUME NEW d \in Devices, EnqueueRequestStatus(d) \/ EnqueueRequestName(d) PROVE LosesNothing
      BY <2>5, <2>6, PollLoses
    <2>7. ASSUME NEW c \in Controllers, EnqueueOneway(c) PROVE LosesNothing
      BY <2>5, <2>7, OnewayLoses
    <2>8. \/ \E d \in Devices : ControlFor(d) \/ EnqueueRequestStatus(d) \/ EnqueueRequestName(d)
          \/ \E c \in Controllers : EnqueueOneway(c)
          \/ EnqueueDiscoverAndPair
          \/ Pop
      BY DEF QueueNext, ControlFor
    <2>9. QED
      BY <2>2, <2>3, <2>4, <2>6, <2>7, <2>8
  <1>2. QED
    BY <1>1, QueueInvariance, PTL DEF QueueSpec, NothingLostWithoutCause, LosesNothing
=============================================================================
