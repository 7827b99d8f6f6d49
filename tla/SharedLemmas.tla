---------------------------- MODULE SharedLemmas ----------------------------
(***************************************************************************)
(* What the proofs about several components cite: the minimum of a set of  *)
(* numbers and the induction it allows, FlattenSeq one part at a time, and *)
(* what Lock and Unlock do to a mutex that agrees with its callers.        *)
(***************************************************************************)
EXTENDS Mutex, SequencesExt, SequenceTheorems, WellFoundedInduction, TLAPS

\* A set of natural numbers has a least element.
LEMMA LeastNumber ==
  ASSUME NEW S \in SUBSET Nat, S # {}
  PROVE  \E m \in S : \A k \in S : m <= k
<1>1. IsWellFoundedOn(OpToRel(<, Nat), Nat)
  BY NatLessThanWellFounded
<1>2. PICK m \in S : \A k \in S : <<k, m>> \notin OpToRel(<, Nat)
  BY <1>1, WFMin
<1>3. \A k \in S : k < m => <<k, m>> \in OpToRel(<, Nat)
  BY DEF OpToRel
<1>4. \A k \in S : ~(k < m)
  BY <1>2, <1>3, Zenon
<1> QED BY <1>4

\* Induction, stated of the set of the numbers up to n that a formula holds for.
LEMMA InductionUpTo ==
  ASSUME NEW n \in Nat, NEW S, 0 \in S, \A i \in 1..n : i - 1 \in S => i \in S
  PROVE  0..n \subseteq S
<1> SUFFICES ASSUME (0..n) \ S # {} PROVE FALSE
  OBVIOUS
<1>1. PICK m \in (0..n) \ S : \A k \in (0..n) \ S : m <= k
  <2>1. (0..n) \ S \in SUBSET Nat
    OBVIOUS
  <2> QED BY <2>1, LeastNumber
<1>2. m \in 1..n /\ m - 1 \in S
  BY <1>1
<1> QED BY <1>1, <1>2

\* A function on 1..n is a sequence of length n.
LEMMA SequenceOfLength ==
  ASSUME NEW n \in Nat, NEW S, NEW s \in [1..n -> S]
  PROVE  s \in Seq(S) /\ Len(s) = n
<1>1. s \in Seq(S)
  BY SeqDef
<1>2. DOMAIN s = 1..n /\ DOMAIN s = 1..Len(s) /\ Len(s) \in Nat
  BY <1>1, LenProperties
<1> QED BY <1>1, <1>2

\* Three sequences may be joined in either order.  The provers do not unfold the
\* equation by themselves, and so can apply the lemma to any three of them.
Associates(s, t, u) == (s \o t) \o u = s \o (t \o u)

\* Concatenation can be regrouped.
LEMMA Regrouped ==
  ASSUME NEW S, NEW s \in Seq(S), NEW t \in Seq(S), NEW u \in Seq(S)
  PROVE  Associates(s, t, u)
BY ConcatAssociative DEF Associates
-----------------------------------------------------------------------------
\* The sequences to which the first parts of a are joined.
Joins(f, a, n, S) ==
    /\ f \in [1..n -> Seq(S)]
    /\ \A i \in 1..n : f[i] = IF i = 1 THEN a[i] ELSE f[i - 1] \o a[i]

\* FlattenSeq goes through the parts one by one.
LEMMA FlattenSolves ==
  ASSUME NEW S, NEW n \in Nat \ {0}, NEW a \in [1..n -> Seq(S)]
  PROVE  \E f : Joins(f, a, n, S) /\ FlattenSeq(a) = f[n]
<1> DEFINE Solves(f, m) == \A i \in 1..m : f[i] = IF i = 1 THEN a[i] ELSE f[i - 1] \o a[i]
           T == {0} \cup {m \in 1..n : \E f \in [1..m -> Seq(S)] : Solves(f, m)}
<1>1. ASSUME NEW m \in 1..n, m - 1 \in T
      PROVE  m \in T
  <2>1. CASE m = 1
    <3> DEFINE f == [i \in 1..1 |-> a[i]]
    <3>1. f \in [1..m -> Seq(S)] /\ Solves(f, m)
      BY <2>1
    <3> QED BY <3>1
  <2>2. CASE m # 1
    <3>1. PICK f \in [1..(m - 1) -> Seq(S)] : Solves(f, m - 1)
      BY <1>1, <2>2
    <3> DEFINE e == [i \in 1..m |-> IF i < m THEN f[i] ELSE f[m - 1] \o a[m]]
    <3>2. f[m - 1] \o a[m] \in Seq(S)
      BY <2>2, ConcatProperties
    <3>3. \A i \in 1..m : i < m => i \in 1..(m - 1) /\ f[i] \in Seq(S)
      OBVIOUS
    <3>4. e \in [1..m -> Seq(S)]
      BY <3>2, <3>3
    <3>5. Solves(e, m)
      <4> SUFFICES ASSUME NEW i \in 1..m
                   PROVE  e[i] = IF i = 1 THEN a[i] ELSE e[i - 1] \o a[i]
        OBVIOUS
      <4>1. CASE i < m
        <5>1. i \in 1..(m - 1) /\ e[i] = f[i] /\ (i # 1 => e[i - 1] = f[i - 1])
          BY <4>1
        <5> QED BY <3>1, <5>1
      <4>2. CASE i = m
        <5>1. e[m] = f[m - 1] \o a[m] /\ e[m - 1] = f[m - 1]
          BY <2>2
        <5> QED BY <2>2, <4>2, <5>1
      <4> QED BY <4>1, <4>2
    <3> HIDE DEF e, Solves
    <3> QED BY <3>4, <3>5
  <2> QED BY <2>1, <2>2
<1>2. n \in T
  <2> HIDE DEF T
  <2>1. 0 \in T
    BY DEF T
  <2>2. 0..n \subseteq T
    BY <1>1, <2>1, InductionUpTo
  <2> QED BY <2>2
<1>3. PICK h \in [1..n -> Seq(S)] : Solves(h, n)
  BY <1>2
<1> DEFINE F == CHOOSE f : f = [i \in 1..n |-> IF i = 1 THEN a[i] ELSE f[i - 1] \o a[i]]
<1>4. h = [i \in 1..n |-> IF i = 1 THEN a[i] ELSE h[i - 1] \o a[i]]
  BY <1>3
<1>5. F = [i \in 1..n |-> IF i = 1 THEN a[i] ELSE F[i - 1] \o a[i]]
  BY <1>4
<1>6. FlattenSeq(a) = F[n]
  <2>1. Len(a) = n /\ Len(a) # 0
    BY SequenceOfLength
  <2> QED BY <2>1 DEF FlattenSeq
<1> HIDE DEF F
<1>7. \A i \in 1..n : F[i] = h[i]
  <2> DEFINE E == {0} \cup {i \in 1..n : F[i] = h[i]}
  <2>1. ASSUME NEW i \in 1..n, i - 1 \in E
        PROVE  i \in E
    <3>1. /\ F[i] = IF i = 1 THEN a[i] ELSE F[i - 1] \o a[i]
          /\ h[i] = IF i = 1 THEN a[i] ELSE h[i - 1] \o a[i]
      BY <1>4, <1>5
    <3>2. i = 1 \/ F[i - 1] = h[i - 1]
      BY <2>1
    <3> QED BY <3>1, <3>2
  <2>2. 0 \in E
    OBVIOUS
  <2> HIDE DEF E
  <2>3. 0..n \subseteq E
    BY <2>1, <2>2, InductionUpTo
  <2> QED BY <2>3 DEF E
<1>8. Joins(h, a, n, S)
  BY <1>3 DEF Joins
<1> QED BY <1>6, <1>7, <1>8

\* A sequence with one more part is flattened to that of the others, followed by it.
LEMMA FlattenStep ==
  ASSUME NEW S, NEW n \in Nat, NEW a \in [1..n -> Seq(S)], NEW b \in [1..(n + 1) -> Seq(S)],
         \A i \in 1..n : b[i] = a[i]
  PROVE  /\ FlattenSeq(b) = FlattenSeq(a) \o b[n + 1]
         /\ FlattenSeq(a) \in Seq(S)
<1>1. PICK e : Joins(e, b, n + 1, S) /\ FlattenSeq(b) = e[n + 1]
  <2>1. n + 1 \in Nat \ {0}
    OBVIOUS
  <2> QED BY <2>1, FlattenSolves
<1> USE DEF Joins
<1>2. CASE n = 0
  <2>1. Len(a) = 0 /\ a \in Seq(Seq(S))
    BY <1>2, SequenceOfLength
  <2>2. FlattenSeq(a) = <<>>
    BY <2>1, EmptySeq DEF FlattenSeq
  <2>3. FlattenSeq(b) = b[1] /\ b[1] \in Seq(S)
    BY <1>1, <1>2
  <2> QED BY <1>2, <2>2, <2>3, ConcatEmptySeq, EmptySeq
<1>3. CASE n # 0
  <2>1. PICK f : Joins(f, a, n, S) /\ FlattenSeq(a) = f[n]
    <3>1. n \in Nat \ {0}
      BY <1>3
    <3> HIDE DEF Joins
    <3> QED BY <3>1, FlattenSolves
  <2> DEFINE E == {0} \cup {i \in 1..n : f[i] = e[i]}
  <2>2. ASSUME NEW i \in 1..n, i - 1 \in E
        PROVE  i \in E
    <3>1. /\ f[i] = IF i = 1 THEN a[i] ELSE f[i - 1] \o a[i]
          /\ e[i] = IF i = 1 THEN b[i] ELSE e[i - 1] \o b[i]
          /\ a[i] = b[i]
      <4>1. i \in 1..(n + 1)
        OBVIOUS
      <4>2. e[i] = IF i = 1 THEN b[i] ELSE e[i - 1] \o b[i]
        BY <1>1, <4>1
      <4>3. f[i] = IF i = 1 THEN a[i] ELSE f[i - 1] \o a[i]
        BY <2>1
      <4> QED BY <4>2, <4>3
    <3>2. i = 1 \/ f[i - 1] = e[i - 1]
      BY <2>2
    <3> QED BY <3>1, <3>2
  <2>3. 0 \in E
    OBVIOUS
  <2> HIDE DEF E
  <2>4. 0..n \subseteq E
    BY <2>2, <2>3, InductionUpTo
  <2>5. f[n] = e[n]
    BY <1>3, <2>4 DEF E
  <2>6. e[n + 1] = e[n] \o b[n + 1]
    <3>1. e[n + 1] = IF n + 1 = 1 THEN b[n + 1] ELSE e[(n + 1) - 1] \o b[n + 1]
      <4>1. n + 1 \in 1..(n + 1)
        OBVIOUS
      <4> QED BY <1>1, <4>1
    <3>2. (n + 1) - 1 = n /\ n + 1 # 1
      BY <1>3
    <3> QED BY <3>1, <3>2
  <2>7. f[n] \in Seq(S)
    BY <1>3, <2>1
  <2> QED BY <1>1, <2>1, <2>5, <2>6, <2>7
<1> QED BY <1>2, <1>3
-----------------------------------------------------------------------------
\* Locking a free mutex makes the caller its only owner.
LEMMA LockFree ==
  ASSUME NEW S, NEW m \in [locked : BOOLEAN, waiters : Seq(S)],
         NEW owners, NEW sleeping, Consistent(m, owners, sleeping),
         NEW c \in S, ~m.locked
  PROVE  /\ Lock(m, c) \in [locked : BOOLEAN, waiters : Seq(S)]
         /\ Lock(m, c).waiters = m.waiters
         /\ owners = {} /\ sleeping = {} /\ m.waiters = <<>>
         /\ Consistent(Lock(m, c), {c}, sleeping)
<1>1. Lock(m, c) = [m EXCEPT !.locked = TRUE]
  BY DEF Lock
<1>2. /\ Lock(m, c) \in [locked : BOOLEAN, waiters : Seq(S)]
      /\ Lock(m, c).locked
      /\ Lock(m, c).waiters = m.waiters
  BY <1>1
<1>3. owners = {} /\ m.waiters = <<>>
  BY DEF Consistent
<1>4. sleeping = {}
  <2>1. sleeping = {m.waiters[i] : i \in 1..Len(m.waiters)} /\ Len(m.waiters) = 0
    BY <1>3 DEF Consistent
  <2> QED BY <2>1
<1> QED BY <1>2, <1>3, <1>4 DEF Consistent

\* Locking a mutex that is taken puts the caller at the end of its queue.
LEMMA LockTaken ==
  ASSUME NEW S, NEW m \in [locked : BOOLEAN, waiters : Seq(S)],
         NEW owners, NEW sleeping, Consistent(m, owners, sleeping),
         NEW c \in S, c \notin sleeping, m.locked
  PROVE  /\ Lock(m, c) \in [locked : BOOLEAN, waiters : Seq(S)]
         /\ Lock(m, c).waiters = Append(m.waiters, c)
         /\ Consistent(Lock(m, c), owners, sleeping \cup {c})
<1> DEFINE n == Lock(m, c)
           w == m.waiters
<1>1. n = [m EXCEPT !.waiters = Append(w, c)]
  BY DEF Lock
<1>2. /\ n \in [locked : BOOLEAN, waiters : Seq(S)]
      /\ n.locked
      /\ n.waiters = Append(w, c)
      /\ Len(w) \in Nat
      /\ Len(n.waiters) = Len(w) + 1
      /\ n.waiters[Len(w) + 1] = c
      /\ \A i \in 1..Len(w) : n.waiters[i] = w[i]
  <2>1. w \in Seq(S) /\ n.waiters = Append(w, c) /\ n.locked = m.locked
    BY <1>1
  <2>2. Append(w, c) \in Seq(S)
    BY <2>1
  <2>3. n \in [locked : BOOLEAN, waiters : Seq(S)]
    BY <1>1, <2>2
  <2> QED BY <2>1, <2>2, <2>3, AppendProperties
<1> HIDE DEF n
<1>3. \A i \in 1..Len(w) : w[i] # c
  BY DEF Consistent
<1>4. \A i, j \in 1..Len(n.waiters) : n.waiters[i] = n.waiters[j] => i = j
  <2>1. \A i \in 1..Len(n.waiters) : i \in 1..Len(w) \/ i = Len(w) + 1
    BY <1>2
  <2> QED BY <2>1, <1>2, <1>3 DEF Consistent
<1>5. {n.waiters[i] : i \in 1..Len(n.waiters)} = sleeping \cup {c}
  <2>1. 1..Len(n.waiters) = 1..Len(w) \cup {Len(w) + 1}
    BY <1>2
  <2> QED BY <2>1, <1>2 DEF Consistent
<1>6. Consistent(n, owners, sleeping \cup {c})
  BY <1>2, <1>4, <1>5 DEF Consistent
<1> QED BY <1>2, <1>6 DEF n

\* Unlocking hands the mutex to the head of its queue, or frees it.
LEMMA UnlockHandsOver ==
  ASSUME NEW S, NEW m \in [locked : BOOLEAN, waiters : Seq(S)],
         NEW owners, NEW sleeping, Consistent(m, owners, sleeping), m.locked
  PROVE  /\ Unlock(m) \in [locked : BOOLEAN, waiters : Seq(S)]
         /\ WokenByUnlock(m) \subseteq sleeping
         /\ WokenByUnlock(m) \subseteq S
         /\ Consistent(Unlock(m), WokenByUnlock(m), sleeping \ WokenByUnlock(m))
<1>1. CASE m.waiters = <<>>
  <2>1. Unlock(m) = [m EXCEPT !.locked = FALSE] /\ WokenByUnlock(m) = {}
    BY <1>1 DEF Unlock, WokenByUnlock
  <2>2. /\ Unlock(m) \in [locked : BOOLEAN, waiters : Seq(S)]
        /\ ~Unlock(m).locked /\ Unlock(m).waiters = m.waiters
    BY <2>1
  <2> QED BY <1>1, <2>1, <2>2 DEF Consistent
<1>2. CASE m.waiters # <<>>
  <2> DEFINE w == m.waiters
             t == Tail(w)
  <2>1. /\ w \in Seq(S) /\ Len(w) \in Nat \ {0}
        /\ Head(w) = w[1] /\ w[1] \in S
        /\ t \in Seq(S) /\ Len(t) = Len(w) - 1
        /\ \A i \in 1..Len(t) : t[i] = w[i + 1]
    BY <1>2
  <2>2. Unlock(m) = [m EXCEPT !.waiters = t] /\ WokenByUnlock(m) = {w[1]}
    BY <1>2, <2>1 DEF Unlock, WokenByUnlock
  <2>3. /\ Unlock(m) \in [locked : BOOLEAN, waiters : Seq(S)]
        /\ Unlock(m).locked /\ Unlock(m).waiters = t
    BY <2>1, <2>2
  <2>4. \A i, j \in 1..Len(w) : w[i] = w[j] => i = j
    BY DEF Consistent
  <2>5. sleeping = {w[i] : i \in 1..Len(w)}
    BY DEF Consistent
  <2> HIDE DEF w, t
  <2>6. \A i, j \in 1..Len(t) : t[i] = t[j] => i = j
    <3> SUFFICES ASSUME NEW i \in 1..Len(t), NEW j \in 1..Len(t), t[i] = t[j]
                 PROVE  i = j
      OBVIOUS
    <3>1. i + 1 \in 1..Len(w) /\ j + 1 \in 1..Len(w) /\ w[i + 1] = w[j + 1]
      <4>1. \A n \in Nat \ {0} : \A l \in 1..(n - 1) : l + 1 \in 1..n
        OBVIOUS
      <4>2. i + 1 \in 1..Len(w) /\ j + 1 \in 1..Len(w)
        BY <2>1, <4>1
      <4> QED BY <2>1, <4>2
    <3>2. i + 1 = j + 1
      BY <3>1, <2>4
    <3> QED BY <3>2
  <2>7. {t[i] : i \in 1..Len(t)} = sleeping \ {w[1]}
    <3>1. ASSUME NEW i \in 1..Len(t)
          PROVE  t[i] \in sleeping \ {w[1]}
      <4>1. i + 1 \in 1..Len(w) /\ 1 \in 1..Len(w) /\ i + 1 # 1 /\ t[i] = w[i + 1]
        BY <2>1
      <4> QED BY <4>1, <2>4, <2>5
    <3>2. ASSUME NEW x \in sleeping \ {w[1]}
          PROVE  \E i \in 1..Len(t) : t[i] = x
      <4>1. PICK j \in 1..Len(w) : w[j] = x
        BY <2>5
      <4>2. j - 1 \in 1..Len(t) /\ t[j - 1] = x
        BY <4>1, <3>2, <2>1
      <4> QED BY <4>2
    <3> QED BY <3>1, <3>2
  <2>8. w[1] \in sleeping
    BY <2>1, <2>5
  <2>9. Consistent(Unlock(m), {w[1]}, sleeping \ {w[1]})
    <3> DEFINE u == Unlock(m)
    <3>1. u.locked /\ u.waiters = t
      BY <2>3
    <3> HIDE DEF u
    <3>2. \A i, j \in 1..Len(u.waiters) : u.waiters[i] = u.waiters[j] => i = j
      BY <2>6, <3>1
    <3>3. sleeping \ {w[1]} = {u.waiters[i] : i \in 1..Len(u.waiters)}
      BY <2>7, <3>1
    <3>4. Consistent(u, {w[1]}, sleeping \ {w[1]})
      BY <3>1, <3>2, <3>3 DEF Consistent
    <3> QED BY <3>4 DEF u
  <2> QED BY <2>1, <2>2, <2>3, <2>8, <2>9
<1> QED BY <1>1, <1>2
=============================================================================
