----------------------------- MODULE KernelProofs -----------------------------
(***************************************************************************)
(* Proofs about the kernel, for any number of commits, processors and      *)
(* restarts, with and without snapshots and failures.                      *)
(*                                                                         *)
(* The invariant says of the ledger that numbers increase from process to  *)
(* process, of the snapshot that it is the fold up to its number, of the   *)
(* graph that it has all it needs for the causation check, and of whatever *)
(* is derived that the check let it through.                               *)
(*                                                                         *)
(* The argument has three parts.  What the model computes by recursion is  *)
(* brought down to steps: Depth grows with the graph (ShallowerInLess) and *)
(* Chosen of one more event is Chosen of the others, followed by it        *)
(* (UpToStep).  Every commit, of a processor or of the loop, thrown on or  *)
(* not, has one Effect, which keeps each conjunct.  The other steps commit *)
(* nothing, and hydration joins the snapshot with the events after it.     *)
(***************************************************************************)
EXTENDS Kernel, SharedLemmas

Item == [cause : Nat, index : Nat]
Event == [seq : Nat, cause : Nat, index : Nat, run : Nat,
          volatile : BOOLEAN, poison : BOOLEAN, derives : Nat]

TypeOK ==
    /\ events \in Seq(Event)
    /\ snapshot \in [seq : Nat, state : Seq(Nat)]
    /\ run \in Nat /\ up \in BOOLEAN
    /\ lastSeq \in Nat /\ state \in Seq(Nat) /\ listening \in BOOLEAN
    /\ graph \subseteq 1..Len(events)
    /\ cascade \in Seq(Item)
    /\ loop \in {"running", "asleep", "sending", "sent", "failed", "exited"}
    /\ draft \in Item
    /\ active \in Nat /\ failed \in 0..active
    /\ kernel \in [started : BOOLEAN, graceful : BOOLEAN, cancelled : BOOLEAN]

\* Nothing of a process is left when it is gone.
Down == ~up => ~listening /\ active = 0 /\ loop = "exited"

\* The numbers of the durable events increase across the processes, the
\* counters are up to them, and causes come before what they cause.
Numbers ==
    /\ \A i, j \in Durable : i < j => events[i].seq < events[j].seq
    /\ \A i \in 1..Len(events) : events[i].run <= run /\ events[i].cause < i
    /\ up => snapshot.seq <= lastSeq /\ \A i \in Durable : events[i].seq <= lastSeq
    /\ snapshot.seq = 0 \/ \E i \in Durable : events[i].seq = snapshot.seq

\* The snapshot is the fold of the events up to its number.
SnapshotOK ==
    snapshot.state = Chosen({i \in Durable : ~events[i].poison /\ events[i].seq <= snapshot.seq})

\* The events of commits c that the causation check of event id has to see.
Recent(c, id) ==
    {j \in 1..id : c[j].run = c[id].run /\ c[j].seq + Window >= c[id].seq}

\* The graph has the events of this process that are in the window.
GraphOK ==
    listening =>
        \A j \in 1..Len(events) :
            events[j].run = run /\ events[j].seq + Window >= lastSeq => j \in graph

\* An event from which something may be derived.
Shallow(c, id) == id \in 1..Len(c) /\ Depth(c, Recent(c, id), id) <= DepthLimit

\* What is derived from an event of this process that is not too deep.
FromHere(d) == d.index > 0 /\ Shallow(events, d.cause) /\ events[d.cause].run = run

\* So it is with whatever was derived, committed or not.
Sources ==
    /\ \A i \in 1..Len(events) : events[i].index > 0 =>
          Shallow(events, events[i].cause) /\ events[events[i].cause].run = events[i].run
    /\ \A k \in 1..Len(cascade) : FromHere(cascade[k])
    /\ loop = "sending" => FromHere(draft)

IndInv ==
    /\ TypeOK /\ Down /\ Numbers /\ SnapshotOK /\ GraphOK /\ Sources
    /\ StateFollowsLedger /\ DerivedOnceInOrder
-----------------------------------------------------------------------------
\* The causes of the events of g come before them.
GoesBack(c, g, id) == \A i \in 0..id : i \in g => c[i].cause \in 0..(i - 1)

\* The numbers of events on the chains.
Counts(f, c, g, id) ==
    /\ f \in [0..id -> Nat]
    /\ \A i \in 0..id : f[i] = IF i \in g THEN 1 + f[c[i].cause] ELSE 0

\* The chain of causes that Depth follows goes back to ever smaller numbers, so
\* that the recursion is well-founded.
LEMMA DepthFunction ==
  ASSUME NEW id \in Nat, NEW c, NEW g, GoesBack(c, g, id)
  PROVE  \E f : Counts(f, c, g, id) /\ Depth(c, g, id) = f[id]
<1> USE DEF GoesBack
<1> DEFINE Solves(f, n) == \A i \in 0..n : f[i] = IF i \in g THEN 1 + f[c[i].cause] ELSE 0
           S == {n \in 0..id : \E f \in [0..n -> Nat] : Solves(f, n)}
<1>1. 0 \in S
  <2> DEFINE f == [i \in 0..0 |-> 0]
  <2>1. f \in [0..0 -> Nat] /\ Solves(f, 0)
    OBVIOUS
  <2> QED BY <2>1
<1>2. ASSUME NEW n \in 1..id, n - 1 \in S
      PROVE  n \in S
  <2>1. PICK f \in [0..(n - 1) -> Nat] : Solves(f, n - 1)
    BY <1>2
  <2> DEFINE e == [i \in 0..n |-> IF i < n THEN f[i]
                                  ELSE IF i \in g THEN 1 + f[c[i].cause] ELSE 0]
  <2>2. \A i \in 0..n : i \in g => c[i].cause \in 0..(i - 1)
    OBVIOUS
  <2>3. e \in [0..n -> Nat]
    <3>1. \A i \in 0..n : i < n => i \in 0..(n - 1)
      OBVIOUS
    <3>2. n \in g => f[c[n].cause] \in Nat
      BY <2>2
    <3>3. \A i \in 0..n : i < n \/ i = n
      OBVIOUS
    <3> QED BY <3>1, <3>2, <3>3
  <2>4. Solves(e, n)
    <3> SUFFICES ASSUME NEW i \in 0..n
                 PROVE  e[i] = IF i \in g THEN 1 + e[c[i].cause] ELSE 0
      OBVIOUS
    <3>1. i \in g => c[i].cause \in 0..n /\ c[i].cause < n /\ e[c[i].cause] = f[c[i].cause]
      BY <2>2
    <3>2. CASE i < n
      <4>1. i \in 0..(n - 1) /\ e[i] = f[i]
        BY <3>2
      <4> QED BY <2>1, <3>1, <4>1
    <3>3. CASE ~(i < n)
      BY <3>1, <3>3
    <3> QED BY <3>2, <3>3
  <2> HIDE DEF e, Solves
  <2>5. n \in 0..id
    OBVIOUS
  <2> QED BY <2>3, <2>4, <2>5
<1>3. id \in S
  <2> HIDE DEF S
  <2> QED BY <1>1, <1>2, InductionUpTo
<1>4. PICK h \in [0..id -> Nat] : Solves(h, id)
  BY <1>3
<1> DEFINE F == CHOOSE f : f = [i \in 0..id |-> IF i \in g THEN 1 + f[c[i].cause] ELSE 0]
<1>5. h = [i \in 0..id |-> IF i \in g THEN 1 + h[c[i].cause] ELSE 0]
  BY <1>4
<1>6. F = [i \in 0..id |-> IF i \in g THEN 1 + F[c[i].cause] ELSE 0]
  BY <1>5
<1>7. Depth(c, g, id) = F[id]
  BY DEF Depth
<1> HIDE DEF F
<1>8. \A i \in 0..id : F[i] \in Nat
  <2> DEFINE T == {i \in 0..id : F[i] \in Nat}
  <2>1. 0 \in T
    BY <1>6
  <2>2. ASSUME NEW n \in 1..id, \A m \in 0..(n - 1) : m \in T
        PROVE  n \in T
    <3> HIDE DEF GoesBack
    <3>1. n \in 0..id
      OBVIOUS
    <3>2. F[n] = IF n \in g THEN 1 + F[c[n].cause] ELSE 0
      BY <1>6, <3>1
    <3>3. n \in g => c[n].cause \in 0..(n - 1)
      BY <3>1 DEF GoesBack
    <3>4. n \in g => F[c[n].cause] \in Nat
      BY <2>2, <3>3
    <3>5. F[n] \in Nat
      BY <3>2, <3>4
    <3> QED BY <3>1, <3>5
  <2>3. (0..id) \ T = {}
    <3> SUFFICES ASSUME (0..id) \ T # {} PROVE FALSE
      OBVIOUS
    <3>1. PICK m \in (0..id) \ T : \A k \in (0..id) \ T : m <= k
      <4>1. (0..id) \ T \in SUBSET Nat
        OBVIOUS
      <4> HIDE DEF T
      <4> QED BY <4>1, LeastNumber
    <3>2. m \in 1..id /\ \A k \in 0..(m - 1) : k \in T
      BY <2>1, <3>1
    <3> QED BY <2>2, <3>1, <3>2
  <2> QED BY <2>3
<1>9. Counts(F, c, g, id)
  BY <1>6, <1>8 DEF Counts
<1> QED BY <1>7, <1>9

\* A graph that knows less sees shorter chains; events that are committed later
\* change nothing.
LEMMA ShallowerInLess ==
  ASSUME NEW id \in Nat, NEW c, NEW d, NEW g, NEW l, l \subseteq g, GoesBack(c, g, id),
         \A i \in 0..id : i \in l => d[i].cause = c[i].cause
  PROVE  Depth(d, l, id) <= Depth(c, g, id) /\ Depth(d, l, id) \in Nat /\ Depth(c, g, id) \in Nat
<1>1. PICK f : Counts(f, c, g, id) /\ Depth(c, g, id) = f[id]
  BY DepthFunction
<1>2. PICK e : Counts(e, d, l, id) /\ Depth(d, l, id) = e[id]
  <2>1. GoesBack(d, l, id)
    BY DEF GoesBack
  <2> QED BY <2>1, DepthFunction
<1> USE DEF Counts
<1> DEFINE T == {i \in 0..id : ~(e[i] <= f[i])}
<1>3. T = {}
  <2> SUFFICES ASSUME T # {} PROVE FALSE
    OBVIOUS
  <2>1. PICK m \in T : \A k \in T : m <= k
    <3>1. T \in SUBSET Nat
      OBVIOUS
    <3> HIDE DEF T
    <3> QED BY <3>1, LeastNumber
  <2>2. m \in 0..id /\ e[m] \in Nat /\ f[m] \in Nat /\ ~(e[m] <= f[m])
    BY <1>1, <1>2, <2>1
  <2>3. m \in l /\ m \in g
    BY <1>1, <1>2, <2>2
  <2>4. PICK k \in 0..id : k = c[m].cause /\ k = d[m].cause /\ k < m
    <3>1. c[m].cause \in 0..(m - 1) /\ d[m].cause = c[m].cause
      BY <2>2, <2>3 DEF GoesBack
    <3> QED BY <2>2, <3>1
  <2>5. e[k] <= f[k]
    BY <2>1, <2>2, <2>4
  <2>6. e[m] = 1 + e[k] /\ f[m] = 1 + f[k] /\ e[k] \in Nat /\ f[k] \in Nat
    BY <1>1, <1>2, <2>2, <2>3, <2>4
  <2> QED BY <2>2, <2>5, <2>6
<1> QED BY <1>1, <1>2, <1>3
-----------------------------------------------------------------------------
\* Chosen(S) when there are n events.
UpTo(S, n) == FlattenSeq([i \in 1..n |-> IF i \in S THEN <<i>> ELSE <<>>])

\* One event more: it comes at the end, if it is in S.
LEMMA UpToStep ==
  ASSUME NEW n \in Nat, NEW S
  PROVE  /\ UpTo(S, n) \in Seq(Nat)
         /\ UpTo(S, n + 1) = IF n + 1 \in S THEN Append(UpTo(S, n), n + 1) ELSE UpTo(S, n)
<1> DEFINE a == [i \in 1..n |-> IF i \in S THEN <<i>> ELSE <<>>]
           b == [i \in 1..(n + 1) |-> IF i \in S THEN <<i>> ELSE <<>>]
<1>1. \A i \in Nat : <<i>> \in Seq(Nat) /\ <<>> \in Seq(Nat)
  OBVIOUS
<1>2. a \in [1..n -> Seq(Nat)] /\ b \in [1..(n + 1) -> Seq(Nat)]
  <2>1. \A i \in 1..n : i \in Nat
    OBVIOUS
  <2>2. \A i \in 1..(n + 1) : i \in Nat
    OBVIOUS
  <2> QED BY <1>1, <2>1, <2>2
<1>3. \A i \in 1..n : b[i] = a[i]
  OBVIOUS
<1>4. b[n + 1] = IF n + 1 \in S THEN <<n + 1>> ELSE <<>>
  OBVIOUS
<1>5. UpTo(S, n) = FlattenSeq(a) /\ UpTo(S, n + 1) = FlattenSeq(b)
  BY DEF UpTo
<1> HIDE DEF a, b
<1>6. FlattenSeq(b) = FlattenSeq(a) \o b[n + 1] /\ FlattenSeq(a) \in Seq(Nat)
  BY <1>2, <1>3, FlattenStep
<1> DEFINE s == FlattenSeq(a)
<1> HIDE DEF s
<1>7. s \in Seq(Nat) /\ UpTo(S, n) = s /\ UpTo(S, n + 1) = s \o b[n + 1]
  BY <1>5, <1>6 DEF s
<1>8. s \o <<n + 1>> = Append(s, n + 1) /\ s \o <<>> = s
  BY <1>7, AppendIsConcat, ConcatEmptySeq
<1> QED BY <1>4, <1>7, <1>8

\* No events: nothing is chosen.
LEMMA UpToNothing ==
  ASSUME NEW S
  PROVE  UpTo(S, 0) = <<>>
<1> DEFINE a == [i \in 1..0 |-> IF i \in S THEN <<i>> ELSE <<>>]
<1>1. a = <<>>
  OBVIOUS
<1>2. Len(a) = 0
  BY <1>1
<1> HIDE DEF a
<1>3. FlattenSeq(a) = a
  BY <1>2 DEF FlattenSeq
<1> QED BY <1>1, <1>3 DEF UpTo, a

\* Only the events that are there matter.
LEMMA UpToDepends ==
  ASSUME NEW n \in Nat, NEW S, NEW T, \A i \in 1..n : i \in S <=> i \in T
  PROVE  UpTo(S, n) = UpTo(T, n)
<1>1. [i \in 1..n |-> IF i \in S THEN <<i>> ELSE <<>>] = [i \in 1..n |-> IF i \in T THEN <<i>> ELSE <<>>]
  OBVIOUS
<1> QED BY <1>1 DEF UpTo

\* s has the numbers up to n that are in S, in their order.
InOrderOf(s, S, n) ==
    /\ s \in Seq(Nat)
    /\ \A k \in 1..Len(s) : s[k] \in S /\ s[k] \in 1..n
    /\ \A i \in 1..n : i \in S => \E k \in 1..Len(s) : s[k] = i
    /\ \A j, k \in 1..Len(s) : j < k => s[j] < s[k]

\* It is what Chosen says it is.
LEMMA UpToInOrder ==
  ASSUME NEW n \in Nat, NEW S
  PROVE  InOrderOf(UpTo(S, n), S, n)
<1> DEFINE T == {m \in 0..n : InOrderOf(UpTo(S, m), S, m)}
<1>1. 0 \in T
  <2>1. UpTo(S, 0) = <<>> /\ <<>> \in Seq(Nat) /\ Len(<<>>) = 0
    BY UpToNothing, EmptySeq
  <2>2. 1..0 = {} /\ 0 \in 0..n
    OBVIOUS
  <2>3. InOrderOf(UpTo(S, 0), S, 0)
    BY <2>1, <2>2 DEF InOrderOf
  <2> QED BY <2>2, <2>3
<1>2. ASSUME NEW m \in 1..n, m - 1 \in T
      PROVE  m \in T
  <2> DEFINE s == UpTo(S, m - 1)
             t == UpTo(S, m)
  <2>1. InOrderOf(s, S, m - 1)
    BY <1>2
  <2>2. s \in Seq(Nat) /\ t = IF m \in S THEN Append(s, m) ELSE s
    <3> DEFINE k == m - 1
    <3>1. k \in Nat /\ k + 1 = m
      OBVIOUS
    <3> HIDE DEF k
    <3>2. /\ UpTo(S, k) \in Seq(Nat)
          /\ UpTo(S, k + 1) = IF k + 1 \in S THEN Append(UpTo(S, k), k + 1) ELSE UpTo(S, k)
      BY <3>1, UpToStep
    <3> QED BY <3>1, <3>2 DEF k
  <2> HIDE DEF s, t
  <2>3. InOrderOf(t, S, m)
    <3>1. CASE m \in S
      <4>1. t = Append(s, m)
        BY <2>2, <3>1
      <4>2. /\ t \in Seq(Nat) /\ Len(s) \in Nat /\ Len(t) = Len(s) + 1
            /\ t[Len(s) + 1] = m /\ \A k \in 1..Len(s) : t[k] = s[k]
        BY <2>2, <4>1, AppendProperties
      <4>3. \A k \in 1..Len(t) : k \in 1..Len(s) \/ k = Len(s) + 1
        BY <4>2
      <4>4. \A k \in 1..Len(s) : s[k] \in S /\ s[k] \in 1..m /\ s[k] < m
        BY <2>1 DEF InOrderOf
      <4>5. \A k \in 1..Len(t) : t[k] \in S /\ t[k] \in 1..m
        BY <3>1, <4>2, <4>3, <4>4
      <4>6. ASSUME NEW i \in 1..m, i \in S
            PROVE  \E k \in 1..Len(t) : t[k] = i
        <5>1. CASE i = m
          <6>1. Len(s) + 1 \in 1..Len(t)
            BY <4>2
          <6> QED BY <4>2, <5>1, <6>1
        <5>2. CASE i # m
          <6>1. i \in 1..(m - 1)
            BY <5>2
          <6>2. PICK k \in 1..Len(s) : s[k] = i
            BY <2>1, <4>6, <6>1 DEF InOrderOf
          <6>3. k \in 1..Len(t) /\ t[k] = i
            BY <4>2, <6>2
          <6> QED BY <6>3
        <5> QED BY <5>1, <5>2
      <4>7. ASSUME NEW j \in 1..Len(t), NEW k \in 1..Len(t), j < k
            PROVE  t[j] < t[k]
        <5>1. j \in 1..Len(s)
          BY <4>2, <4>7
        <5>2. CASE k \in 1..Len(s)
          BY <2>1, <4>2, <4>7, <5>1, <5>2 DEF InOrderOf
        <5>3. CASE k = Len(s) + 1
          BY <4>2, <4>4, <5>1, <5>3
        <5> QED BY <4>3, <5>2, <5>3
      <4> QED BY <4>2, <4>5, <4>6, <4>7 DEF InOrderOf
    <3>2. CASE m \notin S
      <4>1. t = s
        BY <2>2, <3>2
      <4>2. \A i \in 1..m : i \in S => i \in 1..(m - 1)
        BY <3>2
      <4>3. \A i \in 1..(m - 1) : i \in 1..m
        OBVIOUS
      <4> QED BY <2>1, <4>1, <4>2, <4>3 DEF InOrderOf
    <3> QED BY <3>1, <3>2
  <2> QED BY <2>3 DEF t
<1>3. n \in T
  <2> HIDE DEF T
  <2>1. 0..n \subseteq T
    BY <1>1, <1>2, InductionUpTo
  <2> QED BY <2>1
<1> QED BY <1>3

\* Choosing the earlier and then the later ones is choosing both.
LEMMA UpToUnion ==
  ASSUME NEW n \in Nat, NEW A, NEW B,
         \A a \in 1..n, b \in 1..n : a \in A /\ b \in B => a < b
  PROVE  UpTo(A, n) \o UpTo(B, n) = UpTo(A \cup B, n)
<1> DEFINE T == {m \in 0..n : UpTo(A, m) \o UpTo(B, m) = UpTo(A \cup B, m)}
<1>1. 0 \in T
  <2>1. UpTo(A, 0) \o UpTo(B, 0) = UpTo(A \cup B, 0)
    BY UpToNothing, ConcatEmptySeq, EmptySeq
  <2>2. 0 \in 0..n
    OBVIOUS
  <2> QED BY <2>1, <2>2
<1>2. ASSUME NEW m \in 1..n, m - 1 \in T
      PROVE  m \in T
  <2> DEFINE a == UpTo(A, m - 1)
             b == UpTo(B, m - 1)
             u == UpTo(A \cup B, m - 1)
  <2>1. m - 1 \in Nat /\ (m - 1) + 1 = m /\ m \in 0..n
    OBVIOUS
  <2>2. /\ a \in Seq(Nat) /\ b \in Seq(Nat) /\ u \in Seq(Nat) /\ a \o b = u
        /\ UpTo(A, m) = IF m \in A THEN Append(a, m) ELSE a
        /\ UpTo(B, m) = IF m \in B THEN Append(b, m) ELSE b
        /\ UpTo(A \cup B, m) = IF m \in A \/ m \in B THEN Append(u, m) ELSE u
    <3>1. \A X : /\ UpTo(X, m - 1) \in Seq(Nat)
                 /\ UpTo(X, m) = IF m \in X THEN Append(UpTo(X, m - 1), m) ELSE UpTo(X, m - 1)
      <4> SUFFICES ASSUME NEW X
                   PROVE  /\ UpTo(X, m - 1) \in Seq(Nat)
                          /\ UpTo(X, m) = IF m \in X THEN Append(UpTo(X, m - 1), m)
                                                     ELSE UpTo(X, m - 1)
        OBVIOUS
      <4> DEFINE k == m - 1
      <4>1. k \in Nat /\ k + 1 = m
        OBVIOUS
      <4> HIDE DEF k
      <4>2. /\ UpTo(X, k) \in Seq(Nat)
            /\ UpTo(X, k + 1) = IF k + 1 \in X THEN Append(UpTo(X, k), k + 1) ELSE UpTo(X, k)
        BY <4>1, UpToStep
      <4> QED BY <4>1, <4>2 DEF k
    <3>2. a \o b = u
      BY <1>2
    <3> QED BY <3>1, <3>2
  <2>3. CASE m \in A
    <3>1. m \notin B /\ \A i \in 1..m : i \notin B
      BY <2>3
    <3>2. InOrderOf(b, B, m - 1)
      BY <2>1, UpToInOrder
    <3>3. b = <<>>
      <4>1. \A k \in 1..Len(b) : FALSE
        BY <3>1, <3>2 DEF InOrderOf
      <4>2. Len(b) = 0
        BY <2>2, <4>1, LenProperties
      <4> QED BY <2>2, <4>2, EmptySeq
    <3>4. a = u
      BY <2>2, <3>3, ConcatEmptySeq
    <3>5. Append(a, m) \o <<>> = Append(u, m)
      <4>1. Append(a, m) \in Seq(Nat)
        BY <2>1, <2>2, AppendProperties
      <4> QED BY <3>4, <4>1, ConcatEmptySeq
    <3> HIDE DEF a, b, u
    <3> QED BY <2>1, <2>2, <2>3, <3>1, <3>3, <3>5
  <2>4. CASE m \notin A /\ m \in B
    <3> HIDE DEF a, b, u
    <3>1. m \in Nat
      OBVIOUS
    <3> DEFINE v == <<m>>
    <3>2. v \in Seq(Nat) /\ Append(b, m) = b \o v /\ Append(u, m) = u \o v
      <4>1. a \in Seq(Nat) /\ b \in Seq(Nat) /\ u \in Seq(Nat)
        BY <2>2
      <4>2. Append(b, m) = b \o <<m>> /\ Append(u, m) = u \o <<m>>
        BY ONLY <3>1, <4>1, AppendIsConcat
      <4>3. <<m>> \in Seq(Nat)
        BY ONLY <3>1
      <4> QED BY <4>2, <4>3
    <3>3. a \in Seq(Nat) /\ b \in Seq(Nat) /\ v \in Seq(Nat)
      BY <2>2, <3>2
    <3> HIDE DEF v
    <3>4. (a \o b) \o v = a \o (b \o v)
      <4>1. Associates(a, b, v)
        BY <3>3, Regrouped
      <4> QED BY <4>1 DEF Associates
    <3> QED BY <2>1, <2>2, <2>4, <3>2, <3>4
  <2>5. CASE m \notin A /\ m \notin B
    <3> HIDE DEF a, b, u
    <3> QED BY <2>1, <2>2, <2>5
  <2> QED BY <2>3, <2>4, <2>5
<1>3. n \in T
  <2> HIDE DEF T
  <2>1. 0..n \subseteq T
    BY <1>1, <1>2, InductionUpTo
  <2> QED BY <2>1
<1> QED BY <1>3
-----------------------------------------------------------------------------
\* The events that the reducer derives from event id, n of them.
New(id, n) == [k \in 1..n |-> [cause |-> id, index |-> k]]

\* What a commit does, whoever makes it and whether or not the reducer throws:
\* e is the event, from which n others are derived.
Effect(e, n) ==
    LET id == Len(events) + 1
        folded == listening /\ ~e.volatile /\ ~e.poison
    IN  /\ e \in Event /\ e.seq = lastSeq + 1 /\ e.run = run /\ e.derives = n
        /\ e.cause \in 0..Len(events) /\ (e.index > 0 => FromHere(e))
        /\ events' = Append(events, e) /\ lastSeq' = lastSeq + 1
        /\ UNCHANGED <<run, up, listening>>
        /\ state' = IF folded THEN Append(state, id) ELSE state
        /\ \/ UNCHANGED snapshot
           \/ folded /\ snapshot' = [seq |-> e.seq, state |-> state']
        /\ graph' = IF listening THEN Kept(graph \cup {id}, e.seq) ELSE graph
        /\ kernel' \in [started : BOOLEAN, graceful : BOOLEAN, cancelled : BOOLEAN]
        /\ kernel.cancelled => kernel'.cancelled
        /\ \/ cascade' = cascade /\ kernel'.cancelled
           \/ cascade' = cascade \o New(id, n) /\ (n > 0 => listening /\ ~TooDeep(graph', id))

\* The event comes behind the others.
LEMMA EffectOnEvents ==
  ASSUME IndInv, NEW e, NEW n \in Nat, Effect(e, n)
  PROVE  /\ Len(events) \in Nat /\ events' \in Seq(Event) /\ Len(events') = Len(events) + 1
         /\ events'[Len(events) + 1] = e
         /\ \A i \in 1..Len(events) : events'[i] = events[i] /\ events[i] \in Event
         /\ \A i \in 1..(Len(events) + 1) : i \in 1..Len(events) \/ i = Len(events) + 1
         /\ Durable' = IF e.volatile THEN Durable ELSE Durable \cup {Len(events) + 1}
<1>1. events \in Seq(Event) /\ e \in Event /\ events' = Append(events, e)
  BY DEF IndInv, TypeOK, Effect
<1>2. /\ Len(events) \in Nat /\ events' \in Seq(Event) /\ Len(events') = Len(events) + 1
      /\ events'[Len(events) + 1] = e
      /\ \A i \in 1..Len(events) : events'[i] = events[i]
  BY <1>1, AppendProperties
<1>3. \A i \in 1..Len(events) : events[i] \in Event
  BY <1>1, ElementOfSeq
<1>4. \A i \in 1..(Len(events) + 1) : i \in 1..Len(events) \/ i = Len(events) + 1
  BY <1>2
<1>5. Durable' = IF e.volatile THEN Durable ELSE Durable \cup {Len(events) + 1}
  <2>1. Durable' = {i \in 1..(Len(events) + 1) : ~events'[i].volatile}
    BY <1>2 DEF Durable
  <2>2. Durable = {i \in 1..Len(events) : ~events[i].volatile}
    BY DEF Durable
  <2>3. 1..(Len(events) + 1) = 1..Len(events) \cup {Len(events) + 1}
    BY <1>2
  <2> QED BY <1>2, <2>1, <2>2, <2>3
<1> QED BY <1>2, <1>3, <1>4, <1>5

\* Its number is above those of the ledger.
LEMMA EffectOnNumbers ==
  ASSUME IndInv, up, NEW e, NEW n \in Nat, Effect(e, n)
  PROVE  Numbers'
<1> DEFINE id == Len(events) + 1
<1>1. /\ Len(events) \in Nat /\ Len(events') = id /\ events'[id] = e
      /\ \A i \in 1..Len(events) : events'[i] = events[i] /\ events[i] \in Event
      /\ \A i \in 1..id : i \in 1..Len(events) \/ i = id
      /\ Durable' = IF e.volatile THEN Durable ELSE Durable \cup {id}
  BY EffectOnEvents
<1>2. /\ e \in Event /\ e.seq = lastSeq + 1 /\ e.run = run /\ e.cause \in 0..Len(events)
      /\ lastSeq' = lastSeq + 1 /\ run' = run /\ lastSeq \in Nat /\ run \in Nat
      /\ snapshot.seq \in Nat
  BY DEF Effect, IndInv, TypeOK
<1>3. Numbers
  BY DEF IndInv
<1>4. Durable \subseteq 1..Len(events) /\ \A i \in Durable : events[i].seq \in Nat
  BY <1>1 DEF Durable, Event
<1> HIDE DEF id
<1>5. id \in Nat /\ \A i \in 1..Len(events) : i \in Nat /\ i < id
  BY <1>1 DEF id
<1>6. \A i, j \in Durable' : i < j => events'[i].seq < events'[j].seq
  <2> SUFFICES ASSUME NEW i \in Durable', NEW j \in Durable', i < j
               PROVE  events'[i].seq < events'[j].seq
    OBVIOUS
  <2>1. i \in Durable
    BY <1>1, <1>4, <1>5
  <2>2. CASE j \in Durable
    BY <1>1, <1>3, <1>4, <2>1, <2>2 DEF Numbers
  <2>3. CASE j = id
    BY <1>1, <1>2, <1>3, <1>4, <2>1, <2>3 DEF Numbers
  <2> QED BY <1>1, <2>2, <2>3
<1>7. \A i \in 1..Len(events') : events'[i].run <= run' /\ events'[i].cause < i
  <2> SUFFICES ASSUME NEW i \in 1..id
               PROVE  events'[i].run <= run' /\ events'[i].cause < i
    BY <1>1
  <2>1. CASE i \in 1..Len(events)
    BY <1>1, <1>2, <1>3, <2>1 DEF Numbers
  <2>2. CASE i = id
    <3>1. e.cause < id
      BY <1>1, <1>2 DEF id
    <3> QED BY <1>1, <1>2, <2>2, <3>1
  <2> QED BY <1>1, <2>1, <2>2
<1>8. \A i \in Durable' : events'[i].seq <= lastSeq'
  <2>1. \A i \in Durable : events'[i].seq <= lastSeq'
    BY <1>1, <1>2, <1>3, <1>4 DEF Numbers
  <2>2. events'[id].seq <= lastSeq'
    BY <1>1, <1>2
  <2> QED BY <1>1, <2>1, <2>2
<1>9. CASE UNCHANGED snapshot
  <2>1. snapshot'.seq <= lastSeq'
    BY <1>2, <1>3, <1>9 DEF Numbers
  <2>2. snapshot'.seq = 0 \/ \E i \in Durable' : events'[i].seq = snapshot'.seq
    <3>1. Durable \subseteq Durable'
      BY <1>1
    <3> QED BY <1>1, <1>3, <1>4, <1>9, <3>1 DEF Numbers
  <2> QED BY <1>6, <1>7, <1>8, <2>1, <2>2 DEF Numbers
<1>10. CASE ~e.volatile /\ snapshot'.seq = e.seq
  <2>1. snapshot'.seq <= lastSeq'
    BY <1>2, <1>10
  <2>2. id \in Durable' /\ events'[id].seq = snapshot'.seq
    BY <1>1, <1>10
  <2> QED BY <1>6, <1>7, <1>8, <2>1, <2>2 DEF Numbers
<1> QED BY <1>9, <1>10 DEF Effect

\* What was not too deep stays so.
LEMMA ShallowKept ==
  ASSUME IndInv, NEW e, NEW n \in Nat, Effect(e, n)
  PROVE  /\ \A id : Shallow(events, id) => Shallow(events', id)
         /\ \A d : FromHere(d) => FromHere(d)'
<1>1. /\ Len(events) \in Nat /\ Len(events') = Len(events) + 1
      /\ \A i \in 1..Len(events) : events'[i] = events[i] /\ events[i] \in Event
  BY EffectOnEvents
<1>2. ASSUME NEW id, Shallow(events, id)
      PROVE  Shallow(events', id)
  <2>1. id \in 1..Len(events) /\ id \in Nat /\ Depth(events, Recent(events, id), id) <= DepthLimit
    BY <1>1, <1>2 DEF Shallow
  <2>2. Recent(events', id) = Recent(events, id)
    <3>1. \A j \in 1..id : events'[j] = events[j] /\ events'[id] = events[id]
      BY <1>1, <2>1
    <3> QED BY <3>1 DEF Recent
  <2> DEFINE g == Recent(events, id)
  <2>3. \A i \in 0..id : i \in g => events'[i].cause = events[i].cause
    BY <1>1, <2>1 DEF Recent
  <2>4. GoesBack(events, g, id)
    <3> SUFFICES ASSUME NEW i \in 0..id, i \in g PROVE events[i].cause \in 0..(i - 1)
      BY DEF GoesBack
    <3>1. i \in 1..Len(events)
      BY <1>1, <2>1 DEF Recent
    <3>2. events[i].cause \in Nat /\ events[i].cause < i
      BY <1>1, <3>1 DEF Event, IndInv, Numbers
    <3> QED BY <3>2
  <2> HIDE DEF g
  <2>5. /\ Depth(events', g, id) <= Depth(events, g, id)
        /\ Depth(events', g, id) \in Nat /\ Depth(events, g, id) \in Nat
    BY <2>1, <2>3, <2>4, ShallowerInLess
  <2>6. Depth(events, g, id) <= DepthLimit
    BY <2>1 DEF g
  <2>7. Depth(events', g, id) <= DepthLimit
    BY <2>5, <2>6, KernelBounds
  <2>8. id \in 1..Len(events')
    BY <1>1, <2>1
  <2> QED BY <2>2, <2>7, <2>8 DEF Shallow, g
<1>3. ASSUME NEW d, FromHere(d)
      PROVE  FromHere(d)'
  <2>1. d.index > 0 /\ Shallow(events, d.cause) /\ events[d.cause].run = run
    BY <1>3 DEF FromHere
  <2>2. Shallow(events', d.cause) /\ d.cause \in 1..Len(events)
    BY <1>2, <2>1 DEF Shallow
  <2>3. run' = run
    BY DEF Effect
  <2> QED BY <1>1, <2>1, <2>2, <2>3 DEF FromHere
<1> QED BY <1>2, <1>3

\* The graph has what it needs, and nothing is derived from what is too deep.
LEMMA EffectOnGraph ==
  ASSUME IndInv, up, NEW e, NEW n \in Nat, Effect(e, n)
  PROVE  /\ GraphOK' /\ graph' \subseteq 1..Len(events')
         /\ listening /\ ~TooDeep(graph', Len(events) + 1) => Shallow(events', Len(events) + 1)
<1> DEFINE id == Len(events) + 1
<1>1. /\ Len(events) \in Nat /\ Len(events') = id /\ events'[id] = e
      /\ \A i \in 1..Len(events) : events'[i] = events[i] /\ events[i] \in Event
      /\ \A i \in 1..id : i \in 1..Len(events) \/ i = id
  BY EffectOnEvents
<1>2. /\ e \in Event /\ e.seq = lastSeq + 1 /\ e.run = run /\ e.cause \in 0..Len(events)
      /\ lastSeq' = lastSeq + 1 /\ run' = run /\ lastSeq \in Nat /\ run \in Nat
      /\ listening' = listening /\ graph \subseteq 1..Len(events) /\ e.seq \in Nat
      /\ graph' = IF listening THEN Kept(graph \cup {id}, e.seq) ELSE graph
      /\ Window \in Nat
  BY KernelBounds DEF Effect, IndInv, TypeOK, Event
<1>3. id \in Nat /\ \A i \in 1..Len(events) : i \in 1..id
  BY <1>1
<1> HIDE DEF id
<1>4. graph' \subseteq 1..Len(events')
  <2>1. id \in 1..id /\ graph \subseteq 1..id
    BY <1>1, <1>2, <1>3 DEF id
  <2>2. Kept(graph \cup {id}, e.seq) \subseteq graph \cup {id}
    BY DEF Kept
  <2> QED BY <1>1, <1>2, <2>1, <2>2
<1>5. ASSUME listening, NEW j \in 1..id, events'[j].run = run,
             events'[j].seq + Window >= lastSeq + 1
      PROVE  j \in graph'
  <2>1. CASE j = id
    <3>1. events'[id].seq + Window >= e.seq
      BY <1>1, <1>2
    <3> QED BY <1>2, <1>5, <2>1, <3>1 DEF Kept
  <2>2. CASE j \in 1..Len(events)
    <3>1. events[j].seq \in Nat /\ events[j].seq + Window >= lastSeq /\ events[j].run = run
      <4>1. events'[j] = events[j] /\ events[j].seq \in Nat
        BY <1>1, <2>2 DEF Event
      <4>2. lastSeq \in Nat /\ Window \in Nat
        BY <1>2
      <4> QED BY <1>5, <4>1, <4>2
    <3>2. j \in graph
      BY <1>5, <2>2, <3>1 DEF IndInv, GraphOK
    <3>3. events'[j].seq + Window >= e.seq
      BY <1>2, <1>5
    <3> QED BY <1>2, <1>5, <3>2, <3>3 DEF Kept
  <2> QED BY <1>1, <2>1, <2>2
<1>6. GraphOK'
  BY <1>1, <1>2, <1>5 DEF GraphOK
<1>7. ASSUME listening, ~TooDeep(graph', id)
      PROVE  Shallow(events', id)
  <2> DEFINE r == Recent(events', id)
  <2>1. r \subseteq graph'
    BY <1>1, <1>2, <1>5, <1>7 DEF Recent
  <2>2. GoesBack(events', graph', id)
    <3> SUFFICES ASSUME NEW i \in 0..id, i \in graph' PROVE events'[i].cause \in 0..(i - 1)
      BY DEF GoesBack
    <3>1. i \in 1..Len(events')
      BY <1>4
    <3>2. events'[i].cause < i
      BY <3>1, EffectOnNumbers DEF Numbers
    <3>3. events'[i].cause \in Nat
      BY <1>1, <1>2, <3>1 DEF Event
    <3> QED BY <3>1, <3>2, <3>3
  <2> HIDE DEF r
  <2>3. /\ Depth(events', r, id) <= Depth(events', graph', id)
        /\ Depth(events', r, id) \in Nat /\ Depth(events', graph', id) \in Nat
    BY <1>3, <2>1, <2>2, ShallowerInLess
  <2>4. Depth(events', graph', id) <= DepthLimit
    BY <1>7, <2>3, KernelBounds DEF TooDeep
  <2>5. Depth(events', r, id) <= DepthLimit
    BY <2>3, <2>4, KernelBounds
  <2>6. id \in 1..Len(events')
    BY <1>1 DEF id
  <2> QED BY <2>5, <2>6 DEF Shallow, r
<1> QED BY <1>4, <1>6, <1>7 DEF id

\* The fold goes on with the event, unless the reducer throws, and a new snapshot
\* holds it.
LEMMA EffectOnState ==
  ASSUME IndInv, up, NEW e, NEW n \in Nat, Effect(e, n)
  PROVE  StateFollowsLedger' /\ SnapshotOK'
<1> DEFINE m == Len(events)
           id == m + 1
           A == {i \in Durable : ~events[i].poison}
           AA == {i \in Durable' : ~events'[i].poison}
           B == {i \in Durable : ~events[i].poison /\ events[i].seq <= snapshot.seq}
           BB == {i \in Durable' : ~events'[i].poison /\ events'[i].seq <= snapshot'.seq}
           added == ~e.volatile /\ ~e.poison
<1>1. /\ m \in Nat /\ Len(events') = id /\ events'[id] = e
      /\ \A i \in 1..m : events'[i] = events[i] /\ events[i] \in Event
      /\ \A i \in 1..id : i \in 1..m \/ i = id
      /\ Durable' = IF e.volatile THEN Durable ELSE Durable \cup {id}
  BY EffectOnEvents
<1>2. /\ e \in Event /\ e.seq = lastSeq + 1 /\ lastSeq \in Nat /\ snapshot.seq \in Nat
      /\ listening' = listening
      /\ state' = IF listening /\ added THEN Append(state, id) ELSE state
      /\ \/ UNCHANGED snapshot
         \/ listening /\ added /\ snapshot' = [seq |-> e.seq, state |-> state']
  BY DEF Effect, IndInv, TypeOK
<1>3. id \in Nat /\ id \in 1..id /\ id \notin 1..m /\ \A i \in 1..m : i \in 1..id
  BY <1>1
<1>4. \A i \in Durable : i \in 1..m /\ events[i].seq \in Nat /\ events[i].seq <= lastSeq
  BY <1>1 DEF Durable, Event, IndInv, Numbers
<1>5. snapshot.seq <= lastSeq
  BY DEF IndInv, Numbers
<1>6. AA = IF added THEN A \cup {id} ELSE A
  BY <1>1, <1>2, <1>3, <1>4
<1>7. \A S : Chosen(S) = UpTo(S, m) /\ Chosen(S)' = UpTo(S', id)
  BY <1>1 DEF Chosen, UpTo
<1>8. StateFollowsLedger = (listening => state = UpTo(A, m))
  BY DEF StateFollowsLedger, Chosen, UpTo
<1>9. StateFollowsLedger' = (listening' => state' = UpTo(AA, id))
  BY <1>1 DEF StateFollowsLedger, Chosen, UpTo
<1>10. SnapshotOK = (snapshot.state = UpTo(B, m))
  BY DEF SnapshotOK, Chosen, UpTo
<1>11. SnapshotOK' = (snapshot'.state = UpTo(BB, id))
  BY <1>1 DEF SnapshotOK, Chosen, UpTo
<1>12. StateFollowsLedger /\ SnapshotOK
  BY DEF IndInv
<1>13. \A S : id \in S => UpTo(S, id) = Append(UpTo(S, m), id)
  BY <1>1, UpToStep
<1>14. \A S : id \notin S => UpTo(S, id) = UpTo(S, m)
  BY <1>1, UpToStep
<1>15. \A S, T : (\A i \in 1..m : i \in S <=> i \in T) => UpTo(S, m) = UpTo(T, m)
  BY <1>1, UpToDepends
<1>16. StateFollowsLedger'
  <2> SUFFICES ASSUME listening PROVE state' = UpTo(AA, id)
    BY <1>2, <1>9
  <2>1. id \in AA <=> added
    BY <1>3, <1>4, <1>6
  <2>2. UpTo(AA, m) = UpTo(A, m)
    BY <1>3, <1>6, <1>15
  <2> HIDE DEF A, AA
  <2> QED BY <1>2, <1>8, <1>12, <1>13, <1>14, <2>1, <2>2
<1>17. CASE UNCHANGED snapshot
  <2>1. \A i \in BB : i \in B
    BY <1>1, <1>2, <1>4, <1>5, <1>17
  <2>2. \A i \in B : i \in BB
    BY <1>1, <1>4, <1>17
  <2>3. id \notin BB
    BY <1>3, <1>4, <2>1
  <2>4. UpTo(BB, m) = UpTo(B, m)
    BY <1>15, <2>1, <2>2
  <2> HIDE DEF B, BB
  <2> QED BY <1>10, <1>11, <1>12, <1>14, <1>16, <1>17, <2>3, <2>4
<1>18. CASE listening /\ added /\ snapshot' = [seq |-> e.seq, state |-> state']
  <2>1. \A i \in Durable' : events'[i].seq <= snapshot'.seq
    <3>1. \A i \in Durable : events'[i].seq <= e.seq
      BY <1>1, <1>2, <1>4
    <3>2. snapshot'.seq = e.seq /\ events'[id].seq <= e.seq
      BY <1>1, <1>2, <1>18
    <3>3. \A i \in Durable' : i \in Durable \/ i = id
      BY <1>1
    <3> HIDE DEF id
    <3> QED BY <3>1, <3>2, <3>3
  <2>2. BB = AA
    BY <2>1
  <2> HIDE DEF AA, BB
  <2> QED BY <1>2, <1>9, <1>11, <1>16, <1>18, <2>2
<1> QED BY <1>2, <1>16, <1>17, <1>18

\* Whatever was derived was not too deep.
LEMMA EffectOnSources ==
  ASSUME IndInv, up, NEW e, NEW n \in Nat, Effect(e, n)
  PROVE  /\ \A i \in 1..Len(events') : events'[i].index > 0 =>
               Shallow(events', events'[i].cause) /\ events'[events'[i].cause].run = events'[i].run
         /\ cascade' \in Seq(Item)
         /\ (\A k \in 1..Len(cascade) : FromHere(cascade[k]))'
<1> DEFINE m == Len(events)
           id == m + 1
<1>1. /\ m \in Nat /\ Len(events') = id /\ events'[id] = e
      /\ \A i \in 1..m : events'[i] = events[i] /\ events[i] \in Event
      /\ \A i \in 1..id : i \in 1..m \/ i = id
  BY EffectOnEvents
<1>2. /\ e \in Event /\ e.run = run /\ run' = run /\ e.cause \in 0..m
      /\ e.index > 0 => FromHere(e)
      /\ cascade \in Seq(Item)
  BY DEF Effect, IndInv, TypeOK
<1>3. Sources
  BY DEF IndInv
<1>4. ASSUME NEW i \in 1..m, events[i].index > 0
      PROVE  Shallow(events', events'[i].cause) /\ events'[events'[i].cause].run = events'[i].run
  <2>1. /\ Shallow(events, events[i].cause)
        /\ events[events[i].cause].run = events[i].run /\ events[i].cause \in 1..m
    BY <1>3, <1>4 DEF Sources, Shallow
  <2> QED BY <1>1, <2>1, ShallowKept
<1>5. ASSUME e.index > 0
      PROVE  Shallow(events', e.cause) /\ events'[e.cause].run = e.run
  <2>1. Shallow(events, e.cause) /\ events[e.cause].run = run /\ e.cause \in 1..m
    BY <1>2, <1>5 DEF FromHere, Shallow
  <2> QED BY <1>1, <1>2, <2>1, ShallowKept
<1>6. \A i \in 1..Len(events') : events'[i].index > 0 =>
         Shallow(events', events'[i].cause) /\ events'[events'[i].cause].run = events'[i].run
  <2> SUFFICES ASSUME NEW i \in 1..id, events'[i].index > 0
               PROVE  /\ Shallow(events', events'[i].cause)
                      /\ events'[events'[i].cause].run = events'[i].run
    BY <1>1
  <2>1. CASE i \in 1..m
    BY <1>1, <1>4, <2>1
  <2>2. CASE i = id
    BY <1>1, <1>5, <2>2
  <2> QED BY <1>1, <2>1, <2>2
<1> DEFINE Good(x) == x \in Item /\ x.index > 0 /\ Shallow(events', x.cause) /\ events'[x.cause].run = run'
<1>7. \A k \in 1..Len(cascade) : Good(cascade[k])
  <2> SUFFICES ASSUME NEW k \in 1..Len(cascade) PROVE Good(cascade[k])
    OBVIOUS
  <2>1. PICK d \in Item : d = cascade[k]
    BY <1>2, ElementOfSeq
  <2>2. FromHere(d)
    BY <1>3, <2>1 DEF Sources
  <2>3. FromHere(d)'
    BY <2>2, ShallowKept
  <2> QED BY <2>1, <2>3 DEF FromHere
<1>8. cascade' \in Seq(Item) /\ \A k \in 1..Len(cascade') : Good(cascade'[k])
  <2>1. CASE cascade' = cascade
    BY <1>2, <1>7, <2>1
  <2>2. CASE cascade' = cascade \o New(id, n) /\ (n > 0 => listening /\ ~TooDeep(graph', id))
    <3> DEFINE new == New(id, n)
    <3>1. new \in Seq(Item) /\ Len(new) = n
      <4>1. new \in [1..n -> Item]
        BY <1>1 DEF New, Item
      <4> HIDE DEF new
      <4> QED BY <4>1, SequenceOfLength
    <3>2. \A k \in 1..n : Good(new[k])
      <4> SUFFICES ASSUME NEW k \in 1..n PROVE Good(new[k])
        OBVIOUS
      <4>1. new[k] = [cause |-> id, index |-> k] /\ k > 0 /\ n > 0
        BY DEF New
      <4>2. listening /\ ~TooDeep(graph', id)
        BY <2>2, <4>1
      <4>3. Shallow(events', id)
        BY <4>2, EffectOnGraph
      <4>4. events'[id].run = run' /\ new[k] \in Item
        BY <1>1, <1>2, <4>1 DEF Item
      <4> QED BY <4>1, <4>3, <4>4
    <3> HIDE DEF new, Good
    <3>3. cascade' = cascade \o new
      BY <2>2 DEF new
    <3>4. /\ cascade' \in Seq(Item) /\ Len(cascade') = Len(cascade) + n /\ Len(cascade) \in Nat
          /\ \A k \in 1..Len(cascade') :
                cascade'[k] = IF k <= Len(cascade) THEN cascade[k] ELSE new[k - Len(cascade)]
      <4>1. cascade \in Seq(Item)
        BY <1>2
      <4>2. Len(cascade) \in Nat
        BY <4>1, LenProperties
      <4>3. new \in Seq(Item) /\ Len(new) = n
        BY <3>1
      <4>4. /\ cascade \o new \in Seq(Item) /\ Len(cascade \o new) = Len(cascade) + Len(new)
            /\ \A k \in 1..Len(cascade) + Len(new) :
                  (cascade \o new)[k] =
                      IF k <= Len(cascade) THEN cascade[k] ELSE new[k - Len(cascade)]
        BY <4>1, <4>3, ConcatProperties
      <4> QED BY ONLY <3>3, <4>2, <4>3, <4>4
    <3> SUFFICES ASSUME NEW k \in 1..Len(cascade') PROVE Good(cascade'[k])
      BY <3>4
    <3>5. CASE k <= Len(cascade)
      <4>1. k \in 1..Len(cascade)
        BY <3>4, <3>5
      <4> QED BY <1>7, <3>4, <3>5, <4>1
    <3>6. CASE ~(k <= Len(cascade))
      <4>1. k - Len(cascade) \in 1..n
        BY <3>4, <3>6
      <4> QED BY <3>2, <3>4, <3>6, <4>1
    <3> QED BY <3>5, <3>6
  <2> QED BY <2>1, <2>2 DEF Effect
<1>9. (\A k \in 1..Len(cascade) : FromHere(cascade[k]))'
  BY <1>8 DEF FromHere
<1> QED BY <1>6, <1>8, <1>9
-----------------------------------------------------------------------------
\* The derived events that are committed in process r, and those that the reducer
\* derived in it; the one that the loop broadcasts.
Committed(ev, r) ==
    FlattenSeq([i \in 1..Len(ev) |->
        IF ev[i].run = r /\ ev[i].index > 0
        THEN <<[cause |-> ev[i].cause, index |-> ev[i].index]>> ELSE <<>>])
Derived(ev, r) ==
    FlattenSeq([i \in 1..Len(ev) |-> IF ev[i].run = r THEN New(i, ev[i].derives) ELSE <<>>])
Flying == IF loop = "sending" THEN <<draft>> ELSE <<>>

\* The property in these words.
LEMMA DerivedInWords ==
  DerivedOnceInOrder <=>
      (up /\ ~kernel.cancelled /\ loop # "failed" =>
          Committed(events, run) \o Flying \o cascade = Derived(events, run))
BY DEF DerivedOnceInOrder, Committed, Derived, Flying, New

\* What is derived is a sequence of items.
LEMMA NewIsASequence ==
  ASSUME NEW i \in Nat, NEW n \in Nat
  PROVE  New(i, n) \in Seq(Item) /\ Len(New(i, n)) = n
<1> DEFINE new == New(i, n)
<1>1. new \in [1..n -> Item]
  BY DEF New, Item
<1> HIDE DEF new
<1>2. new \in Seq(Item) /\ Len(new) = n
  BY <1>1, SequenceOfLength
<1> QED BY <1>2 DEF new

\* One event more adds itself to the one, and what is derived from it to the other.
LEMMA PartsOfOneMore ==
  ASSUME NEW ev \in Seq(Event), NEW e \in Event, NEW r \in Nat
  PROVE  /\ Committed(ev, r) \in Seq(Item) /\ Derived(ev, r) \in Seq(Item)
         /\ Committed(Append(ev, e), r) = Committed(ev, r) \o
               IF e.run = r /\ e.index > 0 THEN <<[cause |-> e.cause, index |-> e.index]>>
               ELSE <<>>
         /\ Derived(Append(ev, e), r) = Derived(ev, r) \o
               IF e.run = r THEN New(Len(ev) + 1, e.derives) ELSE <<>>
<1> DEFINE n == Len(ev)
           more == Append(ev, e)
           C(s, i) == IF s[i].run = r /\ s[i].index > 0
                      THEN <<[cause |-> s[i].cause, index |-> s[i].index]>> ELSE <<>>
           D(s, i) == IF s[i].run = r THEN New(i, s[i].derives) ELSE <<>>
           ca == [i \in 1..n |-> C(ev, i)]
           cb == [i \in 1..(n + 1) |-> C(more, i)]
           da == [i \in 1..n |-> D(ev, i)]
           db == [i \in 1..(n + 1) |-> D(more, i)]
<1>1. /\ n \in Nat /\ Len(more) = n + 1 /\ more[n + 1] = e
      /\ \A i \in 1..n : more[i] = ev[i]
  BY AppendProperties, LenProperties
<1>2. \A i \in 1..n : ev[i] \in Event
  BY ElementOfSeq
<1>3. \A i \in 1..(n + 1) : i \in Nat /\ more[i] \in Event
  BY <1>1, <1>2
<1>4. \A s, i : i \in Nat /\ s[i] \in Event => C(s, i) \in Seq(Item) /\ D(s, i) \in Seq(Item)
  <2> SUFFICES ASSUME NEW s, NEW i \in Nat, s[i] \in Event
               PROVE  C(s, i) \in Seq(Item) /\ D(s, i) \in Seq(Item)
    OBVIOUS
  <2>1. \A x \in Item : <<x>> \in Seq(Item)
    OBVIOUS
  <2>2. [cause |-> s[i].cause, index |-> s[i].index] \in Item /\ <<>> \in Seq(Item)
    BY DEF Event, Item
  <2>3. C(s, i) \in Seq(Item)
    <3> HIDE DEF Item
    <3> QED BY <2>1, <2>2
  <2>4. New(i, s[i].derives) \in Seq(Item)
    <3>1. s[i].derives \in Nat
      BY DEF Event
    <3> QED BY <3>1, NewIsASequence
  <2> QED BY <2>2, <2>3, <2>4
<1>5. \A i \in 1..n : i \in Nat
  OBVIOUS
<1> HIDE DEF n, more
<1>6. /\ ca \in [1..n -> Seq(Item)] /\ cb \in [1..(n + 1) -> Seq(Item)]
      /\ da \in [1..n -> Seq(Item)] /\ db \in [1..(n + 1) -> Seq(Item)]
  <2> HIDE DEF C, D
  <2> QED BY <1>2, <1>3, <1>4, <1>5
<1>7. \A i \in 1..n : cb[i] = ca[i] /\ db[i] = da[i]
  BY <1>1
<1>8. cb[n + 1] = C(more, n + 1) /\ db[n + 1] = D(more, n + 1)
  BY <1>1
<1>9. /\ Committed(ev, r) = FlattenSeq(ca) /\ Committed(more, r) = FlattenSeq(cb)
      /\ Derived(ev, r) = FlattenSeq(da) /\ Derived(more, r) = FlattenSeq(db)
  BY <1>1 DEF n, Committed, Derived
<1> HIDE DEF ca, cb, da, db
<1>10. FlattenSeq(cb) = FlattenSeq(ca) \o cb[n + 1] /\ FlattenSeq(ca) \in Seq(Item)
  BY <1>1, <1>6, <1>7, FlattenStep
<1>11. FlattenSeq(db) = FlattenSeq(da) \o db[n + 1] /\ FlattenSeq(da) \in Seq(Item)
  BY <1>1, <1>6, <1>7, FlattenStep
<1> QED BY <1>1, <1>8, <1>9, <1>10, <1>11 DEF n, more

\* What becomes of the cascading loop: its broadcast fails, or somebody else's
\* commit leaves it or wakes it up, or its own commit sends the draft.
Flow(e) ==
    /\ draft' \in {draft, External}
    /\ \/ loop' = "failed"
       \/ e.index = 0 /\ draft' = draft /\ loop' \in {loop, Woken(loop)}
       \/ loop = "sending" /\ e.cause = draft.cause /\ e.index = draft.index /\ loop' = "sent"

\* What is in flight moves to the committed ones, and what is derived to the queue.
LEMMA EffectOnDerived ==
  ASSUME IndInv, up, NEW e, NEW n \in Nat, Effect(e, n), Flow(e)
  PROVE  DerivedOnceInOrder'
<1> SUFFICES ASSUME ~kernel'.cancelled, loop' # "failed"
             PROVE  Committed(events', run') \o Flying' \o cascade' = Derived(events', run')
  BY DerivedInWords DEF DerivedOnceInOrder, Committed, Derived, Flying, New
<1>1. /\ events \in Seq(Event) /\ e \in Event /\ e.run = run /\ run' = run /\ run \in Nat
      /\ e.derives = n /\ events' = Append(events, e) /\ Len(events) \in Nat
      /\ cascade \in Seq(Item) /\ draft \in Item
      /\ ~kernel.cancelled /\ loop # "failed"
      /\ cascade' = cascade \o New(Len(events) + 1, n)
  <2>1. events \in Seq(Event) /\ cascade \in Seq(Item) /\ draft \in Item /\ run \in Nat
    BY DEF IndInv, TypeOK
  <2>2. Len(events) \in Nat
    BY <2>1, LenProperties
  <2>3. loop # "failed"
    BY DEF Flow, Woken
  <2> QED BY <2>1, <2>2, <2>3 DEF Effect
<1> DEFINE c == Committed(events, run)
           d == Derived(events, run)
           new == New(Len(events) + 1, n)
           sent == IF e.index > 0 THEN <<[cause |-> e.cause, index |-> e.index]>> ELSE <<>>
<1>2. c \o Flying \o cascade = d
  BY <1>1, DerivedInWords DEF IndInv
<1>3. /\ c \in Seq(Item) /\ d \in Seq(Item)
      /\ Committed(events', run') = c \o sent /\ Derived(events', run') = d \o new
  BY <1>1, PartsOfOneMore
<1>4. new \in Seq(Item)
  <2>1. Len(events) + 1 \in Nat
    BY <1>1
  <2> QED BY <2>1, NewIsASequence
<1>5. \A x \in Item : <<x>> \in Seq(Item)
  OBVIOUS
<1>6. Flying \in Seq(Item) /\ Flying' \in Seq(Item) /\ sent \in Seq(Item) /\ sent \o Flying' = Flying
  <2>1. <<>> \in Seq(Item) /\ Flying \in Seq(Item)
    BY <1>1, <1>5 DEF Flying
  <2>2. CASE e.index = 0 /\ draft' = draft /\ loop' \in {loop, Woken(loop)}
    <3>1. sent = <<>> /\ Flying' = Flying
      BY <2>2 DEF Flying, Woken
    <3> QED BY <2>1, <3>1, ConcatEmptySeq
  <2>3. CASE loop = "sending" /\ e.cause = draft.cause /\ e.index = draft.index /\ loop' = "sent"
    <3>1. draft.index > 0
      BY <2>3 DEF IndInv, Sources, FromHere
    <3>2. draft = [cause |-> draft.cause, index |-> draft.index]
      BY <1>1 DEF Item
    <3>3. sent = <<draft>> /\ Flying = <<draft>> /\ Flying' = <<>>
      BY <2>3, <3>1, <3>2 DEF Flying
    <3> HIDE DEF sent
    <3> QED BY <2>1, <3>3, ConcatEmptySeq
  <2> QED BY <2>2, <2>3 DEF Flow
<1> DEFINE f == Flying
           g == Flying'
<1>7. /\ (c \o sent) \o g = c \o (sent \o g)
      /\ c \o f \in Seq(Item)
      /\ (c \o f) \o (cascade \o new) = ((c \o f) \o cascade) \o new
  <2> HIDE DEF c, d, new, sent, f, g
  <2>1. /\ c \in Seq(Item) /\ sent \in Seq(Item) /\ f \in Seq(Item) /\ g \in Seq(Item)
        /\ cascade \in Seq(Item) /\ new \in Seq(Item)
    BY <1>1, <1>3, <1>4, <1>6 DEF f, g
  <2>2. c \o f \in Seq(Item)
    BY <2>1, ConcatProperties
  <2>3. (c \o sent) \o g = c \o (sent \o g)
    <3>1. Associates(c, sent, g)
      BY <2>1, Regrouped
    <3> QED BY <3>1 DEF Associates
  <2> DEFINE h == c \o f
  <2>4. h \in Seq(Item)
    BY <2>2
  <2> HIDE DEF h
  <2>5. (h \o cascade) \o new = h \o (cascade \o new)
    <3>1. Associates(h, cascade, new)
      BY <2>1, <2>4, Regrouped
    <3> QED BY <3>1 DEF Associates
  <2> QED BY <2>2, <2>3, <2>5 DEF h
<1> HIDE DEF c, d, new, sent
<1>8. (c \o sent) \o g = c \o f
  BY <1>6, <1>7
<1>9. cascade' = cascade \o new
  BY <1>1 DEF new
<1> QED BY <1>2, <1>3, <1>7, <1>8, <1>9

\* A commit keeps the invariant.
LEMMA EffectKeeps ==
  ASSUME IndInv, up, NEW e, NEW n \in Nat, Effect(e, n), Flow(e),
         active' \in Nat, failed' \in 0..active'
  PROVE  IndInv'
<1>1. TypeOK'
  <2>1. /\ events' \in Seq(Event) /\ graph' \subseteq 1..Len(events') /\ cascade' \in Seq(Item)
        /\ Len(events) \in Nat
    BY EffectOnEvents, EffectOnGraph, EffectOnSources
  <2>2. TypeOK /\ e.seq \in Nat
    BY DEF IndInv, Effect, Event
  <2>3. run' \in Nat /\ up' \in BOOLEAN /\ listening' \in BOOLEAN /\ lastSeq' \in Nat
    BY <2>2 DEF TypeOK, Effect
  <2>4. state' \in Seq(Nat)
    <3>1. Len(events) + 1 \in Nat
      BY <2>1
    <3>2. state \in Seq(Nat)
      BY <2>2 DEF TypeOK
    <3>3. Append(state, Len(events) + 1) \in Seq(Nat)
      BY <3>1, <3>2, AppendProperties
    <3> QED BY <3>2, <3>3 DEF Effect
  <2>5. snapshot' \in [seq : Nat, state : Seq(Nat)]
    <3>1. CASE UNCHANGED snapshot
      BY <2>2, <3>1 DEF TypeOK
    <3>2. CASE snapshot' = [seq |-> e.seq, state |-> state']
      BY <2>2, <2>4, <3>2
    <3> QED BY <3>1, <3>2 DEF Effect
  <2>6. /\ loop' \in {"running", "asleep", "sending", "sent", "failed", "exited"}
        /\ draft' \in Item
    BY <2>2 DEF TypeOK, Flow, Woken, Item, External
  <2>7. kernel' \in [started : BOOLEAN, graceful : BOOLEAN, cancelled : BOOLEAN]
    BY DEF Effect
  <2> QED BY <2>1, <2>3, <2>4, <2>5, <2>6, <2>7 DEF TypeOK
<1>2. Down'
  BY DEF Down, Effect
<1>3. Numbers' /\ SnapshotOK' /\ GraphOK' /\ StateFollowsLedger'
  BY EffectOnNumbers, EffectOnState, EffectOnGraph
<1>4. Sources'
  <2>1. loop' = "sending" => FromHere(draft)'
    <3> SUFFICES ASSUME loop' = "sending" PROVE FromHere(draft)'
      OBVIOUS
    <3>1. loop = "sending" /\ draft' = draft
      BY DEF Flow, Woken
    <3>2. PICK d : d = draft
      OBVIOUS
    <3>3. FromHere(d)
      BY <3>1, <3>2 DEF IndInv, Sources
    <3>4. FromHere(d)'
      BY <3>3, ShallowKept
    <3> QED BY <3>1, <3>2, <3>4 DEF FromHere
  <2> QED BY <2>1, EffectOnSources DEF Sources
<1> QED BY <1>1, <1>2, <1>3, <1>4, EffectOnDerived DEF IndInv

\* Nothing is derived.
LEMMA NothingNew ==
  ASSUME IndInv, NEW i \in Nat
  PROVE  cascade = cascade \o New(i, 0)
<1>1. New(i, 0) \in Seq(Item) /\ Len(New(i, 0)) = 0
  BY NewIsASequence
<1>2. New(i, 0) = <<>>
  BY <1>1, EmptySeq
<1>3. cascade \in Seq(Item)
  BY DEF IndInv, TypeOK
<1> QED BY <1>2, <1>3, ConcatEmptySeq

\* Every commit has the effect, where the event is the answer to an event that is
\* there, and derived only if that was not too deep.
LEMMA CommitIsEffect ==
  ASSUME IndInv, UNCHANGED <<run, up, listening>>, NEW from \in Item, NEW volatile \in BOOLEAN,
         NEW n \in Nat, NEW where, from.cause \in 0..Len(events),
         from.index > 0 => FromHere(from), Commit(from, volatile, n, where)
  PROVE  /\ \E e : Effect(e, n) /\ e.cause = from.cause /\ e.index = from.index
         /\ loop' \in {where, Woken(where)}
<1> DEFINE e == [seq |-> lastSeq + 1, cause |-> from.cause, index |-> from.index, run |-> run,
                 volatile |-> volatile, poison |-> FALSE, derives |-> n]
           id == Len(events) + 1
<1>1. /\ events \in Seq(Event) /\ lastSeq \in Nat /\ run \in Nat /\ listening \in BOOLEAN
      /\ kernel \in [started : BOOLEAN, graceful : BOOLEAN, cancelled : BOOLEAN]
  BY DEF IndInv, TypeOK
<1>2. e \in Event
  BY <1>1 DEF Event, Item
<1>3. /\ events' = Append(events, e) /\ lastSeq' = lastSeq + 1
      /\ n > 0 => listening /\ ~volatile /\ ~kernel.cancelled
  BY DEF Commit
<1>4. /\ e.seq = lastSeq + 1 /\ e.run = run /\ e.derives = n
      /\ e.cause = from.cause /\ e.index = from.index /\ e.volatile = volatile /\ ~e.poison
  OBVIOUS
<1> HIDE DEF e
<1>5. Len(events) \in Nat /\ Len(events') = id /\ events'[id] = e
  BY <1>1, <1>2, <1>3, AppendProperties, LenProperties
<1>6. e.index > 0 => FromHere(e)
  BY <1>4 DEF FromHere
<1>7. n = 0 => cascade = cascade \o New(id, n)
  <2>1. id \in Nat
    BY <1>5
  <2>2. cascade = cascade \o New(id, 0)
    BY <2>1, NothingNew
  <2> QED BY <2>2
<1>8. CASE ~listening
  <2>1. n = 0
    BY <1>3, <1>8
  <2>2. UNCHANGED <<snapshot, state, graph, cascade, kernel>> /\ loop' = where
    BY <1>8 DEF Commit
  <2>3. Effect(e, n)
    BY <1>1, <1>2, <1>3, <1>4, <1>6, <1>7, <1>8, <2>1, <2>2 DEF Effect
  <2> QED BY <1>4, <2>2, <2>3
<1>9. CASE listening
  <2>1. Listen(id, n, where)
    BY <1>5, <1>9 DEF Commit
  <2>2. graph' = Kept(graph \cup {id}, e.seq)
    BY <1>5, <2>1 DEF Listen
  <2>3. CASE volatile
    <3>1. n = 0
      BY <1>3, <2>3
    <3>2. UNCHANGED <<state, snapshot, cascade, kernel>> /\ loop' = where
      BY <1>4, <1>5, <2>1, <2>3 DEF Listen
    <3>3. Effect(e, n)
      BY <1>1, <1>2, <1>3, <1>4, <1>6, <1>7, <1>9, <2>2, <2>3, <3>1, <3>2 DEF Effect
    <3> QED BY <1>4, <3>2, <3>3
  <2>4. CASE ~volatile
    <3>1. /\ state' = Append(state, id)
          /\ UNCHANGED snapshot \/ snapshot' = [seq |-> e.seq, state |-> state']
      BY <1>4, <1>5, <2>1, <2>4 DEF Listen
    <3>2. \/ cascade' = cascade /\ kernel' = kernel /\ kernel.cancelled /\ loop' = where
          \/ /\ kernel' = [kernel EXCEPT !.cancelled = TRUE] /\ cascade' = cascade
             /\ loop' = where
          \/ /\ kernel' = kernel /\ loop' = Woken(where)
             /\ cascade' = cascade \o New(id, n) /\ (n > 0 => ~TooDeep(graph', id))
      BY <1>4, <1>5, <2>1, <2>2, <2>4 DEF Listen, Queued, New
    <3>3. /\ kernel' \in [started : BOOLEAN, graceful : BOOLEAN, cancelled : BOOLEAN]
          /\ kernel.cancelled => kernel'.cancelled
          /\ \/ cascade' = cascade /\ kernel'.cancelled
             \/ cascade' = cascade \o New(id, n) /\ (n > 0 => listening /\ ~TooDeep(graph', id))
          /\ loop' \in {where, Woken(where)}
      BY <1>1, <1>9, <3>2
    <3>4. Effect(e, n)
      BY <1>1, <1>2, <1>3, <1>4, <1>6, <1>9, <2>2, <2>4, <3>1, <3>3 DEF Effect
    <3> QED BY <1>4, <3>3, <3>4
  <2> QED BY <2>3, <2>4
<1> QED BY <1>1, <1>8, <1>9

\* So has one whose reducer throws, except that nothing is folded or derived.
LEMMA ThrowIsEffect ==
  ASSUME IndInv, UNCHANGED <<run, up, listening>>, NEW from \in Item,
         from.cause \in 0..Len(events), from.index > 0 => FromHere(from), CommitThrows(from)
  PROVE  \E e : Effect(e, 0) /\ e.cause = from.cause /\ e.index = from.index
<1> DEFINE e == [seq |-> lastSeq + 1, cause |-> from.cause, index |-> from.index, run |-> run,
                 volatile |-> FALSE, poison |-> TRUE, derives |-> 0]
           id == Len(events) + 1
<1>1. /\ events \in Seq(Event) /\ lastSeq \in Nat /\ run \in Nat
      /\ kernel \in [started : BOOLEAN, graceful : BOOLEAN, cancelled : BOOLEAN]
  BY DEF IndInv, TypeOK
<1>2. e \in Event
  BY <1>1 DEF Event, Item
<1>3. /\ events' = Append(events, e) /\ lastSeq' = lastSeq + 1 /\ listening
      /\ UNCHANGED <<snapshot, state, cascade, kernel>>
      /\ graph' = Kept(graph \cup {Len(events')}, e.seq)
  BY DEF CommitThrows
<1>4. /\ e.seq = lastSeq + 1 /\ e.run = run /\ e.derives = 0
      /\ e.cause = from.cause /\ e.index = from.index /\ ~e.volatile /\ e.poison
  OBVIOUS
<1> HIDE DEF e
<1>5. Len(events) \in Nat /\ Len(events') = id
  BY <1>1, <1>2, <1>3, AppendProperties, LenProperties
<1>6. e.index > 0 => FromHere(e)
  BY <1>4 DEF FromHere
<1>7. cascade' = cascade \o New(id, 0)
  BY <1>3, <1>5, NothingNew
<1>8. Effect(e, 0)
  BY <1>1, <1>2, <1>3, <1>4, <1>5, <1>6, <1>7 DEF Effect
<1> QED BY <1>4, <1>8
-----------------------------------------------------------------------------
\* A step that commits nothing keeps what is said of the ledger.
LEMMA QuietKeeps ==
  ASSUME IndInv, UNCHANGED <<events, snapshot, run, lastSeq, state, graph, up>>,
         listening' => listening, TypeOK', Down', DerivedOnceInOrder',
         (\A k \in 1..Len(cascade) : FromHere(cascade[k]))',
         (loop = "sending" => FromHere(draft))'
  PROVE  IndInv'
<1>1. Numbers'
  BY DEF IndInv, Numbers, Durable
<1>2. SnapshotOK'
  BY DEF IndInv, SnapshotOK, Durable, Chosen
<1>3. GraphOK'
  BY DEF IndInv, GraphOK
<1>4. Sources'
  BY DEF IndInv, Sources
<1>5. StateFollowsLedger'
  BY DEF IndInv, StateFollowsLedger, Durable, Chosen
<1> QED BY <1>1, <1>2, <1>3, <1>4, <1>5 DEF IndInv

\* One that leaves the queue alone, too.
LEMMA QueueUntouched ==
  ASSUME IndInv, UNCHANGED <<events, snapshot, run, lastSeq, state, graph, up, cascade>>,
         listening' => listening, TypeOK', Down',
         loop' = "sending" => loop = "sending" /\ draft' = draft,
         \/ kernel'.cancelled \/ loop' = "failed"
         \/ ~kernel.cancelled /\ loop # "failed" /\ (loop = "sending" => loop' = "sending")
  PROVE  IndInv'
<1>1. DerivedOnceInOrder'
  <2> SUFFICES ASSUME up', ~kernel'.cancelled, loop' # "failed"
               PROVE  Committed(events', run') \o Flying' \o cascade' = Derived(events', run')
    BY DerivedInWords DEF DerivedOnceInOrder, Committed, Derived, Flying, New
  <2>1. up /\ ~kernel.cancelled /\ loop # "failed" /\ Flying' = Flying
    BY DEF Flying
  <2>2. Committed(events, run) \o Flying \o cascade = Derived(events, run)
    BY <2>1, DerivedInWords DEF IndInv
  <2> QED BY <2>1, <2>2
<1>2. (\A k \in 1..Len(cascade) : FromHere(cascade[k]))'
  BY DEF IndInv, Sources, FromHere
<1>3. (loop = "sending" => FromHere(draft))'
  BY DEF IndInv, Sources, FromHere
<1> QED BY <1>1, <1>2, <1>3, QuietKeeps

\* The loop takes the first of the queue.
LEMMA TakesTheFirst ==
  ASSUME IndInv, UNCHANGED <<disk, run, up, lastSeq, state, listening, graph, active, failed, kernel>>,
         loop = "running", cascade # <<>>, draft' = Head(cascade), cascade' = Tail(cascade),
         loop' = "sending"
  PROVE  IndInv'
<1>1. /\ cascade \in Seq(Item) /\ Head(cascade) \in Item /\ Tail(cascade) \in Seq(Item)
      /\ Len(cascade) \in Nat /\ Len(cascade) > 0 /\ Len(Tail(cascade)) = Len(cascade) - 1
      /\ \A k \in 1..Len(Tail(cascade)) : Tail(cascade)[k] = cascade[k + 1]
  <2>1. cascade \in Seq(Item)
    BY DEF IndInv, TypeOK
  <2> QED BY <2>1, HeadTailProperties, EmptySeq, LenProperties
<1>2. UNCHANGED <<events, snapshot>>
  BY DEF disk
<1>3. TypeOK' /\ Down'
  BY <1>1, <1>2 DEF IndInv, TypeOK, Down
<1>4. (\A k \in 1..Len(cascade) : FromHere(cascade[k]))'
  <2> SUFFICES ASSUME NEW k \in 1..Len(Tail(cascade)) PROVE FromHere(cascade[k])'
    OBVIOUS
  <2>1. k + 1 \in 1..Len(cascade) /\ cascade'[k] = cascade[k + 1]
    BY <1>1
  <2>2. FromHere(cascade[k + 1])
    BY <2>1 DEF IndInv, Sources
  <2> QED BY <1>2, <2>1, <2>2 DEF FromHere
<1>5. (loop = "sending" => FromHere(draft))'
  <2>1. 1 \in 1..Len(cascade) /\ draft' = cascade[1]
    BY <1>1
  <2>2. FromHere(cascade[1])
    BY <2>1 DEF IndInv, Sources
  <2> QED BY <1>2, <2>1, <2>2 DEF FromHere
<1>6. DerivedOnceInOrder'
  <2> SUFFICES ASSUME up, ~kernel.cancelled
               PROVE  Committed(events', run') \o Flying' \o cascade' = Derived(events', run')
    BY DerivedInWords DEF DerivedOnceInOrder, Committed, Derived, Flying, New
  <2> DEFINE c == Committed(events, run)
             h == Head(cascade)
             t == Tail(cascade)
  <2>1. c \o Flying \o cascade = Derived(events, run) /\ Flying = <<>>
    BY DerivedInWords DEF IndInv, Flying
  <2>2. Flying' = <<h>> /\ cascade' = t /\ Committed(events', run') = c
        /\ Derived(events', run') = Derived(events, run)
    BY <1>2 DEF Flying
  <2>3. c \in Seq(Item)
    <3>1. events \in Seq(Event) /\ run \in Nat
      BY DEF IndInv, TypeOK
    <3>2. \E e \in Event : TRUE
      <4>1. [seq |-> 0, cause |-> 0, index |-> 0, run |-> 0, volatile |-> FALSE,
             poison |-> FALSE, derives |-> 0] \in Event
        BY DEF Event
      <4> QED BY <4>1
    <3> QED BY <3>1, <3>2, PartsOfOneMore
  <2>4. <<h>> \o t = cascade
    <3>1. \A i \in 1..Len(cascade) : (<<h>> \o t)[i] = cascade[i]
      BY <1>1
    <3> QED BY <1>1, <3>1
  <2> HIDE DEF c, h, t
  <2>5. h \in Item /\ t \in Seq(Item) /\ <<h>> \in Seq(Item) /\ cascade \in Seq(Item)
    BY <1>1 DEF h, t
  <2>6. (c \o <<h>>) \o t = c \o (<<h>> \o t)
    <3>1. Associates(c, <<h>>, t)
      BY <2>3, <2>5, Regrouped
    <3> QED BY <3>1 DEF Associates
  <2>7. c \o <<>> = c
    BY <2>3, ConcatEmptySeq
  <2> QED BY <2>1, <2>2, <2>4, <2>6, <2>7
<1> QED BY <1>2, <1>3, <1>4, <1>5, <1>6, QuietKeeps

\* Empty parts come to nothing.
LEMMA FlattenNothing ==
  ASSUME NEW n \in Nat
  PROVE  FlattenSeq([i \in 1..n |-> <<>>]) = <<>>
<1> DEFINE Empties(m) == [i \in 1..m |-> <<>>]
           T == {m \in 0..n : FlattenSeq(Empties(m)) = <<>>}
<1>1. 0 \in T
  <2> DEFINE a == Empties(0)
  <2>1. a = <<>> /\ Len(a) = 0 /\ 0 \in 0..n
    OBVIOUS
  <2> HIDE DEF a
  <2>2. FlattenSeq(a) = <<>>
    BY <2>1 DEF FlattenSeq
  <2> QED BY <2>1, <2>2 DEF a
<1>2. ASSUME NEW m \in 1..n, m - 1 \in T
      PROVE  m \in T
  <2> DEFINE k == m - 1
             a == Empties(k)
             b == Empties(k + 1)
  <2>1. k \in Nat /\ k + 1 = m /\ m \in 0..n
    OBVIOUS
  <2>2. /\ a \in [1..k -> Seq(Nat)] /\ b \in [1..(k + 1) -> Seq(Nat)]
        /\ \A i \in 1..k : b[i] = a[i]
    OBVIOUS
  <2>3. b[k + 1] = <<>>
    BY <2>1
  <2>4. FlattenSeq(a) = <<>>
    BY <1>2
  <2> HIDE DEF a, b, k
  <2>5. FlattenSeq(b) = FlattenSeq(a) \o b[k + 1]
    BY <2>1, <2>2, FlattenStep
  <2>6. FlattenSeq(b) = <<>>
    BY <2>3, <2>4, <2>5, ConcatEmptySeq, EmptySeq
  <2> QED BY <2>1, <2>6 DEF b
<1>3. n \in T
  <2> HIDE DEF T
  <2>1. 0..n \subseteq T
    BY <1>1, <1>2, InductionUpTo
  <2> QED BY <2>1
<1> QED BY <1>3

\* In a process that has not committed anything nothing is derived.
LEMMA NothingOfLater ==
  ASSUME NEW ev \in Seq(Event), NEW r, \A i \in 1..Len(ev) : ev[i].run # r
  PROVE  Committed(ev, r) = <<>> /\ Derived(ev, r) = <<>>
<1> DEFINE n == Len(ev)
           a == [i \in 1..n |-> IF ev[i].run = r /\ ev[i].index > 0
                                THEN <<[cause |-> ev[i].cause, index |-> ev[i].index]>> ELSE <<>>]
           b == [i \in 1..n |-> IF ev[i].run = r THEN New(i, ev[i].derives) ELSE <<>>]
           e == [i \in 1..n |-> <<>>]
<1>1. n \in Nat
  BY LenProperties
<1>2. a = e /\ b = e
  OBVIOUS
<1>3. FlattenSeq(e) = <<>>
  BY <1>1, FlattenNothing
<1>4. Committed(ev, r) = FlattenSeq(a) /\ Derived(ev, r) = FlattenSeq(b)
  BY DEF Committed, Derived
<1> HIDE DEF a, b, e
<1> QED BY <1>2, <1>3, <1>4

\* Hydration: the snapshot and the events after it make the fold of the ledger,
\* and the numbers go on where the ledger ends.
LEMMA BootKeeps ==
  ASSUME IndInv, Boot
  PROVE  IndInv'
<1> DEFINE m == Len(events)
           durable == Chosen(Durable)
           B == {i \in Durable : ~events[i].poison /\ events[i].seq <= snapshot.seq}
           R == {i \in Durable : events[i].seq > snapshot.seq}
           A == {i \in Durable : ~events[i].poison}
<1>1. /\ UNCHANGED <<events, snapshot>> /\ run' = run + 1 /\ up' = TRUE /\ listening' = TRUE
      /\ graph' = {} /\ cascade' = <<>> /\ loop' = "running" /\ draft' = External
      /\ active' = Processors /\ failed' = 0 /\ kernel' = Running
      /\ state' = snapshot.state \o Replayed
      /\ lastSeq' = IF durable = <<>> THEN 0 ELSE events[Last(durable)].seq
      /\ \A i \in ToSet(Replayed) : ~events[i].poison
  BY DEF Boot, disk
<1>2. /\ events \in Seq(Event) /\ run \in Nat /\ snapshot \in [seq : Nat, state : Seq(Nat)]
      /\ m \in Nat /\ \A i \in 1..m : events[i] \in Event
  <2>1. events \in Seq(Event)
    BY DEF IndInv, TypeOK
  <2>2. m \in Nat /\ \A i \in 1..m : events[i] \in Event
    BY <2>1, LenProperties, ElementOfSeq
  <2> QED BY <2>2 DEF IndInv, TypeOK
<1>3. Numbers
  BY DEF IndInv
<1>4. \A i \in Durable : i \in 1..m /\ events[i].seq \in Nat
  BY <1>2 DEF Durable, Event
<1>5. durable = UpTo(Durable, m) /\ Replayed = UpTo(R, m)
  BY DEF Chosen, Replayed, UpTo
<1>6. InOrderOf(durable, Durable, m) /\ InOrderOf(Replayed, R, m)
  BY <1>2, <1>5, UpToInOrder
<1> HIDE DEF m, durable
<1>7. /\ lastSeq' \in Nat /\ snapshot.seq <= lastSeq'
      /\ \A i \in Durable : events[i].seq <= lastSeq'
  <2>1. durable \in Seq(Nat) /\ Len(durable) \in Nat
    BY <1>6, LenProperties DEF InOrderOf
  <2>2. CASE durable = <<>>
    <3>1. Durable = {}
      BY <1>4, <1>6, <2>2 DEF InOrderOf
    <3> QED BY <1>1, <1>3, <2>2, <3>1 DEF Numbers
  <2>3. CASE durable # <<>>
    <3> DEFINE l == Len(durable)
               last == durable[l]
    <3>1. l \in 1..l
      BY <2>1, <2>3, EmptySeq
    <3>2. last \in Durable /\ lastSeq' = events[last].seq
      BY <1>1, <1>6, <2>3, <3>1 DEF InOrderOf, Last
    <3>3. ASSUME NEW i \in Durable
          PROVE  events[i].seq <= events[last].seq
      <4>1. PICK k \in 1..l : durable[k] = i
        BY <1>4, <1>6 DEF InOrderOf
      <4>2. k = l \/ i < last
        <5>1. \A x, y \in 1..l : x < y => durable[x] < durable[y]
          BY <1>6 DEF InOrderOf
        <5>2. k = l \/ k < l
          BY <2>1
        <5> QED BY <3>1, <4>1, <5>1, <5>2
      <4> QED BY <1>3, <1>4, <3>2, <4>1, <4>2 DEF Numbers
    <3>4. snapshot.seq <= events[last].seq
      BY <1>3, <1>4, <3>2, <3>3 DEF Numbers
    <3> QED BY <1>4, <3>2, <3>3, <3>4
  <2> QED BY <2>2, <2>3
<1>8. TypeOK'
  <2>1. snapshot.state \in Seq(Nat) /\ Replayed \in Seq(Nat)
    BY <1>2, <1>6 DEF InOrderOf
  <2>2. state' \in Seq(Nat)
    BY <1>1, <2>1, ConcatProperties
  <2>3. cascade' \in Seq(Item)
    BY <1>1
  <2>4. active' \in Nat /\ failed' \in 0..active'
    BY <1>1, KernelBounds
  <2> QED BY <1>1, <1>2, <1>7, <2>2, <2>3, <2>4 DEF TypeOK, Running, External, Item
<1>9. Numbers'
  <2>1. Durable' = Durable
    BY <1>1 DEF Durable
  <2>2. \A i \in 1..Len(events) : events[i].run <= run' /\ events[i].cause < i
    <3>1. \A i \in 1..Len(events) : events[i].run <= run /\ events[i].cause < i
      BY <1>3 DEF Numbers
    <3>2. \A i \in 1..Len(events) : events[i].run \in Nat
      BY <1>2 DEF Event, m
    <3> QED BY <1>1, <1>2, <3>1, <3>2
  <2> QED BY <1>1, <1>3, <1>7, <2>1, <2>2 DEF Numbers
<1>10. SnapshotOK'
  BY <1>1 DEF IndInv, SnapshotOK, Durable, Chosen
<1>11. \A i \in 1..m : events[i].run # run'
  <2>1. \A i \in 1..m : events[i].run \in Nat /\ events[i].run <= run
    BY <1>2, <1>3 DEF Numbers, Event, m
  <2> QED BY <1>1, <1>2, <2>1
<1>12. GraphOK'
  BY <1>1, <1>11 DEF GraphOK, m
<1>13. Sources'
  BY <1>1 DEF IndInv, Sources
<1>14. StateFollowsLedger'
  <2>1. state' = UpTo(B, m) \o UpTo(R, m)
    BY <1>1, <1>5 DEF IndInv, SnapshotOK, Chosen, UpTo, m
  <2>2. \A a \in 1..m, b \in 1..m : a \in B /\ b \in R => a < b
    <3> SUFFICES ASSUME NEW a \in B, NEW b \in R PROVE a < b
      OBVIOUS
    <3>1. a \in Durable /\ b \in Durable /\ events[a].seq < events[b].seq
      BY <1>2, <1>4
    <3>2. ~(b < a) /\ a # b
      BY <1>3, <1>4, <3>1 DEF Numbers
    <3>3. a \in Nat /\ b \in Nat
      BY <1>2, <1>4, <3>1
    <3> QED BY <3>2, <3>3
  <2>3. state' = UpTo(B \cup R, m)
    <3> HIDE DEF B, R
    <3> QED BY <1>2, <2>1, <2>2, UpToUnion
  <2>4. \A i \in R : ~events[i].poison
    <3> SUFFICES ASSUME NEW i \in R PROVE ~events[i].poison
      OBVIOUS
    <3>1. PICK k \in 1..Len(Replayed) : Replayed[k] = i
      BY <1>4, <1>6 DEF InOrderOf
    <3>2. i \in ToSet(Replayed)
      <4>1. DOMAIN Replayed = 1..Len(Replayed)
        BY <1>6, LenProperties DEF InOrderOf
      <4> QED BY <3>1, <4>1 DEF ToSet
    <3> QED BY <1>1, <3>2
  <2>5. B \cup R = A
    BY <1>2, <1>4, <2>4
  <2>6. state' = UpTo(A, m)
    BY <2>3, <2>5
  <2> QED BY <1>1, <2>6 DEF StateFollowsLedger, Durable, Chosen, UpTo, m
<1>15. DerivedOnceInOrder'
  <2>1. Committed(events', run') = <<>> /\ Derived(events', run') = <<>>
    BY <1>1, <1>2, <1>11, NothingOfLater DEF m
  <2>2. Flying' = <<>> /\ cascade' = <<>>
    BY <1>1 DEF Flying
  <2>3. <<>> \o <<>> \o <<>> = <<>>
    OBVIOUS
  <2>4. Committed(events', run') \o Flying' \o cascade' = Derived(events', run')
    BY <2>1, <2>2, <2>3
  <2> QED BY <2>4, DerivedInWords DEF DerivedOnceInOrder, Committed, Derived, Flying, New
<1>16. Down'
  BY <1>1 DEF Down
<1> QED BY <1>8, <1>9, <1>10, <1>12, <1>13, <1>14, <1>15, <1>16 DEF IndInv

\* The end of a process leaves the ledger and the snapshot.
LEMMA CrashKeeps ==
  ASSUME IndInv, Crash
  PROVE  IndInv'
<1>1. /\ UNCHANGED <<events, snapshot>> /\ run' = run /\ up' = FALSE /\ listening' = FALSE
      /\ graph' = {} /\ cascade' = <<>> /\ loop' = "exited" /\ draft' = External
      /\ active' = 0 /\ failed' = 0 /\ kernel' = Running /\ lastSeq' = 0 /\ state' = <<>>
  BY DEF Crash, disk
<1>2. TypeOK'
  <2>1. events' \in Seq(Event) /\ snapshot' \in [seq : Nat, state : Seq(Nat)] /\ run' \in Nat
    BY <1>1 DEF IndInv, TypeOK
  <2>2. state' \in Seq(Nat) /\ cascade' \in Seq(Item) /\ draft' \in Item
    BY <1>1 DEF External, Item
  <2>3. kernel' \in [started : BOOLEAN, graceful : BOOLEAN, cancelled : BOOLEAN]
    BY <1>1 DEF Running
  <2>4. active' \in Nat /\ failed' \in 0..active' /\ graph' \subseteq 1..Len(events')
    BY <1>1
  <2> QED BY <1>1, <2>1, <2>2, <2>3, <2>4 DEF TypeOK
<1>3. Down' /\ GraphOK' /\ StateFollowsLedger' /\ DerivedOnceInOrder'
  BY <1>1 DEF Down, GraphOK, StateFollowsLedger, DerivedOnceInOrder
<1>4. Numbers'
  BY <1>1 DEF IndInv, Numbers, Durable
<1>5. SnapshotOK'
  BY <1>1 DEF IndInv, SnapshotOK, Durable, Chosen
<1>6. Sources'
  BY <1>1 DEF IndInv, Sources
<1> QED BY <1>2, <1>3, <1>4, <1>5, <1>6 DEF IndInv
-----------------------------------------------------------------------------
\* Nothing is there at first.
LEMMA InitIndInv == Init => IndInv
<1> SUFFICES ASSUME Init PROVE IndInv
  OBVIOUS
<1>1. /\ events = <<>> /\ snapshot = [seq |-> 0, state |-> <<>>]
      /\ run = 0 /\ up = FALSE
      /\ lastSeq = 0 /\ state = <<>> /\ listening = FALSE /\ graph = {} /\ cascade = <<>>
      /\ loop = "exited" /\ draft = External /\ active = 0 /\ failed = 0
      /\ kernel = Running
  BY DEF Init
<1>2. Len(events) = 0 /\ 1..0 = {} /\ Durable = {}
  BY <1>1 DEF Durable
<1>3. TypeOK
  <2>1. events \in Seq(Event) /\ state \in Seq(Nat) /\ cascade \in Seq(Item) /\ draft \in Item
    BY <1>1 DEF External, Item
  <2>2. snapshot \in [seq : Nat, state : Seq(Nat)]
    BY <1>1
  <2>3. kernel \in [started : BOOLEAN, graceful : BOOLEAN, cancelled : BOOLEAN]
    BY <1>1 DEF Running
  <2>4. active \in Nat /\ failed \in 0..active /\ graph \subseteq 1..Len(events)
    BY <1>1
  <2> HIDE DEF Init
  <2>5. run \in Nat /\ up \in BOOLEAN /\ lastSeq \in Nat /\ listening \in BOOLEAN
    BY <1>1
  <2> QED BY <1>1, <2>1, <2>2, <2>3, <2>4, <2>5 DEF TypeOK
<1>4. Down /\ GraphOK /\ StateFollowsLedger /\ DerivedOnceInOrder
  BY <1>1 DEF Down, GraphOK, StateFollowsLedger, DerivedOnceInOrder
<1>5. Numbers
  BY <1>1, <1>2 DEF Numbers
<1>6. SnapshotOK
  <2> DEFINE S == {i \in Durable : ~events[i].poison /\ events[i].seq <= snapshot.seq}
  <2>1. Chosen(S) = UpTo(S, 0)
    BY <1>2 DEF Chosen, UpTo
  <2> HIDE DEF S
  <2>2. snapshot.state = Chosen(S)
    BY <1>1, <2>1, UpToNothing
  <2> QED BY <2>2 DEF SnapshotOK, S
<1>7. Sources
  BY <1>1, <1>2 DEF Sources
<1> QED BY <1>3, <1>4, <1>5, <1>6, <1>7 DEF IndInv

\* Where an event comes from: a processor answers an event of the graph or none,
\* the loop sends its draft.
LEMMA ProcessorKeeps ==
  ASSUME IndInv, ProcessorBroadcasts
  PROVE  IndInv'
<1>1. /\ active \in Nat /\ failed \in 0..active /\ active > failed /\ graph \subseteq 1..Len(events)
      /\ UNCHANGED <<run, up, listening, draft>>
  BY DEF IndInv, TypeOK, ProcessorBroadcasts
<1>2. up
  BY <1>1 DEF IndInv, Down
<1>3. PICK cause \in {0} \cup graph :
        \/ /\ \E volatile \in BOOLEAN, n \in 0..MaxDerived :
                 n < Room /\ Commit([cause |-> cause, index |-> 0], volatile, n, loop)
           /\ active' = IF kernel'.cancelled THEN active - 1 ELSE active
           /\ UNCHANGED failed
        \/ /\ CommitThrows([cause |-> cause, index |-> 0]) \/ BroadcastFails
           /\ failed' = failed + 1
           /\ UNCHANGED <<active, loop>>
  BY DEF ProcessorBroadcasts
<1> DEFINE from == [cause |-> cause, index |-> 0]
<1>4. from \in Item /\ from.cause \in 0..Len(events) /\ from.index = 0
  <2>1. Len(events) \in Nat
    BY LenProperties DEF IndInv, TypeOK
  <2> QED BY <1>1, <2>1 DEF Item
<1> HIDE DEF from
<1>5. ASSUME NEW volatile \in BOOLEAN, NEW n \in 0..MaxDerived, Commit(from, volatile, n, loop),
             active' = IF kernel'.cancelled THEN active - 1 ELSE active, UNCHANGED failed
      PROVE  IndInv'
  <2>1. n \in Nat
    BY KernelBounds
  <2>2. /\ \E e : Effect(e, n) /\ e.cause = from.cause /\ e.index = from.index
        /\ loop' \in {loop, Woken(loop)}
    BY <1>1, <1>4, <1>5, <2>1, CommitIsEffect
  <2>3. PICK e : Effect(e, n) /\ e.index = 0
    BY <1>4, <2>2
  <2>4. Flow(e)
    BY <1>1, <2>2, <2>3 DEF Flow
  <2>5. active' \in Nat /\ failed' \in 0..active'
    BY <1>1, <1>5
  <2> QED BY <1>2, <2>1, <2>3, <2>4, <2>5, EffectKeeps
<1>6. ASSUME CommitThrows(from), failed' = failed + 1, UNCHANGED <<active, loop>>
      PROVE  IndInv'
  <2>1. PICK e : Effect(e, 0) /\ e.index = 0
    BY <1>1, <1>4, <1>6, ThrowIsEffect
  <2>2. Flow(e)
    BY <1>1, <1>6, <2>1 DEF Flow
  <2>3. active' \in Nat /\ failed' \in 0..active' /\ 0 \in Nat
    BY <1>1, <1>6
  <2> QED BY <1>2, <2>1, <2>2, <2>3, EffectKeeps
<1>7. ASSUME BroadcastFails, failed' = failed + 1, UNCHANGED <<active, loop>>
      PROVE  IndInv'
  <2>1. UNCHANGED <<events, snapshot, lastSeq, state, graph, cascade, kernel>>
    BY <1>7 DEF BroadcastFails, disk
  <2>2. TypeOK' /\ Down'
    BY <1>1, <1>7, <2>1 DEF IndInv, TypeOK, Down
  <2> QED BY <1>1, <1>7, <2>1, <2>2, QueueUntouched
<1> QED BY <1>3, <1>5, <1>6, <1>7 DEF from

\* The broadcast of the cascading loop, which commits, throws or is rejected.
LEMMA LoopBroadcastsKeeps ==
  ASSUME IndInv, LoopBroadcasts
  PROVE  IndInv'
<1>1. /\ loop = "sending" /\ draft' = External
      /\ UNCHANGED <<run, up, listening, active, failed>>
      /\ active \in Nat /\ failed \in 0..active /\ active' \in Nat /\ failed' \in 0..active'
  BY DEF IndInv, TypeOK, LoopBroadcasts
<1>2. up
  BY <1>1 DEF IndInv, Down
<1>3. draft \in Item /\ FromHere(draft) /\ draft.cause \in 0..Len(events)
  <2>1. draft \in Item /\ FromHere(draft)
    BY <1>1 DEF IndInv, TypeOK, Sources
  <2>2. draft.cause \in 1..Len(events)
    BY <2>1 DEF FromHere, Shallow
  <2> QED BY <2>1, <2>2
<1>4. ASSUME NEW volatile \in BOOLEAN, NEW n \in 0..MaxDerived, Commit(draft, volatile, n, "sent")
      PROVE  IndInv'
  <2>1. n \in Nat
    BY KernelBounds
  <2>2. /\ \E e : Effect(e, n) /\ e.cause = draft.cause /\ e.index = draft.index
        /\ loop' \in {"sent", Woken("sent")}
    BY <1>1, <1>3, <1>4, <2>1, CommitIsEffect
  <2>3. PICK e : Effect(e, n) /\ e.cause = draft.cause /\ e.index = draft.index
    BY <2>2
  <2>4. Flow(e)
    BY <1>1, <2>2, <2>3 DEF Flow, Woken
  <2> QED BY <1>1, <1>2, <2>1, <2>3, <2>4, EffectKeeps
<1>5. ASSUME CommitThrows(draft), loop' = "failed"
      PROVE  IndInv'
  <2>1. PICK e : Effect(e, 0) /\ e.cause = draft.cause /\ e.index = draft.index
    BY <1>1, <1>3, <1>5, ThrowIsEffect
  <2>2. Flow(e) /\ 0 \in Nat
    BY <1>1, <1>5 DEF Flow
  <2> QED BY <1>1, <1>2, <2>1, <2>2, EffectKeeps
<1>6. ASSUME BroadcastFails, loop' = "failed"
      PROVE  IndInv'
  <2>1. UNCHANGED <<events, snapshot, lastSeq, state, graph, cascade, kernel>>
    BY <1>6 DEF BroadcastFails, disk
  <2>2. TypeOK' /\ Down'
    BY <1>1, <1>2, <1>6, <2>1 DEF IndInv, TypeOK, Down, External, Item
  <2> QED BY <1>1, <1>6, <2>1, <2>2, QueueUntouched
<1> QED BY <1>4, <1>5, <1>6 DEF LoopBroadcasts

\* A turn of the loop, which takes an event, falls asleep or ends.
LEMMA LoopTurnKeeps ==
  ASSUME IndInv, LoopTurn
  PROVE  IndInv'
<1>1. /\ loop = "running"
      /\ UNCHANGED <<disk, run, up, lastSeq, state, listening, graph, active, failed, kernel>>
      /\ UNCHANGED <<events, snapshot>>
  BY DEF LoopTurn, disk
<1>2. CASE draft' = Head(cascade) /\ cascade' = Tail(cascade) /\ loop' = "sending" /\ cascade # <<>>
  BY <1>1, <1>2, TakesTheFirst
<1>3. CASE /\ loop' \in {"exited", "asleep"} /\ UNCHANGED <<draft, cascade>>
  <2>1. up
    BY <1>1 DEF IndInv, Down
  <2>2. TypeOK' /\ Down'
    BY <1>1, <1>3, <2>1 DEF IndInv, TypeOK, Down
  <2>3. \/ kernel'.cancelled
        \/ ~kernel.cancelled /\ loop # "failed" /\ (loop = "sending" => loop' = "sending")
    BY <1>1
  <2> QED BY <1>1, <1>3, <2>2, <2>3, QueueUntouched
<1> QED BY <1>2, <1>3 DEF LoopTurn

\* Every step keeps the invariant.
LEMMA NextIndInv ==
  ASSUME IndInv, [Next]_vars
  PROVE  IndInv'
<1>1. ASSUME ProcessorEnds
      PROVE  IndInv'
  <2>1. /\ UNCHANGED <<events, snapshot, run, up, lastSeq, state, listening, graph, cascade,
                       loop, draft, failed, kernel>>
        /\ active > failed /\ active' = active - 1
    BY <1>1 DEF ProcessorEnds, disk, memory
  <2>2. TypeOK' /\ Down'
    BY <2>1 DEF IndInv, TypeOK, Down
  <2> QED BY <2>1, <2>2, QueueUntouched
<1>2. ASSUME LoopReturns
      PROVE  IndInv'
  <2>1. /\ UNCHANGED <<events, snapshot, run, up, lastSeq, state, listening, graph, cascade,
                       draft, active, failed, kernel>>
        /\ loop = "sent" /\ loop' = "running"
    BY <1>2 DEF LoopReturns, disk, memory
  <2>2. TypeOK' /\ Down'
    BY <2>1 DEF IndInv, TypeOK, Down
  <2> QED BY <2>1, <2>2, QueueUntouched
<1>3. ASSUME NEW force \in BOOLEAN, NEW where \in {"exited", loop}, ShutDown(force, where)
      PROVE  /\ kernel' \in [started : BOOLEAN, graceful : BOOLEAN, cancelled : BOOLEAN]
             /\ kernel'.cancelled = (kernel.cancelled \/ force)
             /\ listening' = FALSE /\ loop' \in {where, Woken(where)}
  BY <1>3 DEF IndInv, TypeOK, ShutDown
<1>4. ASSUME Stop
      PROVE  IndInv'
  <2>1. PICK force \in BOOLEAN : ShutDown(force, loop)
    BY <1>4 DEF Stop
  <2>2. /\ UNCHANGED <<events, snapshot, run, up, lastSeq, state, graph, cascade, draft, active,
                       failed>>
        /\ up
    BY <1>4 DEF Stop, disk
  <2>3. /\ kernel' \in [started : BOOLEAN, graceful : BOOLEAN, cancelled : BOOLEAN]
        /\ kernel'.cancelled = (kernel.cancelled \/ force)
        /\ listening' = FALSE /\ loop' \in {loop, Woken(loop)}
    BY <1>3, <2>1
  <2>4. TypeOK' /\ Down'
    BY <2>2, <2>3 DEF IndInv, TypeOK, Down, Woken
  <2> QED BY <2>2, <2>3, <2>4, QueueUntouched DEF Woken
<1>5. ASSUME Abort
      PROVE  IndInv'
  <2>1. UNCHANGED <<events, snapshot, run, up, lastSeq, state, graph, cascade, draft>>
    BY <1>5 DEF Abort, disk
  <2>2. PICK where \in {"exited", loop} :
          /\ ShutDown(TRUE, where)
          /\ \/ loop = "failed" /\ where = "exited" /\ UNCHANGED <<active, failed>>
             \/ failed > 0 /\ where = loop /\ active' = active - 1 /\ failed' = failed - 1
    BY <1>5 DEF Abort
  <2>3. /\ kernel' \in [started : BOOLEAN, graceful : BOOLEAN, cancelled : BOOLEAN]
        /\ kernel'.cancelled /\ listening' = FALSE /\ loop' \in {where, Woken(where)}
    BY <1>3, <2>2
  <2>4. up
    BY <2>2 DEF IndInv, TypeOK, Down
  <2>5. active' \in Nat /\ failed' \in 0..active'
    BY <2>2 DEF IndInv, TypeOK
  <2>6. /\ loop' \in {"running", "asleep", "sending", "sent", "failed", "exited"}
        /\ loop' = "sending" => loop = "sending"
    BY <2>2, <2>3 DEF IndInv, TypeOK, Woken
  <2>7. TypeOK' /\ Down'
    BY <2>1, <2>3, <2>4, <2>5, <2>6 DEF IndInv, TypeOK, Down
  <2> QED BY <2>1, <2>3, <2>6, <2>7, QueueUntouched
<1>6. ASSUME CancelBase
      PROVE  IndInv'
  <2>1. /\ UNCHANGED <<events, snapshot, run, up, lastSeq, state, listening, graph, cascade,
                       loop, draft, active, failed>>
        /\ kernel' = [kernel EXCEPT !.cancelled = TRUE]
    BY <1>6 DEF CancelBase, disk, memory, loops
  <2>2. /\ kernel' \in [started : BOOLEAN, graceful : BOOLEAN, cancelled : BOOLEAN]
        /\ kernel'.cancelled
    BY <2>1 DEF IndInv, TypeOK
  <2>3. TypeOK' /\ Down'
    BY <2>1, <2>2 DEF IndInv, TypeOK, Down
  <2> QED BY <2>1, <2>2, <2>3, QueueUntouched
<1>7. ASSUME UNCHANGED vars
      PROVE  IndInv'
  <2>1. UNCHANGED <<events, snapshot, run, up, lastSeq, state, listening, graph, cascade,
                    loop, draft, active, failed, kernel>>
    BY <1>7 DEF vars, disk, memory, loops
  <2>2. TypeOK' /\ Down' /\ DerivedOnceInOrder'
    BY <2>1 DEF IndInv, TypeOK, Down, DerivedOnceInOrder
  <2>3. (\A k \in 1..Len(cascade) : FromHere(cascade[k]))' /\ (loop = "sending" => FromHere(draft))'
    BY <2>1 DEF IndInv, Sources, FromHere
  <2> QED BY <2>1, <2>2, <2>3, QuietKeeps
<1> QED BY <1>1, <1>2, <1>4, <1>5, <1>6, <1>7, BootKeeps, CrashKeeps, ProcessorKeeps,
           LoopBroadcastsKeeps, LoopTurnKeeps DEF Next, LoopStep, Over

\* The state of every reachable state is as the invariant says.
THEOREM IndInvHolds == Spec => []IndInv
<1>1. Init => IndInv
  BY InitIndInv
<1>2. IndInv /\ [Next]_vars => IndInv'
  BY NextIndInv
<1> QED BY <1>1, <1>2, PTL DEF Spec

\* While the listener is registered the state is the fold of the ledger.
THEOREM StateFollowsLedgerHolds == Spec => []StateFollowsLedger
<1>1. IndInv => StateFollowsLedger
  BY DEF IndInv
<1> QED BY <1>1, IndInvHolds, PTL

\* What the reducer derives is committed, in flight or queued, once and in order.
THEOREM DerivedOnceInOrderHolds == Spec => []DerivedOnceInOrder
<1>1. IndInv => DerivedOnceInOrder
  BY DEF IndInv
<1> QED BY <1>1, IndInvHolds, PTL

\* No event is derived from the end of too long a chain of causes.
THEOREM DepthIsBoundedHolds == Spec => []DepthIsBounded
<1>1. IndInv => DepthIsBounded
  <2> SUFFICES ASSUME IndInv, NEW i \in 1..Len(events), events[i].index > 0
               PROVE  LET cause == events[i].cause
                          recent == {j \in 1..cause : /\ events[j].run = events[i].run
                                                      /\ events[j].seq + Window >= events[cause].seq}
                      IN  Depth(events, recent, cause) <= DepthLimit
    BY DEF DepthIsBounded
  <2> DEFINE cause == events[i].cause
             recent == {j \in 1..cause : /\ events[j].run = events[i].run
                                         /\ events[j].seq + Window >= events[cause].seq}
  <2>1. Shallow(events, cause) /\ events[cause].run = events[i].run
    BY DEF IndInv, Sources
  <2>2. recent = Recent(events, cause)
    BY <2>1 DEF Recent
  <2> HIDE DEF recent, cause
  <2>3. Depth(events, recent, cause) <= DepthLimit
    BY <2>1, <2>2 DEF Shallow
  <2> QED BY <2>3 DEF recent, cause
<1> QED BY <1>1, IndInvHolds, PTL
=============================================================================
