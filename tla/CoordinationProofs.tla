------------------------- MODULE CoordinationProofs -------------------------
(***************************************************************************)
(* What the generators guarantee for any number of workers, events and     *)
(* permits, any hash and any choice of kind, strategy and policy.          *)
(*                                                                         *)
(* The argument: what a worker was given, i.e. what its processor has read *)
(* followed by what is queued for it, only grows, at its end and by the    *)
(* event that the distributor has just read.  So it is in order, and no    *)
(* event is given twice (Ordered, OneWorkerEach); as the inputs of a fixed *)
(* cluster never change, the events of one key go to one worker            *)
(* (Partitioned).  A worker that ends by itself has emptied its queue, and *)
(* the output is open as long as one runs or may still be started          *)
(* (WorkersOK, Accounted), so nothing is left when the generator returns.  *)
(***************************************************************************)
EXTENDS Coordination, SharedLemmas, FiniteSetTheorems

Awake == {"holding", "asleep", "ending"}
Places == Awake \cup {"absent", "running", "done", "quit", "threw"}
Ways == Awake \cup {"running", "returned", "threw"}

Channel(places) == [queue : Seq(Events), closed : BOOLEAN, at : places, got : Seq(Events)]

TypeOK ==
    /\ plan \in Plans
    /\ inputs \in Seq(Workers)
    /\ workers \in [Workers -> Channel(Places)]
    /\ output \in Channel(Ways)
    /\ distributor \in [at : {"waiting", "acquiring", "asleep", "done", "failed"},
                        read : 0..MaxEvents, permits : Nat]
    /\ monitor \in {"sleeping", "done"}
    /\ control \in [active : Nat, error : BOOLEAN, ended : BOOLEAN]

\* What each kind of generator has.
Shape ==
    /\ Kind("fixed") => inputs = [i \in 1..Size |-> i]
    /\ Kind("dynamic") => Len(inputs) >= MinWorkers
    /\ Kind("concurrent") => inputs = <<>> /\ \A w \in Workers : workers[w].queue = <<>>
    /\ monitor = "sleeping" => Kind("dynamic")
    /\ distributor.at \in {"acquiring", "asleep"} => Kind("concurrent") /\ distributor.read > 0
    /\ control.ended <=> distributor.at = "done"

\* The inputs are those of different workers that were started, and stay open
\* until the distributor ends or a worker throws.
InputsOpen ==
    /\ \A i, j \in 1..Len(inputs) : inputs[i] = inputs[j] => i = j
    /\ \A i \in 1..Len(inputs) :
          /\ workers[inputs[i]].at # "absent"
          /\ workers[inputs[i]].closed => control.ended \/ control.error

WorkersOK ==
    \A w \in Workers :
        /\ workers[w].at = "absent" => workers[w] = NewChannel("absent")
        /\ workers[w].at = "holding" => workers[w].got # <<>>
        /\ workers[w].at = "ending" => workers[w].closed
        /\ workers[w].at \in {"ending", "done"} =>
              workers[w].queue = <<>> /\ (Clustered => workers[w].closed)
        /\ workers[w].at = "threw" => control.error

OutputOK ==
    /\ output.at \in {"ending", "returned", "threw"} => output.closed
    /\ output.at \in {"ending", "returned"} /\ ~control.error => output.queue = <<>>
    /\ output.at = "returned" => ~control.error

\* All that a worker was given: what its processor has read and what is queued.
Given(ch) == ch.got \o ch.queue

\* The events that were given to a worker.
Handed == IF distributor.at \in {"acquiring", "asleep"} THEN distributor.read - 1
                                                        ELSE distributor.read

Ordered ==
    \A w \in Workers :
        /\ \A i, j \in 1..Len(Given(workers[w])) :
              i < j => Given(workers[w])[i] < Given(workers[w])[j]
        /\ \A i \in 1..Len(Given(workers[w])) : Given(workers[w])[i] <= Handed

IsGiven(w, e) == \E i \in 1..Len(Given(workers[w])) : Given(workers[w])[i] = e

OneWorkerEach ==
    \A v, w \in Workers, e \in Events : IsGiven(v, e) /\ IsGiven(w, e) => v = w

Owner(e) == (Hash[e] % Size) + 1

Partitioned ==
    Kind("fixed") /\ plan.strategy = "partition-by" =>
        /\ \A w \in Workers, f \in Events : IsGiven(w, f) =>
              /\ w = Owner(f)
              /\ \A e \in Events : e < f /\ Hash[e] = Hash[f] => IsGiven(w, e)
        /\ distributor.at = "waiting" => \A e \in 1..distributor.read : IsGiven(Owner(e), e)

IndInv ==
    /\ TypeOK /\ Shape /\ InputsOpen /\ WorkersOK /\ OutputOK /\ Accounted
    /\ Ordered /\ OneWorkerEach /\ Partitioned
-----------------------------------------------------------------------------
\* Taking an item from the head of a queue to the end of what was got.
LEMMA MovingTheHead ==
  ASSUME NEW S, NEW got \in Seq(S), NEW queue \in Seq(S), queue # <<>>
  PROVE  /\ Append(got, Head(queue)) \in Seq(S)
         /\ Append(got, Head(queue)) # <<>>
         /\ Append(got, Head(queue)) \o Tail(queue) = got \o queue
<1> DEFINE h == Head(queue)
           t == Tail(queue)
<1>1. h \in S /\ t \in Seq(S) /\ Append(got, h) \in Seq(S) /\ Append(got, h) = got \o <<h>>
  BY HeadTailProperties, AppendProperties, AppendIsConcat
<1>2. queue = <<h>> \o t
  BY <1>1
<1>3. <<h>> \in Seq(S)
  BY <1>1
<1>4. (got \o <<h>>) \o t = got \o (<<h>> \o t)
  BY <1>1, <1>3, ConcatAssociative
<1>5. Append(got, h) # <<>>
  BY <1>1, AppendProperties
<1> QED BY <1>1, <1>2, <1>4, <1>5

\* Appending to the second of two sequences appends to both.
LEMMA ConcatAppend ==
  ASSUME NEW S, NEW s \in Seq(S), NEW t \in Seq(S), NEW x \in S
  PROVE  s \o Append(t, x) = Append(s \o t, x)
<1>1. <<x>> \in Seq(S) /\ s \o t \in Seq(S)
  BY ConcatProperties
<1>2. Append(t, x) = t \o <<x>> /\ Append(s \o t, x) = (s \o t) \o <<x>>
  BY <1>1, AppendIsConcat
<1> QED BY <1>1, <1>2, ConcatAssociative

\* One turn of the reader keeps what it was given.
LEMMA PullKeeps ==
  ASSUME NEW P, Awake \subseteq P, NEW ch \in Channel(P)
  PROVE  /\ Pull(ch) \in Channel(P)
         /\ Pull(ch).closed = ch.closed
         /\ Given(Pull(ch)) = Given(ch)
         /\ Pull(ch).at \in Awake
         /\ Pull(ch).at = "holding" => Pull(ch).got # <<>>
         /\ Pull(ch).at # "holding" => ch.queue = <<>> /\ Pull(ch).queue = <<>>
         /\ Pull(ch).at = "ending" => ch.closed
         /\ ch.queue = <<>> => Pull(ch).queue = <<>>
<1>0. ch.queue \in Seq(Events) /\ ch.got \in Seq(Events) /\ ch.closed \in BOOLEAN
  BY DEF Channel
<1>1. CASE ch.queue # <<>>
  <2> DEFINE q == Tail(ch.queue)
             g == Append(ch.got, Head(ch.queue))
  <2>1. Pull(ch) = [ch EXCEPT !.queue = q, !.at = "holding", !.got = g]
    BY <1>1 DEF Pull
  <2>2. q \in Seq(Events) /\ g \in Seq(Events) /\ g # <<>> /\ g \o q = ch.got \o ch.queue
    BY <1>0, <1>1, MovingTheHead, HeadTailProperties
  <2> HIDE DEF q, g
  <2>3. /\ Pull(ch).queue = q /\ Pull(ch).got = g /\ Pull(ch).at = "holding"
        /\ Pull(ch).closed = ch.closed /\ Pull(ch) \in Channel(P)
    BY <2>1, <2>2 DEF Channel, Awake
  <2> QED BY <1>1, <2>2, <2>3 DEF Given, Awake
<1>2. CASE ch.queue = <<>>
  <2> DEFINE a == IF ch.closed THEN "ending" ELSE "asleep"
  <2>1. Pull(ch) = [ch EXCEPT !.at = a]
    BY <1>2 DEF Pull
  <2>2. /\ Pull(ch) \in Channel(P) /\ Pull(ch).at = a /\ Pull(ch).closed = ch.closed
        /\ Pull(ch).queue = ch.queue /\ Pull(ch).got = ch.got
    BY <2>1 DEF Channel, Awake
  <2> QED BY <1>0, <1>2, <2>2 DEF Given, Awake
<1> QED BY <1>1, <1>2

\* push() puts one item at the end of it, and wakes a reader that sleeps.
LEMMA PushAppends ==
  ASSUME NEW P, Awake \subseteq P, NEW ch \in Channel(P), NEW x \in Events
  PROVE  /\ Push(ch, x) \in Channel(P)
         /\ Push(ch, x).closed = ch.closed
         /\ Given(Push(ch, x)) = Append(Given(ch), x)
         /\ IF ch.at = "asleep" THEN Push(ch, x).at = "holding" /\ Push(ch, x).got # <<>>
                                ELSE Push(ch, x).at = ch.at /\ Push(ch, x).got = ch.got
<1> DEFINE n == [ch EXCEPT !.queue = Append(@, x)]
<1>0. ch.queue \in Seq(Events) /\ ch.got \in Seq(Events)
  BY DEF Channel
<1>1. Append(ch.queue, x) \in Seq(Events) /\ Append(ch.queue, x) # <<>>
  BY <1>0, AppendProperties
<1>2. /\ n \in Channel(P) /\ n.queue = Append(ch.queue, x) /\ n.got = ch.got
      /\ n.closed = ch.closed /\ n.at = ch.at
  BY <1>1 DEF Channel
<1> HIDE DEF n
<1>3. Given(n) = Append(Given(ch), x)
  <2>1. \A g, q \in Seq(Events) : g \o Append(q, x) = Append(g \o q, x)
    BY ConcatAppend
  <2> QED BY <1>0, <1>2, <2>1 DEF Given
<1>4. Push(ch, x) = Wake(n)
  BY DEF Push, n
<1>5. CASE ch.at = "asleep"
  <2>1. Push(ch, x) = Pull(n)
    BY <1>2, <1>4, <1>5 DEF Wake
  <2>2. n.queue # <<>>
    BY <1>1, <1>2
  <2> QED BY <1>2, <1>3, <1>5, <2>1, <2>2, PullKeeps
<1>6. CASE ch.at # "asleep"
  BY <1>2, <1>3, <1>4, <1>6 DEF Wake
<1> QED BY <1>5, <1>6

\* close() closes, and wakes a reader that sleeps.
LEMMA CloseCloses ==
  ASSUME NEW P, Awake \subseteq P, NEW ch \in Channel(P)
  PROVE  /\ Close(ch) \in Channel(P)
         /\ Close(ch).closed
         /\ Given(Close(ch)) = Given(ch)
         /\ ch.queue = <<>> => Close(ch).queue = <<>>
         /\ IF ch.at = "asleep"
            THEN /\ Close(ch).at \in Awake
                 /\ Close(ch).at = "holding" => Close(ch).got # <<>>
                 /\ Close(ch).at # "holding" => Close(ch).queue = <<>>
            ELSE Close(ch).at = ch.at /\ Close(ch).got = ch.got /\ Close(ch).queue = ch.queue
<1> DEFINE n == [ch EXCEPT !.closed = TRUE]
<1>1. /\ n \in Channel(P) /\ n.queue = ch.queue /\ n.got = ch.got /\ n.closed /\ n.at = ch.at
      /\ Given(n) = Given(ch)
  BY DEF Channel, Given
<1> HIDE DEF n
<1>2. Close(ch) = Wake(n)
  BY DEF Close, n
<1>3. CASE ch.at = "asleep"
  <2>1. Close(ch) = Pull(n)
    BY <1>1, <1>2, <1>3 DEF Wake
  <2> QED BY <1>1, <1>3, <2>1, PullKeeps
<1>4. CASE ch.at # "asleep"
  BY <1>1, <1>2, <1>4 DEF Wake
<1> QED BY <1>3, <1>4
-----------------------------------------------------------------------------
\* There are three kinds of generators.
LEMMA Kinds ==
  ASSUME plan \in Plans
  PROVE  /\ plan.kind \in {"fixed", "dynamic", "concurrent"}
         /\ plan.strategy \in {"round-robin", "partition-by", "least-busy"}
BY PlansAssumption

\* What reading and closing do to a worker: its reader moves on or stays.
Advanced(a, b) ==
    /\ Given(b) = Given(a)
    /\ a.closed => b.closed
    /\ a.queue = <<>> => b.queue = <<>>
    /\ \/ b.at = a.at /\ b.got = a.got /\ b.queue = a.queue /\ (a.at = "absent" => b = a)
       \/ /\ a.at \in {"running", "holding", "asleep"} /\ b.at \in Awake
          /\ b.at = "holding" => b.got # <<>>
          /\ b.at # "holding" => b.queue = <<>>
          /\ b.at = "ending" => b.closed

\* A worker that asks for its next event advances.
LEMMA PulledAdvances ==
  ASSUME NEW ch \in Channel(Places), ch.at \in {"running", "holding", "asleep"}
  PROVE  Advanced(ch, Pull(ch)) /\ Pull(ch) \in Channel(Places)
<1>1. Awake \subseteq Places
  BY DEF Places
<1> QED BY <1>1, PullKeeps DEF Advanced

\* A worker whose input is closed advances, if it was started.
LEMMA ClosedAdvances ==
  ASSUME NEW ch \in Channel(Places), ch.at # "absent"
  PROVE  Advanced(ch, Close(ch)) /\ Close(ch) \in Channel(Places) /\ Close(ch).closed
<1>1. Awake \subseteq Places
  BY DEF Places
<1> QED BY <1>1, CloseCloses DEF Advanced

\* A worker that nothing happens to advances.
LEMMA SameAdvances ==
  ASSUME NEW ch \in Channel(Places)
  PROVE  Advanced(ch, ch)
BY DEF Advanced

\* Closing the inputs of workers that were started.
LEMMA InputsClosedAdvance ==
  ASSUME NEW ws \in [Workers -> Channel(Places)], inputs \in Seq(Workers),
         \A i \in 1..Len(inputs) : ws[inputs[i]].at # "absent"
  PROVE  /\ InputsClosed(ws) \in [Workers -> Channel(Places)]
         /\ \A w \in Workers : Advanced(ws[w], InputsClosed(ws)[w])
<1>1. ASSUME NEW w \in Workers
      PROVE  InputsClosed(ws)[w] \in Channel(Places) /\ Advanced(ws[w], InputsClosed(ws)[w])
  <2>1. CASE \E i \in 1..Len(inputs) : inputs[i] = w
    BY <2>1, ClosedAdvances DEF InputsClosed
  <2>2. CASE ~\E i \in 1..Len(inputs) : inputs[i] = w
    BY <2>2, SameAdvances DEF InputsClosed
  <2> QED BY <2>1, <2>2
<1>2. InputsClosed(ws) = [w \in Workers |-> InputsClosed(ws)[w]]
  BY DEF InputsClosed
<1> QED BY <1>1, <1>2

\* When readers only move on, what was said of the workers stays true.
LEMMA AdvancingKeeps ==
  ASSUME IndInv, plan' = plan, control.error => control'.error,
         workers' \in [Workers -> Channel(Places)],
         \A w \in Workers : Advanced(workers[w], workers'[w])
  PROVE  /\ Active' = Active
         /\ WorkersOK'
         /\ Kind("concurrent") => \A w \in Workers : workers'[w].queue = <<>>
         /\ \A w \in Workers : Given(workers'[w]) = Given(workers[w])
         /\ \A w \in Workers : workers[w].at # "absent" => workers'[w].at # "absent"
<1>1. Active' = Active
  <2>1. ASSUME NEW w \in Workers
        PROVE  w \in Active' <=> w \in Active
    BY DEF Advanced, Active, Awake
  <2> QED BY <2>1 DEF Active
<1>2. WorkersOK'
  <2> SUFFICES ASSUME NEW w \in Workers
               PROVE  /\ workers'[w].at = "absent" => workers'[w] = NewChannel("absent")
                      /\ workers'[w].at = "holding" => workers'[w].got # <<>>
                      /\ workers'[w].at = "ending" => workers'[w].closed
                      /\ workers'[w].at \in {"ending", "done"} =>
                            workers'[w].queue = <<>> /\ (Clustered' => workers'[w].closed)
                      /\ workers'[w].at = "threw" => control'.error
    BY DEF WorkersOK
  <2>1. Clustered' = Clustered
    BY DEF Clustered, Kind
  <2>2. Advanced(workers[w], workers'[w])
    OBVIOUS
  <2> QED BY <2>1, <2>2 DEF IndInv, WorkersOK, Advanced, Awake
<1>3. Kind("concurrent") => \A w \in Workers : workers'[w].queue = <<>>
  BY DEF IndInv, Shape, Advanced
<1>4. /\ \A w \in Workers : Given(workers'[w]) = Given(workers[w])
      /\ \A w \in Workers : workers[w].at # "absent" => workers'[w].at # "absent"
  BY DEF Advanced, Awake
<1> QED BY <1>1, <1>2, <1>3, <1>4

\* Nothing is given to a worker.
LEMMA StreamsKept ==
  ASSUME IndInv, plan' = plan, Handed <= Handed', Handed' \in Int,
         \A w \in Workers : Given(workers'[w]) = Given(workers[w]),
         \/ ~Kind("fixed") \/ distributor'.at # "waiting"
         \/ distributor.at = "waiting" /\ distributor'.read = distributor.read
  PROVE  Ordered' /\ OneWorkerEach' /\ Partitioned'
<1>0. /\ \A w \in Workers, e \in Events : IsGiven(w, e)' <=> IsGiven(w, e)
      /\ Handed \in Int
      /\ \A w \in Workers : \A i \in 1..Len(Given(workers[w])) : Given(workers[w])[i] \in Nat
      /\ Kind("fixed")' = Kind("fixed") /\ plan.strategy' = plan.strategy
  <2>1. \A w \in Workers : workers[w] \in Channel(Places)
    BY DEF IndInv, TypeOK
  <2>2. \A w \in Workers : Given(workers[w]) \in Seq(Events)
    BY <2>1, ConcatProperties DEF Channel, Given
  <2>3. \A w \in Workers : \A i \in 1..Len(Given(workers[w])) : Given(workers[w])[i] \in Nat
    <3>1. ASSUME NEW w \in Workers, NEW i \in 1..Len(Given(workers[w]))
          PROVE  Given(workers[w])[i] \in Events
      BY <2>2, ElementOfSeq
    <3> QED BY <3>1, BoundsAssumption DEF Events
  <2>4. Handed \in Int
    BY DEF IndInv, TypeOK, Handed
  <2> QED BY <2>3, <2>4 DEF IsGiven, Kind
<1>1. Ordered'
  <2>1. ASSUME NEW w \in Workers, NEW i \in 1..Len(Given(workers[w]))
        PROVE  Given(workers[w])[i] <= Handed'
    BY <1>0 DEF IndInv, Ordered
  <2> QED BY <2>1 DEF IndInv, Ordered
<1>2. OneWorkerEach'
  BY <1>0 DEF IndInv, OneWorkerEach
<1>3. Partitioned'
  <2> SUFFICES ASSUME Kind("fixed"), plan.strategy = "partition-by" PROVE Partitioned'
    BY <1>0 DEF Partitioned
  <2>1. ASSUME NEW w \in Workers, NEW f \in Events, IsGiven(w, f)'
        PROVE  /\ w = Owner(f)
               /\ \A e \in Events : e < f /\ Hash[e] = Hash[f] => IsGiven(w, e)'
    BY <1>0, <2>1 DEF IndInv, Partitioned
  <2>2. ASSUME distributor'.at = "waiting", NEW e \in 1..distributor'.read
        PROVE  IsGiven(Owner(e), e)'
    <3>0. distributor.at = "waiting" /\ e \in 1..distributor.read /\ e \in Events
      BY <2>2, BoundsAssumption DEF IndInv, TypeOK, Events
    <3>1. IsGiven(Owner(e), e) /\ e \in Events
      BY <3>0 DEF IndInv, Partitioned
    <3>2. Owner(e) \in Workers
      BY <3>1, BoundsAssumption DEF Owner, Workers
    <3> QED BY <1>0, <3>1, <3>2
  <2> QED BY <2>1, <2>2 DEF Partitioned, Owner
<1> QED BY <1>1, <1>2, <1>3
-----------------------------------------------------------------------------
\* Finitely many workers are active.
LEMMA ActiveIsFinite ==
  /\ IsFiniteSet(Active) /\ Cardinality(Active) \in Nat
  /\ Cardinality(Active) = 0 <=> Active = {}
<1>1. IsFiniteSet(Workers)
  BY BoundsAssumption, FS_Interval DEF Workers
<1>2. Active \in SUBSET Workers
  BY DEF Active
<1>3. IsFiniteSet(Active)
  BY <1>1, <1>2, FS_Subset
<1> QED BY <1>3, FS_CardinalityType, FS_EmptySet

\* A worker that is still to be started, if there is one.
LEMMA FreshIsFree ==
  ASSUME Spawned # Workers
  PROVE  Fresh \in Workers /\ workers[Fresh].at = "absent"
<1> DEFINE S == Workers \ Spawned
<1>1. S \in SUBSET Nat /\ S # {}
  BY BoundsAssumption DEF Workers, Spawned
<1>2. \E w \in S : \A v \in S : w <= v
  BY <1>1, LeastNumber
<1>3. Fresh = CHOOSE w \in S : \A v \in S : w <= v
  BY DEF Fresh
<1> HIDE DEF S
<1>4. Fresh \in S
  BY <1>2, <1>3
<1> QED BY <1>4 DEF S, Spawned

\* The output channel after close(), or as it was.
LEMMA OutputCloses ==
  ASSUME IndInv, output' \in {output, Close(output)}, control.error => control'.error,
         output.at = "returned" => ~control'.error
  PROVE  /\ OutputOK' /\ output' \in Channel(Ways)
         /\ output.closed => output'.closed
         /\ output' = Close(output) => output'.closed
<1>1. Awake \subseteq Ways /\ output \in Channel(Ways) /\ OutputOK
  BY DEF Ways, IndInv, TypeOK
<1>2. CASE output' = output
  BY <1>1, <1>2, CloseCloses DEF OutputOK
<1>3. CASE output' = Close(output)
  BY <1>1, <1>3, CloseCloses DEF OutputOK, Awake
<1> QED BY <1>2, <1>3

\* The inputs stay what they are, as long as no worker's closes for no reason.
LEMMA InputsStay ==
  ASSUME IndInv, inputs' = inputs,
         \A w \in Workers : workers[w].at # "absent" => workers'[w].at # "absent",
         \/ control'.ended \/ control'.error
         \/ /\ \A w \in Workers : workers'[w].closed => workers[w].closed
            /\ control.ended => control'.ended
            /\ control.error => control'.error
  PROVE  InputsOpen'
<1>1. \A i \in 1..Len(inputs) : inputs[i] \in Workers
  BY ElementOfSeq DEF IndInv, TypeOK
<1> QED BY <1>1 DEF IndInv, InputsOpen

\* The distributor leaves its loop.
LEMMA EndsKeeps ==
  ASSUME IndInv, distributor.at \in {"waiting", "acquiring"}, NEW d, Ends(d),
         d = distributor \/ d = [distributor EXCEPT !.read = distributor.read + 1],
         d.read \in 0..MaxEvents
  PROVE  IndInv'
<1> USE DEF Ends
<1>0. /\ IndInv /\ TypeOK /\ Shape /\ Accounted
      /\ distributor'.at = "done" /\ distributor'.read = d.read
      /\ distributor'.permits = distributor.permits
      /\ control'.ended /\ control'.active = control.active /\ control'.error = control.error
      /\ ~control.ended
  BY DEF IndInv, TypeOK, Shape
<1>1. /\ workers' \in [Workers -> Channel(Places)]
      /\ \A w \in Workers : Advanced(workers[w], workers'[w])
  BY InputsClosedAdvance DEF IndInv, TypeOK, InputsOpen
<1>2. /\ Active' = Active
      /\ WorkersOK'
      /\ Kind("concurrent") => \A w \in Workers : workers'[w].queue = <<>>
      /\ \A w \in Workers : Given(workers'[w]) = Given(workers[w])
      /\ \A w \in Workers : workers[w].at # "absent" => workers'[w].at # "absent"
  BY <1>0, <1>1, AdvancingKeeps
<1>3. /\ OutputOK' /\ output' \in Channel(Ways)
      /\ output.closed => output'.closed
      /\ output' = Close(output) => output'.closed
  BY <1>0, OutputCloses DEF IndInv, OutputOK
<1>4. TypeOK'
  BY <1>0, <1>1, <1>3 DEF TypeOK
<1>5. Shape'
  BY <1>0, <1>2 DEF Shape, Kind
<1>6. InputsOpen'
  BY <1>0, <1>2, InputsStay
<1>7. Accounted'
  <2>1. /\ control'.active = Cardinality(Active')
        /\ ~Clustered' => distributor'.permits + control'.active = MaxConcurrency
    BY <1>0, <1>2 DEF Accounted, Clustered, Kind
  <2>2. output'.closed <=> output.closed \/ (control.active = 0 /\ ~Kind("fixed"))
    BY <1>3
  <2>3. control.active = 0 <=> Active = {}
    BY <1>0, ActiveIsFinite DEF Accounted
  <2> QED BY <1>0, <1>2, <2>1, <2>2, <2>3 DEF Accounted, Kind
<1>8. Ordered' /\ OneWorkerEach' /\ Partitioned'
  <2>1. Handed <= Handed' /\ Handed' \in Int
    BY <1>0 DEF Handed, TypeOK
  <2> QED BY <1>0, <1>2, <2>1, StreamsKept
<1> QED BY <1>2, <1>3, <1>4, <1>5, <1>6, <1>7, <1>8 DEF IndInv

\* The distributor moves and nobody else does.
LEMMA DistributorMoves ==
  ASSUME IndInv, UNCHANGED <<plan, inputs, workers, output, monitor, control>>,
         distributor' \in [at : {"waiting", "acquiring", "asleep", "done", "failed"},
                           read : 0..MaxEvents, permits : Nat],
         distributor'.permits = distributor.permits,
         distributor'.at = "done" <=> distributor.at = "done",
         distributor'.at \in {"acquiring", "asleep"} =>
             Kind("concurrent") /\ distributor'.read > 0,
         distributor'.at = "waiting" => distributor.at = "waiting" /\ distributor'.read = distributor.read,
         Handed <= Handed'
  PROVE  IndInv'
<1>1. TypeOK' /\ Shape' /\ InputsOpen' /\ WorkersOK' /\ OutputOK'
  BY DEF IndInv, TypeOK, Shape, InputsOpen, WorkersOK, OutputOK, Kind, Clustered
<1>2. Accounted'
  BY DEF IndInv, Accounted, Kind, Clustered, Active
<1>3. Ordered' /\ OneWorkerEach' /\ Partitioned'
  <2>1. Handed' \in Int
    BY DEF Handed
  <2> QED BY <2>1, StreamsKept
<1> QED BY <1>1, <1>2, <1>3 DEF IndInv
-----------------------------------------------------------------------------
\* The shortest queue that comes first is one of the list.
LEMMA LeastBusyIsThere ==
  ASSUME NEW n \in Nat \ {0}, NEW sizes \in [1..n -> Nat]
  PROVE  LeastBusy(sizes) \in 1..n
<1>0. Len(sizes) = n
  OBVIOUS
<1> DEFINE L == {sizes[i] : i \in 1..n}
<1>1. L \in SUBSET Nat /\ sizes[1] \in L
  OBVIOUS
<1>2. PICK m \in L : \A k \in L : m <= k
  BY <1>1, LeastNumber
<1> DEFINE I == {i \in 1..n : sizes[i] = m}
<1>3. I \in SUBSET Nat /\ I # {}
  BY <1>2
<1>4. PICK i \in I : \A k \in I : i <= k
  BY <1>3, LeastNumber
<1>5. /\ i \in 1..n
      /\ \A j \in 1..n : sizes[i] <= sizes[j] /\ (sizes[i] = sizes[j] => i <= j)
  BY <1>2, <1>4
<1> QED BY <1>0, <1>5 DEF LeastBusy

\* Every strategy selects a worker of the list; the one of a partition by key
\* depends on the key and the length of the list only.
LEMMA SelectIsThere ==
  ASSUME IndInv, Clustered, NEW e \in Events
  PROVE  /\ Select(e) \in 1..Len(inputs)
         /\ plan.strategy = "partition-by" => Select(e) = (Hash[e] % Len(inputs)) + 1
<1> DEFINE n == Len(inputs)
<1>1. n \in Nat \ {0}
  BY BoundsAssumption, Kinds DEF IndInv, TypeOK, Shape, Clustered, Kind
<1>2. Sizes \in [1..n -> Nat]
  <2>1. ASSUME NEW i \in 1..n
        PROVE  Len(workers[inputs[i]].queue) \in Nat
    <3>1. workers[inputs[i]] \in Channel(Places)
      BY ElementOfSeq DEF IndInv, TypeOK
    <3> QED BY <3>1 DEF Channel
  <2> QED BY <2>1 DEF Sizes
<1>3. Len(Sizes) = n
  BY <1>1, <1>2
<1>4. Hash[e] \in Nat /\ e - 1 \in Nat
  BY BoundsAssumption DEF Events
<1> HIDE DEF n
<1>5. LeastBusy(Sizes) \in 1..n
  BY <1>1, <1>2, LeastBusyIsThere
<1>6. RoundRobin(e - 1, Sizes) \in 1..n
  BY <1>1, <1>3, <1>4 DEF RoundRobin
<1>7. PartitionBy(Hash[e], Sizes) = (Hash[e] % n) + 1 /\ (Hash[e] % n) + 1 \in 1..n
  BY <1>1, <1>3, <1>4 DEF PartitionBy
<1>8. plan.strategy \in {"round-robin", "partition-by", "least-busy"}
  BY Kinds DEF IndInv, TypeOK
<1> QED BY <1>5, <1>6, <1>7, <1>8 DEF Select, n

\* What a worker was given are events.
LEMMA GivenAreEvents ==
  ASSUME TypeOK, NEW w \in Workers
  PROVE  Given(workers[w]) \in Seq(Events) /\ workers[w].got \in Seq(Events)
<1>1. workers[w] \in Channel(Places)
  BY DEF TypeOK
<1> QED BY <1>1, ConcatProperties DEF Channel, Given

\* One worker is given the next event, the others nothing.
LEMMA NextEventGiven ==
  ASSUME IndInv, plan' = plan, NEW u \in Workers, NEW x, x = Handed + 1, x \in Events,
         x <= Handed', Handed' \in Int,
         Given(workers'[u]) = Append(Given(workers[u]), x),
         \A w \in Workers \ {u} : Given(workers'[w]) = Given(workers[w]),
         Kind("fixed") /\ plan.strategy = "partition-by" =>
             u = Owner(x) /\ distributor.at = "waiting" /\ distributor'.read = x
  PROVE  Ordered' /\ OneWorkerEach' /\ Partitioned'
<1>0. Given(workers[u]) \in Seq(Events) /\ Handed \in Int
  BY GivenAreEvents DEF IndInv, TypeOK, Handed
<1>1. \A w \in Workers : \A i \in 1..Len(Given(workers[w])) :
         Given(workers[w])[i] \in Int /\ Given(workers[w])[i] <= Handed
  <2>1. ASSUME NEW w \in Workers, NEW i \in 1..Len(Given(workers[w]))
        PROVE  Given(workers[w])[i] \in Events
    BY GivenAreEvents, ElementOfSeq DEF IndInv
  <2>2. \A w \in Workers : \A i \in 1..Len(Given(workers[w])) : Given(workers[w])[i] <= Handed
    BY DEF IndInv, Ordered
  <2>3. \A e \in Events : e \in Int
    BY BoundsAssumption DEF Events
  <2> QED BY <2>1, <2>2, <2>3
<1>2. /\ Len(Given(workers'[u])) = Len(Given(workers[u])) + 1
      /\ Given(workers'[u])[Len(Given(workers[u])) + 1] = x
      /\ \A i \in 1..Len(Given(workers[u])) : Given(workers'[u])[i] = Given(workers[u])[i]
      /\ Len(Given(workers[u])) \in Nat
  BY <1>0, AppendProperties
<1>3. Ordered'
  <2> SUFFICES ASSUME NEW w \in Workers
               PROVE  /\ \A i, j \in 1..Len(Given(workers'[w])) :
                            i < j => Given(workers'[w])[i] < Given(workers'[w])[j]
                      /\ \A i \in 1..Len(Given(workers'[w])) : Given(workers'[w])[i] <= Handed'
    BY DEF Ordered
  <2>1. CASE w # u
    <3>1. \A i, j \in 1..Len(Given(workers[w])) :
             i < j => Given(workers[w])[i] < Given(workers[w])[j]
      BY DEF IndInv, Ordered
    <3> QED BY <2>1, <1>0, <1>1, <3>1
  <2>2. CASE w = u
    <3>1. \A i, j \in 1..Len(Given(workers[u])) :
             i < j => Given(workers[u])[i] < Given(workers[u])[j]
      BY DEF IndInv, Ordered
    <3> DEFINE n == Len(Given(workers[u]))
               new == Given(workers'[u])
    <3>2. \A i \in 1..n : new[i] \in Int /\ new[i] <= Handed
      BY <1>1, <1>2
    <3>3. /\ n \in Nat /\ Len(new) = n + 1 /\ new[n + 1] = Handed + 1
          /\ \A i, j \in 1..n : i < j => new[i] < new[j]
      BY <1>2, <3>1
    <3> HIDE DEF n, new
    <3>4. ASSUME NEW i \in 1..Len(new), NEW j \in 1..Len(new), i < j
          PROVE  new[i] < new[j]
      <4>1. i \in 1..n /\ (j \in 1..n \/ j = n + 1)
        BY <3>3, <3>4
      <4>2. CASE j \in 1..n
        BY <4>1, <4>2, <3>3, <3>4
      <4>3. CASE j = n + 1
        <5>1. new[j] = Handed + 1 /\ new[i] <= Handed /\ new[i] \in Int
          BY <4>1, <4>3, <3>2, <3>3
        <5> QED BY <5>1, <1>0
      <4> QED BY <4>1, <4>2, <4>3
    <3>5. ASSUME NEW i \in 1..Len(new)
          PROVE  new[i] <= Handed'
      <4>1. i \in 1..n \/ i = n + 1
        BY <3>3
      <4> QED BY <4>1, <1>0, <3>2, <3>3
    <3> QED BY <2>2, <3>4, <3>5 DEF new
  <2> QED BY <2>1, <2>2
<1>4. /\ \A w \in Workers, e \in Events :
            IsGiven(w, e)' <=> IsGiven(w, e) \/ (w = u /\ e = x)
      /\ \A w \in Workers : ~IsGiven(w, x)
  <2>1. \A w \in Workers : ~IsGiven(w, x)
    BY <1>0, <1>1 DEF IsGiven
  <2>2. ASSUME NEW e \in Events
        PROVE  IsGiven(u, e)' <=> IsGiven(u, e) \/ e = x
    <3>1. 1..Len(Given(workers'[u])) = 1..Len(Given(workers[u])) \cup {Len(Given(workers[u])) + 1}
      BY <1>2
    <3> QED BY <1>2, <3>1 DEF IsGiven
  <2>3. ASSUME NEW e \in Events, NEW w \in Workers \ {u}
        PROVE  IsGiven(w, e)' <=> IsGiven(w, e)
    BY DEF IsGiven
  <2> QED BY <2>1, <2>2, <2>3
<1>5. OneWorkerEach'
  BY <1>4 DEF IndInv, OneWorkerEach
<1>6. Partitioned'
  <2> SUFFICES ASSUME Kind("fixed"), plan.strategy = "partition-by" PROVE Partitioned'
    BY DEF Partitioned, Kind
  <2>0. /\ u = Owner(x) /\ distributor.at = "waiting" /\ distributor'.read = x
        /\ Handed = distributor.read /\ distributor.read \in Nat
    BY DEF Handed, IndInv, TypeOK
  <2>1. ASSUME NEW w \in Workers, NEW f \in Events, IsGiven(w, f)'
        PROVE  /\ w = Owner(f)
               /\ \A e \in Events : e < f /\ Hash[e] = Hash[f] => IsGiven(w, e)'
    <3>1. CASE IsGiven(w, f)
      BY <1>4, <2>1, <3>1 DEF IndInv, Partitioned
    <3>2. CASE w = u /\ f = x
      <4>1. ASSUME NEW e \in Events, e < x, Hash[e] = Hash[x]
            PROVE  IsGiven(u, e)
        <5>1. e \in 1..distributor.read
          BY <2>0, <4>1, BoundsAssumption DEF Events
        <5>2. IsGiven(Owner(e), e) /\ Owner(e) = Owner(x)
          BY <2>0, <4>1, <5>1 DEF IndInv, Partitioned, Owner
        <5> QED BY <2>0, <5>2
      <4> QED BY <1>4, <2>0, <3>2, <4>1
    <3> QED BY <1>4, <2>1, <3>1, <3>2
  <2>2. ASSUME NEW e \in 1..distributor'.read
        PROVE  IsGiven(Owner(e), e)'
    <3>0. e \in Events
      BY <2>0, BoundsAssumption DEF Events
    <3>1. Owner(e) \in Workers
      <4>1. Hash[e] \in Nat /\ Size \in Nat \ {0} /\ Size <= MaxSpawned /\ MaxSpawned \in Nat
        BY <3>0, BoundsAssumption
      <4>2. (Hash[e] % Size) \in 0..(Size - 1)
        BY <4>1
      <4> QED BY <4>1, <4>2 DEF Owner, Workers
    <3>2. CASE e = x
      BY <1>4, <2>0, <3>2
    <3>3. CASE e # x
      <4>1. e \in 1..distributor.read
        BY <2>0, <3>3
      <4>2. IsGiven(Owner(e), e)
        BY <2>0, <4>1 DEF IndInv, Partitioned
      <4>3. Owner(e)' = Owner(e)
        BY DEF Owner
      <4> QED BY <1>4, <3>0, <3>1, <4>2, <4>3
    <3> QED BY <3>2, <3>3
  <2> QED BY <2>1, <2>2 DEF Partitioned, Owner
<1> QED BY <1>3, <1>5, <1>6

\* The distributor pushes an event to a worker.
LEMMA PushKeeps ==
  ASSUME IndInv, distributor.at = "waiting", distributor.read + 1 \in Events,
         ~output.closed, Clustered,
         workers' = [workers EXCEPT ![inputs[Select(distributor.read + 1)]] =
                        Push(@, distributor.read + 1)],
         distributor' = [distributor EXCEPT !.read = distributor.read + 1],
         UNCHANGED <<plan, inputs, output, monitor, control>>
  PROVE  IndInv'
<1> DEFINE e == distributor.read + 1
           u == inputs[Select(e)]
           ch == workers[u]
           new == Push(ch, e)
<1>0. TypeOK /\ Shape /\ InputsOpen /\ WorkersOK /\ OutputOK /\ Accounted
  BY DEF IndInv
<1>1. /\ e \in Events /\ u \in Workers /\ ch \in Channel(Places)
      /\ Select(e) \in 1..Len(inputs)
      /\ plan.strategy = "partition-by" => Select(e) = (Hash[e] % Len(inputs)) + 1
  <2>1. e \in Events /\ Select(e) \in 1..Len(inputs)
        /\ (plan.strategy = "partition-by" => Select(e) = (Hash[e] % Len(inputs)) + 1)
    BY SelectIsThere
  <2>2. u \in Workers
    BY <1>0, <2>1, ElementOfSeq DEF TypeOK
  <2> QED BY <1>0, <2>1, <2>2 DEF TypeOK
<1>2. ch.at \notin {"absent", "ending", "done", "threw"}
  <2>1. ~control.error /\ ~control.ended
    BY <1>0 DEF Accounted, Shape
  <2>2. ch.at # "absent" /\ ~ch.closed
    BY <1>0, <1>1, <2>1 DEF InputsOpen
  <2> QED BY <1>0, <1>1, <2>1, <2>2 DEF WorkersOK
<1>3. /\ new \in Channel(Places) /\ new.closed = ch.closed
      /\ Given(new) = Append(Given(ch), e)
      /\ IF ch.at = "asleep" THEN new.at = "holding" /\ new.got # <<>>
                             ELSE new.at = ch.at /\ new.got = ch.got
  <2>1. Awake \subseteq Places
    BY DEF Places
  <2> QED BY <1>1, <2>1, PushAppends
<1>4. /\ workers' \in [Workers -> Channel(Places)] /\ workers'[u] = new
      /\ \A w \in Workers \ {u} : workers'[w] = workers[w]
  BY <1>0, <1>1, <1>3 DEF TypeOK
<1>5. /\ distributor'.at = "waiting" /\ distributor'.read = e
      /\ distributor'.permits = distributor.permits
      /\ distributor' \in [at : {"waiting", "acquiring", "asleep", "done", "failed"},
                           read : 0..MaxEvents, permits : Nat]
  <2>1. distributor \in [at : {"waiting", "acquiring", "asleep", "done", "failed"},
                         read : 0..MaxEvents, permits : Nat]
    BY <1>0 DEF TypeOK
  <2>2. e \in 0..MaxEvents
    BY <1>1, BoundsAssumption DEF Events
  <2>3. distributor' = [distributor EXCEPT !.read = e] /\ distributor.at = "waiting"
    OBVIOUS
  <2> HIDE DEF e
  <2> QED BY ONLY <2>1, <2>2, <2>3
<1> HIDE DEF new, ch, u
<1>6. TypeOK'
  BY <1>0, <1>4, <1>5 DEF TypeOK
<1>7. Shape'
  BY <1>0, <1>5 DEF Shape, Kind, Clustered
<1>8. \A w \in Workers : workers'[w].at = "absent" <=> workers[w].at = "absent"
  BY <1>2, <1>3, <1>4 DEF ch
<1>9. InputsOpen'
  <2>1. \A w \in Workers : workers'[w].closed => workers[w].closed
    BY <1>3, <1>4 DEF ch
  <2> QED BY <1>8, <2>1, InputsStay
<1>10. WorkersOK'
  <2> SUFFICES ASSUME NEW w \in Workers
               PROVE  /\ workers'[w].at = "absent" => workers'[w] = NewChannel("absent")
                      /\ workers'[w].at = "holding" => workers'[w].got # <<>>
                      /\ workers'[w].at = "ending" => workers'[w].closed
                      /\ workers'[w].at \in {"ending", "done"} =>
                            workers'[w].queue = <<>> /\ (Clustered' => workers'[w].closed)
                      /\ workers'[w].at = "threw" => control'.error
    BY DEF WorkersOK
  <2>1. Clustered' = Clustered
    BY DEF Clustered, Kind
  <2>2. CASE w = u
    BY <1>0, <1>1, <1>2, <1>3, <1>4, <2>1, <2>2 DEF WorkersOK, ch
  <2>3. CASE w # u
    BY <1>0, <1>4, <2>1, <2>3 DEF WorkersOK
  <2> QED BY <2>2, <2>3
<1>11. OutputOK'
  BY <1>0 DEF OutputOK
<1>12. Accounted'
  <2>1. Active' = Active
    BY <1>2, <1>3, <1>4 DEF Active, ch
  <2> QED BY <1>0, <1>5, <2>1 DEF Accounted, Clustered, Kind
<1>13. Ordered' /\ OneWorkerEach' /\ Partitioned'
  <2>1. Handed = distributor.read /\ Handed' = e /\ Handed' \in Int
    <3>1. e \in Int
      BY <1>1, BoundsAssumption DEF Events
    <3>2. Handed = distributor.read
      BY DEF Handed
    <3>3. Handed' = e
      BY <1>5 DEF Handed
    <3> HIDE DEF e
    <3> QED BY <3>1, <3>2, <3>3
  <2>2. /\ Given(workers'[u]) = Append(Given(workers[u]), e)
        /\ \A w \in Workers \ {u} : Given(workers'[w]) = Given(workers[w])
    BY <1>3, <1>4 DEF ch
  <2>3. ASSUME Kind("fixed"), plan.strategy = "partition-by"
        PROVE  u = Owner(e)
    <3>1. inputs = [i \in 1..Size |-> i] /\ Len(inputs) = Size
      BY <1>0, <2>3, BoundsAssumption DEF Shape
    <3> QED BY <1>1, <2>3, <3>1 DEF u, Owner
  <2>4. e = Handed + 1 /\ e <= Handed' /\ e \in Events
    BY <2>1, <1>1, <1>0 DEF TypeOK
  <2> HIDE DEF e
  <2> QED BY <1>1, <1>5, <2>1, <2>2, <2>3, <2>4, NextEventGiven
<1> QED BY <1>6, <1>7, <1>9, <1>10, <1>11, <1>12, <1>13 DEF IndInv

\* The distributor reads an event and ends, pushes it or asks for a permit.
LEMMA DistributeKeeps ==
  ASSUME IndInv, Distribute
  PROVE  IndInv'
<1> DEFINE e == distributor.read + 1
           d == [distributor EXCEPT !.read = e]
<1>0. /\ distributor.at = "waiting" /\ e \in Events /\ TypeOK
      /\ distributor.read \in Nat
  BY DEF Distribute, IndInv, TypeOK
<1>1. e \in 0..MaxEvents /\ d.read = e /\ d.at = "waiting" /\ d.permits = distributor.permits
  BY <1>0, BoundsAssumption DEF Events, TypeOK
<1>2. CASE output.closed /\ Ends(d)
  BY <1>0, <1>1, <1>2, EndsKeeps
<1>3. CASE /\ ~output.closed /\ Clustered
           /\ workers' = [workers EXCEPT ![inputs[Select(e)]] = Push(@, e)]
           /\ distributor' = d
           /\ UNCHANGED <<plan, inputs, output, monitor, control>>
  BY <1>0, <1>3, PushKeeps
<1>4. CASE /\ ~output.closed /\ ~Clustered
           /\ distributor' = [d EXCEPT !.at = "acquiring"]
           /\ UNCHANGED <<plan, inputs, workers, output, monitor, control>>
  <2>1. /\ distributor'.at = "acquiring" /\ distributor'.read = e
        /\ distributor'.permits = distributor.permits
        /\ distributor' \in [at : {"waiting", "acquiring", "asleep", "done", "failed"},
                             read : 0..MaxEvents, permits : Nat]
    BY <1>0, <1>1, <1>4 DEF TypeOK
  <2>2. Handed <= Handed'
    BY <1>0, <2>1 DEF Handed
  <2>3. Kind("concurrent")
    BY <1>4 DEF Clustered
  <2> QED BY <1>0, <1>4, <2>1, <2>2, <2>3, DistributorMoves
<1> QED BY <1>2, <1>3, <1>4 DEF Distribute

\* A key function throws.
LEMMA SelectThrowsKeeps ==
  ASSUME IndInv, SelectThrows
  PROVE  IndInv'
<1>1. /\ distributor.at = "waiting" /\ distributor'.at = "failed"
      /\ distributor'.read = distributor.read /\ distributor'.permits = distributor.permits
      /\ distributor' \in [at : {"waiting", "acquiring", "asleep", "done", "failed"},
                           read : 0..MaxEvents, permits : Nat]
  BY DEF IndInv, TypeOK, SelectThrows
<1>2. Handed <= Handed'
  BY <1>1 DEF Handed, IndInv, TypeOK
<1> QED BY <1>1, <1>2, DistributorMoves DEF SelectThrows
-----------------------------------------------------------------------------
\* The task of the event that was read starts.
LEMMA StartTaskKeeps ==
  ASSUME IndInv, ~output.closed, StartTask
  PROVE  IndInv'
<1> DEFINE u == Fresh
           e == distributor.read
           new == [NewChannel("holding") EXCEPT !.got = <<e>>]
<1>0. TypeOK /\ Shape /\ InputsOpen /\ WorkersOK /\ OutputOK /\ Accounted
  BY DEF IndInv
<1>1. /\ distributor.at = "acquiring" /\ distributor.permits \in Nat \ {0}
      /\ u \in Workers /\ workers[u].at = "absent" /\ Kind("concurrent")
      /\ workers[u] = NewChannel("absent")
      /\ e \in 0..MaxEvents /\ e > 0 /\ e \in Events
  <2>1. distributor.at = "acquiring" /\ distributor.permits > 0 /\ Spawned # Workers
    BY DEF StartTask
  <2>2. u \in Workers /\ workers[u].at = "absent"
    BY <2>1, FreshIsFree
  <2>3. e \in 0..MaxEvents /\ e > 0 /\ Kind("concurrent")
    BY <1>0, <2>1 DEF TypeOK, Shape
  <2> QED BY <1>0, <2>1, <2>2, <2>3, BoundsAssumption DEF TypeOK, WorkersOK, Events
<1>2. /\ new \in Channel(Places) /\ new.at = "holding" /\ new.got = <<e>> /\ new.queue = <<>>
      /\ ~new.closed /\ Given(new) = Append(Given(workers[u]), e)
  <2>1. <<e>> \in Seq(Events) /\ <<>> \in Seq(Events)
    BY <1>1
  <2>2. /\ new.at = "holding" /\ new.got = <<e>> /\ new.queue = <<>> /\ ~new.closed
        /\ new \in Channel(Places)
    BY <2>1 DEF NewChannel, Channel, Places, Awake
  <2>3. workers[u].got = <<>> /\ workers[u].queue = <<>>
    BY <1>1 DEF NewChannel
  <2>4. <<e>> \o <<>> = Append(<<>> \o <<>>, e)
    OBVIOUS
  <2> QED BY <2>2, <2>3, <2>4 DEF Given
<1> HIDE DEF u, new
<1>3. /\ workers' \in [Workers -> Channel(Places)] /\ workers'[u] = new
      /\ \A w \in Workers \ {u} : workers'[w] = workers[w]
  BY <1>0, <1>1, <1>2 DEF TypeOK, StartTask, u, new
<1>4. /\ distributor'.at = "waiting" /\ distributor'.read = e
      /\ distributor'.permits = distributor.permits - 1
      /\ distributor' \in [at : {"waiting", "acquiring", "asleep", "done", "failed"},
                           read : 0..MaxEvents, permits : Nat]
      /\ control'.active = control.active + 1 /\ control'.ended = control.ended
      /\ control'.error = control.error
      /\ control' \in [active : Nat, error : BOOLEAN, ended : BOOLEAN]
      /\ UNCHANGED <<plan, inputs, output, monitor>>
  <2>1. /\ distributor' = [distributor EXCEPT !.at = "waiting", !.permits = @ - 1]
        /\ control' = [control EXCEPT !.active = @ + 1]
        /\ UNCHANGED <<plan, inputs, output, monitor>>
    BY DEF StartTask
  <2>2. distributor.permits - 1 \in Nat
    BY <1>1
  <2>3. /\ distributor'.at = "waiting" /\ distributor'.read = e
        /\ distributor'.permits = distributor.permits - 1
        /\ distributor' \in [at : {"waiting", "acquiring", "asleep", "done", "failed"},
                             read : 0..MaxEvents, permits : Nat]
    BY <1>0, <2>1, <2>2 DEF TypeOK
  <2> QED BY <1>0, <2>1, <2>3 DEF TypeOK
<1>5. TypeOK'
  BY <1>0, <1>3, <1>4 DEF TypeOK
<1>6. Shape'
  BY <1>0, <1>1, <1>2, <1>3, <1>4 DEF Shape, Kind
<1>7. InputsOpen'
  <2>1. \A w \in Workers : /\ workers[w].at # "absent" => workers'[w].at # "absent"
                           /\ workers'[w].closed => workers[w].closed
    BY <1>1, <1>2, <1>3
  <2> QED BY <1>4, <2>1, InputsStay
<1>8. WorkersOK'
  <2> SUFFICES ASSUME NEW w \in Workers
               PROVE  /\ workers'[w].at = "absent" => workers'[w] = NewChannel("absent")
                      /\ workers'[w].at = "holding" => workers'[w].got # <<>>
                      /\ workers'[w].at = "ending" => workers'[w].closed
                      /\ workers'[w].at \in {"ending", "done"} =>
                            workers'[w].queue = <<>> /\ (Clustered' => workers'[w].closed)
                      /\ workers'[w].at = "threw" => control'.error
    BY DEF WorkersOK
  <2>1. CASE w = u
    <3>1. <<e>> # <<>>
      OBVIOUS
    <3> QED BY <1>2, <1>3, <2>1, <3>1
  <2>2. CASE w # u
    BY <1>0, <1>3, <1>4, <2>2 DEF WorkersOK, Clustered, Kind
  <2> QED BY <2>1, <2>2
<1>9. OutputOK'
  BY <1>0, <1>4 DEF OutputOK
<1>10. Accounted'
  <2>1. Active' = Active \cup {u} /\ u \notin Active
    BY <1>1, <1>2, <1>3 DEF Active
  <2>2. Cardinality(Active') = control'.active
    <3>1. Cardinality(Active \cup {u}) = Cardinality(Active) + 1
      BY <2>1, ActiveIsFinite, FS_AddElement
    <3> QED BY <1>0, <1>4, <2>1, <3>1 DEF Accounted
  <2>3. ~Clustered => distributor'.permits + control'.active = MaxConcurrency
    BY <1>0, <1>1, <1>4 DEF Accounted, TypeOK
  <2>4. ~control.error
    BY <1>0 DEF Accounted
  <2> QED BY <1>4, <2>1, <2>2, <2>3, <2>4 DEF Accounted, Clustered, Kind
<1>11. Ordered' /\ OneWorkerEach' /\ Partitioned'
  <2>1. Handed = e - 1 /\ Handed' = e /\ e \in Int
    BY <1>1, <1>4 DEF Handed
  <2>2. /\ Given(workers'[u]) = Append(Given(workers[u]), e)
        /\ \A w \in Workers \ {u} : Given(workers'[w]) = Given(workers[w])
    BY <1>2, <1>3
  <2>3. ~Kind("fixed")
    BY <1>1 DEF Kind
  <2>4. e = Handed + 1 /\ e <= Handed' /\ Handed' \in Int
    BY <2>1
  <2> HIDE DEF e
  <2> QED BY <1>1, <1>4, <2>2, <2>3, <2>4, NextEventGiven
<1> QED BY <1>5, <1>6, <1>7, <1>8, <1>9, <1>10, <1>11 DEF IndInv

\* The semaphore is asked for a permit.
LEMMA AcquireKeeps ==
  ASSUME IndInv, Acquire
  PROVE  IndInv'
<1>0. distributor.at = "acquiring" /\ TypeOK /\ Kind("concurrent") /\ distributor.read > 0
  BY DEF Acquire, IndInv, Shape
<1>1. CASE /\ distributor' = [distributor EXCEPT !.at = "asleep"]
           /\ UNCHANGED <<plan, inputs, workers, output, monitor, control>>
  <2>1. /\ distributor'.at = "asleep" /\ distributor'.read = distributor.read
        /\ distributor'.permits = distributor.permits
        /\ distributor' \in [at : {"waiting", "acquiring", "asleep", "done", "failed"},
                             read : 0..MaxEvents, permits : Nat]
    BY <1>0, <1>1 DEF TypeOK
  <2>2. Handed <= Handed'
    BY <1>0, <2>1 DEF Handed, TypeOK
  <2> QED BY <1>0, <1>1, <2>1, <2>2, DistributorMoves
<1>2. CASE Ends(distributor)
  <2>1. distributor.read \in 0..MaxEvents
    BY <1>0 DEF TypeOK
  <2> QED BY <1>0, <1>2, <2>1, EndsKeeps
<1>3. CASE ~output.closed /\ StartTask
  BY <1>3, StartTaskKeeps
<1> QED BY <1>1, <1>2, <1>3 DEF Acquire

\* A worker reads.
LEMMA WorkerPullsKeeps ==
  ASSUME IndInv, NEW w \in Workers, WorkerPulls(w)
  PROVE  IndInv'
<1>0. TypeOK /\ Shape /\ InputsOpen /\ WorkersOK /\ OutputOK /\ Accounted
  BY DEF IndInv
<1>1. /\ UNCHANGED <<plan, inputs, output, distributor, monitor, control>>
      /\ workers[w].at \in {"running", "holding"}
      /\ workers[w] \in Channel(Places)
      /\ Advanced(workers[w], Pull(workers[w])) /\ Pull(workers[w]) \in Channel(Places)
      /\ workers' = [workers EXCEPT ![w] = Pull(workers[w])]
  BY <1>0, PulledAdvances DEF WorkerPulls, TypeOK
<1>2. /\ workers' \in [Workers -> Channel(Places)]
      /\ \A v \in Workers : Advanced(workers[v], workers'[v])
  BY <1>0, <1>1, SameAdvances DEF TypeOK
<1>3. /\ Active' = Active
      /\ WorkersOK'
      /\ Kind("concurrent") => \A v \in Workers : workers'[v].queue = <<>>
      /\ \A v \in Workers : Given(workers'[v]) = Given(workers[v])
      /\ \A v \in Workers : workers[v].at # "absent" => workers'[v].at # "absent"
  BY <1>1, <1>2, AdvancingKeeps
<1>4. TypeOK' /\ Shape' /\ OutputOK'
  BY <1>0, <1>1, <1>2, <1>3 DEF TypeOK, Shape, OutputOK, Kind
<1>5. InputsOpen'
  <2>1. Pull(workers[w]).closed = workers[w].closed
    <3>1. Awake \subseteq Places
      BY DEF Places
    <3> QED BY <1>1, <3>1, PullKeeps
  <2>2. \A v \in Workers : workers'[v].closed => workers[v].closed
    BY <1>0, <1>1, <2>1 DEF TypeOK
  <2> QED BY <1>1, <1>3, <2>2, InputsStay
<1>6. Accounted'
  BY <1>0, <1>1, <1>3 DEF Accounted, Clustered, Kind
<1>7. Ordered' /\ OneWorkerEach' /\ Partitioned'
  <2>1. Handed' = Handed /\ Handed \in Int
    BY <1>0, <1>1 DEF Handed, TypeOK
  <2>2. Handed <= Handed' /\ Handed' \in Int
    BY <2>1
  <2> QED BY <1>1, <1>3, <2>2, StreamsKept DEF IndInv, Shape
<1> QED BY <1>3, <1>4, <1>5, <1>6, <1>7 DEF IndInv

\* A worker yields.
LEMMA WorkerYieldsKeeps ==
  ASSUME IndInv, NEW w \in Workers, WorkerYields(w)
  PROVE  IndInv'
<1> DEFINE item == workers[w].got[Len(workers[w].got)]
           new == [workers[w] EXCEPT !.at = "running"]
<1>0. TypeOK /\ Shape /\ InputsOpen /\ WorkersOK /\ OutputOK /\ Accounted
  BY DEF IndInv
<1>1. /\ UNCHANGED <<plan, inputs, distributor, monitor, control>>
      /\ workers[w].at = "holding" /\ workers[w] \in Channel(Places)
      /\ workers' = [workers EXCEPT ![w] = new]
      /\ output' \in {output, Push(output, item)}
  BY <1>0 DEF WorkerYields, TypeOK
<1>2. item \in Events
  <2>1. workers[w].got \in Seq(Events) /\ workers[w].got # <<>>
    BY <1>0, <1>1 DEF WorkersOK, Channel
  <2>2. Len(workers[w].got) \in 1..Len(workers[w].got)
    BY <2>1
  <2> QED BY <2>1, <2>2, ElementOfSeq
<1> HIDE DEF item
<1>3. /\ new \in Channel(Places) /\ new.at = "running" /\ new.got = workers[w].got
      /\ new.queue = workers[w].queue /\ new.closed = workers[w].closed
      /\ Given(new) = Given(workers[w])
  BY <1>1 DEF Channel, Places, Given
<1> HIDE DEF new
<1>4. /\ workers' \in [Workers -> Channel(Places)] /\ workers'[w] = new
      /\ \A v \in Workers \ {w} : workers'[v] = workers[v]
  BY <1>0, <1>1, <1>3 DEF TypeOK
<1>5. /\ output' \in Channel(Ways) /\ output'.closed = output.closed
      /\ output'.at \in {output.at, "holding"}
      /\ output' = output \/ output'.at # output.at \/ output'.at = output.at
  <2>1. Awake \subseteq Ways /\ output \in Channel(Ways)
    BY <1>0 DEF Ways, TypeOK
  <2> QED BY <1>1, <1>2, <2>1, PushAppends
<1>6. w \in Active
  BY <1>1 DEF Active
<1>7. output.closed => control.error
  BY <1>0, <1>6 DEF Accounted
<1>8. OutputOK'
  BY <1>0, <1>1, <1>5, <1>7 DEF OutputOK
<1>9. TypeOK' /\ Shape'
  BY <1>0, <1>1, <1>3, <1>4, <1>5 DEF TypeOK, Shape, Kind
<1>10. InputsOpen'
  <2>1. \A v \in Workers : /\ workers[v].at # "absent" => workers'[v].at # "absent"
                           /\ workers'[v].closed => workers[v].closed
    BY <1>3, <1>4
  <2> QED BY <1>1, <2>1, InputsStay
<1>11. WorkersOK'
  <2>1. Clustered' = Clustered
    BY <1>1 DEF Clustered, Kind
  <2> QED BY <1>0, <1>1, <1>3, <1>4, <2>1 DEF WorkersOK
<1>12. Accounted'
  <2>1. Active' = Active
    BY <1>1, <1>3, <1>4 DEF Active
  <2> QED BY <1>0, <1>1, <1>5, <2>1 DEF Accounted, Clustered, Kind
<1>13. Ordered' /\ OneWorkerEach' /\ Partitioned'
  <2>1. Handed' = Handed /\ Handed \in Int
    BY <1>0, <1>1 DEF Handed, TypeOK
  <2>2. Handed <= Handed' /\ Handed' \in Int
    BY <2>1
  <2>3. \A v \in Workers : Given(workers'[v]) = Given(workers[v])
    BY <1>3, <1>4
  <2> QED BY <1>1, <2>2, <2>3, StreamsKept DEF IndInv, Shape
<1> QED BY <1>8, <1>9, <1>10, <1>11, <1>12, <1>13 DEF IndInv

\* A worker ends, in whatever way it may.
LEMMA FinishesKeeps ==
  ASSUME IndInv, NEW w \in Workers, NEW how \in {"done", "quit", "threw"}, Finishes(w, how),
         workers[w].at \in {"running", "holding", "ending"},
         how = "done" => ~Clustered \/ workers[w].at = "ending"
  PROVE  IndInv'
<1> DEFINE new == [workers[w] EXCEPT !.at = how]
           left == [workers EXCEPT ![w] = new]
<1>0. TypeOK /\ Shape /\ InputsOpen /\ WorkersOK /\ OutputOK /\ Accounted
  BY DEF IndInv
<1>1. /\ UNCHANGED <<plan, inputs, monitor>>
      /\ workers[w] \in Channel(Places)
      /\ workers' = IF how = "threw" THEN InputsClosed(left) ELSE left
      /\ output' = IF how = "threw" \/ LastWorker THEN Close(output) ELSE output
      /\ control' = [control EXCEPT !.active = @ - 1, !.error = @ \/ how = "threw"]
      /\ distributor' = IF Clustered THEN distributor ELSE Released
  BY <1>0 DEF Finishes, TypeOK
<1>2. /\ new \in Channel(Places) /\ new.at = how /\ new.got = workers[w].got
      /\ new.queue = workers[w].queue /\ new.closed = workers[w].closed
      /\ Given(new) = Given(workers[w])
  BY <1>1 DEF Channel, Places, Given
<1> HIDE DEF new
<1>3. /\ left \in [Workers -> Channel(Places)] /\ left[w] = new
      /\ \A v \in Workers \ {w} : left[v] = workers[v]
  BY <1>0, <1>2 DEF TypeOK
<1> HIDE DEF left
<1>4. w \in Active /\ control.active \in Nat \ {0}
  <2>1. w \in Active
    BY DEF Active
  <2> QED BY <1>0, <2>1, ActiveIsFinite DEF Accounted
<1>5. /\ control' \in [active : Nat, error : BOOLEAN, ended : BOOLEAN]
      /\ control'.active = control.active - 1 /\ control'.ended = control.ended
      /\ control'.error <=> control.error \/ how = "threw"
  <2>1. control.active - 1 \in Nat
    BY <1>4
  <2> QED BY <1>0, <1>1, <2>1 DEF TypeOK
<1>6. /\ distributor' \in [at : {"waiting", "acquiring", "asleep", "done", "failed"},
                           read : 0..MaxEvents, permits : Nat]
      /\ distributor'.read = distributor.read
      /\ distributor'.permits = IF Clustered THEN distributor.permits ELSE distributor.permits + 1
      /\ \/ distributor'.at = distributor.at
         \/ distributor.at = "asleep" /\ distributor'.at = "acquiring"
  <2>1. CASE Clustered
    <3>1. distributor' = distributor
      BY <1>1, <2>1
    <3> QED BY <1>0, <2>1, <3>1 DEF TypeOK
  <2>2. CASE ~Clustered
    <3> DEFINE place == IF distributor.at = "asleep" THEN "acquiring" ELSE distributor.at
    <3>1. distributor' = [distributor EXCEPT !.permits = distributor.permits + 1, !.at = place]
      BY <1>1, <2>2 DEF Released
    <3>2. place \in {"waiting", "acquiring", "asleep", "done", "failed"}
          /\ distributor.permits + 1 \in Nat
      BY <1>0 DEF TypeOK
    <3>3. /\ distributor'.at = place /\ distributor'.read = distributor.read
          /\ distributor'.permits = distributor.permits + 1
          /\ distributor' \in [at : {"waiting", "acquiring", "asleep", "done", "failed"},
                               read : 0..MaxEvents, permits : Nat]
      <4> HIDE DEF place
      <4> QED BY <1>0, <3>1, <3>2 DEF TypeOK
    <3>4. \/ distributor'.at = distributor.at
          \/ distributor.at = "asleep" /\ distributor'.at = "acquiring"
      BY <3>3
    <3> HIDE DEF place
    <3> QED BY <2>2, <3>3, <3>4
  <2> QED BY <2>1, <2>2
<1>7. /\ workers' \in [Workers -> Channel(Places)]
      /\ \A v \in Workers : Advanced(left[v], workers'[v])
  <2>1. \A i \in 1..Len(inputs) : left[inputs[i]].at # "absent"
    <3>1. \A i \in 1..Len(inputs) : inputs[i] \in Workers /\ workers[inputs[i]].at # "absent"
      BY <1>0, ElementOfSeq DEF TypeOK, InputsOpen
    <3> QED BY <3>1, <1>2, <1>3
  <2>2. inputs \in Seq(Workers)
    BY <1>0 DEF TypeOK
  <2>3. CASE how = "threw"
    BY <1>1, <1>3, <2>1, <2>2, <2>3, InputsClosedAdvance
  <2>4. CASE how # "threw"
    BY <1>1, <1>3, <2>4, SameAdvances
  <2> QED BY <2>3, <2>4
<1>8. WorkersOK'
  <2> SUFFICES ASSUME NEW v \in Workers
               PROVE  /\ workers'[v].at = "absent" => workers'[v] = NewChannel("absent")
                      /\ workers'[v].at = "holding" => workers'[v].got # <<>>
                      /\ workers'[v].at = "ending" => workers'[v].closed
                      /\ workers'[v].at \in {"ending", "done"} =>
                            workers'[v].queue = <<>> /\ (Clustered' => workers'[v].closed)
                      /\ workers'[v].at = "threw" => control'.error
    BY DEF WorkersOK
  <2>1. Clustered' = Clustered
    BY <1>1 DEF Clustered, Kind
  <2>2. /\ left[v].at = "absent" => left[v] = NewChannel("absent")
        /\ left[v].at = "holding" => left[v].got # <<>>
        /\ left[v].at = "ending" => left[v].closed
        /\ left[v].at \in {"ending", "done"} =>
              left[v].queue = <<>> /\ (Clustered => left[v].closed)
        /\ left[v].at = "threw" => control'.error
    <3>1. CASE v = w
      <4>1. how = "done" => workers[w].queue = <<>> /\ (Clustered => workers[w].closed)
        BY <1>0 DEF WorkersOK, Shape, Clustered
      <4> QED BY <1>2, <1>3, <1>5, <3>1, <4>1
    <3>2. CASE v # w
      BY <1>0, <1>3, <1>5, <3>2 DEF WorkersOK
    <3> QED BY <3>1, <3>2
  <2>3. Advanced(left[v], workers'[v])
    BY <1>7
  <2> QED BY <2>1, <2>2, <2>3 DEF Advanced, Awake
<1>9. \A v \in Workers : /\ Given(workers'[v]) = Given(workers[v])
                         /\ workers[v].at # "absent" => workers'[v].at # "absent"
                         /\ workers[v].queue = <<>> => workers'[v].queue = <<>>
  <2> SUFFICES ASSUME NEW v \in Workers
               PROVE  /\ Given(workers'[v]) = Given(workers[v])
                      /\ workers[v].at # "absent" => workers'[v].at # "absent"
                      /\ workers[v].queue = <<>> => workers'[v].queue = <<>>
    OBVIOUS
  <2>1. /\ Given(left[v]) = Given(workers[v])
        /\ workers[v].at # "absent" => left[v].at # "absent"
        /\ workers[v].queue = <<>> => left[v].queue = <<>>
    BY <1>2, <1>3
  <2>2. Advanced(left[v], workers'[v])
    BY <1>7
  <2> QED BY <2>1, <2>2 DEF Advanced, Awake
<1>10. ~Clustered \/ distributor' = distributor
  BY <1>1
<1>11. output.at = "returned" => ~control'.error
  BY <1>0, <1>4 DEF Accounted, OutputOK
<1>12. /\ OutputOK' /\ output' \in Channel(Ways)
       /\ output'.closed <=> output.closed \/ how = "threw" \/ LastWorker
  <2>1. OutputOK' /\ output' \in Channel(Ways)
        /\ (output.closed => output'.closed) /\ (output' = Close(output) => output'.closed)
    BY <1>1, <1>5, <1>11, OutputCloses
  <2> QED BY <1>1, <2>1
<1>13. TypeOK'
  BY <1>0, <1>1, <1>5, <1>6, <1>7, <1>12 DEF TypeOK
<1>14. Shape'
  BY <1>0, <1>1, <1>5, <1>6, <1>9 DEF Shape, Kind
<1>15. InputsOpen'
  <2>1. CASE how = "threw"
    BY <1>1, <1>5, <1>9, <2>1, InputsStay
  <2>2. CASE how # "threw"
    <3>1. \A v \in Workers : workers'[v].closed => workers[v].closed
      BY <1>1, <1>2, <1>3, <2>2
    <3> QED BY <1>1, <1>5, <1>9, <3>1, InputsStay
  <2> QED BY <2>1, <2>2
<1>16. Accounted'
  <2>1. Active' = Active \ {w}
    <3> SUFFICES ASSUME NEW v \in Workers
                 PROVE  v \in Active' <=> v \in Active /\ v # w
      BY DEF Active
    <3>1. Advanced(left[v], workers'[v])
      BY <1>7
    <3>2. v = w => left[v].at = how
      BY <1>2, <1>3
    <3>3. v # w => left[v] = workers[v]
      BY <1>3
    <3> QED BY <3>1, <3>2, <3>3 DEF Advanced, Active, Awake
  <2>2. Cardinality(Active') = control.active - 1
    <3>1. Cardinality(Active \ {w}) = Cardinality(Active) - 1
      BY <1>4, ActiveIsFinite, FS_RemoveElement
    <3> QED BY <1>0, <2>1, <3>1 DEF Accounted
  <2>3. Active' = {} <=> control.active = 1
    <3>1. IsFiniteSet(Active')
      BY <2>1, ActiveIsFinite, FS_RemoveElement
    <3>2. Cardinality(Active') = 0 <=> Active' = {}
      BY <3>1, FS_EmptySet
    <3> QED BY <2>2, <3>2, <1>4
  <2>4. ~Clustered => distributor'.permits + control'.active = MaxConcurrency
    BY <1>0, <1>4, <1>5, <1>6 DEF Accounted, TypeOK
  <2>5. output'.closed <=> control'.error \/ (Active' = {} /\ (control'.ended \/ Kind("fixed")))
    BY <1>0, <1>4, <1>5, <1>12, <2>3 DEF Accounted, LastWorker
  <2> QED BY <1>1, <1>5, <2>2, <2>4, <2>5 DEF Accounted, Clustered, Kind
<1>17. Ordered' /\ OneWorkerEach' /\ Partitioned'
  <2>1. Handed' = Handed /\ Handed \in Int
    BY <1>0, <1>6 DEF Handed, TypeOK
  <2>2. Handed <= Handed' /\ Handed' \in Int
    BY <2>1
  <2>3. distributor'.at = "waiting" => distributor.at = "waiting"
    BY <1>6
  <2> QED BY <1>1, <1>6, <1>9, <2>2, <2>3, StreamsKept
<1> QED BY <1>8, <1>12, <1>13, <1>14, <1>15, <1>16, <1>17 DEF IndInv
-----------------------------------------------------------------------------
\* The monitor adds a worker.
LEMMA AddWorkerKeeps ==
  ASSUME IndInv, monitor = "sleeping", ~output.closed, ~control.ended, AddWorker,
         UNCHANGED <<plan, output, distributor>>
  PROVE  IndInv'
<1> DEFINE u == Fresh
           new == [workers[u] EXCEPT !.at = "running"]
<1>0. TypeOK /\ Shape /\ InputsOpen /\ WorkersOK /\ OutputOK /\ Accounted
  BY DEF IndInv
<1>1. /\ u \in Workers /\ workers[u].at = "absent" /\ workers[u] = NewChannel("absent")
      /\ workers[u] \in Channel(Places) /\ Kind("dynamic") /\ ~control.error
  <2>1. u \in Workers /\ workers[u].at = "absent"
    BY FreshIsFree DEF AddWorker
  <2> QED BY <1>0, <2>1 DEF TypeOK, Shape, WorkersOK, Accounted
<1>2. /\ new \in Channel(Places) /\ new.at = "running" /\ new.got = workers[u].got
      /\ new.queue = workers[u].queue /\ ~new.closed
      /\ Given(new) = Given(workers[u])
  <2>1. ~workers[u].closed
    BY <1>1 DEF NewChannel
  <2> HIDE DEF u
  <2> QED BY <1>1, <2>1 DEF Channel, Places, Given
<1> HIDE DEF new
<1>3. /\ workers' \in [Workers -> Channel(Places)] /\ workers'[u] = new
      /\ \A v \in Workers \ {u} : workers'[v] = workers[v]
  BY <1>0, <1>1, <1>2 DEF TypeOK, AddWorker, new
<1>4. /\ inputs' \in Seq(Workers) /\ Len(inputs') = Len(inputs) + 1 /\ Len(inputs) \in Nat
      /\ inputs'[Len(inputs) + 1] = u
      /\ \A i \in 1..Len(inputs) : inputs'[i] = inputs[i] /\ inputs[i] \in Workers
  <2>1. inputs' = Append(inputs, u) /\ inputs \in Seq(Workers)
    BY <1>0 DEF AddWorker, TypeOK
  <2> QED BY <1>1, <2>1, AppendProperties, ElementOfSeq
<1>5. /\ control' = [control EXCEPT !.active = @ + 1] /\ UNCHANGED monitor
      /\ control' \in [active : Nat, error : BOOLEAN, ended : BOOLEAN]
      /\ control'.active = control.active + 1 /\ control'.ended = control.ended
      /\ control'.error = control.error
  <2>1. control' = [control EXCEPT !.active = @ + 1] /\ UNCHANGED monitor
    BY DEF AddWorker
  <2>2. control \in [active : Nat, error : BOOLEAN, ended : BOOLEAN]
    BY <1>0 DEF TypeOK
  <2> HIDE DEF u
  <2> QED BY <2>1, <2>2
<1> HIDE DEF u
<1>6. TypeOK' /\ OutputOK'
  BY <1>0, <1>3, <1>4, <1>5 DEF TypeOK, OutputOK
<1>7. Shape'
  BY <1>0, <1>1, <1>4, <1>5, BoundsAssumption DEF Shape, Kind
<1>8. InputsOpen'
  <2>1. ASSUME NEW i \in 1..Len(inputs')
        PROVE  i \in 1..Len(inputs) \/ i = Len(inputs) + 1
    BY <1>4
  <2>2. \A i \in 1..Len(inputs) : inputs[i] # u
    BY <1>0, <1>1 DEF InputsOpen
  <2>3. ASSUME NEW i \in 1..Len(inputs'), NEW j \in 1..Len(inputs'), inputs'[i] = inputs'[j]
        PROVE  i = j
    BY <1>0, <1>4, <2>1, <2>2, <2>3 DEF InputsOpen
  <2>4. ASSUME NEW i \in 1..Len(inputs')
        PROVE  /\ workers'[inputs'[i]].at # "absent"
               /\ workers'[inputs'[i]].closed => control'.ended \/ control'.error
    <3>1. CASE i \in 1..Len(inputs)
      BY <1>0, <1>3, <1>4, <1>5, <2>2, <3>1 DEF InputsOpen
    <3>2. CASE i = Len(inputs) + 1
      BY <1>2, <1>3, <1>4, <3>2
    <3> QED BY <2>1, <3>1, <3>2
  <2> QED BY <2>3, <2>4 DEF InputsOpen
<1>9. WorkersOK'
  <2>1. Clustered' = Clustered
    BY DEF Clustered, Kind
  <2> QED BY <1>0, <1>1, <1>2, <1>3, <1>5, <2>1 DEF WorkersOK
<1>10. Accounted'
  <2>1. Active' = Active \cup {u} /\ u \notin Active
    BY <1>1, <1>2, <1>3 DEF Active
  <2>2. Cardinality(Active') = control'.active
    <3>1. Cardinality(Active \cup {u}) = Cardinality(Active) + 1
      BY <2>1, ActiveIsFinite, FS_AddElement
    <3> QED BY <1>0, <1>5, <2>1, <3>1 DEF Accounted
  <2> QED BY <1>1, <1>5, <2>1, <2>2 DEF Accounted, Clustered, Kind
<1>11. Ordered' /\ OneWorkerEach' /\ Partitioned'
  <2>1. Handed' = Handed /\ Handed \in Int
    BY <1>0 DEF Handed, TypeOK
  <2>2. Handed <= Handed' /\ Handed' \in Int
    BY <2>1
  <2>3. \A v \in Workers : Given(workers'[v]) = Given(workers[v])
    BY <1>2, <1>3
  <2>4. ~Kind("fixed")
    BY <1>1 DEF Kind
  <2> QED BY <2>2, <2>3, <2>4, StreamsKept
<1> QED BY <1>6, <1>7, <1>8, <1>9, <1>10, <1>11 DEF IndInv

\* A sequence without its ith element.
Cut(s, i) == SubSeq(s, 1, i - 1) \o SubSeq(s, i + 1, Len(s))

\* Taking element i out of a sequence.
LEMMA CutProperties ==
  ASSUME NEW S, NEW s \in Seq(S), NEW i \in 1..Len(s), NEW t, t = Cut(s, i)
  PROVE  /\ t \in Seq(S) /\ Len(t) = Len(s) - 1
         /\ \A j \in 1..Len(t) : t[j] = s[IF j < i THEN j ELSE j + 1]
<1>1. Len(s) \in Nat /\ \A j \in 1..Len(s) : s[j] \in S
  BY ElementOfSeq
<1> DEFINE a == SubSeq(s, 1, i - 1)
           b == SubSeq(s, i + 1, Len(s))
<1>2. /\ a \in Seq(S) /\ Len(a) = i - 1 /\ \A j \in 1..(i - 1) : a[j] = s[j]
  <2>1. \A j \in 1..(i - 1) : s[j] \in S
    BY <1>1
  <2> QED BY <1>1, <2>1, SubSeqProperties
<1>3. b \in Seq(S) /\ Len(b) = Len(s) - i /\ \A j \in 1..(Len(s) - i) : b[j] = s[i + j]
  <2>1. \A j \in (i + 1)..Len(s) : s[j] \in S
    BY <1>1
  <2>2. /\ b \in Seq(S) /\ Len(b) = IF i + 1 <= Len(s) THEN Len(s) - (i + 1) + 1 ELSE 0
        /\ \A j \in 1..(Len(s) - (i + 1) + 1) : b[j] = s[(i + 1) + j - 1]
    BY <1>1, <2>1, SubSeqProperties
  <2> QED BY <1>1, <2>2
<1> HIDE DEF a, b
<1>4. /\ t \in Seq(S) /\ Len(t) = Len(a) + Len(b)
      /\ \A j \in 1..(Len(a) + Len(b)) : t[j] = IF j <= Len(a) THEN a[j] ELSE b[j - Len(a)]
  <2>1. t = a \o b
    BY DEF a, b, Cut
  <2>2. /\ a \o b \in Seq(S) /\ Len(a \o b) = Len(a) + Len(b)
        /\ \A j \in 1..(Len(a) + Len(b)) :
              (a \o b)[j] = IF j <= Len(a) THEN a[j] ELSE b[j - Len(a)]
    BY <1>2, <1>3, ConcatProperties
  <2> QED BY <2>1, <2>2
<1>0. /\ Len(s) \in Int /\ i \in Int /\ 1 <= i /\ i <= Len(s)
      /\ Len(a) = i - 1 /\ Len(b) = Len(s) - i
  BY <1>1, <1>2, <1>3
<1>5. ASSUME NEW j \in 1..Len(t)
      PROVE  t[j] = s[IF j < i THEN j ELSE j + 1]
  <2>1. CASE j < i
    BY <1>1, <1>2, <1>3, <1>4, <2>1
  <2>2. CASE ~(j < i)
    <3>0. Len(a) \in Nat /\ Len(b) \in Nat /\ j \in 1..(Len(a) + Len(b)) /\ ~(j <= Len(a))
          /\ j \in Int /\ i \in Int
      BY <1>0, <1>4, <2>2
    <3>1. /\ j - (i - 1) \in 1..(Len(s) - i) /\ t[j] = b[j - (i - 1)]
          /\ i + (j - (i - 1)) = j + 1
      BY <1>0, <1>4, <3>0
    <3>2. b[j - (i - 1)] = s[i + (j - (i - 1))]
      BY <1>3, <3>1
    <3> QED BY <2>2, <3>1, <3>2
  <2> QED BY <2>1, <2>2
<1>6. Len(t) = Len(s) - 1
  BY <1>0, <1>4
<1> QED BY <1>4, <1>5, <1>6

\* The monitor removes an idle worker.
LEMMA RemoveIdleWorkerKeeps ==
  ASSUME IndInv, monitor = "sleeping", Len(inputs) > MinWorkers, RemoveIdleWorker,
         UNCHANGED <<plan, output, distributor>>
  PROVE  IndInv'
<1>0. TypeOK /\ Shape /\ InputsOpen /\ WorkersOK /\ OutputOK /\ Accounted /\ Kind("dynamic")
  BY DEF IndInv, Shape
<1>1. PICK i \in 1..Len(inputs) :
         /\ inputs' = SubSeq(inputs, 1, i - 1) \o SubSeq(inputs, i + 1, Len(inputs))
         /\ workers' = [workers EXCEPT ![inputs[i]] = Close(@)]
         /\ UNCHANGED <<control, monitor>>
  BY DEF RemoveIdleWorker
<1> DEFINE u == inputs[i]
           At(j) == IF j < i THEN j ELSE j + 1
<1>2. /\ inputs \in Seq(Workers) /\ Len(inputs) \in Nat
      /\ \A j \in 1..Len(inputs) : inputs[j] \in Workers
      /\ u \in Workers /\ workers[u] \in Channel(Places) /\ workers[u].at # "absent"
  <2>1. inputs \in Seq(Workers) /\ Len(inputs) \in Nat
    BY <1>0 DEF TypeOK
  <2>2. \A j \in 1..Len(inputs) : inputs[j] \in Workers
    BY <2>1, ElementOfSeq
  <2> QED BY <1>0, <2>1, <2>2 DEF TypeOK, InputsOpen
<1>3. /\ inputs' \in Seq(Workers) /\ Len(inputs') = Len(inputs) - 1
      /\ \A j \in 1..Len(inputs') : inputs'[j] = inputs[At(j)]
  <2>1. inputs' = Cut(inputs, i)
    BY <1>1 DEF Cut
  <2> QED BY <1>2, <2>1, CutProperties
<1>4. /\ workers' \in [Workers -> Channel(Places)]
      /\ \A v \in Workers : Advanced(workers[v], workers'[v])
      /\ \A v \in Workers \ {u} : workers'[v] = workers[v]
  <2>1. Advanced(workers[u], Close(workers[u])) /\ Close(workers[u]) \in Channel(Places)
    BY <1>2, ClosedAdvances
  <2> QED BY <1>0, <1>1, <1>2, <2>1, SameAdvances DEF TypeOK
<1>5. /\ Active' = Active
      /\ WorkersOK'
      /\ \A v \in Workers : Given(workers'[v]) = Given(workers[v])
      /\ \A v \in Workers : workers[v].at # "absent" => workers'[v].at # "absent"
  BY <1>1, <1>4, AdvancingKeeps
<1>6. TypeOK' /\ OutputOK'
  BY <1>0, <1>1, <1>3, <1>4 DEF TypeOK, OutputOK
<1>7. Shape'
  <2>1. ~Kind("fixed") /\ ~Kind("concurrent")
    BY <1>0 DEF Kind
  <2>2. Len(inputs') >= MinWorkers
    BY <1>2, <1>3, BoundsAssumption
  <2> QED BY <1>0, <1>1, <2>1, <2>2 DEF Shape, Kind
<1>8. InputsOpen'
  <2>1. ASSUME NEW j \in 1..Len(inputs')
        PROVE  At(j) \in 1..Len(inputs) /\ At(j) # i
    BY <1>2, <1>3
  <2>2. ASSUME NEW j \in 1..Len(inputs'), NEW k \in 1..Len(inputs'), inputs'[j] = inputs'[k]
        PROVE  j = k
    <3>1. inputs[At(j)] = inputs[At(k)] /\ At(j) \in 1..Len(inputs) /\ At(k) \in 1..Len(inputs)
      BY <1>3, <2>1, <2>2
    <3>2. At(j) = At(k)
      <4> HIDE DEF At
      <4> QED BY <1>0, <3>1 DEF InputsOpen
    <3> QED BY <3>2
  <2>3. ASSUME NEW j \in 1..Len(inputs')
        PROVE  /\ workers'[inputs'[j]].at # "absent"
               /\ workers'[inputs'[j]].closed => control'.ended \/ control'.error
    <3>1. inputs'[j] = inputs[At(j)] /\ At(j) \in 1..Len(inputs) /\ At(j) # i
      BY <1>3, <2>1
    <3> HIDE DEF At
    <3>2. inputs[At(j)] \in Workers \ {u}
      BY <1>0, <1>2, <3>1 DEF InputsOpen
    <3> DEFINE v == inputs[At(j)]
    <3>3. workers'[v] = workers[v] /\ control' = control /\ inputs'[j] = v
      BY <1>1, <1>4, <3>1, <3>2
    <3>4. workers[v].at # "absent" /\ (workers[v].closed => control.ended \/ control.error)
      BY <1>0, <3>1 DEF InputsOpen
    <3> HIDE DEF v
    <3> QED BY <3>3, <3>4
  <2> QED BY <2>2, <2>3 DEF InputsOpen
<1>9. Accounted'
  BY <1>0, <1>1, <1>5 DEF Accounted, Clustered, Kind
<1>10. Ordered' /\ OneWorkerEach' /\ Partitioned'
  <2>1. Handed' = Handed /\ Handed \in Int
    BY <1>0 DEF Handed, TypeOK
  <2>2. Handed <= Handed' /\ Handed' \in Int
    BY <2>1
  <2>3. ~Kind("fixed")
    BY <1>0 DEF Kind
  <2> QED BY <1>5, <2>2, <2>3, StreamsKept
<1> QED BY <1>5, <1>6, <1>7, <1>8, <1>9, <1>10 DEF IndInv

\* What no part of the invariant looks at may change.
LEMMA OthersRest ==
  ASSUME IndInv, UNCHANGED <<plan, inputs, workers, distributor, control>>,
         monitor' \in {"sleeping", "done"}, monitor' = "sleeping" => monitor = "sleeping",
         output' \in Channel(Ways), output'.closed = output.closed, OutputOK'
  PROVE  IndInv'
<1>1. TypeOK' /\ Shape' /\ InputsOpen' /\ WorkersOK' /\ Accounted'
  BY DEF IndInv, TypeOK, Shape, InputsOpen, WorkersOK, Accounted, Active, Kind, Clustered
<1>2. Ordered' /\ OneWorkerEach' /\ Partitioned'
  <2>1. Handed' = Handed /\ Handed \in Int
    BY DEF Handed, IndInv, TypeOK
  <2>2. Handed <= Handed' /\ Handed' \in Int
    BY <2>1
  <2> QED BY <2>2, StreamsKept DEF IndInv, Shape
<1> QED BY <1>1, <1>2 DEF IndInv

\* The monitor leaves its loop, or adds or removes a worker.
LEMMA TickKeeps ==
  ASSUME IndInv, Tick
  PROVE  IndInv'
<1>0. monitor = "sleeping" /\ UNCHANGED <<plan, output, distributor>>
  BY DEF Tick
<1>1. CASE monitor' = "done" /\ UNCHANGED <<inputs, workers, control>>
  <2>1. output \in Channel(Ways) /\ OutputOK'
    BY <1>0, <1>1 DEF IndInv, TypeOK, OutputOK
  <2> QED BY <1>0, <1>1, <2>1, OthersRest
<1>2. CASE ~output.closed /\ ~control.ended /\ AddWorker
  BY <1>0, <1>2, AddWorkerKeeps
<1>3. CASE Len(inputs) > MinWorkers /\ RemoveIdleWorker
  BY <1>0, <1>3, RemoveIdleWorkerKeeps
<1> QED BY <1>1, <1>2, <1>3 DEF Tick

\* The reader of the generator asks for its next item.
LEMMA ReaderPullsKeeps ==
  ASSUME IndInv, ReaderPulls
  PROVE  IndInv'
<1>1. /\ output \in Channel(Ways) /\ Awake \subseteq Ways /\ OutputOK
      /\ UNCHANGED <<plan, inputs, workers, distributor, monitor, control>>
      /\ output' = Pull(output) /\ monitor \in {"sleeping", "done"}
  BY DEF ReaderPulls, IndInv, TypeOK, Ways
<1>2. /\ output' \in Channel(Ways) /\ output'.closed = output.closed
      /\ output'.at \in Awake
      /\ output'.at = "ending" => output.closed /\ output'.queue = <<>>
  BY <1>1, PullKeeps
<1>3. OutputOK'
  BY <1>1, <1>2 DEF OutputOK, Awake
<1> QED BY <1>1, <1>2, <1>3, OthersRest

\* The generator returns or throws.
LEMMA SettleKeeps ==
  ASSUME IndInv, Settle
  PROVE  IndInv'
<1>1. /\ output \in Channel(Ways) /\ OutputOK /\ output.at = "ending"
      /\ UNCHANGED <<plan, inputs, workers, distributor, monitor, control>>
      /\ output' = [output EXCEPT !.at = IF control.error THEN "threw" ELSE "returned"]
      /\ monitor \in {"sleeping", "done"}
  BY DEF Settle, IndInv, TypeOK
<1>2. /\ output' \in Channel(Ways) /\ output'.closed = output.closed
      /\ output'.at = (IF control.error THEN "threw" ELSE "returned")
      /\ output'.queue = output.queue
  BY <1>1 DEF Channel, Ways
<1>3. OutputOK'
  BY <1>1, <1>2 DEF OutputOK
<1> QED BY <1>1, <1>2, <1>3, OthersRest

\* The invariant holds when the generator is set up.
LEMMA InitIndInv == Init => IndInv
<1> SUFFICES ASSUME Init PROVE IndInv
  OBVIOUS
<1> USE DEF Init
<1> DEFINE n == FirstWorkers(plan.kind)
<1>1. /\ plan.kind \in {"fixed", "dynamic", "concurrent"}
      /\ n = IF plan.kind = "fixed" THEN Size
             ELSE IF plan.kind = "dynamic" THEN MinWorkers ELSE 0
      /\ n \in 0..MaxSpawned /\ (plan.kind # "concurrent" => n > 0)
  <2>1. plan.kind \in {"fixed", "dynamic", "concurrent"}
    BY Kinds
  <2>2. n = IF plan.kind = "fixed" THEN Size
             ELSE IF plan.kind = "dynamic" THEN MinWorkers ELSE 0
    BY <2>1 DEF FirstWorkers
  <2> HIDE DEF n
  <2> QED BY <2>1, <2>2, BoundsAssumption
<1> HIDE DEF n
<1>2. /\ inputs = [i \in 1..n |-> i] /\ Len(inputs) = n /\ inputs \in Seq(Workers)
      /\ \A i \in 1..n : inputs[i] = i /\ i \in Workers
  <2>1. inputs = [i \in 1..n |-> i]
    BY DEF n
  <2>2. \A i \in 1..n : i \in Workers
    BY <1>1, BoundsAssumption DEF Workers
  <2>3. n \in Nat
    BY <1>1
  <2>4. 1..n \subseteq Workers
    BY <2>2
  <2>5. inputs \in Seq(Workers) /\ Len(inputs) = n
    <3>1. [i \in 1..n |-> i] \in [1..n -> Workers]
      BY <2>4
    <3> QED BY <2>1, <2>3, <3>1, SequenceOfLength
  <2>7. \A i \in 1..n : inputs[i] = i
    BY <2>1
  <2> QED BY <2>1, <2>2, <2>5, <2>7
<1>3. \A at \in Places : /\ NewChannel(at) \in Channel(Places)
                         /\ NewChannel(at).at = at /\ NewChannel(at).queue = <<>>
                         /\ ~NewChannel(at).closed
                         /\ Given(NewChannel(at)) = <<>>
  <2>1. <<>> \in Seq(Events) /\ <<>> \o <<>> = <<>>
    OBVIOUS
  <2> QED BY <2>1 DEF NewChannel, Channel, Given
<1>4. \A w \in Workers : /\ workers[w] = NewChannel(IF w <= n THEN "running" ELSE "absent")
                         /\ workers[w].at = (IF w <= n THEN "running" ELSE "absent")
                         /\ workers[w].queue = <<>> /\ ~workers[w].closed
                         /\ Given(workers[w]) = <<>> /\ workers[w] \in Channel(Places)
  BY <1>3 DEF n, Places
<1>5. workers \in [Workers -> Channel(Places)]
  <2>1. workers = [w \in Workers |-> workers[w]]
    OBVIOUS
  <2> QED BY <1>4, <2>1
<1>6. /\ output \in Channel(Ways) /\ output.at = "asleep" /\ ~output.closed
  BY DEF NewChannel, Channel, Ways, Awake
<1>7. TypeOK
  BY <1>1, <1>2, <1>5, <1>6, BoundsAssumption DEF TypeOK, n
<1>8. Shape
  <2>1. Kind("concurrent") => inputs = <<>>
    <3> SUFFICES ASSUME Kind("concurrent") PROVE inputs = <<>>
      OBVIOUS
    <3>1. Len(inputs) = 0 /\ inputs \in Seq(Workers)
      BY <1>1, <1>2 DEF Kind
    <3> QED BY <3>1, EmptySeq
  <2>2. Kind("dynamic") => Len(inputs) >= MinWorkers
    <3> SUFFICES ASSUME Kind("dynamic") PROVE Len(inputs) >= MinWorkers
      OBVIOUS
    <3>1. Len(inputs) = MinWorkers
      BY <1>1, <1>2 DEF Kind
    <3>2. MinWorkers \in Int /\ MinWorkers >= MinWorkers
      BY BoundsAssumption
    <3> HIDE DEF Init
    <3> QED BY <3>1, <3>2
  <2>3. Kind("fixed") => inputs = [i \in 1..Size |-> i]
    BY <1>1, <1>2 DEF Kind
  <2>4. /\ monitor = "sleeping" => Kind("dynamic")
        /\ distributor.at = "waiting" /\ ~control.ended
    BY DEF Kind
  <2> QED BY <1>4, <2>1, <2>2, <2>3, <2>4 DEF Shape
<1>9. InputsOpen
  <2>1. \A i \in 1..n : i <= n /\ inputs[i] = i /\ i \in Workers
    BY <1>1, <1>2
  <2>2. \A i \in 1..n : workers[inputs[i]].at = "running" /\ ~workers[inputs[i]].closed
    BY <1>4, <2>1
  <2>3. Len(inputs) = n
    BY <1>2
  <2> QED BY <2>1, <2>2, <2>3 DEF InputsOpen
<1>10. WorkersOK /\ OutputOK
  BY <1>4, <1>6 DEF WorkersOK, OutputOK
<1>11. Accounted
  <2>1. Active = 1..n
    <3>1. \A w \in Workers : w \in Active <=> w <= n
      BY <1>4 DEF Active
    <3>2. Active \subseteq Workers /\ 1..n \subseteq Workers
      BY <1>1, BoundsAssumption DEF Active, Workers
    <3>3. \A w \in Workers : w <= n <=> w \in 1..n
      BY <1>1, BoundsAssumption DEF Workers
    <3> QED BY <3>1, <3>2, <3>3
  <2>2. Cardinality(Active) = n
    BY <1>1, <2>1, FS_Interval
  <2>3. Active = {} <=> n = 0
    BY <1>1, <2>1
  <2>4. control.active = n /\ ~control.error /\ ~control.ended
    BY DEF n
  <2> QED BY <1>1, <1>6, <2>2, <2>3, <2>4, BoundsAssumption DEF Accounted, Clustered, Kind
<1>12. Ordered /\ OneWorkerEach /\ Partitioned
  <2>1. \A w \in Workers : Len(Given(workers[w])) = 0
    BY <1>4
  <2>2. \A w \in Workers : \A e \in Events : ~IsGiven(w, e)
    BY <2>1 DEF IsGiven
  <2>3. distributor.read = 0
    OBVIOUS
  <2> QED BY <2>1, <2>2, <2>3 DEF Ordered, OneWorkerEach, Partitioned
<1> QED BY <1>7, <1>8, <1>9, <1>10, <1>11, <1>12 DEF IndInv

\* Every step keeps it.
LEMMA NextIndInv == IndInv /\ [Next]_vars => IndInv'
<1> SUFFICES ASSUME IndInv, [Next]_vars PROVE IndInv'
  OBVIOUS
<1>1. CASE Distribute \/ SelectThrows \/ Acquire \/ Tick \/ ReaderPulls \/ Settle
  BY <1>1, DistributeKeeps, SelectThrowsKeeps, AcquireKeeps, TickKeeps, ReaderPullsKeeps,
     SettleKeeps
<1>2. CASE InputEnds
  <2>1. distributor.at = "waiting" /\ Ends(distributor) /\ distributor.read \in 0..MaxEvents
    BY <1>2 DEF InputEnds, IndInv, TypeOK
  <2> QED BY <2>1, EndsKeeps
<1>3. ASSUME NEW w \in Workers, WorkerPulls(w) \/ WorkerYields(w)
      PROVE  IndInv'
  BY <1>3, WorkerPullsKeeps, WorkerYieldsKeeps
<1>4. ASSUME NEW w \in Workers, WorkerReturns(w) \/ WorkerQuits(w) \/ WorkerThrows(w)
      PROVE  IndInv'
  <2>1. CASE WorkerReturns(w)
    BY <2>1, FinishesKeeps DEF WorkerReturns
  <2>2. CASE WorkerQuits(w)
    BY <2>2, FinishesKeeps DEF WorkerQuits
  <2>3. CASE WorkerThrows(w)
    BY <2>3, FinishesKeeps DEF WorkerThrows
  <2> QED BY <1>4, <2>1, <2>2, <2>3
<1>5. CASE UNCHANGED vars
  <2>1. /\ UNCHANGED <<plan, inputs, workers, distributor, control, monitor, output>>
        /\ output \in Channel(Ways) /\ monitor \in {"sleeping", "done"} /\ OutputOK
    BY <1>5 DEF vars, IndInv, TypeOK
  <2>2. OutputOK'
    BY <2>1 DEF OutputOK
  <2> QED BY <2>1, <2>2, OthersRest
<1> QED BY <1>1, <1>2, <1>3, <1>4, <1>5 DEF Next, Finished

\* The inductive invariant holds in every reachable state.
THEOREM IndInvHolds == Spec => []IndInv
<1> QED BY InitIndInv, NextIndInv, PTL DEF Spec

\* activeWorkers, the permits and the output channel agree with the workers.
THEOREM AccountedHolds == Spec => []Accounted
<1>1. IndInv => Accounted
  BY DEF IndInv
<1> QED BY <1>1, IndInvHolds, PTL

\* A generator that returns leaves nothing behind.
THEOREM NothingLostHolds == Spec => []NothingLost
<1>1. IndInv => NothingLost
  <2> SUFFICES ASSUME IndInv, output.at = "returned"
               PROVE  /\ output.queue = <<>>
                      /\ \A w \in Spawned : workers[w].queue # <<>> => workers[w].at = "quit"
    BY DEF NothingLost
  <2>1. output.closed /\ ~control.error /\ output.queue = <<>>
    BY DEF IndInv, OutputOK
  <2>2. Active = {}
    BY <2>1 DEF IndInv, Accounted
  <2>3. \A w \in Spawned : w \in Workers /\ workers[w].at \in {"done", "quit", "threw"}
    BY <2>2 DEF Active, Spawned
  <2> QED BY <2>1, <2>3 DEF IndInv, WorkersOK
<1> QED BY <1>1, IndInvHolds, PTL

\* Workers get their events once and in order, those of one key at one worker.
THEOREM KeysInOrderHolds == Spec => []KeysInOrder
<1>1. IndInv => KeysInOrder
  <2> SUFFICES ASSUME IndInv PROVE KeysInOrder
    OBVIOUS
  <2> DEFINE got(w) == workers[w].got
             Has(w, e) == \E i \in 1..Len(got(w)) : got(w)[i] = e
  <2>1. \A w \in Workers : /\ Len(got(w)) \in Nat /\ Len(got(w)) <= Len(Given(workers[w]))
                           /\ Len(Given(workers[w])) \in Nat
                           /\ \A i \in 1..Len(got(w)) : Given(workers[w])[i] = got(w)[i]
                           /\ \A i \in 1..Len(Given(workers[w])) : Given(workers[w])[i] \in Int
    <3> SUFFICES ASSUME NEW w \in Workers
                 PROVE  /\ Len(got(w)) \in Nat /\ Len(got(w)) <= Len(Given(workers[w]))
                        /\ Len(Given(workers[w])) \in Nat
                        /\ \A i \in 1..Len(got(w)) : Given(workers[w])[i] = got(w)[i]
                        /\ \A i \in 1..Len(Given(workers[w])) : Given(workers[w])[i] \in Int
      OBVIOUS
    <3>1. workers[w].got \in Seq(Events) /\ workers[w].queue \in Seq(Events)
      BY DEF IndInv, TypeOK, Channel
    <3>2. \A g, q \in Seq(Events) :
             /\ Len(g) \in Nat /\ Len(q) \in Nat /\ Len(g \o q) = Len(g) + Len(q)
             /\ \A i \in 1..Len(g) : (g \o q)[i] = g[i]
             /\ \A i \in 1..Len(g \o q) : (g \o q)[i] \in Events
      BY ConcatProperties, ElementOfSeq
    <3>3. \A e \in Events : e \in Int
      BY BoundsAssumption DEF Events
    <3> DEFINE g == workers[w].got
               q == workers[w].queue
    <3>4. Given(workers[w]) = g \o q
      BY DEF Given
    <3> HIDE DEF g, q
    <3>5. /\ Len(g) \in Nat /\ Len(g) <= Len(g \o q) /\ Len(g \o q) \in Nat
          /\ \A i \in 1..Len(g) : (g \o q)[i] = g[i]
          /\ \A i \in 1..Len(g \o q) : (g \o q)[i] \in Int
      <4>1. g \in Seq(Events) /\ q \in Seq(Events)
        BY <3>1 DEF g, q
      <4> QED BY <3>2, <3>3, <4>1
    <3>6. got(w) = g
      BY DEF g
    <3> HIDE DEF got
    <3> QED BY <3>4, <3>5, <3>6
  <2>2. \A w \in Workers, e \in Events : Has(w, e) => IsGiven(w, e)
    BY <2>1 DEF IsGiven
  <2>3. ASSUME NEW w \in Workers, NEW i \in 1..Len(got(w)), NEW j \in 1..Len(got(w)), i < j
        PROVE  got(w)[i] < got(w)[j]
    <3>1. i \in 1..Len(Given(workers[w])) /\ j \in 1..Len(Given(workers[w]))
      BY <2>1
    <3>2. Given(workers[w])[i] < Given(workers[w])[j]
      BY <2>3, <3>1 DEF IndInv, Ordered
    <3> QED BY <2>1, <3>2
  <2>4. ASSUME NEW v \in Workers, NEW w \in Workers, NEW e \in Events, Has(v, e), Has(w, e)
        PROVE  v = w
    BY <2>2, <2>4 DEF IndInv, OneWorkerEach
  <2>5. ASSUME Kind("fixed"), plan.strategy = "partition-by",
               NEW w \in Workers, NEW e \in Events, NEW f \in Events,
               Has(w, f), e < f, Hash[e] = Hash[f]
        PROVE  Has(w, e)
    <3>1. IsGiven(w, e)
      BY <2>2, <2>5 DEF IndInv, Partitioned
    <3>2. PICK i \in 1..Len(Given(workers[w])) : Given(workers[w])[i] = e
      BY <3>1 DEF IsGiven
    <3>3. PICK j \in 1..Len(got(w)) : got(w)[j] = f
      BY <2>5
    <3>4. j \in 1..Len(Given(workers[w])) /\ Given(workers[w])[j] = f
      BY <2>1, <3>3
    <3>5. ~(j <= i)
      <4>1. j = i \/ j < i \/ i < j
        BY <2>1
      <4>2. j < i => f < e
        BY <3>2, <3>4 DEF IndInv, Ordered
      <4>3. e \in Int /\ f \in Int
        BY BoundsAssumption DEF Events
      <4> QED BY <2>5, <3>2, <3>4, <4>2, <4>3
    <3>6. i \in 1..Len(got(w))
      BY <2>1, <3>5
    <3> QED BY <2>1, <3>2, <3>6
  <2> QED BY <2>3, <2>4, <2>5 DEF KeysInOrder
<1> QED BY <1>1, IndInvHolds, PTL
=============================================================================
