---------------------------- MODULE AgentsProofs ----------------------------
(***************************************************************************)
(* For any number of callers, turns and states: the limits of an agent are *)
(* overshot by one turn per caller at most, its conversations are made of  *)
(* whole turns, and each message of a turn is new in one request.          *)
(***************************************************************************)
EXTENDS Agents, SharedLemmas, FiniteSetTheorems

(***************************************************************************)
(* The limits.  A caller that has passed the check of a state is counted   *)
(* together with what the state's counter shows.  It joins when the        *)
(* counter is below the limit, and when it moves the counter by one it no  *)
(* longer counts itself.                                                   *)
(***************************************************************************)
\* Where a call has passed the check and its turn is not counted yet, where the
\* turn is under way, and where the call has a state but not passed the check.
Before == {"sizing", "applying", "starting"}
During == {"sending", "asserting"}
Unchecked == {"checking", "resetting", "rendering"}
Outside == {"idle", "returned", "rejected", "composing"}

StateOK(s) == {"failures", "turns"} \subseteq DOMAIN s /\ s.failures \in Nat /\ s.turns \in Nat

CallOK(r, count) ==
    /\ {"at", "state"} \subseteq DOMAIN r
    /\ r.at \in Before \cup During \cup Unchecked \cup Outside
    /\ r.at \notin Outside => r.state \in 1..count

TypeOK ==
    /\ \E S : states \in Seq(S)
    /\ \A s \in 1..Len(states) : StateOK(states[s])
    /\ lifecycle \in 0..Len(states)
    /\ DOMAIN call = Callers /\ \A c \in Callers : CallOK(call[c], Len(states))

\* The calls that work on state s and stand at one of the places.
Working(s, places) == {c \in Callers : call[c].state = s /\ call[c].at \in places}

Bounded ==
    \A s \in 1..Len(states) :
        /\ states[s].failures + Cardinality(Working(s, Before \cup During))
              < MaxFailures + Cardinality(Callers)
        /\ states[s].turns + Cardinality(Working(s, Before)) < ScopeTurns + Cardinality(Callers)

IndInv == TypeOK /\ Bounded
-----------------------------------------------------------------------------
\* A bound on a counter and a set of callers survives when neither grows, when
\* a caller leaves the set to count one, and when the counter is below the limit.
LEMMA Counting ==
    ASSUME NEW limit \in Nat \ {0}, NEW n, NEW m \in Nat,
           NEW A \in SUBSET Callers, NEW B \in SUBSET Callers,
           \/ m < limit
           \/ /\ n \in Nat /\ n + Cardinality(A) < limit + Cardinality(Callers)
              /\ \/ m = n /\ B \subseteq A
                 \/ m = n + 1 /\ \E c \in A : B \subseteq A \ {c}
    PROVE  m + Cardinality(B) < limit + Cardinality(Callers)
<1>1. IsFiniteSet(Callers) /\ Cardinality(Callers) \in Nat
  BY AgentsAssumption, FS_CardinalityType
<1>2. /\ IsFiniteSet(A) /\ Cardinality(A) \in Nat
      /\ IsFiniteSet(B) /\ Cardinality(B) \in Nat /\ Cardinality(B) <= Cardinality(Callers)
  BY <1>1, FS_Subset, FS_CardinalityType
<1>3. CASE m < limit
  BY <1>1, <1>2, <1>3
<1>4. ASSUME n \in Nat, n + Cardinality(A) < limit + Cardinality(Callers), m = n, B \subseteq A
      PROVE  m + Cardinality(B) < limit + Cardinality(Callers)
  <2>1. Cardinality(B) <= Cardinality(A)
    BY <1>2, <1>4, FS_Subset
  <2> QED
    BY <1>1, <1>2, <1>4, <2>1
<1>5. ASSUME n \in Nat, n + Cardinality(A) < limit + Cardinality(Callers), m = n + 1,
             NEW c \in A, B \subseteq A \ {c}
      PROVE  m + Cardinality(B) < limit + Cardinality(Callers)
  <2>1. IsFiniteSet(A \ {c}) /\ Cardinality(A \ {c}) = Cardinality(A) - 1
    BY <1>2, FS_RemoveElement
  <2>2. Cardinality(B) <= Cardinality(A) - 1
    BY <1>5, <2>1, FS_Subset
  <2> QED
    BY <1>1, <1>2, <1>5, <2>2
<1> QED
  BY <1>3, <1>4, <1>5

\* What is appended to a sequence.
LEMMA Appended ==
    ASSUME NEW S, NEW s \in Seq(S), NEW v
    PROVE  LET t == Append(s, v)
           IN  /\ \E T : t \in Seq(T)
               /\ Len(t) = Len(s) + 1 /\ t[Len(s) + 1] = v
               /\ \A i \in 1..Len(s) : t[i] = s[i]
<1>1. s \in Seq(S \cup {v}) /\ v \in S \cup {v}
  OBVIOUS
<1>2. Append(s, v) \in Seq(S \cup {v})
  BY <1>1
<1> QED
  BY <1>1, <1>2
-----------------------------------------------------------------------------
\* A step of call c keeps the invariant if the counters of every state allow it.
LEMMA StepOfCall ==
    ASSUME IndInv, NEW c \in Callers, NEW new,
           call' = [call EXCEPT ![c] = new], CallOK(new, Len(states')),
           \E S : states' \in Seq(S), Len(states) <= Len(states'),
           \A s \in 1..Len(states') : StateOK(states'[s]),
           lifecycle' \in 0..Len(states'),
           \A s \in 1..Len(states') :
              /\ \/ states'[s].failures < MaxFailures
                 \/ /\ s \in 1..Len(states) /\ states'[s].failures = states[s].failures
                    /\ new.state = s /\ new.at \in Before \cup During =>
                          call[c].state = s /\ call[c].at \in Before \cup During
                 \/ /\ s \in 1..Len(states) /\ states'[s].failures = states[s].failures + 1
                    /\ call[c].state = s /\ call[c].at \in Before \cup During
                    /\ new.at \notin Before \cup During
              /\ \/ states'[s].turns < ScopeTurns
                 \/ /\ s \in 1..Len(states) /\ states'[s].turns = states[s].turns
                    /\ new.state = s /\ new.at \in Before =>
                          call[c].state = s /\ call[c].at \in Before
                 \/ /\ s \in 1..Len(states) /\ states'[s].turns = states[s].turns + 1
                    /\ call[c].state = s /\ call[c].at \in Before
                    /\ new.at \notin Before
    PROVE  IndInv'
<1>1. DOMAIN call = Callers /\ Len(states) \in Nat /\ Len(states') \in Nat
      /\ \A d \in Callers : CallOK(call[d], Len(states))
  BY DEF IndInv, TypeOK
<1>2. DOMAIN call' = Callers /\ call'[c] = new /\ \A d \in Callers : d # c => call'[d] = call[d]
  BY <1>1
<1>3. TypeOK'
  <2>1. \A d \in Callers : CallOK(call'[d], Len(states'))
    BY <1>1, <1>2 DEF CallOK
  <2> QED
    BY <1>2, <2>1 DEF TypeOK
<1>4. Bounded'
  <2> SUFFICES ASSUME NEW s \in 1..Len(states')
               PROVE  /\ states'[s].failures + Cardinality(Working(s, Before \cup During)')
                            < MaxFailures + Cardinality(Callers)
                      /\ states'[s].turns + Cardinality(Working(s, Before)')
                            < ScopeTurns + Cardinality(Callers)
    BY DEF Bounded
  <2>1. MaxFailures \in Nat \ {0} /\ ScopeTurns \in Nat \ {0}
    BY AgentsAssumption
  <2>2. /\ states'[s].failures \in Nat /\ states'[s].turns \in Nat
        /\ s \in 1..Len(states) =>
              /\ states[s].failures \in Nat /\ states[s].turns \in Nat
              /\ states[s].failures + Cardinality(Working(s, Before \cup During))
                    < MaxFailures + Cardinality(Callers)
              /\ states[s].turns + Cardinality(Working(s, Before))
                    < ScopeTurns + Cardinality(Callers)
    BY DEF IndInv, TypeOK, Bounded, StateOK
  <2>3. ASSUME NEW places
        PROVE  /\ Working(s, places) \in SUBSET Callers /\ Working(s, places)' \in SUBSET Callers
               /\ (new.state = s /\ new.at \in places => call[c].state = s /\ call[c].at \in places)
                     => Working(s, places)' \subseteq Working(s, places)
               /\ call[c].state = s /\ call[c].at \in places => c \in Working(s, places)
               /\ new.at \notin places => Working(s, places)' \subseteq Working(s, places) \ {c}
    BY <1>2 DEF Working
  <2>4. states'[s].failures + Cardinality(Working(s, Before \cup During)') < MaxFailures + Cardinality(Callers)
    <3> DEFINE A == Working(s, Before \cup During)
               B == Working(s, Before \cup During)'
               old == states[s].failures
               now == states'[s].failures
    <3>1. A \in SUBSET Callers /\ B \in SUBSET Callers
      BY <2>3
    <3>2. \/ now < MaxFailures
          \/ /\ old \in Nat /\ old + Cardinality(A) < MaxFailures + Cardinality(Callers)
             /\ \/ now = old /\ B \subseteq A
                \/ now = old + 1 /\ \E d \in A : B \subseteq A \ {d}
      BY <2>2, <2>3
    <3>3. now \in Nat
      BY <2>2
    <3> HIDE DEF A, B, old, now
    <3>4. now + Cardinality(B) < MaxFailures + Cardinality(Callers)
      BY <2>1, <3>1, <3>2, <3>3, Counting
    <3> QED
      BY <3>4 DEF B, now
  <2>5. states'[s].turns + Cardinality(Working(s, Before)') < ScopeTurns + Cardinality(Callers)
    <3> DEFINE A == Working(s, Before)
               B == Working(s, Before)'
               old == states[s].turns
               now == states'[s].turns
    <3>1. A \in SUBSET Callers /\ B \in SUBSET Callers
      BY <2>3
    <3>2. \/ now < ScopeTurns
          \/ /\ old \in Nat /\ old + Cardinality(A) < ScopeTurns + Cardinality(Callers)
             /\ \/ now = old /\ B \subseteq A
                \/ now = old + 1 /\ \E d \in A : B \subseteq A \ {d}
      BY <2>2, <2>3
    <3>3. now \in Nat
      BY <2>2
    <3> HIDE DEF A, B, old, now
    <3>4. now + Cardinality(B) < ScopeTurns + Cardinality(Callers)
      BY <2>1, <3>1, <3>2, <3>3, Counting
    <3> QED
      BY <3>4 DEF B, now
  <2> QED
    BY <2>4, <2>5
<1> QED
  BY <1>3, <1>4 DEF IndInv

\* A step of call c that leaves the states alone: c passes the check of its
\* state only when both counters are below their limits.
LEMMA QuietStep ==
    ASSUME IndInv, NEW c \in Callers, NEW new,
           call' = [call EXCEPT ![c] = new], CallOK(new, Len(states)),
           UNCHANGED states, lifecycle' = lifecycle,
           new.at \in Before \cup During =>
              /\ new.state = call[c].state
              /\ \/ call[c].at \in Before
                 \/ call[c].at \in During /\ new.at \in During
                 \/ /\ states[new.state].failures < MaxFailures
                    /\ states[new.state].turns < ScopeTurns
    PROVE  IndInv'
<1>1. Before \cap During = {}
  BY DEF Before, During
<1>2. ASSUME NEW s \in 1..Len(states')
      PROVE   /\ \/ states'[s].failures < MaxFailures
                 \/ /\ s \in 1..Len(states) /\ states'[s].failures = states[s].failures
                    /\ new.state = s /\ new.at \in Before \cup During =>
                          call[c].state = s /\ call[c].at \in Before \cup During
              /\ \/ states'[s].turns < ScopeTurns
                 \/ /\ s \in 1..Len(states) /\ states'[s].turns = states[s].turns
                    /\ new.state = s /\ new.at \in Before =>
                          call[c].state = s /\ call[c].at \in Before
  BY <1>1
<1>3. /\ \E S : states' \in Seq(S)
      /\ Len(states) <= Len(states') /\ lifecycle' \in 0..Len(states')
      /\ \A s \in 1..Len(states') : StateOK(states'[s])
      /\ CallOK(new, Len(states'))
  <2>1. TypeOK /\ Len(states) \in Nat
    BY DEF IndInv, TypeOK
  <2> QED
    BY <2>1 DEF TypeOK
<1> QED
  BY <1>2, <1>3, StepOfCall

\* A step of call c with its own state, which becomes `new state'.
LEMMA StepOnState ==
    ASSUME IndInv, NEW c \in Callers, NEW new, NEW k \in 1..Len(states), NEW s,
           k = call[c].state, StateOK(s),
           call' = [call EXCEPT ![c] = new], CallOK(new, Len(states)),
           states' = [states EXCEPT ![k] = s], lifecycle' = lifecycle,
           new.at \in Before \cup During => new.state = k,
           \/ s.failures < MaxFailures
           \/ /\ s.failures = states[k].failures
              /\ new.at \in Before \cup During => call[c].at \in Before \cup During
           \/ /\ s.failures = states[k].failures + 1
              /\ call[c].at \in Before \cup During /\ new.at \notin Before \cup During,
           \/ s.turns < ScopeTurns
           \/ /\ s.turns = states[k].turns
              /\ new.at \in Before => call[c].at \in Before
           \/ /\ s.turns = states[k].turns + 1
              /\ call[c].at \in Before /\ new.at \notin Before
    PROVE  IndInv'
<1>1. TypeOK /\ Len(states) \in Nat
  BY DEF IndInv, TypeOK
<1>2. /\ \E T : states' \in Seq(T)
      /\ Len(states') = Len(states) /\ states'[k] = s
      /\ \A i \in 1..Len(states) : i # k => states'[i] = states[i]
  <2> PICK S : states \in Seq(S)
    BY <1>1 DEF TypeOK
  <2>1. states \in Seq(S \cup {s}) /\ s \in S \cup {s}
    OBVIOUS
  <2>2. states' \in Seq(S \cup {s}) /\ Len(states') = Len(states)
    BY <2>1
  <2>3. states'[k] = s /\ \A i \in 1..Len(states) : i # k => states'[i] = states[i]
    BY <2>1
  <2> QED
    BY <2>2, <2>3
<1>3. \A i \in 1..Len(states') : StateOK(states'[i])
  BY <1>1, <1>2 DEF TypeOK
<1>4. ASSUME NEW i \in 1..Len(states')
      PROVE   /\ \/ states'[i].failures < MaxFailures
                 \/ /\ i \in 1..Len(states) /\ states'[i].failures = states[i].failures
                    /\ new.state = i /\ new.at \in Before \cup During =>
                          call[c].state = i /\ call[c].at \in Before \cup During
                 \/ /\ i \in 1..Len(states) /\ states'[i].failures = states[i].failures + 1
                    /\ call[c].state = i /\ call[c].at \in Before \cup During
                    /\ new.at \notin Before \cup During
              /\ \/ states'[i].turns < ScopeTurns
                 \/ /\ i \in 1..Len(states) /\ states'[i].turns = states[i].turns
                    /\ new.state = i /\ new.at \in Before =>
                          call[c].state = i /\ call[c].at \in Before
                 \/ /\ i \in 1..Len(states) /\ states'[i].turns = states[i].turns + 1
                    /\ call[c].state = i /\ call[c].at \in Before
                    /\ new.at \notin Before
  <2>1. CASE i = k
    BY <1>2, <2>1
  <2>2. CASE i # k
    <3>1. states'[i] = states[i] /\ i \in 1..Len(states)
      BY <1>2, <2>2
    <3>2. Before \subseteq Before \cup During /\ (new.at \in Before \cup During => new.state # i)
      BY <2>2
    <3> QED
      BY <3>1, <3>2
  <2> QED
    BY <2>1, <2>2
<1>5. /\ Len(states) <= Len(states') /\ lifecycle' \in 0..Len(states') /\ CallOK(new, Len(states'))
  BY <1>1, <1>2 DEF TypeOK
<1> QED
  BY <1>2, <1>3, <1>4, <1>5, StepOfCall

\* The initial state satisfies the invariant.
LEMMA InitIndInv == Init => IndInv
<1> SUFFICES ASSUME Init PROVE IndInv
  OBVIOUS
<1>1. states = <<>> /\ Len(states) = 0 /\ \E S : states \in Seq(S)
  BY DEF Init
<1>2. \A c \in Callers : CallOK(call[c], 0)
  BY DEF Init, Idle, CallOK, Outside
<1> QED
  BY <1>1, <1>2 DEF Init, IndInv, TypeOK, Bounded
-----------------------------------------------------------------------------
\* The steps before the turn.
LEMMA PreparingKeepsIndInv ==
    ASSUME IndInv, NEW c \in Callers,
           \/ Invoke(c) \/ Create(c) \/ ComposeFails(c) \/ CheckLimits(c)
           \/ RenderHandoff(c) \/ Reset(c) \/ Size(c) \/ ApplyPolicy(c)
    PROVE  IndInv'
<1> DEFINE old == call[c]
           k == old.state
<1>1. /\ TypeOK /\ CallOK(old, Len(states)) /\ Len(states) \in Nat /\ DOMAIN call = Callers
      /\ lifecycle \in 0..Len(states)
  BY DEF IndInv, TypeOK
<1> USE DEF Before, During, Unchecked, Outside
<1>2. CASE Invoke(c)
  <2> DEFINE at == IF lifecycle = 0 THEN "composing" ELSE "checking"
             new == [Idle EXCEPT !.at = at, !.state = lifecycle]
  <2>1. call' = [call EXCEPT ![c] = new] /\ UNCHANGED <<states, lifecycle>>
    BY <1>2 DEF Invoke
  <2>2. new.at = at /\ new.state = lifecycle /\ {"at", "state"} \subseteq DOMAIN new
    BY DEF Idle
  <2> HIDE DEF new
  <2>3. CallOK(new, Len(states)) /\ new.at \in Unchecked \cup Outside
    BY <1>1, <2>2 DEF CallOK
  <2> QED
    BY <2>1, <2>3, QuietStep
<1>3. CASE ComposeFails(c)
  <2> DEFINE new == [Idle EXCEPT !.at = "rejected"]
  <2>1. call' = [call EXCEPT ![c] = new] /\ UNCHANGED <<states, lifecycle>>
    BY <1>3 DEF ComposeFails, Ends
  <2>2. new.at = "rejected" /\ CallOK(new, Len(states))
    BY DEF Idle, CallOK
  <2> HIDE DEF new
  <2> QED
    BY <2>1, <2>2, QuietStep
<1>4. CASE CheckLimits(c)
  <2> DEFINE reason == Reason(State(c))
             at == IF reason = "none" THEN "sizing" ELSE "resetting"
             new == [old EXCEPT !.at = at, !.reason = reason]
  <2>1. call' = [call EXCEPT ![c] = new] /\ UNCHANGED <<states, lifecycle>> /\ old.at = "checking"
    BY <1>4 DEF CheckLimits, At
  <2>2. k \in 1..Len(states) /\ StateOK(states[k])
    BY <1>1, <2>1 DEF CallOK, TypeOK
  <2>3. new.at = at /\ new.state = k /\ {"at", "state"} \subseteq DOMAIN new
    BY <1>1 DEF CallOK
  <2>4. reason = "none" => states[k].failures < MaxFailures /\ states[k].turns < ScopeTurns
    <3>1. reason = IF states[k].failures >= MaxFailures \/ states[k].hallucinations >= MaxHallucinations
                   THEN "failure" ELSE IF states[k].turns >= ScopeTurns THEN "scope" ELSE "none"
      BY DEF Reason, State
    <3>2. reason = "none" => ~(states[k].failures >= MaxFailures) /\ ~(states[k].turns >= ScopeTurns)
      BY <3>1
    <3> HIDE DEF reason, k
    <3>3. MaxFailures \in Nat /\ ScopeTurns \in Nat /\ states[k].failures \in Nat /\ states[k].turns \in Nat
      BY <2>2, AgentsAssumption DEF StateOK
    <3> QED
      BY <3>2, <3>3
  <2> HIDE DEF new, reason
  <2>5. CallOK(new, Len(states))
    BY <2>2, <2>3 DEF CallOK
  <2> QED
    BY <2>1, <2>3, <2>4, <2>5, QuietStep
<1>5. CASE RenderHandoff(c)
  <2> PICK saved : call' = [call EXCEPT ![c].at = "rendering", ![c].saved = saved]
    BY <1>5 DEF RenderHandoff
  <2> DEFINE new == [old EXCEPT !.at = "rendering", !.saved = saved]
  <2>1. call' = [call EXCEPT ![c] = new] /\ UNCHANGED <<states, lifecycle>> /\ old.at = "resetting"
    BY <1>5 DEF RenderHandoff, At
  <2>2. new.at = "rendering" /\ CallOK(new, Len(states))
    BY <1>1, <2>1 DEF CallOK
  <2> HIDE DEF new
  <2> QED
    BY <2>1, <2>2, QuietStep
<1>6. CASE Size(c)
  <2>1. UNCHANGED <<states, lifecycle>> /\ old.at = "sizing"
    BY <1>6 DEF Size, At
  <2>2. ASSUME NEW new, call' = [call EXCEPT ![c] = new],
               new.at \in Before, new.state = k, {"at", "state"} \subseteq DOMAIN new
        PROVE  IndInv'
    <3>1. CallOK(new, Len(states))
      BY <1>1, <2>1, <2>2 DEF CallOK
    <3> QED
      BY <2>1, <2>2, <3>1, QuietStep
  <2>3. CASE Goes(c, "starting")
    <3> DEFINE new == [old EXCEPT !.at = "starting", !.reason = "", !.saved = <<>>]
    <3>1. new.at \in Before /\ new.state = k /\ {"at", "state"} \subseteq DOMAIN new
      BY <1>1 DEF CallOK
    <3>2. call' = [call EXCEPT ![c] = new]
      BY <2>3 DEF Goes
    <3> HIDE DEF new
    <3> QED
      BY <2>2, <3>1, <3>2
  <2>4. CASE ~Goes(c, "starting")
    <3> DEFINE saved == Applied(State(c).conversation)
               new == [old EXCEPT !.at = "applying", !.saved = saved]
    <3>1. new.at \in Before /\ new.state = k /\ {"at", "state"} \subseteq DOMAIN new
      BY <1>1 DEF CallOK
    <3>2. call' = [call EXCEPT ![c] = new]
      BY <1>6, <2>4 DEF Size
    <3> HIDE DEF new
    <3> QED
      BY <2>2, <3>1, <3>2
  <2> QED
    BY <2>3, <2>4
<1>7. CASE Reset(c)
  <2> DEFINE new == [old EXCEPT !.at = "sizing", !.reason = "", !.saved = <<>>]
  <2>1. /\ call' = [call EXCEPT ![c] = new] /\ old.at = "rendering" /\ lifecycle' = lifecycle
    BY <1>7 DEF Reset, State, Goes, At
  <2>2. k \in 1..Len(states)
    BY <1>1, <2>1 DEF CallOK
  <2>3. PICK start, handoff :
           states' = [states EXCEPT ![k] = [NewState EXCEPT !.start = start, !.handoff = handoff]]
    BY <1>7 DEF Reset, State
  <2> DEFINE s == [NewState EXCEPT !.start = start, !.handoff = handoff]
  <2>4. states' = [states EXCEPT ![k] = s] /\ StateOK(s) /\ s.failures = 0 /\ s.turns = 0
    BY <2>3 DEF NewState, StateOK
  <2> HIDE DEF s
  <2>5. new.at = "sizing" /\ new.state = k /\ CallOK(new, Len(states))
    BY <1>1, <2>2 DEF CallOK
  <2> HIDE DEF new
  <2>6. 0 < MaxFailures /\ 0 < ScopeTurns
    BY AgentsAssumption
  <2> QED
    BY <2>1, <2>2, <2>4, <2>5, <2>6, StepOnState
<1>8. CASE ApplyPolicy(c)
  <2> DEFINE new == [old EXCEPT !.at = "starting", !.reason = "", !.saved = <<>>]
             s == [states[k] EXCEPT !.conversation = old.saved]
  <2>1. /\ call' = [call EXCEPT ![c] = new] /\ old.at = "applying" /\ lifecycle' = lifecycle
        /\ states' = [states EXCEPT ![k] = s]
    BY <1>8 DEF ApplyPolicy, Goes, At
  <2>2. k \in 1..Len(states) /\ StateOK(states[k])
    BY <1>1, <2>1 DEF CallOK, TypeOK
  <2>3. StateOK(s) /\ s.failures = states[k].failures /\ s.turns = states[k].turns
    BY <2>2 DEF StateOK
  <2>4. new.at = "starting" /\ new.state = k /\ CallOK(new, Len(states))
    BY <1>1, <2>2 DEF CallOK
  <2> HIDE DEF new, s
  <2> QED
    BY <2>1, <2>2, <2>3, <2>4, StepOnState
<1>9. CASE Create(c)
  <2> DEFINE new == [old EXCEPT !.at = "checking", !.state = Len(states')]
  <2>1. /\ states' = Append(states, NewState) /\ lifecycle' = Len(states')
        /\ call' = [call EXCEPT ![c] = new] /\ old.at = "composing"
    BY <1>9 DEF Create, At
  <2>2. /\ \E T : states' \in Seq(T)
        /\ Len(states') = Len(states) + 1 /\ states'[Len(states) + 1] = NewState
        /\ \A i \in 1..Len(states) : states'[i] = states[i]
    <3> PICK S : states \in Seq(S)
      BY <1>1 DEF TypeOK
    <3> QED
      BY <2>1, Appended
  <2>3. StateOK(NewState) /\ NewState.failures = 0 /\ NewState.turns = 0
    BY DEF NewState, StateOK
  <2>4. new.at = "checking" /\ new.state = Len(states') /\ CallOK(new, Len(states'))
    BY <1>1, <2>2 DEF CallOK
  <2> HIDE DEF new
  <2>5. 0 < MaxFailures /\ 0 < ScopeTurns
    BY AgentsAssumption
  <2>6. \A i \in 1..Len(states') :
           /\ StateOK(states'[i])
           /\ states'[i].failures < MaxFailures \/ (i \in 1..Len(states) /\ states'[i].failures = states[i].failures)
           /\ states'[i].turns < ScopeTurns \/ (i \in 1..Len(states) /\ states'[i].turns = states[i].turns)
    <3> SUFFICES ASSUME NEW i \in 1..Len(states')
        PROVE  /\ StateOK(states'[i])
               /\ states'[i].failures < MaxFailures \/ (i \in 1..Len(states) /\ states'[i].failures = states[i].failures)
               /\ states'[i].turns < ScopeTurns \/ (i \in 1..Len(states) /\ states'[i].turns = states[i].turns)
      OBVIOUS
    <3>1. CASE i \in 1..Len(states)
      BY <1>1, <2>2, <3>1 DEF TypeOK
    <3>2. CASE i = Len(states) + 1
      BY <2>2, <2>3, <2>5, <3>2
    <3> QED
      BY <1>1, <2>2, <3>1, <3>2
  <2>7. lifecycle' \in 0..Len(states') /\ Len(states) <= Len(states')
    BY <1>1, <2>1, <2>2
  <2>8. new.at \notin Before \cup During
    BY <2>4
  <2> QED
    BY <2>1, <2>2, <2>4, <2>6, <2>7, <2>8, StepOfCall
<1> QED
  BY <1>2, <1>3, <1>4, <1>5, <1>6, <1>7, <1>8, <1>9

\* The steps of the turn.
LEMMA TurnKeepsIndInv ==
    ASSUME IndInv, NEW c \in Callers,
           \/ StartTurn(c) \/ (\E n \in CallCounts : CallTools(c, n)) \/ Answer(c)
           \/ AssertPasses(c) \/ AssertFails(c) \/ InvocationThrows(c)
    PROVE  IndInv'
<1> DEFINE old == call[c]
           k == old.state
<1>1. /\ TypeOK /\ CallOK(old, Len(states)) /\ Len(states) \in Nat /\ DOMAIN call = Callers
  BY DEF IndInv, TypeOK
<1>2. old.at \in Before \cup During
  BY DEF StartTurn, CallTools, Answer, AssertPasses, AssertFails, InvocationThrows, At, Before, During
<1>3. k \in 1..Len(states) /\ StateOK(states[k])
  BY <1>1, <1>2 DEF CallOK, TypeOK, Before, During, Outside
<1> USE DEF Before, During, Unchecked, Outside
<1>4. CASE StartTurn(c)
  <2> PICK turn, conv, from :
         call' = [call EXCEPT ![c] = [Idle EXCEPT !.at = "sending", !.state = k,
                        !.turn = turn, !.conv = conv, !.from = from]]
    BY <1>4 DEF StartTurn
  <2> DEFINE new == [Idle EXCEPT !.at = "sending", !.state = k,
                        !.turn = turn, !.conv = conv, !.from = from]
             turns == states[k].turns + 1
             s == [states[k] EXCEPT !.turns = turns, !.start = LastKnownSequence + 1]
  <2>1. /\ call' = [call EXCEPT ![c] = new] /\ old.at = "starting" /\ lifecycle' = lifecycle
        /\ states' = [states EXCEPT ![k] = s]
    BY <1>4 DEF StartTurn, At
  <2>2. StateOK(s) /\ s.failures = states[k].failures /\ s.turns = states[k].turns + 1
    BY <1>3 DEF StateOK
  <2>3. new.at = "sending" /\ new.state = k /\ CallOK(new, Len(states))
    BY <1>3 DEF CallOK, Idle
  <2> HIDE DEF new, s
  <2> QED
    BY <1>3, <2>1, <2>2, <2>3, StepOnState
<1>5. ASSUME NEW n \in CallCounts, CallTools(c, n) PROVE IndInv'
  <2> DEFINE rounds == old.rounds + 1
             sent == old.sent \o NewMessages(c)
             from == Len(old.conv)
             conv == Append(old.conv, Message(c, "call", n)) \o [i \in 1..n |-> Message(c, "tool", i)]
             new == [old EXCEPT !.rounds = rounds, !.sent = sent, !.from = from, !.conv = conv]
  <2>1. /\ call' = [call EXCEPT ![c] = new] /\ old.at = "sending" /\ UNCHANGED <<states, lifecycle>>
    BY <1>5 DEF CallTools, At
  <2>2. new.at = "sending" /\ new.state = k /\ CallOK(new, Len(states))
    BY <1>1, <2>1 DEF CallOK
  <2> HIDE DEF new
  <2> QED
    BY <2>1, <2>2, QuietStep
<1>6. CASE Answer(c)
  <2> PICK sent, conv :
         call' = [call EXCEPT ![c] = [old EXCEPT !.at = "asserting", !.sent = sent, !.conv = conv]]
    BY <1>6 DEF Answer
  <2> DEFINE new == [old EXCEPT !.at = "asserting", !.sent = sent, !.conv = conv]
  <2>1. /\ call' = [call EXCEPT ![c] = new] /\ old.at = "sending" /\ UNCHANGED <<states, lifecycle>>
    BY <1>6 DEF Answer, At
  <2>2. new.at = "asserting" /\ new.state = k /\ CallOK(new, Len(states))
    BY <1>1, <2>1 DEF CallOK
  <2> HIDE DEF new
  <2> QED
    BY <2>1, <2>2, QuietStep
<1>7. ASSUME NEW place \in {"returned", "rejected"}, Ends(c, place), lifecycle' = lifecycle,
             NEW s, states' = [states EXCEPT ![k] = s], StateOK(s),
             s.failures \in {states[k].failures, states[k].failures + 1}, s.turns = states[k].turns
      PROVE  IndInv'
  <2> DEFINE new == [Idle EXCEPT !.at = place]
  <2>1. call' = [call EXCEPT ![c] = new]
    BY <1>7 DEF Ends
  <2>2. new.at = place /\ CallOK(new, Len(states))
    BY DEF CallOK, Idle
  <2> HIDE DEF new
  <2> QED
    BY <1>2, <1>3, <1>7, <2>1, <2>2, StepOnState
<1>8. CASE AssertPasses(c)
  <2> PICK conv, wrong, records :
         states' = [states EXCEPT ![k] = [states[k] EXCEPT !.conversation = conv,
                                             !.hallucinations = wrong, !.records = records]]
    BY <1>8 DEF AssertPasses, State
  <2> DEFINE s == [states[k] EXCEPT !.conversation = conv,
                                             !.hallucinations = wrong, !.records = records]
  <2>1. states' = [states EXCEPT ![k] = s] /\ Ends(c, "returned") /\ lifecycle' = lifecycle
    BY <1>8 DEF AssertPasses
  <2>2. StateOK(s) /\ s.failures = states[k].failures /\ s.turns = states[k].turns
    BY <1>3 DEF StateOK
  <2> HIDE DEF s
  <2> QED
    BY <1>7, <2>1, <2>2
<1>9. ASSUME NEW n, Failed(c, n), Ends(c, "rejected"), lifecycle' = lifecycle
      PROVE  IndInv'
  <2> DEFINE failures == states[k].failures + 1
             wrong == states[k].hallucinations + n
             records == Append(states[k].records, Record(c, TRUE))
             s == [states[k] EXCEPT !.failures = failures,
                                             !.hallucinations = wrong, !.records = records]
  <2>1. states' = [states EXCEPT ![k] = s]
    BY <1>9 DEF Failed, State
  <2>2. StateOK(s) /\ s.failures = states[k].failures + 1 /\ s.turns = states[k].turns
    BY <1>3 DEF StateOK
  <2> HIDE DEF s
  <2> QED
    BY <1>7, <1>9, <2>1, <2>2
<1>10. CASE InvocationThrows(c)
  BY <1>9, <1>10 DEF InvocationThrows
<1>11. CASE AssertFails(c)
  <2>1. CASE call[c].attempt = MaxRetries /\ Failed(c, call[c].asserted + 1) /\ Ends(c, "rejected")
    BY <1>9, <1>11, <2>1 DEF AssertFails
  <2>2. ASSUME NEW new, call' = [call EXCEPT ![c] = new], UNCHANGED states,
               new.at = "sending", new.state = k, {"at", "state"} \subseteq DOMAIN new
        PROVE  IndInv'
    <3>1. old.at = "asserting" /\ lifecycle' = lifecycle
      BY <1>11 DEF AssertFails, At
    <3>2. CallOK(new, Len(states))
      BY <1>3, <2>2 DEF CallOK
    <3> QED
      BY <2>2, <3>1, <3>2, QuietStep
  <2>3. CASE ~(call[c].attempt = MaxRetries /\ Failed(c, call[c].asserted + 1) /\ Ends(c, "rejected"))
    <3> DEFINE attempt == old.attempt + 1
               asserted == old.asserted + 1
               from == Len(old.conv)
               conv == Append(old.conv, Message(c, "feedback", 0))
               new == [old EXCEPT !.at = "sending", !.attempt = attempt,
                           !.asserted = asserted, !.from = from, !.conv = conv]
    <3>1. new.at = "sending" /\ new.state = k /\ {"at", "state"} \subseteq DOMAIN new
      BY <1>1 DEF CallOK
    <3>2. call' = [call EXCEPT ![c] = new] /\ UNCHANGED states
      BY <1>11, <2>3 DEF AssertFails
    <3> HIDE DEF new
    <3> QED
      BY <2>2, <3>1, <3>2
  <2> QED
    BY <2>1, <2>3
<1> QED
  BY <1>4, <1>5, <1>6, <1>8, <1>10, <1>11

\* Every step keeps the invariant.
LEMMA NextIndInv == IndInv /\ [Next]_vars => IndInv'
<1> SUFFICES ASSUME IndInv, [Next]_vars PROVE IndInv'
  OBVIOUS
<1>1. ASSUME UNCHANGED <<states, call>>, lifecycle' \in {0, lifecycle} PROVE IndInv'
  <2>1. TypeOK'
    <3>1. TypeOK /\ Len(states) \in Nat
      BY DEF IndInv, TypeOK
    <3> QED
      BY <1>1, <3>1 DEF TypeOK
  <2>2. Bounded'
    BY <1>1 DEF IndInv, Bounded, Working
  <2> QED
    BY <2>1, <2>2 DEF IndInv
<1>2. CASE Commit \/ TerminateAll \/ Terminated \/ Exhausted \/ UNCHANGED vars
  BY <1>1, <1>2 DEF Commit, TerminateAll, Terminated, Exhausted, vars
<1>3. ASSUME NEW c \in Callers,
             \/ Invoke(c) \/ Create(c) \/ ComposeFails(c) \/ CheckLimits(c)
             \/ RenderHandoff(c) \/ Reset(c) \/ Size(c) \/ ApplyPolicy(c)
      PROVE  IndInv'
  BY <1>3, PreparingKeepsIndInv
<1>4. ASSUME NEW c \in Callers,
             \/ StartTurn(c) \/ (\E n \in CallCounts : CallTools(c, n)) \/ Answer(c)
             \/ AssertPasses(c) \/ AssertFails(c) \/ InvocationThrows(c)
      PROVE  IndInv'
  BY <1>4, TurnKeepsIndInv
<1> QED
  BY <1>2, <1>3, <1>4 DEF Next

\* What a state's counters show, and the calls that have passed its check,
\* together stay within the limits and one per caller.
THEOREM IndInvHolds == Spec => []IndInv
  BY InitIndInv, NextIndInv, PTL DEF Spec

\* The failures and the turns that an agent is given before it is replaced stay
\* within the configured limit and one per concurrent caller, though
\* enforceLimits() looks at them long before invokeAndParse() counts.
THEOREM LimitsOvershootOncePerCallerHolds == Spec => []LimitsOvershootOncePerCaller
<1>1. IndInv => LimitsOvershootOncePerCaller
  <2> SUFFICES ASSUME IndInv, NEW s \in 1..Len(states)
               PROVE  /\ states[s].failures < MaxFailures + Cardinality(Callers)
                      /\ states[s].turns < ScopeTurns + Cardinality(Callers)
    BY DEF LimitsOvershootOncePerCaller
  <2>1. \A places : Cardinality(Working(s, places)) \in Nat
    <3>1. \A places : Working(s, places) \in SUBSET Callers
      BY DEF Working
    <3> QED
      BY <3>1, AgentsAssumption, FS_Subset, FS_CardinalityType
  <2>2. /\ states[s].failures \in Nat /\ states[s].turns \in Nat
        /\ states[s].failures + Cardinality(Working(s, Before \cup During))
              < MaxFailures + Cardinality(Callers)
        /\ states[s].turns + Cardinality(Working(s, Before)) < ScopeTurns + Cardinality(Callers)
    BY DEF IndInv, TypeOK, Bounded, StateOK
  <2>3. MaxFailures \in Nat /\ ScopeTurns \in Nat /\ Cardinality(Callers) \in Nat
    BY AgentsAssumption, FS_CardinalityType
  <2>4. \A m, n, limit \in Nat : m + n < limit => m < limit
    OBVIOUS
  <2>5. /\ MaxFailures + Cardinality(Callers) \in Nat /\ ScopeTurns + Cardinality(Callers) \in Nat
        /\ Cardinality(Working(s, Before)) \in Nat
        /\ Cardinality(Working(s, Before \cup During)) \in Nat
    BY <2>1, <2>3
  <2> QED
    BY <2>2, <2>4, <2>5
<1> QED
  BY <1>1, IndInvHolds, PTL

(***************************************************************************)
(* Conversations.  What a call has prepared is made of turns that have     *)
(* returned, what it is sending also of its own turn, which is no other    *)
(* call's and still open.  That is what the state keeps when it returns.   *)
(***************************************************************************)
Roles == {"user", "call", "tool", "answer", "feedback", "summary"}
MessageSet == [role : Roles, turn : Nat, n : Nat]

\* The turns that had returned when the outcomes were these.
ReturnedIn(outs) == {t \in 1..Len(outs) : outs[t] = "returned"}

\* A sequence of messages of some turns; a summary belongs to none.
Messages(m, turns) ==
    /\ m \in Seq(MessageSet) /\ MadeOf(m, turns)
    /\ \A i \in 1..Len(m) : m[i].role = "summary" => m[i].turn = 0

\* A conversation that a state may keep.
Kept(m, turns) == Messages(m, turns) /\ EndsWith(m, {"answer", "summary"})

\* The conversation of call r, whose own turn is under way.
Ongoing(r, turns, roles) ==
    /\ Messages(r.conv, turns \cup {r.turn}) /\ r.conv # <<>>
    /\ r.conv[Len(r.conv)].turn = r.turn /\ r.conv[Len(r.conv)].role \in roles

CallConversation(r, outs) ==
    /\ {"at", "state", "saved", "turn", "conv", "from", "sent"} \subseteq DOMAIN r
    /\ r.at = "applying" => Kept(r.saved, ReturnedIn(outs))
    /\ r.at \in During => r.turn \in 1..Len(outs) /\ outs[r.turn] = "open"
    /\ r.at = "sending" => Ongoing(r, ReturnedIn(outs), {"user", "tool", "feedback"})
    /\ r.at = "asserting" => Ongoing(r, ReturnedIn(outs), {"answer"})

\* The messages sent and those still to send are what the model has to be told.
Told(r) ==
    /\ r.at \in During => r.sent \in Seq(MessageSet) /\ r.from \in 0..Len(r.conv)
    /\ r.at = "sending" =>
          r.sent \o SubSeq(r.conv, r.from + 1, Len(r.conv)) = ToTell(r.conv, r.turn)
    /\ r.at = "asserting" => r.sent = ToTell(r.conv, r.turn)

StateConversation(s, outs) ==
    /\ "conversation" \in DOMAIN s
    /\ Kept(s.conversation, ReturnedIn(outs))

ConvInv ==
    /\ policy \in {"replace", "truncate", "summarize", "sliding-window"}
    /\ outcome \in Seq({"open", "returned", "rejected"})
    /\ \A s \in 1..Len(states) : StateConversation(states[s], outcome)
    /\ \A c \in Callers : CallConversation(call[c], outcome) /\ Told(call[c])
    /\ \A c, d \in Callers :
          call[c].at \in During /\ call[d].at \in During /\ call[c].turn = call[d].turn => c = d
-----------------------------------------------------------------------------
\* Messages of some turns are messages of more turns.
LEMMA MoreTurns ==
    ASSUME NEW m, NEW T, NEW U, Messages(m, T), T \subseteq U
    PROVE  Messages(m, U)
  BY DEF Messages, MadeOf

\* A message that follows the last one, and neither calls tools nor summarises.
LEMMA MessageFollows ==
    ASSUME NEW T, NEW m, Messages(m, T),
           NEW x \in MessageSet, x.turn \in T, x.role \notin {"summary", "call"},
           m # <<>> => Follows(m[Len(m)], x)
    PROVE  /\ Messages(Append(m, x), T)
           /\ Append(m, x) # <<>> /\ Len(Append(m, x)) = Len(m) + 1
           /\ Append(m, x)[Len(m) + 1] = x
<1> DEFINE a == Append(m, x)
           n == Len(m)
<1>1. m \in Seq(MessageSet) /\ MadeOf(m, T) /\ n \in Nat
  BY DEF Messages
<1>2. a \in Seq(MessageSet) /\ Len(a) = n + 1 /\ a[n + 1] = x
  BY <1>1, AppendProperties
<1>3. \A i \in 1..n : a[i] = m[i] /\ n = Len(m)
  BY <1>1, AppendProperties
<1>4. a # <<>>
  BY <1>1, AppendProperties
<1>5. m = <<>> <=> n = 0
  BY <1>1, EmptySeq
<1> HIDE DEF a
<1>6. ASSUME NEW i \in 1..(n + 1)
      PROVE  /\ a[i].role = "summary" => i = 1 /\ a[i].turn = 0
             /\ a[i].role # "summary" => a[i].turn \in T
             /\ Answered(a, i)
  <2>1. CASE i = n + 1
    BY <1>2, <2>1 DEF Answered
  <2>2. CASE i \in 1..n
    <3>1. a[i] = m[i] /\ Answered(m, i)
      BY <1>1, <1>3, <2>2 DEF MadeOf
    <3>2. Answered(a, i)
      <4> SUFFICES ASSUME m[i].role = "call", NEW k \in 1..m[i].n
                   PROVE  i + k <= Len(a) /\ a[i + k] = [a[i] EXCEPT !.role = "tool", !.n = k]
        BY <3>1 DEF Answered
      <4>1. i + k <= n /\ m[i + k] = [m[i] EXCEPT !.role = "tool", !.n = k]
        BY <3>1 DEF Answered
      <4>2. m[i] \in MessageSet
        BY <1>1, <2>2, ElementOfSeq
      <4>3. k \in Nat
        BY <4>2 DEF MessageSet
      <4>4. i + k \in 1..n
        BY <1>1, <2>2, <4>1, <4>3
      <4> QED
        BY <1>1, <1>2, <1>3, <3>1, <4>1, <4>4
    <3>3. /\ m[i].role = "summary" => i = 1 /\ m[i].turn = 0
          /\ m[i].role # "summary" => m[i].turn \in T
      BY <2>2 DEF Messages, MadeOf
    <3> QED
      BY <3>1, <3>2, <3>3
  <2> QED
    BY <1>1, <2>1, <2>2
<1>7. ASSUME NEW i \in 2..(n + 1)
      PROVE  Follows(a[i - 1], a[i])
  <2>1. CASE i = n + 1
    <3>1. i - 1 = n /\ n \in 1..n
      BY <1>1, <2>1
    <3>2. a[i - 1] = m[n] /\ a[i] = x
      BY <1>2, <1>3, <2>1, <3>1
    <3> QED
      BY <1>5, <3>1, <3>2
  <2>2. CASE i # n + 1
    <3>1. i \in 2..n /\ i - 1 \in 1..n /\ i \in 1..n
      BY <1>1, <2>2
    <3>2. a[i - 1] = m[i - 1] /\ a[i] = m[i]
      BY <1>3, <3>1
    <3>3. Follows(m[i - 1], m[i])
      BY <1>1, <3>1 DEF MadeOf
    <3> QED
      BY <3>2, <3>3
  <2> QED
    BY <2>1, <2>2
<1>8. Messages(a, T)
  BY <1>2, <1>6, <1>7 DEF Messages, MadeOf
<1> QED
  BY <1>2, <1>4, <1>8 DEF a

\* The message that calls k tools, and their answers.
Calling(x, k) == <<x>> \o [i \in 1..k |-> [x EXCEPT !.role = "tool", !.n = i]]

\* One of the answers.
LEMMA ToolMessage ==
    ASSUME NEW x \in MessageSet, NEW i \in Nat
    PROVE  [x EXCEPT !.role = "tool", !.n = i] \in MessageSet
  BY DEF MessageSet, Roles

\* Where the elements of two sequences are in their concatenation.
LEMMA Joined ==
    ASSUME NEW S, NEW s \in Seq(S), NEW t \in Seq(S), NEW n, NEW k, n = Len(s), k = Len(t)
    PROVE  /\ n \in Nat /\ k \in Nat
           /\ s \o t \in Seq(S) /\ Len(s \o t) = n + k
           /\ \A i \in 1..n : (s \o t)[i] = s[i]
           /\ \A i \in 1..k : (s \o t)[n + i] = t[i]
<1>1. n \in Nat /\ k \in Nat
  OBVIOUS
<1>2. s \o t \in Seq(S) /\ Len(s \o t) = n + k
  BY ConcatProperties
<1>3. \A i \in 1..(n + k) : (s \o t)[i] = IF i <= n THEN s[i] ELSE t[i - n]
  BY ConcatProperties
<1>4. ASSUME NEW i \in 1..n
      PROVE  (s \o t)[i] = s[i]
  <2>1. i \in 1..(n + k) /\ i <= n
    BY <1>1
  <2> QED
    BY <1>3, <2>1
<1>5. ASSUME NEW i \in 1..k
      PROVE  (s \o t)[n + i] = t[i]
  <2>1. n + i \in 1..(n + k) /\ ~(n + i <= n) /\ (n + i) - n = i
    BY <1>1
  <2> QED
    BY <1>3, <2>1
<1> QED
  BY <1>1, <1>2, <1>4, <1>5

\* They are messages of the turn of x.
LEMMA CallingIs ==
    ASSUME NEW x \in MessageSet, x.role = "call", x.n \in Nat \ {0}
    PROVE  /\ Calling(x, x.n) \in Seq(MessageSet) /\ Len(Calling(x, x.n)) = x.n + 1
           /\ Calling(x, x.n)[1] = x
           /\ \A i \in 1..x.n : Calling(x, x.n)[1 + i] = [x EXCEPT !.role = "tool", !.n = i]
           /\ [i \in 1..x.n |-> [x EXCEPT !.role = "tool", !.n = i]] \in Seq(MessageSet)
<1> DEFINE k == x.n
           t == [i \in 1..k |-> [x EXCEPT !.role = "tool", !.n = i]]
<1>0. k \in Nat \ {0}
  OBVIOUS
<1>1. t \in [1..k -> MessageSet]
  <2>1. ASSUME NEW i \in 1..k
        PROVE  [x EXCEPT !.role = "tool", !.n = i] \in MessageSet
    <3>1. i \in Nat
      BY <1>0
    <3> QED
      BY <3>1, ToolMessage
  <2> QED
    BY <2>1
<1>2. t \in Seq(MessageSet) /\ Len(t) = k
  BY <1>0, <1>1, SequenceOfLength
<1>3. \A i \in 1..k : t[i] = [x EXCEPT !.role = "tool", !.n = i]
  OBVIOUS
<1> DEFINE c == <<x>> \o t
<1>4. Calling(x, k) = c
  BY DEF Calling
<1> HIDE DEF t, k
<1>5. /\ c \in Seq(MessageSet) /\ Len(c) = k + 1 /\ c[1] = x
      /\ \A i \in 1..k : c[1 + i] = t[i]
  <2>1. <<x>> \in Seq(MessageSet) /\ Len(<<x>>) = 1 /\ <<x>>[1] = x /\ 1 \in 1..1
    OBVIOUS
  <2>2. /\ c \in Seq(MessageSet) /\ Len(c) = 1 + k
        /\ \A i \in 1..1 : c[i] = <<x>>[i]
        /\ \A i \in 1..k : c[1 + i] = t[i]
    BY <1>2, <2>1, Joined
  <2> QED
    BY <1>0, <2>1, <2>2
<1> HIDE DEF c
<1>6. \A i \in 1..k : c[1 + i] = [x EXCEPT !.role = "tool", !.n = i]
  BY <1>3, <1>5
<1> QED
  BY <1>2, <1>4, <1>5, <1>6 DEF t, k

\* Where the messages of a tool round come in a conversation, with their calls answered.
LEMMA CallingFollows ==
    ASSUME NEW T, NEW m, Messages(m, T),
           NEW x \in MessageSet, x.turn \in T, x.role = "call", x.n \in Nat \ {0},
           m # <<>>, Follows(m[Len(m)], x)
    PROVE  LET a == m \o Calling(x, x.n)
           IN  /\ Messages(a, T) /\ a # <<>> /\ Len(a) = Len(m) + x.n + 1
               /\ a[Len(a)] = [x EXCEPT !.role = "tool"]
<1> DEFINE k == x.n
           t == Calling(x, k)
           a == m \o t
           n == Len(m)
           p(i) == [x EXCEPT !.role = "tool", !.n = i]
<1>1. m \in Seq(MessageSet) /\ MadeOf(m, T) /\ n \in Nat \ {0} /\ k \in Nat \ {0}
  BY EmptySeq DEF Messages
<1>2. t \in Seq(MessageSet) /\ Len(t) = k + 1 /\ t[1] = x
  BY CallingIs
<1>3. \A i \in 1..k : t[1 + i] = p(i)
  BY CallingIs
<1>4. p(k) = [x EXCEPT !.role = "tool"]
  BY DEF MessageSet
<1> HIDE DEF t, p
<1>5. /\ a \in Seq(MessageSet) /\ Len(a) = n + (k + 1)
      /\ \A i \in 1..n : a[i] = m[i]
      /\ \A i \in 1..(k + 1) : a[n + i] = t[i]
  BY <1>1, <1>2, Joined
<1>6. n = Len(m)
  OBVIOUS
<1> HIDE DEF a, n, k
<1>7. Len(a) = n + k + 1
  BY <1>1, <1>5
<1>8. a[n + 1] = x
  <2>1. 1 \in 1..(k + 1)
    BY <1>1
  <2> QED
    BY <1>2, <1>5, <2>1
<1>9. \A i \in 1..k : a[n + 1 + i] = p(i)
  <2> SUFFICES ASSUME NEW i \in 1..k
               PROVE  a[n + 1 + i] = p(i)
    OBVIOUS
  <2>1. 1 + i \in 1..(k + 1) /\ n + (1 + i) = n + 1 + i
    BY <1>1
  <2> QED
    BY <1>3, <1>5, <2>1
<1>10. \A i \in 1..k : /\ p(i).role = "tool" /\ p(i).turn = x.turn /\ p(i).n = i
                      /\ p(i) \in MessageSet
  <2> SUFFICES ASSUME NEW i \in 1..k
               PROVE  /\ p(i).role = "tool" /\ p(i).turn = x.turn /\ p(i).n = i
                      /\ p(i) \in MessageSet
    OBVIOUS
  <2>1. i \in Nat
    BY <1>1
  <2> QED
    BY <2>1, ToolMessage DEF MessageSet, p
<1>11. ASSUME NEW i \in 1..(n + k + 1)
       PROVE  i \in 1..n \/ i = n + 1 \/ (\E j \in 1..k : i = n + 1 + j)
  <2>1. i > n + 1 => i - (n + 1) \in 1..k /\ i = n + 1 + (i - (n + 1))
    BY <1>1
  <2>2. i \in 1..n \/ i = n + 1 \/ i > n + 1
    BY <1>1
  <2> QED
    BY <2>1, <2>2
<1>12. ASSUME NEW i \in 1..(n + k + 1)
      PROVE  /\ a[i].role = "summary" => i = 1 /\ a[i].turn = 0
             /\ a[i].role # "summary" => a[i].turn \in T
             /\ Answered(a, i)
  <2>1. CASE i = n + 1
    <3>1. Answered(a, i)
      <4> SUFFICES ASSUME NEW j \in 1..x.n
                   PROVE  i + j <= Len(a) /\ a[i + j] = [x EXCEPT !.role = "tool", !.n = j]
        BY <1>8, <2>1 DEF Answered
      <4>1. j \in 1..k /\ i + j = n + 1 + j /\ i + j <= n + k + 1
        BY <1>1, <2>1 DEF k
      <4> QED
        BY <1>7, <1>9, <2>1, <4>1 DEF p
    <3> QED
      BY <1>8, <2>1, <3>1
  <2>2. ASSUME NEW j \in 1..k, i = n + 1 + j
        PROVE  /\ a[i].role = "summary" => i = 1 /\ a[i].turn = 0
               /\ a[i].role # "summary" => a[i].turn \in T
               /\ Answered(a, i)
    <3>1. a[i] = p(j)
      BY <1>9, <2>2
    <3>2. a[i].role = "tool" /\ a[i].turn \in T
      BY <1>10, <3>1
    <3> QED
      BY <3>2 DEF Answered
  <2>3. CASE i \in 1..n
    <3>1. a[i] = m[i] /\ Answered(m, i)
      BY <1>1, <1>5, <1>6, <2>3 DEF MadeOf
    <3>2. Answered(a, i)
      <4> SUFFICES ASSUME m[i].role = "call", NEW j \in 1..m[i].n
                   PROVE  i + j <= Len(a) /\ a[i + j] = [a[i] EXCEPT !.role = "tool", !.n = j]
        BY <3>1 DEF Answered
      <4>1. i + j <= n /\ m[i + j] = [m[i] EXCEPT !.role = "tool", !.n = j]
        BY <1>6, <3>1 DEF Answered
      <4>2. m[i] \in MessageSet
        BY <1>1, <1>6, <2>3, ElementOfSeq
      <4>3. j \in Nat
        BY <4>2 DEF MessageSet
      <4>4. i + j \in 1..n /\ i + j <= n + k + 1
        BY <1>1, <2>3, <4>1, <4>3
      <4> QED
        BY <1>5, <1>7, <3>1, <4>1, <4>4
    <3>3. /\ m[i].role = "summary" => i = 1 /\ m[i].turn = 0
          /\ m[i].role # "summary" => m[i].turn \in T
      BY <1>6, <2>3 DEF Messages, MadeOf
    <3> QED
      BY <3>1, <3>2, <3>3
  <2> QED
    BY <1>11, <2>1, <2>2, <2>3
<1>13. ASSUME NEW i \in 2..(n + k + 1)
      PROVE  Follows(a[i - 1], a[i])
  <2>1. CASE i = n + 1
    <3>1. i - 1 = n /\ n \in 1..n
      BY <1>1, <2>1
    <3> QED
      BY <1>5, <1>6, <1>8, <2>1, <3>1
  <2>2. ASSUME NEW j \in 1..k, i = n + 1 + j
        PROVE  Follows(a[i - 1], a[i])
    <3>1. a[i] = p(j)
      BY <1>9, <2>2
    <3>2. CASE j = 1
      <4>1. a[i - 1] = x
        BY <1>1, <1>8, <2>2, <3>2
      <4> QED
        BY <1>10, <3>1, <3>2, <4>1 DEF Follows, Continues
    <3>3. CASE j # 1
      <4>1. j - 1 \in 1..k /\ i - 1 = n + 1 + (j - 1)
        BY <1>1, <2>2, <3>3
      <4>2. a[i - 1] = p(j - 1)
        BY <1>9, <4>1
      <4> QED
        BY <1>10, <3>1, <3>3, <4>1, <4>2 DEF Follows, Continues
    <3> QED
      BY <3>2, <3>3
  <2>3. CASE i \in 1..n
    <3>1. i \in 2..n /\ i - 1 \in 1..n /\ i \in 1..n
      BY <1>1, <2>3
    <3>2. a[i - 1] = m[i - 1] /\ a[i] = m[i]
      BY <1>5, <3>1
    <3>3. Follows(m[i - 1], m[i])
      BY <1>1, <1>6, <3>1 DEF MadeOf
    <3> QED
      BY <3>2, <3>3
  <2>4. i \in 1..(n + k + 1)
    BY <1>1
  <2> QED
    BY <1>11, <2>1, <2>2, <2>3, <2>4
<1>14. Messages(a, T)
  BY <1>5, <1>7, <1>12, <1>13 DEF Messages, MadeOf
<1>15. a # <<>>
  BY <1>1, <1>7, EmptySeq
<1>16. a[n + k + 1] = [x EXCEPT !.role = "tool"]
  <2>1. k \in 1..k /\ n + k + 1 = n + 1 + k
    BY <1>1
  <2>2. a[n + k + 1] = p(k)
    BY <1>9, <2>1
  <2> QED
    BY <1>4, <2>2
<1> QED
  BY <1>7, <1>14, <1>15, <1>16 DEF a, t, k, n

\* How many messages selectFromEnd() retains: no more than there are.
LEMMA RetainedIsCount ==
    ASSUME NEW weight, Len(weight) \in Nat, NEW limit, NEW keep
    PROVE  Retained(weight, limit, keep) \in 0..Len(weight)
<1> DEFINE n == Len(weight)
           Full(k) == TokensOfLast(weight, k + 1) > limit /\ k + 1 > keep
           Solves(f, low) ==
               \A k \in low..n : f[k] = IF k = n \/ Full(k) THEN k ELSE f[k + 1]
           T == {m \in 0..n : \E f \in [(n - m)..n -> 0..n] : Solves(f, n - m)}
           F == CHOOSE f : f = [k \in 0..n |-> IF k = n \/ Full(k) THEN k ELSE f[k + 1]]
           E == {m \in 0..n : F[n - m] \in 0..n}
<1>1. n \in Nat
  OBVIOUS
<1>2. Retained(weight, limit, keep) = F[0]
  BY DEF Retained
<1> HIDE DEF n, Full
<1>3. 0 \in T
  <2> DEFINE f == [k \in n..n |-> n]
  <2>1. f \in [n..n -> 0..n] /\ Solves(f, n)
    BY <1>1
  <2> HIDE DEF f, Solves
  <2>2. n - 0 = n /\ 0 \in 0..n
    BY <1>1
  <2> QED
    BY <2>1, <2>2
<1>4. ASSUME NEW m \in 1..n, m - 1 \in T
      PROVE  m \in T
  <2>1. PICK f \in [(n - (m - 1))..n -> 0..n] : Solves(f, n - (m - 1))
    BY <1>4
  <2> DEFINE l == n - m
             e == [k \in l..n |-> IF k = n \/ Full(k) THEN k ELSE f[k + 1]]
  <2>2. l \in Nat /\ l < n /\ n - (m - 1) = l + 1 /\ m \in 0..n
    BY <1>1
  <2> HIDE DEF l
  <2>3. f \in [(l + 1)..n -> 0..n] /\ \A k \in (l + 1)..n : f[k] = IF k = n \/ Full(k) THEN k ELSE f[k + 1]
    BY <2>1, <2>2
  <2>4. ASSUME NEW k \in l..n
        PROVE  (IF k = n \/ Full(k) THEN k ELSE f[k + 1]) \in 0..n
    <3>1. k \in 0..n /\ (k # n => k + 1 \in (l + 1)..n)
      BY <1>1, <2>2
    <3> QED
      BY <2>3, <3>1
  <2>5. e \in [l..n -> 0..n]
    BY <2>4
  <2>6. ASSUME NEW k \in l..n
        PROVE  e[k] = IF k = n \/ Full(k) THEN k ELSE e[k + 1]
    <3>1. CASE k = n \/ Full(k)
      BY <3>1
    <3>2. CASE ~(k = n \/ Full(k))
      <4>1. k + 1 \in (l + 1)..n /\ k + 1 \in l..n
        BY <1>1, <2>2, <3>2
      <4>2. e[k] = f[k + 1]
        BY <3>2
      <4>3. f[k + 1] = e[k + 1]
        BY <2>3, <4>1
      <4> QED
        BY <3>2, <4>2, <4>3
    <3> QED
      BY <3>1, <3>2
  <2> HIDE DEF e
  <2>7. Solves(e, l)
    BY <2>6
  <2> HIDE DEF Solves
  <2> QED
    BY <2>2, <2>5, <2>7 DEF l
<1>5. n \in T
  <2> HIDE DEF T
  <2> QED
    BY <1>1, <1>3, <1>4, InductionUpTo
<1>6. PICK f \in [0..n -> 0..n] : Solves(f, 0)
  <2>1. n - n = 0
    BY <1>1
  <2> HIDE DEF Solves
  <2> QED
    BY <1>5, <2>1
<1>7. f = [k \in 0..n |-> IF k = n \/ Full(k) THEN k ELSE f[k + 1]]
  BY <1>6
<1>8. F = [k \in 0..n |-> IF k = n \/ Full(k) THEN k ELSE F[k + 1]]
  BY <1>7
<1> HIDE DEF F
<1>9. n \in E
  <2>1. 0 \in E
    <3>1. n - 0 = n /\ 0 \in 0..n /\ n \in 0..n
      BY <1>1
    <3>2. F[n] = n
      BY <1>8, <3>1
    <3> QED
      BY <3>1, <3>2
  <2>2. ASSUME NEW m \in 1..n, m - 1 \in E
        PROVE  m \in E
    <3>1. F[n - (m - 1)] \in 0..n
      BY <2>2
    <3>2. n - m \in 0..n /\ (n - m) + 1 = n - (m - 1) /\ m \in 0..n
      BY <1>1
    <3>3. F[n - m] \in {n - m, F[(n - m) + 1]}
      BY <1>8, <3>2
    <3> QED
      BY <3>1, <3>2, <3>3
  <2> HIDE DEF E
  <2>3. 0..n \subseteq E
    BY <1>1, <2>1, <2>2, InductionUpTo
  <2> QED
    BY <1>1, <2>3
<1>10. n - n = 0
  BY <1>1
<1> QED
  BY <1>2, <1>9, <1>10 DEF n

\* The last messages of a conversation.
LEMMA LastMessagesKept ==
    ASSUME NEW T, NEW m, Kept(m, T), NEW r \in 0..Len(m)
    PROVE  Kept(TakeLast(m, r), T)
<1> DEFINE n == Len(m)
           l == n - r
           a == SubSeq(m, l + 1, n)
<1>1. m \in Seq(MessageSet) /\ MadeOf(m, T) /\ n \in Nat /\ r \in Nat /\ l \in Nat /\ l + r = n
  BY DEF Kept, Messages
<1>2. TakeLast(m, r) = a
  BY DEF TakeLast
<1>3. n = Len(m)
  OBVIOUS
<1> HIDE DEF n, l
<1>4. a \in Seq(MessageSet) /\ Len(a) = r /\ \A i \in 1..r : a[i] = m[l + i]
  <2>1. l + 1 \in 1..(n + 1) /\ n - (l + 1) + 1 = r
    BY <1>1
  <2>2. a \in Seq(MessageSet) /\ Len(a) = n - (l + 1) + 1 /\ \A i \in 1..r : a[i] = m[(l + 1) + i - 1]
    <3>1. \A i \in (l + 1)..n : m[i] \in MessageSet
      <4>1. \A i \in (l + 1)..n : i \in 1..n
        BY <1>1
      <4> QED
        BY <1>1, <1>3, <4>1, ElementOfSeq
    <3> QED
      BY <1>1, <1>3, <2>1, <3>1, SubSeqProperties
  <2>3. \A i \in 1..r : (l + 1) + i - 1 = l + i
    BY <1>1
  <2> QED
    BY <2>1, <2>2, <2>3
<1> HIDE DEF a
<1>5. ASSUME NEW i \in 1..r
      PROVE  /\ a[i].role = "summary" => i = 1 /\ a[i].turn = 0
             /\ a[i].role # "summary" => a[i].turn \in T
             /\ Answered(a, i)
  <2>1. l + i \in 1..n /\ a[i] = m[l + i] /\ (l + i = 1 => i = 1)
    BY <1>1, <1>4
  <2>2. /\ m[l + i].role = "summary" => l + i = 1 /\ m[l + i].turn = 0
        /\ m[l + i].role # "summary" => m[l + i].turn \in T
        /\ Answered(m, l + i)
    BY <1>3, <2>1 DEF Kept, Messages, MadeOf
  <2>3. Answered(a, i)
    <3> SUFFICES ASSUME m[l + i].role = "call", NEW j \in 1..m[l + i].n
                 PROVE  i + j <= Len(a) /\ a[i + j] = [a[i] EXCEPT !.role = "tool", !.n = j]
      BY <2>1 DEF Answered
    <3>1. (l + i) + j <= n /\ m[(l + i) + j] = [m[l + i] EXCEPT !.role = "tool", !.n = j]
      BY <1>3, <2>2 DEF Answered
    <3>2. m[l + i] \in MessageSet
      BY <1>1, <1>3, <2>1, ElementOfSeq
    <3>3. j \in Nat
      BY <3>2 DEF MessageSet
    <3>4. i + j \in 1..r /\ (l + i) + j = l + (i + j)
      BY <1>1, <3>1, <3>3
    <3>5. a[i + j] = m[(l + i) + j]
      BY <1>4, <3>4
    <3> QED
      BY <1>4, <2>1, <3>1, <3>4, <3>5
  <2> QED
    BY <2>1, <2>2, <2>3
<1>6. ASSUME NEW i \in 2..r
      PROVE  Follows(a[i - 1], a[i])
  <2>1. i - 1 \in 1..r /\ i \in 1..r /\ l + (i - 1) = (l + i) - 1 /\ l + i \in 2..n
    BY <1>1
  <2>2. a[i - 1] = m[(l + i) - 1] /\ a[i] = m[l + i]
    BY <1>4, <2>1
  <2> QED
    BY <1>1, <1>3, <2>1, <2>2 DEF MadeOf
<1>7. Messages(a, T)
  BY <1>4, <1>5, <1>6 DEF Messages, MadeOf
<1>8. EndsWith(a, {"answer", "summary"})
  <2>1. CASE r = 0
    BY <1>4, <2>1, EmptySeq DEF EndsWith
  <2>2. CASE r # 0
    <3>1. r \in 1..r /\ l + r = n /\ n # 0
      BY <1>1, <2>2
    <3>2. m # <<>>
      BY <1>3, <3>1
    <3>3. m[n].role \in {"answer", "summary"}
      BY <1>3, <3>2 DEF Kept, EndsWith
    <3> QED
      BY <1>4, <3>1, <3>3 DEF EndsWith
  <2> QED
    BY <2>1, <2>2
<1>9. Kept(a, T)
  BY <1>7, <1>8 DEF Kept
<1> QED
  BY <1>2, <1>9

\* No message, and a summary alone.
LEMMA ShortConversations ==
    ASSUME NEW T
    PROVE  Kept(<<>>, T) /\ Kept(<<Summary>>, T)
<1>1. Kept(<<>>, T)
  <2> DEFINE e == <<>>
  <2>1. e \in Seq(MessageSet) /\ Len(e) = 0
    OBVIOUS
  <2>2. e = <<>>
    OBVIOUS
  <2> HIDE DEF e
  <2>3. Kept(e, T)
    BY <2>1, <2>2 DEF Kept, Messages, MadeOf, EndsWith
  <2> QED
    BY <2>2, <2>3
<1>2. Kept(<<Summary>>, T)
  <2> DEFINE s == <<Summary>>
  <2>1. Summary \in MessageSet /\ Summary.role = "summary" /\ Summary.turn = 0
    BY DEF Summary, MessageSet, Roles
  <2>2. s \in Seq(MessageSet) /\ Len(s) = 1 /\ s[1] = Summary
    BY <2>1
  <2> HIDE DEF s
  <2>3. \A i \in 1..Len(s) : i = 1 /\ s[i] = Summary
    BY <2>2
  <2>4. ASSUME NEW i \in 1..Len(s)
        PROVE  i = 1 /\ s[i].role = "summary" /\ s[i].turn = 0 /\ Answered(s, i)
    BY <2>1, <2>3 DEF Answered
  <2>5. \A i \in 2..Len(s) : FALSE
    BY <2>2
  <2>6. MadeOf(s, T)
    BY <2>4, <2>5 DEF MadeOf
  <2>7. EndsWith(s, {"answer", "summary"})
    BY <2>1, <2>2 DEF EndsWith
  <2>8. Kept(s, T)
    BY <2>2, <2>4, <2>6, <2>7 DEF Kept, Messages
  <2> QED
    BY <2>8 DEF s
<1> QED
  BY <1>1, <1>2

\* Every policy makes a conversation out of one.
LEMMA AppliedIsKept ==
    ASSUME policy \in {"replace", "truncate", "summarize", "sliding-window"},
           NEW T, NEW m, Kept(m, T)
    PROVE  Kept(Applied(m), T)
<1> DEFINE weight == [i \in 1..Len(m) |-> 1]
<1>1. m \in Seq(MessageSet) /\ Len(m) \in Nat
  BY DEF Kept, Messages
<1>2. Len(weight) = Len(m)
  <2>1. weight \in [1..Len(m) -> Nat]
    OBVIOUS
  <2> HIDE DEF weight
  <2> QED
    BY <1>1, <2>1, SequenceOfLength
<1> HIDE DEF weight
<1>3. \A limit, keep : Kept(TakeLast(m, Retained(weight, limit, keep)), T)
  BY <1>1, <1>2, RetainedIsCount, LastMessagesKept
<1>4. CASE policy = "replace"
  <2>1. Applied(m) = <<>>
    BY <1>4 DEF Applied, Replace
  <2> QED
    BY <2>1, ShortConversations
<1>5. CASE policy = "truncate"
  <2>1. Applied(m) = TakeLast(m, Retained(weight, MaxContextTokens, 0))
    BY <1>5 DEF Applied, Truncate, weight
  <2> QED
    BY <1>3, <2>1
<1>6. CASE policy = "sliding-window"
  <2>1. \E limit : Applied(m) = TakeLast(m, Retained(weight, limit, 0))
    BY <1>6 DEF Applied, SlidingWindow, weight
  <2> QED
    BY <1>3, <2>1
<1>7. CASE policy = "summarize"
  <2>1. Applied(m) = Summarize(m, weight, MaxContextTokens, 0, Summary, ledger)
    BY <1>7 DEF Applied, weight
  <2>2. CASE m = <<>>
    BY <2>1, <2>2, ShortConversations DEF Summarize
  <2>3. CASE m # <<>> /\ ledger = 0
    BY <1>3, <2>1, <2>3 DEF Summarize, Truncate
  <2>4. CASE m # <<>> /\ ledger # 0
    <3>1. 0 < Len(m)
      BY <1>1, <2>4, EmptySeq
    <3>2. Applied(m) = <<Summary>> \o TakeLast(m, 0)
      BY <2>1, <2>4, <3>1 DEF Summarize
    <3>3. TakeLast(m, 0) = <<>>
      BY <1>1 DEF TakeLast
    <3>4. <<Summary>> \o <<>> = <<Summary>>
      <4>1. <<Summary>> \in Seq({Summary})
        OBVIOUS
      <4> QED
        BY <4>1, ConcatEmptySeq
    <3> QED
      BY <3>2, <3>3, <3>4, ShortConversations
  <2> QED
    BY <2>2, <2>3, <2>4
<1> QED
  BY <1>4, <1>5, <1>6, <1>7
-----------------------------------------------------------------------------
\* What of message x the model has to be told in turn t.
Part(x, t) == IF x.turn = t /\ x.role # "answer" THEN <<x>> ELSE <<>>

\* One message more is told at the end, if it is told at all.
LEMMA ToTellOneMore ==
    ASSUME NEW t, NEW m \in Seq(MessageSet), NEW x \in MessageSet
    PROVE  /\ ToTell(Append(m, x), t) = ToTell(m, t) \o Part(x, t)
           /\ ToTell(m, t) \in Seq(MessageSet) /\ Part(x, t) \in Seq(MessageSet)
<1> DEFINE n == Len(m)
           u == Append(m, x)
           a == [i \in 1..n |-> Part(m[i], t)]
           b == [i \in 1..(n + 1) |-> Part(u[i], t)]
<1>1. n \in Nat /\ \A i \in 1..n : m[i] \in MessageSet
  BY ElementOfSeq
<1>2. Len(u) = n + 1 /\ u[n + 1] = x /\ \A i \in 1..n : u[i] = m[i]
  BY AppendProperties
<1>3. ToTell(m, t) = FlattenSeq(a)
  BY DEF ToTell, Part
<1>4. ToTell(u, t) = FlattenSeq(b)
  BY <1>2 DEF ToTell, Part
<1>5. \A y \in MessageSet : Part(y, t) \in Seq(MessageSet)
  BY DEF Part
<1> HIDE DEF n, u
<1>6. a \in [1..n -> Seq(MessageSet)]
  BY <1>1, <1>5
<1>7. b \in [1..(n + 1) -> Seq(MessageSet)]
  <2>1. \A i \in 1..(n + 1) : i \in 1..n \/ i = n + 1
    BY <1>1
  <2>2. \A i \in 1..(n + 1) : u[i] \in MessageSet
    BY <1>1, <1>2, <2>1
  <2> QED
    BY <1>5, <2>2
<1>8. \A i \in 1..n : b[i] = a[i]
  <2>1. \A i \in 1..n : i \in 1..(n + 1)
    BY <1>1
  <2> QED
    BY <1>2, <2>1
<1>9. b[n + 1] = Part(x, t)
  BY <1>1, <1>2
<1> HIDE DEF a, b
<1>10. FlattenSeq(b) = FlattenSeq(a) \o b[n + 1] /\ FlattenSeq(a) \in Seq(MessageSet)
  BY <1>1, <1>6, <1>7, <1>8, FlattenStep
<1> QED
  BY <1>3, <1>4, <1>5, <1>9, <1>10 DEF u

\* The first messages of a sequence, one by one.
LEMMA FirstMessages ==
    ASSUME NEW S, NEW s \in Seq(S), NEW j \in 1..Len(s)
    PROVE  /\ SubSeq(s, 1, j - 1) \in Seq(S) /\ s[j] \in S
           /\ SubSeq(s, 1, j) = Append(SubSeq(s, 1, j - 1), s[j])
           /\ SubSeq(s, 1, j) = SubSeq(s, 1, j - 1) \o <<s[j]>>
<1>1. s[j] \in S /\ Len(s) \in Nat
  BY ElementOfSeq
<1>2. SubSeq(s, 1, j - 1) \in Seq(S)
  <2>1. \A i \in 1..(j - 1) : s[i] \in S
    <3>1. \A i \in 1..(j - 1) : i \in 1..Len(s)
      BY <1>1
    <3> QED
      BY <3>1, ElementOfSeq
  <2>2. 1 \in Int /\ j - 1 \in Int
    OBVIOUS
  <2> QED
    BY <2>1, <2>2, SubSeqProperties
<1>3. SubSeq(s, 1, j) = SubSeq(s, 1, j - 1) \o <<s[j]>>
  <2>1. 1 \in 1..Len(s) /\ j \in 1..Len(s)
    BY <1>1
  <2> QED
    BY <2>1, SubSeqRecursiveSecond
<1> QED
  BY <1>1, <1>2, <1>3, AppendIsConcat

\* More messages that are all told.
LEMMA ToTellMore ==
    ASSUME NEW t, NEW m \in Seq(MessageSet), NEW s \in Seq(MessageSet),
           \A i \in 1..Len(s) : s[i].turn = t /\ s[i].role # "answer"
    PROVE  ToTell(m \o s, t) = ToTell(m, t) \o s
<1> DEFINE p(j) == SubSeq(s, 1, j)
           w == ToTell(m, t)
           E == {j \in 0..Len(s) : ToTell(m \o p(j), t) = w \o p(j)}
<1>1. w \in Seq(MessageSet) /\ Len(s) \in Nat
  <2>1. \A x \in MessageSet : ToTell(m, t) \in Seq(MessageSet)
    BY ToTellOneMore
  <2>2. Summary \in MessageSet
    BY DEF Summary, MessageSet, Roles
  <2> QED
    BY <2>1, <2>2
<1>2. 0 \in E
  <2>1. p(0) = <<>>
    BY SubSeqEmpty
  <2>2. m \o <<>> = m /\ w \o <<>> = w
    BY <1>1, ConcatEmptySeq
  <2>3. ToTell(m \o p(0), t) = w \o p(0)
    BY <2>1, <2>2
  <2>4. 0 \in 0..Len(s)
    BY <1>1
  <2> HIDE DEF p, w
  <2> QED
    BY <2>3, <2>4
<1>3. ASSUME NEW j \in 1..Len(s), j - 1 \in E
      PROVE  j \in E
  <2> DEFINE q == p(j - 1)
             x == s[j]
  <2>1. /\ q \in Seq(MessageSet) /\ x \in MessageSet
        /\ p(j) = Append(q, x) /\ p(j) = q \o <<x>>
    BY FirstMessages
  <2>2. ToTell(m \o q, t) = w \o q
    BY <1>3
  <2>3. Part(x, t) = <<x>>
    BY DEF Part
  <2>4. <<x>> \in Seq(MessageSet) /\ m \o q \in Seq(MessageSet)
    BY <2>1, ConcatProperties
  <2> HIDE DEF p, q, x, w
  <2>5. m \o p(j) = Append(m \o q, x)
    <3>1. Associates(m, q, <<x>>)
      BY <2>1, <2>4, Regrouped
    <3>2. (m \o q) \o <<x>> = Append(m \o q, x)
      BY <2>1, <2>4, AppendIsConcat
    <3> QED
      BY <2>1, <3>1, <3>2 DEF Associates
  <2>6. ToTell(Append(m \o q, x), t) = (w \o q) \o <<x>>
    <3>1. ToTell(Append(m \o q, x), t) = ToTell(m \o q, t) \o Part(x, t)
      BY <2>1, <2>4, ToTellOneMore
    <3> QED
      BY <2>2, <2>3, <3>1
  <2>7. (w \o q) \o <<x>> = w \o p(j)
    <3>1. Associates(w, q, <<x>>)
      BY <1>1, <2>1, <2>4, Regrouped
    <3> QED
      BY <2>1, <3>1 DEF Associates
  <2>8. j \in 0..Len(s)
    BY <1>1
  <2> QED
    BY <2>5, <2>6, <2>7, <2>8
<1>4. Len(s) \in E
  <2> HIDE DEF E
  <2>1. 0..Len(s) \subseteq E
    BY <1>1, <1>2, <1>3, InductionUpTo
  <2> QED
    BY <1>1, <2>1
<1>5. p(Len(s)) = s
  BY SubSeqFull
<1> QED
  BY <1>4, <1>5

\* Nothing has to be told of other turns.
LEMMA ToTellNothing ==
    ASSUME NEW t, NEW m \in Seq(MessageSet), \A i \in 1..Len(m) : m[i].turn # t
    PROVE  ToTell(m, t) = <<>>
<1> DEFINE p(j) == SubSeq(m, 1, j)
           e == <<>>
           E == {j \in 0..Len(m) : ToTell(p(j), t) = e}
<1>1. Len(m) \in Nat /\ e \in Seq(MessageSet) /\ e \o e = e
  BY ConcatEmptySeq
<1>2. 0 \in E
  <2>1. p(0) = <<>>
    BY SubSeqEmpty
  <2>2. ToTell(<<>>, t) = <<>>
    <3> DEFINE s == <<>>
               a == [i \in 1..Len(s) |-> Part(s[i], t)]
    <3>1. ToTell(s, t) = FlattenSeq(a)
      BY DEF ToTell, Part
    <3>2. Len(s) = 0
      OBVIOUS
    <3>3. a = <<>>
      BY <3>2
    <3> HIDE DEF s, a
    <3>4. Len(a) = 0
      BY <3>3
    <3>5. FlattenSeq(a) = <<>>
      BY <3>4 DEF FlattenSeq
    <3> QED
      BY <3>1, <3>5 DEF s
  <2>3. ToTell(p(0), t) = e
    BY <2>1, <2>2
  <2>4. 0 \in 0..Len(m)
    BY <1>1
  <2> HIDE DEF p, e
  <2> QED
    BY <2>3, <2>4
<1> HIDE DEF e
<1>3. ASSUME NEW j \in 1..Len(m), j - 1 \in E
      PROVE  j \in E
  <2> DEFINE q == p(j - 1)
             x == m[j]
  <2>1. q \in Seq(MessageSet) /\ x \in MessageSet /\ p(j) = Append(q, x)
    BY FirstMessages
  <2>2. Part(x, t) = e
    BY DEF Part, e
  <2>3. ToTell(q, t) = e
    BY <1>3
  <2>4. j \in 0..Len(m)
    BY <1>1
  <2> HIDE DEF p, q, x
  <2>5. ToTell(p(j), t) = e \o e
    BY <2>1, <2>2, <2>3, ToTellOneMore
  <2> QED
    BY <1>1, <2>4, <2>5
<1>4. Len(m) \in E
  <2> HIDE DEF E
  <2>1. 0..Len(m) \subseteq E
    BY <1>1, <1>2, <1>3, InductionUpTo
  <2> QED
    BY <1>1, <2>1
<1>5. p(Len(m)) = m
  BY SubSeqFull
<1> QED
  BY <1>4, <1>5 DEF e
-----------------------------------------------------------------------------
Outcomes == {"open", "returned", "rejected"}

\* When turns of others start and end, a call keeps what it has.
LEMMA OthersEnd ==
    ASSUME NEW old \in Seq(Outcomes), NEW new \in Seq(Outcomes), Len(old) <= Len(new),
           \A i \in 1..Len(old) : old[i] = "returned" => new[i] = "returned"
    PROVE  /\ ReturnedIn(old) \subseteq ReturnedIn(new)
           /\ \A m : Kept(m, ReturnedIn(old)) => Kept(m, ReturnedIn(new))
           /\ \A s : StateConversation(s, old) => StateConversation(s, new)
           /\ \A r : CallConversation(r, old) /\ (r.at \in During => new[r.turn] = old[r.turn])
                        => CallConversation(r, new)
<1>1. Len(old) \in Nat /\ Len(new) \in Nat
  OBVIOUS
<1>2. ReturnedIn(old) \subseteq ReturnedIn(new)
  BY <1>1 DEF ReturnedIn
<1>3. \A m : Kept(m, ReturnedIn(old)) => Kept(m, ReturnedIn(new))
  BY <1>2, MoreTurns DEF Kept
<1>4. \A s : StateConversation(s, old) => StateConversation(s, new)
  BY <1>3 DEF StateConversation
<1>5. ASSUME NEW r, NEW roles, Ongoing(r, ReturnedIn(old), roles)
      PROVE  Ongoing(r, ReturnedIn(new), roles)
  <2>1. ReturnedIn(old) \cup {r.turn} \subseteq ReturnedIn(new) \cup {r.turn}
    BY <1>2
  <2> QED
    BY <1>5, <2>1, MoreTurns DEF Ongoing
<1>6. ASSUME NEW r, CallConversation(r, old), r.at \in During => new[r.turn] = old[r.turn]
      PROVE  CallConversation(r, new)
  <2>1. r.at \in During => r.turn \in 1..Len(new) /\ new[r.turn] = "open"
    BY <1>1, <1>6 DEF CallConversation
  <2> QED
    BY <1>3, <1>5, <1>6, <2>1 DEF CallConversation
<1> QED
  BY <1>2, <1>3, <1>4, <1>6

\* A step of call c: the outcome of no other turn changes.
LEMMA ConversationStep ==
    ASSUME IndInv, ConvInv, NEW c \in Callers, NEW new,
           call' = [call EXCEPT ![c] = new], policy' = policy,
           outcome' \in Seq(Outcomes), Len(outcome) <= Len(outcome'),
           \A i \in 1..Len(outcome) :
              \/ outcome'[i] = outcome[i]
              \/ call[c].at \in During /\ i = call[c].turn,
           \A s \in 1..Len(states') : StateConversation(states'[s], outcome'),
           CallConversation(new, outcome'), Told(new),
           new.at \in During => \/ call[c].at \in During /\ new.turn = call[c].turn
                                \/ new.turn = Len(outcome) + 1
    PROVE  ConvInv'
<1>1. DOMAIN call = Callers
  BY DEF IndInv, TypeOK
<1>2. DOMAIN call' = Callers /\ call'[c] = new /\ \A d \in Callers : d # c => call'[d] = call[d]
  BY <1>1
<1>3. /\ outcome \in Seq(Outcomes) /\ Len(outcome) \in Nat
      /\ \A d \in Callers : CallConversation(call[d], outcome) /\ Told(call[d])
  BY DEF ConvInv, Outcomes
<1>4. \A i \in 1..Len(outcome) : outcome[i] = "returned" => outcome'[i] = "returned"
  <2>1. call[c].at \in During => outcome[call[c].turn] = "open"
    BY <1>3 DEF CallConversation
  <2> QED
    BY <2>1
<1>5. ASSUME NEW d \in Callers, d # c
      PROVE  /\ CallConversation(call'[d], outcome') /\ Told(call'[d])
             /\ call'[d].at \in During => call'[d].turn \in 1..Len(outcome)
             /\ call'[d].at \in During /\ call[c].at \in During => call'[d].turn # call[c].turn
  <2>1. call[d].at \in During => call[d].turn \in 1..Len(outcome)
    BY <1>3 DEF CallConversation
  <2>2. call[d].at \in During /\ call[c].at \in During => call[d].turn # call[c].turn
    BY <1>5 DEF ConvInv
  <2>3. call[d].at \in During => outcome'[call[d].turn] = outcome[call[d].turn]
    BY <2>1, <2>2
  <2> DEFINE o == outcome'
             r == call[d]
  <2>4. o \in Seq(Outcomes) /\ Len(outcome) <= Len(o)
        /\ (\A i \in 1..Len(outcome) : outcome[i] = "returned" => o[i] = "returned")
        /\ CallConversation(r, outcome) /\ (r.at \in During => o[r.turn] = outcome[r.turn])
    BY <1>3, <1>4, <2>3
  <2> HIDE DEF o, r
  <2>5. CallConversation(r, o)
    BY <1>3, <2>4, OthersEnd
  <2>6. CallConversation(call'[d], outcome')
    BY <1>2, <1>5, <2>5 DEF o, r
  <2> QED
    BY <1>2, <1>3, <1>5, <2>1, <2>2, <2>6
<1>6. \A d \in Callers : CallConversation(call'[d], outcome') /\ Told(call'[d])
  BY <1>2, <1>5
<1>7. ASSUME NEW d \in Callers, NEW e \in Callers, call'[d].at \in During, call'[e].at \in During,
             call'[d].turn = call'[e].turn
      PROVE  d = e
  <2>1. ASSUME NEW f \in Callers, f # c, call'[f].at \in During, new.at \in During
        PROVE  call'[f].turn # new.turn
    BY <1>3, <1>5, <2>1
  <2>2. CASE d # c /\ e # c
    BY <1>2, <1>7, <2>2 DEF ConvInv
  <2> QED
    BY <1>2, <1>7, <2>1, <2>2
<1>8. policy' \in {"replace", "truncate", "summarize", "sliding-window"}
  BY DEF ConvInv
<1> QED
  BY <1>6, <1>7, <1>8 DEF ConvInv, Outcomes

\* A step of call c that neither starts nor ends a turn.
LEMMA WithinTurn ==
    ASSUME IndInv, ConvInv, NEW c \in Callers, NEW new,
           call' = [call EXCEPT ![c] = new], UNCHANGED <<policy, outcome>>,
           \/ UNCHANGED states
           \/ \E s : StateConversation(s, outcome) /\
                 \/ \E k \in 1..Len(states) : states' = [states EXCEPT ![k] = s]
                 \/ states' = Append(states, s),
           CallConversation(new, outcome), Told(new),
           new.at \in During => call[c].at \in During /\ new.turn = call[c].turn
    PROVE  ConvInv'
<1>1. outcome \in Seq(Outcomes) /\ Len(outcome) \in Nat
  BY DEF ConvInv, Outcomes
<1>2. \A i \in 1..Len(states) : StateConversation(states[i], outcome)
  BY DEF ConvInv
<1>3. PICK S : states \in Seq(S)
  BY DEF IndInv, TypeOK
<1>4. \A i \in 1..Len(states') : StateConversation(states'[i], outcome)
  <2>1. CASE UNCHANGED states
    BY <1>2, <2>1
  <2>2. ASSUME NEW s, StateConversation(s, outcome), NEW k \in 1..Len(states),
               states' = [states EXCEPT ![k] = s]
        PROVE  \A i \in 1..Len(states') : StateConversation(states'[i], outcome)
    <3>1. states \in Seq(S \cup {s}) /\ s \in S \cup {s}
      BY <1>3
    <3>2. Len(states') = Len(states)
      BY <2>2, <3>1, ExceptSeq
    <3>3. \A i \in 1..Len(states) : states'[i] = s \/ states'[i] = states[i]
      BY <2>2, <3>1, ExceptSeq
    <3> QED
      BY <1>2, <2>2, <3>2, <3>3
  <2>3. ASSUME NEW s, StateConversation(s, outcome), states' = Append(states, s)
        PROVE  \A i \in 1..Len(states') : StateConversation(states'[i], outcome)
    <3>1. /\ Len(states') = Len(states) + 1 /\ states'[Len(states) + 1] = s
          /\ \A i \in 1..Len(states) : states'[i] = states[i]
      BY <1>3, <2>3, Appended
    <3>2. \A i \in 1..Len(states') : i \in 1..Len(states) \/ i = Len(states) + 1
      BY <1>3, <3>1
    <3> QED
      BY <1>2, <2>3, <3>1, <3>2
  <2> QED
    BY <2>1, <2>2, <2>3
<1>5. /\ outcome' \in Seq(Outcomes) /\ Len(outcome) <= Len(outcome')
      /\ \A i \in 1..Len(outcome) : outcome'[i] = outcome[i]
      /\ \A i \in 1..Len(states') : StateConversation(states'[i], outcome')
      /\ CallConversation(new, outcome') /\ policy' = policy
  BY <1>1, <1>4
<1> QED
  BY <1>5, ConversationStep

\* A call that is not under way keeps nothing.
LEMMA OutsideHasNothing ==
    ASSUME NEW r, NEW outs, r.at \notin During \cup {"applying"},
           {"at", "state", "saved", "turn", "conv", "from", "sent"} \subseteq DOMAIN r
    PROVE  CallConversation(r, outs) /\ Told(r)
  BY DEF CallConversation, Told, During

\* The initial state satisfies the invariant of the conversations.
LEMMA InitConvInv == Init => ConvInv
<1> SUFFICES ASSUME Init PROVE ConvInv
  OBVIOUS
<1>1. policy \in {"replace", "truncate", "summarize", "sliding-window"}
  BY AgentsAssumption DEF Init
<1>2. outcome \in Seq(Outcomes) /\ Len(states) = 0
  BY DEF Init
<1>3. /\ Idle.at = "idle" /\ Idle.at \notin During \cup {"applying"}
      /\ {"at", "state", "saved", "turn", "conv", "from", "sent"} \subseteq DOMAIN Idle
  BY DEF Idle, During
<1>4. \A c \in Callers : call[c] = Idle
  BY DEF Init
<1>5. CallConversation(Idle, outcome) /\ Told(Idle)
  BY <1>3, OutsideHasNothing
<1> QED
  BY <1>1, <1>2, <1>3, <1>4, <1>5 DEF ConvInv, Outcomes

\* The steps before the turn.
LEMMA PreparingKeepsConvInv ==
    ASSUME IndInv, ConvInv, NEW c \in Callers,
           \/ Invoke(c) \/ Create(c) \/ ComposeFails(c) \/ CheckLimits(c)
           \/ RenderHandoff(c) \/ Reset(c) \/ Size(c) \/ ApplyPolicy(c)
    PROVE  ConvInv'
<1> DEFINE old == call[c]
           k == old.state
           Fields == {"at", "state", "saved", "turn", "conv", "from", "sent"}
<1>1. /\ TypeOK /\ CallOK(old, Len(states)) /\ Len(states) \in Nat /\ DOMAIN call = Callers
      /\ CallConversation(old, outcome) /\ Fields \subseteq DOMAIN old
  BY DEF IndInv, TypeOK, ConvInv, CallConversation
<1>2. Fields \subseteq DOMAIN Idle
  BY DEF Idle
<1>3. old.at \in Before \cup Unchecked => k \in 1..Len(states)
  BY <1>1 DEF CallOK, Before, Unchecked, Outside
<1>4. \A i \in 1..Len(states) :
          "conversation" \in DOMAIN states[i] /\ Kept(states[i].conversation, ReturnedIn(outcome))
  BY DEF ConvInv, StateConversation
<1>5. \A T : Kept(<<>>, T)
  BY ShortConversations
<1>6. ASSUME NEW new, call' = [call EXCEPT ![c] = new], UNCHANGED <<policy, outcome>>,
             \/ UNCHANGED states
             \/ \E s : StateConversation(s, outcome) /\
                   \/ \E i \in 1..Len(states) : states' = [states EXCEPT ![i] = s]
                   \/ states' = Append(states, s),
             new.at \notin During \cup {"applying"}, Fields \subseteq DOMAIN new
      PROVE  ConvInv'
  <2>1. CallConversation(new, outcome) /\ Told(new)
    BY <1>6, OutsideHasNothing
  <2> QED
    BY <1>6, <2>1, WithinTurn
<1> HIDE DEF Fields
<1>7. CASE Invoke(c)
  <2> DEFINE at == IF lifecycle = 0 THEN "composing" ELSE "checking"
             new == [Idle EXCEPT !.at = at, !.state = lifecycle]
  <2>1. call' = [call EXCEPT ![c] = new] /\ UNCHANGED <<policy, outcome, states>>
    BY <1>7 DEF Invoke
  <2>2. new.at = at /\ DOMAIN new = DOMAIN Idle
    BY DEF Idle
  <2> HIDE DEF new
  <2>3. new.at \notin During \cup {"applying"}
    BY <2>2 DEF During
  <2> QED
    BY <1>2, <1>6, <2>1, <2>2, <2>3
<1>8. CASE ComposeFails(c)
  <2> DEFINE new == [Idle EXCEPT !.at = "rejected"]
  <2>1. call' = [call EXCEPT ![c] = new] /\ UNCHANGED <<policy, outcome, states>>
    BY <1>8 DEF ComposeFails, Ends
  <2>2. new.at = "rejected" /\ DOMAIN new = DOMAIN Idle
    BY DEF Idle
  <2> HIDE DEF new
  <2>3. new.at \notin During \cup {"applying"}
    BY <2>2 DEF During
  <2> QED
    BY <1>2, <1>6, <2>1, <2>2, <2>3
<1>9. CASE Create(c)
  <2> PICK count : call' = [call EXCEPT ![c].at = "checking", ![c].state = count]
    BY <1>9 DEF Create
  <2> DEFINE new == [old EXCEPT !.at = "checking", !.state = count]
  <2>1. call' = [call EXCEPT ![c] = new] /\ UNCHANGED <<policy, outcome>>
    BY <1>1, <1>9 DEF Create
  <2>2. new.at = "checking" /\ DOMAIN new = DOMAIN old
    BY <1>1 DEF CallOK
  <2> HIDE DEF new
  <2>3. new.at \notin During \cup {"applying"}
    BY <2>2 DEF During
  <2>4. states' = Append(states, NewState) /\ StateConversation(NewState, outcome)
    BY <1>5, <1>9 DEF Create, NewState, StateConversation
  <2> QED
    BY <1>1, <1>6, <2>1, <2>2, <2>3, <2>4
<1>10. CASE CheckLimits(c)
  <2> DEFINE reason == Reason(State(c))
             at == IF reason = "none" THEN "sizing" ELSE "resetting"
             new == [old EXCEPT !.at = at, !.reason = reason]
  <2>1. call' = [call EXCEPT ![c] = new] /\ UNCHANGED <<policy, outcome, states>>
    BY <1>1, <1>10 DEF CheckLimits
  <2>2. new.at = at /\ DOMAIN new = DOMAIN old
    BY <1>1 DEF CallOK
  <2> HIDE DEF new, reason
  <2>3. new.at \notin During \cup {"applying"}
    BY <2>2 DEF During
  <2> QED
    BY <1>1, <1>6, <2>1, <2>2, <2>3
<1>11. CASE RenderHandoff(c)
  <2> PICK events : call' = [call EXCEPT ![c].at = "rendering", ![c].saved = events]
    BY <1>11 DEF RenderHandoff
  <2> DEFINE new == [old EXCEPT !.at = "rendering", !.saved = events]
  <2>1. call' = [call EXCEPT ![c] = new] /\ UNCHANGED <<policy, outcome, states>>
    BY <1>1, <1>11 DEF RenderHandoff
  <2>2. new.at = "rendering" /\ DOMAIN new = DOMAIN old
    BY <1>1 DEF CallOK
  <2> HIDE DEF new
  <2>3. new.at \notin During \cup {"applying"}
    BY <2>2 DEF During
  <2> QED
    BY <1>1, <1>6, <2>1, <2>2, <2>3
<1>12. ASSUME NEW place \in {"sizing", "starting"}, Goes(c, place), UNCHANGED <<policy, outcome>>,
              \/ UNCHANGED states
              \/ \E s : StateConversation(s, outcome) /\
                    \E i \in 1..Len(states) : states' = [states EXCEPT ![i] = s]
       PROVE  ConvInv'
  <2> DEFINE new == [old EXCEPT !.at = place, !.reason = "", !.saved = <<>>]
  <2>1. call' = [call EXCEPT ![c] = new]
    BY <1>12 DEF Goes
  <2>2. new.at = place /\ DOMAIN new = DOMAIN old
    BY <1>1 DEF CallOK
  <2> HIDE DEF new
  <2>3. new.at \notin During \cup {"applying"}
    BY <2>2 DEF During
  <2> QED
    BY <1>1, <1>6, <1>12, <2>1, <2>2, <2>3
<1>13. CASE Reset(c)
  <2> PICK s : states' = [states EXCEPT ![k] = s] /\ StateConversation(s, outcome)
    <3> DEFINE s == [NewState EXCEPT !.start = State(c).start, !.handoff = call[c].saved]
    <3>1. "conversation" \in DOMAIN s /\ s.conversation = <<>>
      BY DEF NewState
    <3>2. states' = [states EXCEPT ![k] = s]
      BY <1>13 DEF Reset
    <3> HIDE DEF s
    <3>3. StateConversation(s, outcome)
      BY <1>5, <3>1 DEF StateConversation
    <3> QED
      BY <3>2, <3>3
  <2>1. k \in 1..Len(states) /\ Goes(c, "sizing") /\ UNCHANGED <<policy, outcome>>
    BY <1>3, <1>13 DEF Reset, At, Unchecked
  <2> QED
    BY <1>12, <2>1
<1>14. CASE Size(c)
  <2>1. k \in 1..Len(states) /\ UNCHANGED <<policy, outcome, states>>
    BY <1>3, <1>14 DEF Size, At, Before
  <2>2. CASE Goes(c, "starting")
    BY <1>12, <2>1, <2>2
  <2>3. CASE ~Goes(c, "starting")
    <3> DEFINE saved == Applied(states[k].conversation)
               new == [old EXCEPT !.at = "applying", !.saved = saved]
    <3>1. call' = [call EXCEPT ![c] = new]
      BY <1>1, <1>14, <2>3 DEF Size, State
    <3>2. Kept(saved, ReturnedIn(outcome))
      BY <1>4, <2>1, AppliedIsKept DEF ConvInv
    <3> HIDE DEF saved
    <3>3. new.at = "applying" /\ new.saved = saved /\ Fields \subseteq DOMAIN new
      BY <1>1 DEF Fields
    <3> HIDE DEF new
    <3>4. new.at \notin During
      BY <3>3 DEF During
    <3>5. CallConversation(new, outcome) /\ Told(new)
      BY <3>2, <3>3, <3>4 DEF CallConversation, Told, Fields, During
    <3> QED
      BY <2>1, <3>1, <3>4, <3>5, WithinTurn
  <2> QED
    BY <2>2, <2>3
<1>15. CASE ApplyPolicy(c)
  <2> DEFINE s == [states[k] EXCEPT !.conversation = old.saved]
  <2>1. /\ k \in 1..Len(states) /\ Goes(c, "starting") /\ UNCHANGED <<policy, outcome>>
        /\ states' = [states EXCEPT ![k] = s] /\ old.at = "applying"
    BY <1>3, <1>15 DEF ApplyPolicy, At, Before
  <2>2. Kept(old.saved, ReturnedIn(outcome))
    BY <1>1, <2>1 DEF CallConversation
  <2>3. "conversation" \in DOMAIN s /\ s.conversation = old.saved
    BY <1>4, <2>1
  <2> HIDE DEF s
  <2>4. StateConversation(s, outcome)
    BY <2>2, <2>3 DEF StateConversation
  <2> QED
    BY <1>12, <2>1, <2>4
<1> QED
  BY <1>7, <1>8, <1>9, <1>10, <1>11, <1>13, <1>14, <1>15

\* What the next request carries as new, after one more message.
LEMMA NewMessage ==
    ASSUME NEW m \in Seq(MessageSet), NEW x \in MessageSet
    PROVE  SubSeq(Append(m, x), Len(m) + 1, Len(Append(m, x))) = <<x>>
<1> DEFINE a == Append(m, x)
           n == Len(m)
<1>1. n \in Nat /\ a \in Seq(MessageSet) /\ Len(a) = n + 1 /\ a[n + 1] = x
  BY AppendProperties
<1> HIDE DEF a, n
<1>2. n + 1 \in 1..Len(a) /\ n + 1 \in (n + 1)..Len(a) /\ (n + 1) + 1 \in Int /\ n + 1 \in Int
  BY <1>1
<1>3. SubSeq(a, n + 1, n + 1) = <<a[n + 1]>> \o SubSeq(a, (n + 1) + 1, n + 1)
  BY <1>1, <1>2, SubSeqRecursiveFirst
<1>4. SubSeq(a, (n + 1) + 1, n + 1) = <<>>
  BY <1>1, <1>2, SubSeqEmpty
<1>5. <<x>> \o <<>> = <<x>>
  <2>1. <<x>> \in Seq(MessageSet)
    OBVIOUS
  <2> QED
    BY <2>1, ConcatEmptySeq
<1> QED
  BY <1>1, <1>3, <1>4, <1>5 DEF a, n

\* ... and after several.
LEMMA NewMessagesAre ==
    ASSUME NEW m \in Seq(MessageSet), NEW s \in Seq(MessageSet)
    PROVE  SubSeq(m \o s, Len(m) + 1, Len(m \o s)) = s
<1> DEFINE a == m \o s
           n == Len(m)
           k == Len(s)
           b == SubSeq(a, n + 1, n + k)
<1>1. /\ n \in Nat /\ k \in Nat /\ a \in Seq(MessageSet) /\ Len(a) = n + k
      /\ \A i \in 1..k : a[n + i] = s[i]
  BY Joined
<1>2. k = Len(s)
  OBVIOUS
<1> HIDE DEF a, n, k
<1>3. b \in Seq(MessageSet) /\ Len(b) = k /\ \A i \in 1..k : b[i] = a[n + i]
  <2>1. \A i \in (n + 1)..(n + k) : a[i] \in MessageSet
    <3>1. \A i \in (n + 1)..(n + k) : i \in 1..Len(a)
      BY <1>1
    <3> QED
      BY <1>1, <3>1, ElementOfSeq
  <2>2. n + 1 \in Int /\ n + k \in Int
    BY <1>1
  <2>3. /\ b \in Seq(MessageSet)
        /\ Len(b) = IF n + 1 <= n + k THEN (n + k) - (n + 1) + 1 ELSE 0
        /\ \A i \in 1..((n + k) - (n + 1) + 1) : b[i] = a[(n + 1) + i - 1]
    BY <2>1, <2>2, SubSeqProperties
  <2>4. Len(b) = k
    BY <1>1, <2>3
  <2>5. \A i \in 1..k : i \in 1..((n + k) - (n + 1) + 1) /\ (n + 1) + i - 1 = n + i
    BY <1>1
  <2> QED
    BY <2>3, <2>4, <2>5
<1> HIDE DEF b
<1>4. \A i \in 1..Len(b) : b[i] = s[i]
  BY <1>1, <1>3
<1>5. b = s
  BY <1>2, <1>3, <1>4, SeqEqual
<1> QED
  BY <1>1, <1>5 DEF b, a, n, k

\* The turn starts with a message of the user, who answers nobody.
LEMMA TurnBegins ==
    ASSUME NEW outs \in Seq(Outcomes), NEW m, Kept(m, ReturnedIn(outs)),
           NEW user \in MessageSet, user.role = "user", user.turn = Len(outs) + 1
    PROVE  /\ Messages(Append(m, user), ReturnedIn(outs) \cup {user.turn})
           /\ Append(m, user) # <<>>
           /\ Append(m, user)[Len(Append(m, user))] = user
           /\ Len(m) \in 0..Len(Append(m, user))
           /\ SubSeq(Append(m, user), Len(m) + 1, Len(Append(m, user)))
                 = ToTell(Append(m, user), user.turn)
<1> DEFINE T == ReturnedIn(outs) \cup {user.turn}
<1>1. m \in Seq(MessageSet) /\ Len(m) \in Nat /\ Len(outs) \in Nat
  BY DEF Kept, Messages
<1>2. Messages(m, T) /\ user.turn \in T
  BY MoreTurns DEF Kept
<1>3. ASSUME NEW i \in 1..Len(m)
      PROVE  m[i].turn < user.turn
  <2>1. m[i].role = "summary" \/ m[i].turn \in 1..Len(outs)
    BY <1>3 DEF Kept, Messages, MadeOf, ReturnedIn
  <2>2. m[i].role = "summary" => m[i].turn = 0
    BY <1>3 DEF Kept, Messages
  <2> QED
    BY <1>1, <2>1, <2>2
<1>4. m # <<>> => Follows(m[Len(m)], user)
  <2> SUFFICES ASSUME m # <<>> PROVE Follows(m[Len(m)], user)
    OBVIOUS
  <2>1. Len(m) \in 1..Len(m)
    BY <1>1, EmptySeq
  <2>2. m[Len(m)].turn < user.turn /\ m[Len(m)] \in MessageSet
    BY <1>1, <1>3, <2>1, ElementOfSeq
  <2>3. m[Len(m)].turn # user.turn
    <3>1. m[Len(m)].turn \in Nat
      BY <2>2 DEF MessageSet
    <3> QED
      BY <1>1, <2>2, <3>1
  <2>4. m[Len(m)].role \in {"answer", "summary"}
    BY DEF Kept, EndsWith
  <2> QED
    BY <2>2, <2>3, <2>4 DEF Follows
<1> HIDE DEF T
<1>5. /\ Messages(Append(m, user), T) /\ Append(m, user) # <<>>
      /\ Len(Append(m, user)) = Len(m) + 1 /\ Append(m, user)[Len(m) + 1] = user
  BY <1>2, <1>4, MessageFollows
<1>6. SubSeq(Append(m, user), Len(m) + 1, Len(Append(m, user))) = <<user>>
  BY <1>1, NewMessage
<1>7. ToTell(Append(m, user), user.turn) = <<user>>
  <2>1. \A i \in 1..Len(m) : m[i].turn # user.turn
    <3> SUFFICES ASSUME NEW i \in 1..Len(m) PROVE m[i].turn # user.turn
      OBVIOUS
    <3>1. m[i] \in MessageSet /\ m[i].turn < user.turn
      BY <1>1, <1>3, ElementOfSeq
    <3>2. m[i].turn \in Nat
      BY <3>1 DEF MessageSet
    <3> QED
      BY <1>1, <3>1, <3>2
  <2>2. ToTell(m, user.turn) = <<>>
    BY <1>1, <2>1, ToTellNothing
  <2>3. Part(user, user.turn) = <<user>>
    BY DEF Part
  <2>4. ToTell(Append(m, user), user.turn) = ToTell(m, user.turn) \o Part(user, user.turn)
    BY <1>1, ToTellOneMore
  <2>5. <<>> \o <<user>> = <<user>>
    <3>1. <<user>> \in Seq(MessageSet)
      OBVIOUS
    <3> QED
      BY <3>1, ConcatEmptySeq
  <2> QED
    BY <2>2, <2>3, <2>4, <2>5
<1> QED
  BY <1>1, <1>5, <1>6, <1>7 DEF T

\* Conversation m of turn t, whose messages were sent, becomes a: the others are new.
Continued(m, a, turns, t, sent) ==
    /\ Messages(a, turns) /\ a # <<>> /\ a[Len(a)].turn = t /\ Len(m) \in 0..Len(a)
    /\ sent \o SubSeq(a, Len(m) + 1, Len(a)) = ToTell(a, t)

\* The turn goes on with a tool round.
LEMMA ToolRound ==
    ASSUME NEW T, NEW m, Messages(m, T), m # <<>>,
           NEW x \in MessageSet, x.role = "call", x.turn \in T, x.n \in Nat \ {0},
           m[Len(m)].turn = x.turn, m[Len(m)].role \in {"user", "tool", "feedback"},
           NEW sent \in Seq(MessageSet), sent = ToTell(m, x.turn)
    PROVE  LET a == m \o Calling(x, x.n)
           IN  Continued(m, a, T, x.turn, sent) /\ a[Len(a)].role = "tool"
<1> DEFINE s == Calling(x, x.n)
           a == m \o s
<1>1. m \in Seq(MessageSet) /\ Len(m) \in Nat
  BY DEF Messages
<1>2. Follows(m[Len(m)], x)
  BY DEF Follows, Continues
<1>3. /\ Messages(a, T) /\ a # <<>> /\ Len(a) = Len(m) + x.n + 1
      /\ a[Len(a)] = [x EXCEPT !.role = "tool"]
  BY <1>2, CallingFollows
<1>4. [x EXCEPT !.role = "tool"].turn = x.turn /\ [x EXCEPT !.role = "tool"].role = "tool"
  BY DEF MessageSet
<1>5. s \in Seq(MessageSet) /\ \A i \in 1..Len(s) : s[i].turn = x.turn /\ s[i].role # "answer"
  <2>1. /\ s \in Seq(MessageSet) /\ Len(s) = x.n + 1 /\ s[1] = x
        /\ \A i \in 1..x.n : s[1 + i] = [x EXCEPT !.role = "tool", !.n = i]
    BY CallingIs
  <2> HIDE DEF s
  <2>2. ASSUME NEW i \in 1..Len(s)
        PROVE  s[i].turn = x.turn /\ s[i].role # "answer"
    <3>1. CASE i = 1
      BY <2>1, <3>1
    <3>2. CASE i # 1
      <4>1. i - 1 \in 1..x.n /\ 1 + (i - 1) = i
        <5>1. \A k \in Nat : i \in 1..(k + 1) => i - 1 \in 1..k /\ 1 + (i - 1) = i
          BY <3>2
        <5>2. x.n \in Nat /\ i \in 1..(x.n + 1)
          BY <2>1
        <5> QED
          BY <5>1, <5>2
      <4>2. s[i] = [x EXCEPT !.role = "tool", !.n = i - 1]
        BY <2>1, <4>1
      <4> QED
        BY <4>2 DEF MessageSet
    <3> QED
      BY <3>1, <3>2
  <2> QED
    BY <2>1, <2>2
<1> HIDE DEF s
<1>6. ToTell(a, x.turn) = sent \o s
  BY <1>1, <1>5, ToTellMore
<1>7. SubSeq(a, Len(m) + 1, Len(a)) = s
  BY <1>1, <1>5, NewMessagesAre
<1>8. Len(m) \in 0..Len(a)
  BY <1>1, <1>3
<1> QED
  BY <1>3, <1>4, <1>6, <1>7, <1>8 DEF s, Continued

\* The turn goes on with an answer, and with what the model is told of it.
LEMMA AnswerOrFeedback ==
    ASSUME NEW T, NEW m, Messages(m, T), m # <<>>,
           NEW x \in MessageSet, x.turn \in T, m[Len(m)].turn = x.turn,
           \/ x.role = "answer" /\ m[Len(m)].role \in {"user", "tool", "feedback"}
           \/ x.role = "feedback" /\ m[Len(m)].role = "answer",
           NEW sent \in Seq(MessageSet), sent = ToTell(m, x.turn)
    PROVE  LET a == Append(m, x)
           IN  /\ Messages(a, T) /\ a # <<>> /\ a[Len(a)] = x
               /\ x.role = "answer" => sent = ToTell(a, x.turn)
               /\ x.role = "feedback" => Continued(m, a, T, x.turn, sent)
<1> DEFINE a == Append(m, x)
<1>1. m \in Seq(MessageSet) /\ Len(m) \in Nat
  BY DEF Messages
<1>2. Follows(m[Len(m)], x) /\ x.role \notin {"summary", "call"}
  BY DEF Follows, Continues
<1>3. Messages(a, T) /\ a # <<>> /\ Len(a) = Len(m) + 1 /\ a[Len(m) + 1] = x
  BY <1>2, MessageFollows
<1>4. ToTell(a, x.turn) = sent \o Part(x, x.turn)
  BY <1>1, ToTellOneMore
<1>5. SubSeq(a, Len(m) + 1, Len(a)) = <<x>>
  BY <1>1, NewMessage
<1>6. Part(x, x.turn) = IF x.role = "answer" THEN <<>> ELSE <<x>>
  BY DEF Part
<1>7. sent \o <<>> = sent
  BY ConcatEmptySeq
<1> HIDE DEF a
<1>8. x.role = "answer" => sent = ToTell(a, x.turn)
  BY <1>4, <1>6, <1>7
<1>9. x.role = "feedback" => sent \o SubSeq(a, Len(m) + 1, Len(a)) = ToTell(a, x.turn)
  BY <1>4, <1>5, <1>6
<1>10. Len(m) \in 0..Len(a)
  BY <1>1, <1>3
<1> QED
  BY <1>3, <1>8, <1>9, <1>10 DEF a, Continued

\* The turn starts.
LEMMA StartKeepsConvInv ==
    ASSUME IndInv, ConvInv, NEW c \in Callers, StartTurn(c)
    PROVE  ConvInv'
<1> DEFINE k == call[c].state
           m == states[k].conversation
           turn == Len(outcome) + 1
           user == [role |-> "user", turn |-> turn, n |-> 0]
           conv == Append(m, user)
           new == [Idle EXCEPT !.at = "sending", !.state = k, !.turn = turn, !.conv = conv,
                               !.from = Len(m)]
           s == [states[k] EXCEPT !.turns = @ + 1, !.start = LastKnownSequence + 1]
           o == Append(outcome, "open")
<1>1. /\ call[c].at = "starting" /\ call' = [call EXCEPT ![c] = new] /\ policy' = policy
      /\ outcome' = o /\ states' = [states EXCEPT ![k] = s]
  BY DEF StartTurn, At, State, Turns
<1>2. k \in 1..Len(states)
  BY <1>1 DEF IndInv, TypeOK, CallOK, Outside
<1>3. outcome \in Seq(Outcomes) /\ Len(outcome) \in Nat
  BY DEF ConvInv, Outcomes
<1>4. o \in Seq(Outcomes) /\ Len(o) = turn /\ o[turn] = "open"
      /\ \A i \in 1..Len(outcome) : o[i] = outcome[i]
  <2>1. "open" \in Outcomes
    BY DEF Outcomes
  <2> QED
    BY <1>3, <2>1, AppendProperties
<1>5. /\ "conversation" \in DOMAIN states[k] /\ Kept(m, ReturnedIn(outcome))
      /\ \A i \in 1..Len(states) : StateConversation(states[i], outcome)
  BY <1>2 DEF ConvInv, StateConversation
<1>6. user \in MessageSet /\ user.role = "user" /\ user.turn = turn
  BY <1>3 DEF MessageSet, Roles
<1>7. /\ new.at = "sending" /\ new.turn = turn /\ new.conv = conv /\ new.from = Len(m)
      /\ new.sent = <<>>
      /\ {"at", "state", "saved", "turn", "conv", "from", "sent"} \subseteq DOMAIN new
  BY DEF Idle
<1>8. "conversation" \in DOMAIN s /\ s.conversation = m
  BY <1>5
<1> HIDE DEF new, s, user, conv, o
<1>9. /\ Messages(conv, ReturnedIn(outcome) \cup {turn}) /\ conv # <<>>
      /\ conv[Len(conv)] = user /\ Len(m) \in 0..Len(conv)
      /\ SubSeq(conv, Len(m) + 1, Len(conv)) = ToTell(conv, turn)
  <2>1. user.turn = Len(outcome) + 1
    BY <1>6
  <2> HIDE DEF turn, m
  <2>2. /\ Messages(conv, ReturnedIn(outcome) \cup {user.turn}) /\ conv # <<>>
        /\ conv[Len(conv)] = user /\ Len(m) \in 0..Len(conv)
        /\ SubSeq(conv, Len(m) + 1, Len(conv)) = ToTell(conv, user.turn)
    BY <1>3, <1>5, <1>6, <2>1, TurnBegins DEF conv
  <2> QED
    BY <1>6, <2>2
<1> HIDE DEF m
<1>10. Len(outcome) <= Len(o) /\ turn \in 1..Len(o)
  BY <1>3, <1>4
<1>11. ReturnedIn(outcome) \subseteq ReturnedIn(o)
       /\ \A i \in 1..Len(states) : StateConversation(states[i], o)
  BY <1>3, <1>4, <1>5, <1>10, OthersEnd
<1>12. StateConversation(s, outcome)
  BY <1>5, <1>8 DEF StateConversation
<1>13. StateConversation(s, o)
  BY <1>3, <1>4, <1>10, <1>12, OthersEnd
<1>14. CallConversation(new, o)
  <2>1. ReturnedIn(outcome) \cup {turn} \subseteq ReturnedIn(o) \cup {turn}
    BY <1>11
  <2>2. Messages(conv, ReturnedIn(o) \cup {turn})
    BY <1>9, <2>1, MoreTurns
  <2> HIDE DEF turn
  <2>3. Ongoing(new, ReturnedIn(o), {"user", "tool", "feedback"})
    BY <1>6, <1>7, <1>9, <2>2 DEF Ongoing
  <2> QED
    BY <1>4, <1>7, <1>10, <2>3 DEF CallConversation
<1>15. Told(new)
  <2>1. SubSeq(conv, Len(m) + 1, Len(conv)) \in Seq(MessageSet)
    <3>1. ToTell(conv, turn) \in Seq(MessageSet)
      BY <1>6, <1>9, ToTellOneMore DEF Messages
    <3> QED
      BY <1>9, <3>1
  <2>2. <<>> \o SubSeq(conv, Len(m) + 1, Len(conv)) = SubSeq(conv, Len(m) + 1, Len(conv))
    BY <2>1, ConcatEmptySeq
  <2>3. <<>> \in Seq(MessageSet)
    OBVIOUS
  <2> HIDE DEF turn
  <2> QED
    BY <1>7, <1>9, <2>2, <2>3 DEF Told
<1>16. \A i \in 1..Len(states') : StateConversation(states'[i], o)
  <2>1. Len(states') = Len(states) /\ \A i \in 1..Len(states) : states'[i] \in {s, states[i]}
    <3>1. PICK S : states \in Seq(S)
      BY DEF IndInv, TypeOK
    <3>2. states \in Seq(S \cup {s}) /\ s \in S \cup {s}
      BY <3>1
    <3> QED
      BY <1>1, <1>2, <3>2, ExceptSeq
  <2> QED
    BY <1>11, <1>13, <2>1
<1> QED
  BY <1>1, <1>4, <1>7, <1>10, <1>14, <1>15, <1>16, ConversationStep

\* The turn goes on.
LEMMA GoingOnKeepsConvInv ==
    ASSUME IndInv, ConvInv, NEW c \in Callers,
           \/ (\E n \in CallCounts : CallTools(c, n)) \/ Answer(c)
           \/ AssertFails(c) /\ call[c].attempt # MaxRetries
    PROVE  ConvInv'
<1> DEFINE old == call[c]
           m == old.conv
           T == ReturnedIn(outcome) \cup {old.turn}
           told == old.sent \o NewMessages(c)
           Fields == {"at", "state", "saved", "turn", "conv", "from", "sent"}
<1>1. /\ CallConversation(old, outcome) /\ Told(old) /\ Fields \subseteq DOMAIN old
      /\ outcome \in Seq(Outcomes) /\ Len(outcome) \in Nat
  BY DEF ConvInv, CallConversation, Outcomes
<1>2. old.at \in During
  BY DEF CallTools, Answer, AssertFails, At, During
<1>3. old.turn \in 1..Len(outcome) /\ outcome[old.turn] = "open" /\ old.turn \in Nat /\ old.turn \in T
  BY <1>1, <1>2 DEF CallConversation
<1>4. \/ Ongoing(old, ReturnedIn(outcome), {"user", "tool", "feedback"}) /\ old.at = "sending"
      \/ Ongoing(old, ReturnedIn(outcome), {"answer"}) /\ old.at = "asserting"
  BY <1>1, <1>2 DEF CallConversation, During
<1>5. Messages(m, T) /\ m # <<>> /\ m[Len(m)].turn = old.turn /\ m \in Seq(MessageSet)
  BY <1>4 DEF Ongoing, Messages
<1>6. old.at = "sending" => told = ToTell(m, old.turn)
  BY <1>1 DEF Told, NewMessages
<1>7. ToTell(m, old.turn) \in Seq(MessageSet)
  <2>1. Summary \in MessageSet
    BY DEF Summary, MessageSet, Roles
  <2> QED
    BY <1>5, <2>1, ToTellOneMore
<1>8. ASSUME NEW new, call' = [call EXCEPT ![c] = new], UNCHANGED <<policy, outcome, states>>,
             new.turn = old.turn, Fields \subseteq DOMAIN new, new.sent \in Seq(MessageSet),
             new.from \in 0..Len(new.conv),
             Messages(new.conv, T), new.conv # <<>>, new.conv[Len(new.conv)].turn = old.turn,
             \/ /\ new.at = "sending"
                /\ new.conv[Len(new.conv)].role \in {"user", "tool", "feedback"}
                /\ new.sent \o SubSeq(new.conv, new.from + 1, Len(new.conv))
                      = ToTell(new.conv, old.turn)
             \/ /\ new.at = "asserting" /\ new.conv[Len(new.conv)].role \in {"answer"}
                /\ new.sent = ToTell(new.conv, old.turn)
      PROVE  ConvInv'
  <2>1. CallConversation(new, outcome)
    BY <1>3, <1>8 DEF CallConversation, Ongoing
  <2>2. Told(new)
    BY <1>8 DEF Told
  <2> QED
    BY <1>2, <1>8, <2>1, <2>2, WithinTurn
<1> HIDE DEF Fields
<1>9. ASSUME NEW n \in CallCounts, CallTools(c, n) PROVE ConvInv'
  <2> DEFINE x == [role |-> "call", turn |-> old.turn, n |-> n]
             rounds == old.rounds + 1
             tools == [i \in 1..n |-> Message(c, "tool", i)]
             conv == Append(m, x) \o tools
             new == [old EXCEPT !.rounds = rounds, !.sent = told, !.from = Len(m), !.conv = conv]
  <2>1. old.at = "sending" /\ UNCHANGED <<policy, outcome, states>>
    BY <1>9 DEF CallTools, At
  <2>2. call' = [call EXCEPT ![c] = new]
    BY <1>9 DEF CallTools, Message
  <2>3. /\ new.at = "sending" /\ new.turn = old.turn /\ Fields \subseteq DOMAIN new
        /\ new.sent = told /\ new.from = Len(m) /\ new.conv = conv
    BY <1>1, <2>1 DEF Fields
  <2>4. n \in Nat \ {0}
    BY AgentsAssumption
  <2>5. x \in MessageSet /\ x.role = "call" /\ x.turn = old.turn /\ x.n = n
    BY <1>3, <2>4 DEF MessageSet, Roles
  <2>6. conv = m \o Calling(x, x.n)
    <3>1. tools = [i \in 1..n |-> [x EXCEPT !.role = "tool", !.n = i]]
      BY DEF Message
    <3>2. tools \in Seq(MessageSet)
      BY <2>4, <2>5, <3>1, CallingIs
    <3>3. Calling(x, x.n) = <<x>> \o tools
      BY <2>5, <3>1 DEF Calling
    <3> HIDE DEF x, tools
    <3>4. <<x>> \in Seq(MessageSet)
      BY <2>5
    <3>5. Associates(m, <<x>>, tools)
      BY <1>5, <3>2, <3>4, Regrouped
    <3>6. Append(m, x) = m \o <<x>>
      BY <1>5, <2>5, AppendIsConcat
    <3> QED
      BY <3>3, <3>5, <3>6 DEF Associates
  <2>7. m[Len(m)].role \in {"user", "tool", "feedback"}
    BY <1>4, <2>1 DEF Ongoing
  <2> HIDE DEF new, conv, told, x, m, T
  <2>8. Continued(m, conv, T, x.turn, told) /\ conv[Len(conv)].role = "tool"
    <3>1. told \in Seq(MessageSet) /\ told = ToTell(m, x.turn)
      BY <1>6, <1>7, <2>1, <2>5
    <3>2. x.turn \in T /\ m[Len(m)].turn = x.turn /\ x.n \in Nat \ {0}
      BY <1>3, <1>5, <2>4, <2>5
    <3>3. LET a == m \o Calling(x, x.n)
          IN  Continued(m, a, T, x.turn, told) /\ a[Len(a)].role = "tool"
      BY <1>5, <2>5, <2>7, <3>1, <3>2, ToolRound
    <3> QED
      BY <2>6, <3>3
  <2> QED
    BY <1>6, <1>7, <1>8, <2>1, <2>2, <2>3, <2>5, <2>8 DEF Continued
<1>10. CASE Answer(c)
  <2> DEFINE x == [role |-> "answer", turn |-> old.turn, n |-> 0]
             conv == Append(m, x)
             new == [old EXCEPT !.at = "asserting", !.sent = told, !.conv = conv]
  <2>1. old.at = "sending" /\ UNCHANGED <<policy, outcome, states>>
    BY <1>10 DEF Answer, At
  <2>2. call' = [call EXCEPT ![c] = new]
    BY <1>10 DEF Answer, Message
  <2>3. /\ new.at = "asserting" /\ new.turn = old.turn /\ Fields \subseteq DOMAIN new
        /\ new.sent = told /\ new.from = old.from /\ new.conv = conv
    BY <1>1, <2>1 DEF Fields
  <2>4. x \in MessageSet /\ x.role = "answer" /\ x.turn = old.turn
    BY <1>3 DEF MessageSet, Roles
  <2>5. m[Len(m)].role \in {"user", "tool", "feedback"}
    BY <1>4, <2>1 DEF Ongoing
  <2>6. old.from \in 0..Len(conv)
    <3>1. old.from \in 0..Len(m)
      BY <1>1, <1>2 DEF Told
    <3>2. Len(m) \in Nat /\ Len(conv) = Len(m) + 1
      BY <1>5, <2>4, AppendProperties
    <3> QED
      BY <3>1, <3>2
  <2> HIDE DEF new, told, x, m, T
  <2>7. /\ Messages(conv, T) /\ conv # <<>> /\ conv[Len(conv)] = x
        /\ told \in Seq(MessageSet) /\ told = ToTell(conv, x.turn)
    <3>1. told \in Seq(MessageSet) /\ told = ToTell(m, x.turn)
      BY <1>6, <1>7, <2>1, <2>4
    <3>2. x.turn \in T /\ m[Len(m)].turn = x.turn
      BY <1>3, <1>5, <2>4
    <3> QED
      BY <1>5, <2>4, <2>5, <3>1, <3>2, AnswerOrFeedback
  <2> HIDE DEF conv
  <2> QED
    BY <1>8, <2>1, <2>2, <2>3, <2>4, <2>6, <2>7
<1>11. CASE AssertFails(c) /\ call[c].attempt # MaxRetries
  <2> DEFINE x == [role |-> "feedback", turn |-> old.turn, n |-> 0]
             conv == Append(m, x)
             sent == old.sent
             attempt == old.attempt + 1
             asserted == old.asserted + 1
             new == [old EXCEPT !.at = "sending", !.attempt = attempt, !.asserted = asserted,
                                !.from = Len(m), !.conv = conv]
  <2>1. old.at = "asserting" /\ UNCHANGED <<policy, outcome, states>>
    BY <1>11 DEF AssertFails, At
  <2>2. call' = [call EXCEPT ![c] = new]
    BY <1>11 DEF AssertFails, Message
  <2>3. /\ new.at = "sending" /\ new.turn = old.turn /\ Fields \subseteq DOMAIN new
        /\ new.sent = sent /\ new.from = Len(m) /\ new.conv = conv
    BY <1>1, <2>1 DEF Fields
  <2>4. x \in MessageSet /\ x.role = "feedback" /\ x.turn = old.turn
    BY <1>3 DEF MessageSet, Roles
  <2>5. m[Len(m)].role = "answer"
    BY <1>4, <2>1 DEF Ongoing
  <2>6. sent = ToTell(m, old.turn)
    BY <1>1, <2>1 DEF Told
  <2> HIDE DEF new, x, m, T, sent
  <2>7. Continued(m, conv, T, x.turn, sent) /\ conv[Len(conv)] = x
    <3>1. sent \in Seq(MessageSet) /\ sent = ToTell(m, x.turn)
      BY <1>7, <2>4, <2>6
    <3>2. x.turn \in T /\ m[Len(m)].turn = x.turn
      BY <1>3, <1>5, <2>4
    <3> QED
      BY <1>5, <2>4, <2>5, <3>1, <3>2, AnswerOrFeedback
  <2> HIDE DEF conv
  <2> QED
    BY <1>7, <1>8, <2>1, <2>2, <2>3, <2>4, <2>6, <2>7 DEF Continued
<1> QED
  BY <1>9, <1>10, <1>11

\* The turn ends.
LEMMA EndingKeepsConvInv ==
    ASSUME IndInv, ConvInv, NEW c \in Callers,
           \/ AssertPasses(c) \/ InvocationThrows(c)
           \/ AssertFails(c) /\ call[c].attempt = MaxRetries
    PROVE  ConvInv'
<1> DEFINE old == call[c]
           k == old.state
           t == old.turn
           Fields == {"at", "state", "saved", "turn", "conv", "from", "sent"}
<1>1. /\ CallConversation(old, outcome) /\ outcome \in Seq(Outcomes) /\ Len(outcome) \in Nat
      /\ \A i \in 1..Len(states) : StateConversation(states[i], outcome)
  BY DEF ConvInv, Outcomes
<1>2. old.at \in During
  BY DEF AssertPasses, InvocationThrows, AssertFails, At, During
<1>3. t \in 1..Len(outcome) /\ outcome[t] = "open" /\ k \in 1..Len(states)
  BY <1>1, <1>2 DEF CallConversation, IndInv, TypeOK, CallOK, During, Outside
<1>4. ASSUME NEW place \in {"returned", "rejected"}, Ends(c, place), policy' = policy,
             NEW result \in Outcomes, outcome' = [outcome EXCEPT ![t] = result],
             NEW s, states' = [states EXCEPT ![k] = s], "conversation" \in DOMAIN s,
             \/ s.conversation = states[k].conversation
             \/ /\ result = "returned"
                /\ Messages(s.conversation, ReturnedIn(outcome) \cup {t})
                /\ EndsWith(s.conversation, {"answer", "summary"})
      PROVE  ConvInv'
  <2> DEFINE new == [Idle EXCEPT !.at = place]
             o == [outcome EXCEPT ![t] = result]
  <2>1. call' = [call EXCEPT ![c] = new]
    BY <1>4 DEF Ends
  <2>2. new.at \notin During \cup {"applying"} /\ Fields \subseteq DOMAIN new
    BY DEF Idle, During
  <2> HIDE DEF new
  <2>3. CallConversation(new, o) /\ Told(new)
    BY <2>2, OutsideHasNothing
  <2>4. o \in Seq(Outcomes) /\ Len(o) = Len(outcome) /\ o[t] = result
        /\ \A i \in 1..Len(outcome) : i # t => o[i] = outcome[i]
    BY <1>1, <1>3, ExceptSeq
  <2> HIDE DEF o
  <2>5. \A i \in 1..Len(outcome) : outcome[i] = "returned" => o[i] = "returned"
    BY <1>3, <2>4
  <2>6. Len(outcome) <= Len(o)
    BY <1>1, <2>4
  <2>7. ReturnedIn(outcome) \subseteq ReturnedIn(o)
        /\ \A i \in 1..Len(states) : StateConversation(states[i], o)
    BY <1>1, <2>4, <2>5, <2>6, OthersEnd
  <2>8. StateConversation(s, o)
    <3>1. CASE s.conversation = states[k].conversation
      BY <1>3, <1>4, <2>7, <3>1 DEF StateConversation
    <3>2. CASE s.conversation # states[k].conversation
      <4>1. t \in ReturnedIn(o)
        BY <1>3, <1>4, <2>4, <3>2 DEF ReturnedIn
      <4>2. ReturnedIn(outcome) \cup {t} \subseteq ReturnedIn(o)
        BY <2>7, <4>1
      <4> QED
        BY <1>4, <3>2, <4>2, MoreTurns DEF StateConversation, Kept
    <3> QED
      BY <3>1, <3>2
  <2>9. \A i \in 1..Len(states') : StateConversation(states'[i], o)
    <3>1. PICK S : states \in Seq(S)
      BY DEF IndInv, TypeOK
    <3>2. states \in Seq(S \cup {s}) /\ s \in S \cup {s}
      BY <3>1
    <3>3. Len(states') = Len(states) /\ \A i \in 1..Len(states) : states'[i] \in {s, states[i]}
      BY <1>3, <1>4, <3>2, ExceptSeq
    <3> QED
      BY <2>7, <2>8, <3>3
  <2>10. outcome' = o
    BY <1>4 DEF o
  <2>11. \A i \in 1..Len(outcome) : o[i] = outcome[i] \/ i = t
    BY <2>4
  <2>12. /\ outcome' \in Seq(Outcomes) /\ Len(outcome) <= Len(outcome')
         /\ \A i \in 1..Len(outcome) :
               \/ outcome'[i] = outcome[i]
               \/ call[c].at \in During /\ i = call[c].turn
         /\ \A i \in 1..Len(states') : StateConversation(states'[i], outcome')
         /\ CallConversation(new, outcome') /\ Told(new)
    BY <1>2, <2>3, <2>4, <2>6, <2>9, <2>10, <2>11
  <2>13. new.at \notin During /\ policy' = policy
    BY <1>4, <2>2
  <2> QED
    BY <2>1, <2>12, <2>13, ConversationStep
<1>5. "conversation" \in DOMAIN states[k]
  BY <1>1, <1>3 DEF StateConversation
<1>6. CASE AssertPasses(c)
  <2> DEFINE conv == old.conv
             wrong == states[k].hallucinations + old.asserted
             records == Append(states[k].records, Record(c, FALSE))
             s == [states[k] EXCEPT !.conversation = conv, !.hallucinations = wrong,
                                    !.records = records]
  <2>1. /\ Ends(c, "returned") /\ policy' = policy /\ old.at = "asserting"
        /\ outcome' = [outcome EXCEPT ![t] = "returned"]
        /\ states' = [states EXCEPT ![k] = s]
    BY <1>6 DEF AssertPasses, At, State, Extended
  <2>2. "conversation" \in DOMAIN s /\ s.conversation = conv
    BY <1>5
  <2>3. /\ Messages(conv, ReturnedIn(outcome) \cup {t})
        /\ EndsWith(conv, {"answer", "summary"})
    BY <1>1, <2>1 DEF CallConversation, Ongoing, EndsWith
  <2>4. "returned" \in Outcomes
    BY DEF Outcomes
  <2> HIDE DEF s, conv
  <2> QED
    BY <1>4, <2>1, <2>2, <2>3, <2>4
<1>7. ASSUME NEW n, Failed(c, n), Ends(c, "rejected"), policy' = policy
      PROVE  ConvInv'
  <2> DEFINE failures == states[k].failures + 1
             wrong == states[k].hallucinations + n
             records == Append(states[k].records, Record(c, TRUE))
             s == [states[k] EXCEPT !.failures = failures, !.hallucinations = wrong,
                                    !.records = records]
  <2>1. outcome' = [outcome EXCEPT ![t] = "rejected"] /\ states' = [states EXCEPT ![k] = s]
    BY <1>7 DEF Failed, State
  <2>2. "conversation" \in DOMAIN s /\ s.conversation = states[k].conversation
    BY <1>5
  <2>3. "rejected" \in Outcomes
    BY DEF Outcomes
  <2> HIDE DEF s
  <2> QED
    BY <1>4, <1>7, <2>1, <2>2, <2>3
<1>8. CASE InvocationThrows(c)
  BY <1>7, <1>8 DEF InvocationThrows
<1>9. CASE AssertFails(c) /\ call[c].attempt = MaxRetries
  <2>1. MaxRetries \in Nat /\ ~(MaxRetries < MaxRetries)
    BY AgentsAssumption
  <2>2. Failed(c, call[c].asserted + 1) /\ Ends(c, "rejected") /\ policy' = policy
    BY <1>9, <2>1 DEF AssertFails
  <2> QED
    BY <1>7, <2>2
<1> QED
  BY <1>6, <1>8, <1>9

\* Every step keeps the invariant.
LEMMA NextConvInv == IndInv /\ ConvInv /\ [Next]_vars => ConvInv'
<1> SUFFICES ASSUME IndInv, ConvInv, [Next]_vars PROVE ConvInv'
  OBVIOUS
<1>1. CASE Commit \/ TerminateAll \/ Terminated \/ Exhausted \/ UNCHANGED vars
  <2>1. UNCHANGED <<policy, states, call, outcome>>
    BY <1>1 DEF Commit, TerminateAll, Terminated, Exhausted, vars
  <2> QED
    BY <2>1 DEF ConvInv
<1>2. ASSUME NEW c \in Callers,
             \/ Invoke(c) \/ Create(c) \/ ComposeFails(c) \/ CheckLimits(c)
             \/ RenderHandoff(c) \/ Reset(c) \/ Size(c) \/ ApplyPolicy(c)
      PROVE  ConvInv'
  BY <1>2, PreparingKeepsConvInv
<1>3. ASSUME NEW c \in Callers,
             \/ StartTurn(c) \/ (\E n \in CallCounts : CallTools(c, n)) \/ Answer(c)
             \/ AssertPasses(c) \/ AssertFails(c) \/ InvocationThrows(c)
      PROVE  ConvInv'
  BY <1>3, StartKeepsConvInv, GoingOnKeepsConvInv, EndingKeepsConvInv
<1> QED
  BY <1>1, <1>2, <1>3 DEF Next

\* The conversations of states and calls are made of turns.
THEOREM ConvInvHolds == Spec => []ConvInv
<1>1. Init => IndInv /\ ConvInv
  BY InitIndInv, InitConvInv
<1>2. IndInv /\ ConvInv /\ [Next]_vars => (IndInv /\ ConvInv)'
  BY NextIndInv, NextConvInv
<1> QED
  BY <1>1, <1>2, PTL DEF Spec

\* However the calls of an agent interleave, and whatever its context policy
\* drops, the conversation kept for it consists of whole turns that returned, in
\* order, with every tool call answered.
THEOREM ConversationsAreTurnsHolds == Spec => []ConversationsAreTurns
<1>1. ConvInv => ConversationsAreTurns
  <2>1. Returned = ReturnedIn(outcome)
    BY DEF Returned, ReturnedIn, Turns
  <2> QED
    BY <2>1 DEF ConvInv, ConversationsAreTurns, StateConversation, Kept, Messages
<1> QED
  BY <1>1, ConvInvHolds, PTL

\* A transport that forwards the new messages of each request tells its model
\* everything of a turn, once and in order, whatever mix of tool rounds and
\* retries the turn took.
THEOREM EachMessageIsNewOnceHolds == Spec => []EachMessageIsNewOnce
<1>1. ConvInv => EachMessageIsNewOnce
  BY DEF ConvInv, EachMessageIsNewOnce, Told, NewMessages, At
<1> QED
  BY <1>1, ConvInvHolds, PTL
=============================================================================
