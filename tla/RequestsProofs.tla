--------------------------- MODULE RequestsProofs ---------------------------
(***************************************************************************)
(* Proofs about Requests, for any processors and bounds: an asker gets the *)
(* first response to its own request, none is missed, and a settled        *)
(* request leaves nothing behind.                                          *)
(***************************************************************************)
EXTENDS Requests, TLAPS

Event == [kind : {"request", "response"}, chain : Nat, fits : BOOLEAN]
Response == [chain : Nat, at : Nat]

TypeOK ==
    /\ log \in Seq(Event) /\ draft \in [Processors -> Event]
    /\ inbox \in [Answerers -> Seq(Nat)] /\ held \in [Answerers -> Nat]
    /\ chain \in [Askers -> Nat] /\ answer \in [Askers -> Nat]
    /\ promise \in [Askers -> {"none", "pending", "rejected", "resolved"}]
    /\ got \in [Askers -> Seq(Response)]
    /\ issued \in Nat

\* Every chain in circulation belongs to a request that was made.
ChainsAreIssued ==
    /\ \A i \in 1..Len(log) : log[i].chain <= issued
    /\ \A p \in Processors : draft[p].chain <= issued
    /\ \A q \in Answerers : held[q] <= issued
    /\ \A q \in Answerers : \A i \in 1..Len(inbox[q]) : inbox[q][i] <= issued

\* A pending request is listened for, and its response has not committed.
PendingListens == \A p \in Askers : promise[p] = "pending" => p \in listening

\* What resolved a promise is the first response to its request.
Answered(c, n) == n \in 1..Len(log) /\ AnswersAt(c, n)
ResolvedByAnswer == \A p \in Askers : promise[p] = "resolved" => Answered(chain[p], answer[p])
ResumedByAnswer == \A p \in Askers : \A i \in 1..Len(got[p]) : Answered(got[p][i].chain, got[p][i].at)

\* The inductive invariant.
IndInv ==
    /\ TypeOK /\ ChainsAreIssued /\ PendingListens /\ NoAnswerIsMissed
    /\ SettledIsCleared /\ ResolvedByAnswer /\ ResumedByAnswer
-----------------------------------------------------------------------------
\* The initial state satisfies the invariant.
LEMMA InitIndInv == Init => IndInv
<1> SUFFICES ASSUME Init PROVE IndInv
  OBVIOUS
<1>1. NoEvent \in Event /\ NoEvent.chain = 0
  BY DEF NoEvent, Event
<1>2. TypeOK
  BY <1>1 DEF Init, TypeOK
<1>3. ChainsAreIssued
  BY <1>1 DEF Init, ChainsAreIssued
<1> QED BY <1>2, <1>3 DEF Init, IndInv, PendingListens, NoAnswerIsMissed,
           SettledIsCleared, ResolvedByAnswer, ResumedByAnswer

\* The log holds events.
LEMMA LogHasEvents == TypeOK => \A i \in 1..Len(log) : log[i] \in Event
  BY DEF TypeOK

\* Steps of a loop that touch neither the log nor a request keep the invariant:
\* they may only empty inboxes.
LEMMA PassiveStep ==
  ASSUME IndInv, UNCHANGED <<log, held, draft, intent, got, issued>>,
         inbox' = inbox \/ inbox' = [q \in Answerers |-> <<>>]
  PROVE  IndInv'
<1> USE DEF intent
<1>1. TypeOK'
  <2>1. inbox' \in [Answerers -> Seq(Nat)]
    <3>1. inbox \in [Answerers -> Seq(Nat)]
      BY DEF IndInv, TypeOK
    <3>2. [q \in Answerers |-> <<>>] \in [Answerers -> Seq(Nat)]
      OBVIOUS
    <3> QED BY ONLY <3>1, <3>2, inbox' = inbox \/ inbox' = [q \in Answerers |-> <<>>]
  <2>2. /\ log' = log /\ held' = held /\ draft' = draft /\ chain' = chain /\ promise' = promise
        /\ answer' = answer /\ got' = got /\ issued' = issued
    OBVIOUS
  <2> QED BY ONLY <2>1, <2>2, IndInv DEF IndInv, TypeOK
<1>2. ChainsAreIssued'
  BY DEF IndInv, ChainsAreIssued
<1>3. (PendingListens /\ NoAnswerIsMissed /\ SettledIsCleared)'
  BY DEF IndInv, PendingListens, NoAnswerIsMissed, SettledIsCleared
<1>4. (ResolvedByAnswer /\ ResumedByAnswer)'
  BY DEF IndInv, ResolvedByAnswer, ResumedByAnswer, Answered, AnswersAt
<1> QED BY <1>1, <1>2, <1>3, <1>4 DEF IndInv

\* A new request has a chain that no committed event carries.
LEMMA AskIndInv ==
  ASSUME IndInv, NEW p \in Askers, Ask(p)
  PROVE  IndInv'
<1>0. TypeOK /\ ChainsAreIssued
  BY DEF IndInv
<1>1. /\ issued' = issued + 1 /\ issued \in Nat
      /\ draft' = [draft EXCEPT ![p] = [kind |-> "request", chain |-> issued + 1, fits |-> FALSE]]
      /\ chain' = [chain EXCEPT ![p] = issued + 1]
      /\ promise' = [promise EXCEPT ![p] = "pending"]
      /\ listening' = listening \cup {p} /\ timer' \subseteq timer \cup {p}
      /\ UNCHANGED <<log, inbox, held, answer, got>>
  BY <1>0 DEF Ask, Broadcasts, TypeOK
<1>2. p \in Processors
  BY DEF Processors
<1>3. TypeOK'
  <2>1. [kind |-> "request", chain |-> issued + 1, fits |-> FALSE] \in Event
    BY <1>1 DEF Event
  <2>2. draft' \in [Processors -> Event]
    BY <1>0, <1>1, <2>1 DEF TypeOK
  <2>3. chain' \in [Askers -> Nat]
    BY <1>0, <1>1 DEF TypeOK
  <2>4. promise' \in [Askers -> {"none", "pending", "rejected", "resolved"}]
    BY <1>0, <1>1 DEF TypeOK
  <2> QED BY <1>0, <1>1, <2>2, <2>3, <2>4 DEF TypeOK
<1>4. ChainsAreIssued'
  <2>1. \A r \in Processors : draft'[r].chain <= issued + 1
    <3> TAKE r \in Processors
    <3>1. CASE r = p
      BY <1>0, <1>1, <3>1 DEF TypeOK
    <3>2. CASE r # p
      <4>1. draft'[r] = draft[r] /\ draft[r] \in Event
        BY <1>0, <1>1, <3>2 DEF TypeOK
      <4> QED BY <4>1, <1>0, <1>1 DEF ChainsAreIssued, Event
    <3> QED BY <3>1, <3>2
  <2>2. \A i \in 1..Len(log) : log[i].chain \in Nat
    BY <1>0, LogHasEvents DEF Event
  <2>3. \A q \in Answerers : \A i \in 1..Len(inbox[q]) : inbox[q][i] \in Nat
    BY <1>0 DEF TypeOK
  <2> QED BY <1>0, <1>1, <2>1, <2>2, <2>3 DEF ChainsAreIssued, TypeOK
<1>5. PendingListens' /\ SettledIsCleared'
  BY <1>0, <1>1 DEF IndInv, PendingListens, SettledIsCleared, TypeOK
<1>6. NoAnswerIsMissed'
  <2> SUFFICES ASSUME NEW r \in Askers, promise'[r] = "pending", NEW i \in 1..Len(log)
               PROVE  ~(log[i].fits /\ log[i].chain = chain'[r])
    BY <1>1 DEF NoAnswerIsMissed
  <2>1. CASE r = p
    <3>1. chain'[r] = issued + 1
      BY <1>0, <1>1, <2>1 DEF TypeOK
    <3>2. log[i].chain <= issued /\ log[i].chain \in Nat
      BY <1>0, LogHasEvents DEF ChainsAreIssued, Event
    <3> QED BY <3>1, <3>2, <1>1
  <2>2. CASE r # p
    BY <1>0, <1>1, <2>2 DEF IndInv, NoAnswerIsMissed, TypeOK
  <2> QED BY <2>1, <2>2
<1>7. ResolvedByAnswer' /\ ResumedByAnswer'
  BY <1>0, <1>1 DEF IndInv, ResolvedByAnswer, ResumedByAnswer, Answered, AnswersAt, TypeOK
<1> QED BY <1>3, <1>4, <1>5, <1>6, <1>7 DEF IndInv

\* An answerer takes a request from its inbox.
LEMMA ReadIndInv ==
  ASSUME IndInv, NEW q \in Answerers, Read(q)
  PROVE  IndInv'
<1>0. TypeOK /\ ChainsAreIssued
  BY DEF IndInv
<1>1. /\ inbox[q] \in Seq(Nat) /\ inbox[q] # <<>>
      /\ held' = [held EXCEPT ![q] = Head(inbox[q])]
      /\ inbox' = [inbox EXCEPT ![q] = Tail(inbox[q])]
      /\ UNCHANGED <<log, draft, chain, promise, answer, listening, timer, got, issued>>
  BY <1>0 DEF Read, TypeOK, intent
<1>2. Head(inbox[q]) \in Nat /\ Head(inbox[q]) <= issued /\ Tail(inbox[q]) \in Seq(Nat)
  BY <1>0, <1>1 DEF ChainsAreIssued
<1>3. \A i \in 1..Len(Tail(inbox[q])) : Tail(inbox[q])[i] <= issued
  BY <1>0, <1>1 DEF ChainsAreIssued
<1>4. TypeOK'
  BY <1>0, <1>1, <1>2 DEF TypeOK
<1>5. ChainsAreIssued'
  BY <1>0, <1>1, <1>2, <1>3 DEF ChainsAreIssued, TypeOK
<1>6. (PendingListens /\ NoAnswerIsMissed /\ SettledIsCleared)'
  BY <1>1 DEF IndInv, PendingListens, NoAnswerIsMissed, SettledIsCleared
<1>7. (ResolvedByAnswer /\ ResumedByAnswer)'
  BY <1>1 DEF IndInv, ResolvedByAnswer, ResumedByAnswer, Answered, AnswersAt
<1> QED BY <1>4, <1>5, <1>6, <1>7 DEF IndInv

\* An answerer yields a response.
LEMMA AnswerIndInv ==
  ASSUME IndInv, NEW q \in Answerers, NEW fits \in BOOLEAN, Answer(q, fits)
  PROVE  IndInv'
<1> DEFINE event == [kind |-> "response", chain |-> held[q], fits |-> fits]
<1>0. TypeOK /\ ChainsAreIssued
  BY DEF IndInv
<1>1. /\ draft' = [draft EXCEPT ![q] = event]
      /\ UNCHANGED <<log, inbox, held, chain, promise, answer, listening, timer, got, issued>>
  BY DEF Answer, Broadcasts, intent
<1>2. event \in Event /\ event.chain <= issued /\ q \in Processors
  BY <1>0 DEF Event, TypeOK, ChainsAreIssued, Processors
<1> HIDE DEF event
<1>3. TypeOK'
  BY <1>0, <1>1, <1>2 DEF TypeOK
<1>4. ChainsAreIssued'
  BY <1>0, <1>1, <1>2 DEF ChainsAreIssued, TypeOK
<1>5. (PendingListens /\ NoAnswerIsMissed /\ SettledIsCleared)'
  BY <1>1 DEF IndInv, PendingListens, NoAnswerIsMissed, SettledIsCleared
<1>6. (ResolvedByAnswer /\ ResumedByAnswer)'
  BY <1>1 DEF IndInv, ResolvedByAnswer, ResumedByAnswer, Answered, AnswersAt
<1> QED BY <1>3, <1>4, <1>5, <1>6 DEF IndInv

\* A request is answered by the first event that its listener accepts, and a
\* commit that does not answer it leaves it as it is.
LEMMA CommitIndInv ==
  ASSUME IndInv, NEW p \in Processors, Commit(p)
  PROVE  IndInv'
<1> DEFINE e == draft[p]
           answered == {r \in Askers : Hears(r, e)}
<1>0. TypeOK /\ ChainsAreIssued
  BY DEF IndInv
<1>1. /\ log' = Append(log, e)
      /\ \/ inbox' = inbox
         \/ inbox' = [q \in Answerers |-> Append(inbox[q], e.chain)]
      /\ promise' = [r \in Askers |-> IF r \in answered THEN "resolved" ELSE promise[r]]
      /\ answer' = [r \in Askers |-> IF r \in answered THEN Len(log') ELSE answer[r]]
      /\ listening' = listening \ answered /\ timer' = timer \ answered
      /\ UNCHANGED <<held, draft, chain, got, issued>>
  BY DEF Commit, TimersLeft
<1>2. e \in Event /\ e.chain \in Nat /\ e.chain <= issued
  BY <1>0 DEF TypeOK, ChainsAreIssued, Event
<1>3. \A r \in Askers : r \in answered <=> r \in listening /\ e.fits /\ e.chain = chain[r]
  BY DEF Hears
<1> HIDE DEF e, answered
<1>4. /\ log \in Seq(Event) /\ log' \in Seq(Event)
      /\ Len(log) \in Nat /\ Len(log') = Len(log) + 1
      /\ \A i \in 1..Len(log) : log'[i] = log[i]
      /\ log'[Len(log')] = e
  BY <1>0, <1>1, <1>2 DEF TypeOK
<1>5. TypeOK'
  <2>1. inbox' \in [Answerers -> Seq(Nat)]
    <3>1. inbox \in [Answerers -> Seq(Nat)]
      BY <1>0 DEF TypeOK
    <3>2. \A q \in Answerers : Append(inbox[q], e.chain) \in Seq(Nat)
      BY <3>1, <1>2
    <3>3. [q \in Answerers |-> Append(inbox[q], e.chain)] \in [Answerers -> Seq(Nat)]
      BY <3>2
    <3> QED BY ONLY <1>1, <3>1, <3>3
  <2>2. /\ promise' \in [Askers -> {"none", "pending", "rejected", "resolved"}]
        /\ answer' \in [Askers -> Nat]
    BY <1>0, <1>1, <1>4 DEF TypeOK
  <2> QED BY <1>0, <1>1, <1>4, <2>1, <2>2 DEF TypeOK
<1>6. ChainsAreIssued'
  <2>1. \A i \in 1..Len(log') : log'[i].chain <= issued
    BY <1>0, <1>2, <1>4 DEF ChainsAreIssued
  <2>2. \A q \in Answerers : \A i \in 1..Len(inbox'[q]) : inbox'[q][i] <= issued
    <3> SUFFICES ASSUME NEW q \in Answerers, inbox' # inbox
                 PROVE  \A i \in 1..Len(inbox'[q]) : inbox'[q][i] <= issued
      BY <1>0 DEF ChainsAreIssued
    <3>1. inbox'[q] = Append(inbox[q], e.chain) /\ inbox[q] \in Seq(Nat)
      BY <1>0, <1>1 DEF TypeOK
    <3> QED BY <3>1, <1>0, <1>2 DEF ChainsAreIssued
  <2> QED BY <1>0, <1>1, <2>1, <2>2 DEF ChainsAreIssued
<1>7. PendingListens' /\ SettledIsCleared'
  BY <1>1 DEF IndInv, PendingListens, SettledIsCleared
<1>8. NoAnswerIsMissed'
  <2> SUFFICES ASSUME NEW r \in Askers, promise'[r] = "pending", NEW i \in 1..Len(log')
               PROVE  ~(log'[i].fits /\ log'[i].chain = chain[r])
    BY <1>1 DEF NoAnswerIsMissed
  <2>1. r \notin answered /\ promise[r] = "pending" /\ r \in listening
    BY <1>1 DEF IndInv, PendingListens
  <2>2. CASE i \in 1..Len(log)
    BY <1>4, <2>1, <2>2 DEF IndInv, NoAnswerIsMissed
  <2>3. CASE i = Len(log')
    BY <1>3, <1>4, <2>1, <2>3
  <2> QED BY <1>4, <2>2, <2>3
<1>9. ResolvedByAnswer'
  <2> SUFFICES ASSUME NEW r \in Askers, promise'[r] = "resolved"
               PROVE  Answered(chain[r], answer[r])'
    BY <1>1 DEF ResolvedByAnswer
  <2>1. CASE r \in answered
    <3>1. promise[r] = "pending"
      BY <1>3, <2>1 DEF IndInv, SettledIsCleared
    <3>2. \A i \in 1..Len(log) : ~(log[i].fits /\ log[i].chain = chain[r])
      BY <3>1 DEF IndInv, NoAnswerIsMissed
    <3>3. answer'[r] = Len(log') /\ e.fits /\ e.chain = chain[r]
      BY <1>1, <1>3, <2>1
    <3> QED BY <1>1, <1>4, <3>2, <3>3 DEF Answered, AnswersAt
  <2>2. CASE r \notin answered
    <3>1. promise[r] = "resolved" /\ answer'[r] = answer[r] /\ chain[r] \in Nat /\ answer[r] \in Nat
      BY <1>0, <1>1, <2>2 DEF TypeOK
    <3>2. Answered(chain[r], answer[r])
      BY <3>1 DEF IndInv, ResolvedByAnswer
    <3> QED BY <1>1, <1>4, <3>1, <3>2 DEF Answered, AnswersAt
  <2> QED BY <2>1, <2>2
<1>10. ResumedByAnswer'
  <2> SUFFICES ASSUME NEW r \in Askers, NEW i \in 1..Len(got[r])
               PROVE  Answered(got[r][i].chain, got[r][i].at)'
    BY <1>1 DEF ResumedByAnswer
  <2>1. Answered(got[r][i].chain, got[r][i].at)
    BY DEF IndInv, ResumedByAnswer
  <2> QED BY <1>1, <1>4, <2>1 DEF Answered, AnswersAt
<1> QED BY <1>5, <1>6, <1>7, <1>8, <1>9, <1>10 DEF IndInv

\* The timer rejects the promise and clears what belongs to it.
LEMMA TimeoutIndInv ==
  ASSUME IndInv, NEW p \in Askers, Timeout(p)
  PROVE  IndInv'
<1>0. TypeOK
  BY DEF IndInv
<1>1. /\ timer' = timer \ {p} /\ listening' = listening \ {p}
      /\ promise' = [promise EXCEPT ![p] = "rejected"]
      /\ UNCHANGED <<log, inbox, held, draft, chain, answer, got, issued>>
  BY DEF Timeout
<1>2. TypeOK'
  <2>1. promise' \in [Askers -> {"none", "pending", "rejected", "resolved"}]
    BY <1>0, <1>1 DEF TypeOK
  <2> QED BY <1>0, <1>1, <2>1 DEF TypeOK
<1>3. ChainsAreIssued'
  BY <1>1 DEF IndInv, ChainsAreIssued
<1>4. (PendingListens /\ NoAnswerIsMissed /\ SettledIsCleared)'
  BY <1>0, <1>1 DEF IndInv, PendingListens, NoAnswerIsMissed, SettledIsCleared, TypeOK
<1>5. (ResolvedByAnswer /\ ResumedByAnswer)'
  BY <1>0, <1>1 DEF IndInv, ResolvedByAnswer, ResumedByAnswer, Answered, AnswersAt, TypeOK
<1> QED BY <1>2, <1>3, <1>4, <1>5 DEF IndInv

\* An asker that is resumed takes over what resolved its promise.
LEMMA ResumeIndInv ==
  ASSUME IndInv, NEW p \in Askers, Resume(p)
  PROVE  IndInv'
<1>0. TypeOK
  BY DEF IndInv
<1>1. /\ UNCHANGED <<log, inbox, held, draft, chain, promise, answer, listening, timer, issued>>
      /\ \/ got' = got
         \/ /\ promise[p] = "resolved"
            /\ got' = [got EXCEPT ![p] = Append(@, [chain |-> chain[p], at |-> answer[p]])]
  BY DEF Resume, intent
<1>2. got[p] \in Seq(Response) /\ [chain |-> chain[p], at |-> answer[p]] \in Response
  BY <1>0 DEF TypeOK, Response
<1>3. TypeOK'
  <2>1. got' \in [Askers -> Seq(Response)]
    <3>1. got \in [Askers -> Seq(Response)]
      BY <1>0 DEF TypeOK
    <3>2. Append(got[p], [chain |-> chain[p], at |-> answer[p]]) \in Seq(Response)
      BY <1>2
    <3> QED BY ONLY <1>1, <3>1, <3>2
  <2> QED BY <1>0, <1>1, <2>1 DEF TypeOK
<1>4. ChainsAreIssued'
  BY <1>1 DEF IndInv, ChainsAreIssued
<1>5. (PendingListens /\ NoAnswerIsMissed /\ SettledIsCleared)'
  BY <1>1 DEF IndInv, PendingListens, NoAnswerIsMissed, SettledIsCleared
<1>6. ResolvedByAnswer'
  BY <1>1 DEF IndInv, ResolvedByAnswer, Answered, AnswersAt
<1>7. ResumedByAnswer'
  <2>1. \A c, n : Answered(c, n)' <=> Answered(c, n)
    BY <1>1 DEF Answered, AnswersAt
  <2>2. \A r \in Askers : \A i \in 1..Len(got'[r]) : Answered(got'[r][i].chain, got'[r][i].at)
    <3> SUFFICES ASSUME NEW r \in Askers, NEW i \in 1..Len(got'[r])
                 PROVE  Answered(got'[r][i].chain, got'[r][i].at)
      OBVIOUS
    <3>1. CASE got'[r] = got[r]
      BY <3>1 DEF IndInv, ResumedByAnswer
    <3>2. CASE got'[r] # got[r]
      <4>1. /\ r = p /\ promise[p] = "resolved"
            /\ got'[p] = Append(got[p], [chain |-> chain[p], at |-> answer[p]])
        BY <1>0, <1>1, <3>2 DEF TypeOK
      <4>2. Answered(chain[p], answer[p])
        BY <4>1 DEF IndInv, ResolvedByAnswer
      <4>3. i \in 1..Len(got[p]) \/ got'[r][i] = [chain |-> chain[p], at |-> answer[p]]
        BY <1>2, <4>1
      <4>4. i \in 1..Len(got[p]) => got'[r][i] = got[p][i]
        BY <1>2, <4>1
      <4> QED BY <4>2, <4>3, <4>4 DEF IndInv, ResumedByAnswer
    <3> QED BY <3>1, <3>2
  <2> QED BY <2>1, <2>2 DEF ResumedByAnswer
<1> QED BY <1>3, <1>4, <1>5, <1>6, <1>7 DEF IndInv

\* Every step keeps the invariant.
LEMMA NextIndInv == IndInv /\ [Next]_vars => IndInv'
<1> SUFFICES ASSUME IndInv, [Next]_vars PROVE IndInv'
  OBVIOUS
<1>1. ASSUME NEW p \in Processors, Loop(p) \/ CommitFails(p) \/ Return(p) \/ Abort(p) \/ Finish(p)
      PROVE  IndInv'
  <2>1. /\ UNCHANGED <<log, held, draft, intent, got, issued>>
        /\ inbox' = inbox \/ inbox' = [q \in Answerers |-> <<>>]
    BY <1>1 DEF Loop, CommitFails, Return, Abort, Finish
  <2> QED BY <2>1, PassiveStep
<1>2. CASE UNCHANGED vars
  <2>1. UNCHANGED <<log, held, draft, intent, got, issued>> /\ inbox' = inbox
    BY <1>2 DEF vars
  <2> QED BY <2>1, PassiveStep
<1> QED BY <1>1, <1>2, AskIndInv, ReadIndInv, AnswerIndInv, CommitIndInv, TimeoutIndInv, ResumeIndInv
        DEF Next, Progress, Over

\* The invariant holds in every state, for any processors and bounds.
THEOREM IndInvHolds == Spec => []IndInv
<1> QED BY InitIndInv, NextIndInv, PTL DEF Spec

\* An asker is resumed with the first response to its own request.
THEOREM ResumedWithOwnAnswerHolds == Spec => []ResumedWithOwnAnswer
<1>1. IndInv => ResumedWithOwnAnswer
  BY DEF IndInv, ResumedByAnswer, Answered, ResumedWithOwnAnswer
<1> QED BY <1>1, IndInvHolds, PTL

\* A request that is pending has no response in the log.
THEOREM NoAnswerIsMissedHolds == Spec => []NoAnswerIsMissed
<1>1. IndInv => NoAnswerIsMissed
  BY DEF IndInv
<1> QED BY <1>1, IndInvHolds, PTL

\* A settled request leaves neither listener nor timer behind.
THEOREM SettledIsClearedHolds == Spec => []SettledIsCleared
<1>1. IndInv => SettledIsCleared
  BY DEF IndInv
<1> QED BY <1>1, IndInvHolds, PTL
=============================================================================
