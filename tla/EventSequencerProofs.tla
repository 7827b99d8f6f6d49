------------------------ MODULE EventSequencerProofs ------------------------
(****************************************************************************)
(* Proofs about EventSequencer for any callers and bounds: of the chain and *)
(* the numbers when a rejected append leaves the file as it was and a crash *)
(* at most a fragment, of the order of the calls whatever they leave.       *)
(****************************************************************************)
EXTENDS EventSequencer, SharedLemmas

USE DEF PCs

Locking == {c \in Clients : pc[c] = "locking"}
Quiet == \A c \in Clients : pc[c] = "announcing" => volatile[c]

FaultsAreClean == AppendFaults \subseteq {"clean"} /\ CrashTails \subseteq {"fragment"}

\* What holds whatever a failed append or a crash leaves behind.
Base == TypeOK /\ Serialised

LedgerText == [lines : Seq(Event \cup {Garbage}), terminated : BOOLEAN]

\* Garbage is no event, and an empty file reads as the genesis event.
LEMMA GarbageIsNoEvent == \A e \in Event : e # Garbage
  BY GarbageAssumption, BoundsAssumption DEF Event, Id, Genesis

\* The initial state satisfies the invariant.
LEMMA InitIndInv == Init => IndInv
<1> SUFFICES ASSUME Init PROVE IndInv
  OBVIOUS
<1>1. Inside = {} /\ Locking = {}
  BY DEF Init, Inside, Locking
<1>2. TypeOK
  <2>1. mutex \in [locked : BOOLEAN, waiters : Seq(Clients)]
    BY DEF Init, FreeMutex
  <2>2. draft \in [Clients -> Event]
    <3>1. 1 \in Id /\ 0 \in Nat
      BY BoundsAssumption DEF Id
    <3> QED BY <3>1 DEF Init, NoDraft, Event
  <2>3. file \in [lines : Seq(Event \cup {Garbage}), terminated : BOOLEAN]
    <3>1. <<>> \in Seq(Event \cup {Garbage})
      BY EmptySeq
    <3>2. file = [lines |-> <<>>, terminated |-> TRUE]
      BY DEF Init, EmptyFile
    <3> QED BY <3>1, <3>2
  <2>4. announced \in Seq(Event) /\ persisted \subseteq Event
    BY DEF Init
  <2>5. pc \in [Clients -> PCs] /\ volatile \in [Clients -> BOOLEAN]
    BY DEF Init
  <2>6. /\ hydrated \in BOOLEAN /\ lastSeq \in Nat /\ lastHash \in Id \cup {Genesis}
        /\ issued \in 0..MaxCommits /\ crashes \in 0..MaxCrashes
    <3>1. 0 \in 0..MaxCommits /\ 0 \in 0..MaxCrashes
      BY BoundsAssumption
    <3> QED BY <3>1 DEF Init
  <2> QED BY <2>1, <2>2, <2>3, <2>4, <2>5, <2>6 DEF TypeOK
<1>3. Serialised
  <2>1. Consistent(FreeMutex, {}, {})
    BY DEF Consistent, FreeMutex
  <2> QED BY <1>1, <2>1 DEF Serialised, Locking, Init
<1>4. TornTailIsLast
  BY DEF Init, TornTailIsLast, EmptyFile
<1>5. InSync
  BY DEF Init, InSync, LastLine, EmptyFile, HashOf, Genesis
<1>6. ChainIntact
  BY DEF Init, ChainIntact, Lines, EmptyFile
<1> QED BY <1>2, <1>3, <1>4, <1>5, <1>6
     DEF IndInv, Init, AnnouncedArePersisted, AnnouncedWithoutGaps

\* The invariant includes the base.
LEMMA IndInvIsBase == IndInv => Base
  BY DEF IndInv, Base

\* At most one caller is inside, and nobody inside is queued.
LEMMA OneInside ==
  ASSUME Base
  PROVE  /\ Consistent(mutex, Inside, Locking)
         /\ \A c, d \in Inside : c = d
         /\ \A c \in Inside : mutex.locked /\ Inside = {c}
  BY DEF Base, Serialised, Consistent, Locking

\* When a commit settles, the mutex goes to the next caller, which starts to
\* hydrate, and nobody else changes place.
LEMMA SettleSerialised ==
  ASSUME Base, NEW c \in Inside, Settle(c)
  PROVE  /\ mutex' \in [locked : BOOLEAN, waiters : Seq(Clients)]
         /\ pc' \in [Clients -> PCs]
         /\ Serialised'
         /\ \A d \in Clients : pc'[d] \notin {"writing", "announcing"}
<1> DEFINE woken == WokenByUnlock(mutex)
<1>1. /\ mutex' \in [locked : BOOLEAN, waiters : Seq(Clients)]
      /\ woken \subseteq Locking
      /\ Consistent(mutex', woken, Locking \ woken)
  BY OneInside, UnlockHandsOver DEF Settle, Base, TypeOK
<1>2. pc' = [d \in Clients |-> IF d \in woken THEN "hydrating"
                               ELSE IF d = c THEN "idle" ELSE pc[d]]
  BY DEF Settle
<1> HIDE DEF woken
<1>3. pc' \in [Clients -> PCs]
  BY <1>2 DEF Base, TypeOK
<1>4. Inside = {c} /\ c \notin Locking
  BY OneInside DEF Inside, Locking
<1>5. Inside' = woken
  BY <1>1, <1>2, <1>4 DEF Inside, Locking
<1>6. Locking' = Locking \ woken
  BY <1>1, <1>2, <1>4 DEF Locking
<1>7. \A d \in Clients : pc'[d] \notin {"writing", "announcing"}
  BY <1>2, <1>4 DEF Inside
<1> QED BY <1>1, <1>3, <1>5, <1>6, <1>7 DEF Serialised, Locking

\* A step of the caller inside that does not touch the mutex and leaves the
\* caller inside.
LEMMA InsideStaysSerialised ==
  ASSUME Base, NEW c \in Inside, NEW next \in {"writing", "announcing"},
         pc' = [pc EXCEPT ![c] = next], UNCHANGED mutex
  PROVE  /\ pc' \in [Clients -> PCs]
         /\ Serialised'
         /\ \A d \in Clients : d # c => pc'[d] \notin {"writing", "announcing"}
<1>1. c \in Clients /\ Inside = {c}
  BY OneInside DEF Inside
<1>2. Inside' = Inside /\ Locking' = Locking
  BY <1>1 DEF Inside, Locking, Base, TypeOK
<1>3. \A d \in Clients : d # c => pc'[d] \notin {"writing", "announcing"}
  BY <1>1 DEF Inside, Base, TypeOK
<1> QED BY <1>1, <1>2, <1>3 DEF Serialised, Locking, Base, TypeOK

\* The last line of the ledger is read as an event or as garbage.
LEMMA LastLineRead ==
  ASSUME NEW f \in LedgerText
  PROVE  LastLine(f) \in [id : Id \cup {Genesis}, seq : Nat, prev : Id \cup {Genesis}]
           \/ LastLine(f) = Garbage
<1>1. CASE f.lines = <<>>
  BY <1>1 DEF LastLine, Genesis
<1>2. CASE f.lines # <<>>
  <2>1. f.lines \in Seq(Event \cup {Garbage})
    BY DEF LedgerText
  <2>2. f.lines[Len(f.lines)] \in Event \cup {Garbage}
    BY <1>2, <2>1, LenProperties, EmptySeq, ElementOfSeq
  <2> QED BY <1>2, <2>2 DEF LastLine, Event
<1> QED BY <1>1, <1>2

\* Whatever is appended, the ledger stays a sequence of events and garbage.
LEMMA AddTextTyped ==
  ASSUME NEW f \in LedgerText, NEW line \in Event \cup {Garbage}, NEW ends \in BOOLEAN
  PROVE  AddText(f, line, ends) \in LedgerText
<1> DEFINE S == Event \cup {Garbage}
           s == f.lines
<1>1. s \in Seq(S) /\ line \in S /\ Garbage \in S
  BY DEF LedgerText
<1> HIDE DEF S, s
<1>2. Append(s, line) \in Seq(S)
  BY <1>1, AppendProperties
<1>3. [s EXCEPT ![Len(s)] = Garbage] \in Seq(S)
  <2>1. CASE s = <<>>
    <3>1. [s EXCEPT ![Len(s)] = Garbage] = s
      BY <2>1
    <3> QED BY <1>1, <3>1
  <2>2. CASE s # <<>>
    <3>1. Len(s) \in 1..Len(s)
      BY <1>1, <2>2, LenProperties, EmptySeq
    <3> QED BY <1>1, <3>1, ExceptSeq
  <2> QED BY <2>1, <2>2
<1> DEFINE text == IF f.terminated THEN Append(s, line) ELSE [s EXCEPT ![Len(s)] = Garbage]
<1>4. text \in Seq(S)
  BY <1>2, <1>3
<1>5. AddText(f, line, ends) = [lines |-> text, terminated |-> ends]
  BY DEF AddText, s
<1> HIDE DEF text
<1> QED BY <1>4, <1>5 DEF LedgerText, S

\* Joining the mutex keeps the types and the mutual exclusion.
LEMMA CommitBase ==
  ASSUME Base, NEW c \in Clients, NEW v \in BOOLEAN, Commit(c, v)
  PROVE  Base'
<1> USE DEF Base, TypeOK
<1>1. /\ pc[c] = "idle" /\ c \notin Inside /\ c \notin Locking
      /\ Consistent(mutex, Inside, Locking)
  BY OneInside DEF Commit, Inside, Locking
<1>2. /\ mutex' \in [locked : BOOLEAN, waiters : Seq(Clients)]
      /\ Consistent(mutex', Inside', Locking')
  <2>1. CASE mutex.locked
    <3>1. Inside' = Inside /\ Locking' = Locking \cup {c}
      BY <2>1, <1>1 DEF Commit, Inside, Locking
    <3> QED BY <2>1, <3>1, <1>1, LockTaken DEF Commit
  <2>2. CASE ~mutex.locked
    <3>1. Inside = {} /\ Locking = {}
      <4>1. mutex \in [locked : BOOLEAN, waiters : Seq(Clients)]
        OBVIOUS
      <4> QED BY ONLY <2>2, <1>1, <4>1, c \in Clients, LockFree
    <3>2. Inside' = {c} /\ Locking' = Locking
      BY <2>2, <3>1 DEF Commit, Inside, Locking
    <3> QED BY <2>2, <3>2, <1>1, LockFree DEF Commit
  <2> QED BY <2>1, <2>2
<1>3. issued' \in Id /\ issued' \in 0..MaxCommits
  BY BoundsAssumption DEF Commit, Id
<1>4. draft' \in [Clients -> Event] /\ volatile' \in [Clients -> BOOLEAN]
  <2> DEFINE x == [draft[c] EXCEPT !.id = issued + 1]
  <2>1. draft' = [draft EXCEPT ![c] = x] /\ x \in Event
    <3>1. draft[c] \in Event /\ issued + 1 \in Id
      BY <1>3 DEF Commit
    <3> QED BY <3>1 DEF Commit, Event
  <2>2. draft \in [Clients -> Event] /\ volatile' \in [Clients -> BOOLEAN]
    BY DEF Commit
  <2> HIDE DEF x
  <2> QED BY ONLY <2>1, <2>2
<1>5. TypeOK'
  BY <1>2, <1>3, <1>4 DEF Commit, memory
<1> QED BY <1>2, <1>5 DEF Serialised, Locking

\* Joining the mutex changes nothing that the counters or the ledger speak of.
LEMMA CommitIndInv ==
  ASSUME IndInv, NEW c \in Clients, NEW v \in BOOLEAN, Commit(c, v)
  PROVE  IndInv'
<1> USE DEF IndInv
<1>1. pc[c] = "idle" /\ Base'
  BY IndInvIsBase, CommitBase DEF Commit
<1>2. UNCHANGED <<hydrated, lastSeq, lastHash, announced, file, persisted>>
  BY DEF Commit, memory
<1>3. \A d \in Clients : pc'[d] \in {"writing", "announcing"} =>
        d # c /\ pc[d] = pc'[d] /\ draft'[d] = draft[d] /\ volatile'[d] = volatile[d]
  BY <1>1 DEF Commit, TypeOK
<1>4. InSync'
  <2>1. Quiet' => Quiet
    BY <1>1 DEF Quiet, Commit, TypeOK
  <2> QED BY <1>2, <1>3, <2>1 DEF InSync, Quiet, Lines
<1>5. ChainIntact' /\ AnnouncedArePersisted' /\ AnnouncedWithoutGaps' /\ TornTailIsLast'
  BY <1>2 DEF ChainIntact, AnnouncedArePersisted, AnnouncedWithoutGaps, TornTailIsLast, Lines
<1> QED BY <1>1, <1>4, <1>5 DEF Base

\* The counters are restored from a last line that is an event.
LEMMA StampBase ==
  ASSUME Base, NEW c \in Clients, Stamp(c)
  PROVE  /\ Base'
         /\ c \in Inside /\ Inside = {c} /\ hydrated'
         /\ \A d \in Clients : d # c => pc'[d] \notin {"writing", "announcing"}
<1> USE DEF Base, TypeOK
<1>1. c \in Inside /\ Inside = {c}
  BY OneInside DEF Stamp, Inside
<1> DEFINE next == IF volatile[c] THEN "announcing" ELSE "writing"
<1>2. next \in {"writing", "announcing"} /\ pc' = [pc EXCEPT ![c] = next]
  BY DEF Stamp
<1>3. /\ pc' \in [Clients -> PCs] /\ Serialised'
      /\ \A d \in Clients : d # c => pc'[d] \notin {"writing", "announcing"}
  <2> HIDE DEF next
  <2> QED BY <1>1, <1>2, InsideStaysSerialised DEF Stamp
<1>4. /\ UNCHANGED <<mutex, volatile, file, announced, persisted, issued, crashes>>
      /\ hydrated'
  BY DEF Stamp, Restore
<1>5. lastSeq' \in Nat /\ lastHash' \in Id \cup {Genesis}
  <2>1. CASE hydrated
    BY <2>1 DEF Stamp, Restore
  <2>2. CASE ~hydrated
    <3>1. lastSeq' = LastLine(file).seq /\ lastHash' = LastLine(file).id
      BY <2>2 DEF Stamp, Restore, HashOf
    <3>2. LastLine(file) # Garbage /\ file \in LedgerText
      BY <2>2 DEF Stamp, LedgerText
    <3> QED BY <3>1, <3>2, LastLineRead
  <2> QED BY <2>1, <2>2
<1>6. draft' \in [Clients -> Event]
  <2>1. draft[c].id \in Id
    BY DEF Event
  <2>2. lastSeq' + 1 \in Nat
    <3>1. \A n \in Nat : n + 1 \in Nat
      OBVIOUS
    <3> QED BY ONLY <1>5, <3>1
  <2>3. [id |-> draft[c].id, seq |-> lastSeq' + 1, prev |-> lastHash'] \in Event
    BY <1>5, <2>1, <2>2 DEF Event
  <2> QED BY <2>3 DEF Stamp
<1>7. TypeOK'
  <2>1. hydrated' \in BOOLEAN
    BY DEF Stamp, Restore
  <2> QED BY <1>3, <1>4, <1>5, <1>6, <2>1
<1> QED BY <1>1, <1>3, <1>4, <1>7

\* The stamp carries the restored counters.
LEMMA StampIndInv ==
  ASSUME IndInv, NEW c \in Clients, Stamp(c)
  PROVE  IndInv'
<1> USE DEF IndInv
<1>1. /\ Base' /\ Inside = {c} /\ hydrated'
      /\ \A d \in Clients : d # c => pc'[d] \notin {"writing", "announcing"}
  BY IndInvIsBase, StampBase
<1>2. UNCHANGED <<mutex, volatile, file, announced, persisted, issued, crashes>>
  BY DEF Stamp
<1>3. draft' = [draft EXCEPT ![c] = [id |-> draft[c].id, seq |-> lastSeq' + 1,
                                     prev |-> lastHash']]
  BY DEF Stamp
<1>4. lastHash' = HashOf(LastLine(file)) /\ LastLine(file).seq <= lastSeq'
  <2>1. CASE hydrated
    <3>1. Quiet
      BY <1>1 DEF Quiet, Inside, Stamp
    <3> QED BY <2>1, <3>1 DEF Stamp, Restore, InSync, Quiet
  <2>2. CASE ~hydrated
    <3>1. lastSeq' \in Nat
      BY <1>1 DEF Base, TypeOK
    <3> QED BY <2>2, <3>1 DEF Stamp, Restore
  <2> QED BY <2>1, <2>2
<1>5. file.terminated
  BY DEF Stamp, TornTailIsLast
<1>6. InSync'
  <2>1. draft'[c].seq = lastSeq' + 1 /\ draft'[c].prev = lastHash'
    BY <1>3 DEF TypeOK
  <2>2. pc'[c] = IF volatile'[c] THEN "announcing" ELSE "writing"
    BY DEF Stamp, TypeOK
  <2>3. announced # <<>> => announced[Len(announced)].seq = lastSeq'
    BY DEF InSync, Stamp, Restore
  <2> QED BY <1>1, <1>2, <1>4, <2>1, <2>2, <2>3 DEF InSync
<1>7. TornTailIsLast' /\ ChainIntact' /\ AnnouncedArePersisted' /\ AnnouncedWithoutGaps'
  BY <1>2, <1>5 DEF TornTailIsLast, ChainIntact, AnnouncedArePersisted, AnnouncedWithoutGaps, Lines
<1> QED BY <1>1, <1>6, <1>7 DEF Base

\* A failed read of the last line, or a rejected append, changes nothing but
\* the owner of the mutex and, perhaps, the end of the file.
LEMMA FailsBase ==
  ASSUME Base, NEW c \in Clients, HydrationFails(c) \/ WriteFails(c)
  PROVE  /\ Base'
         /\ c \in Inside /\ Settle(c)
         /\ UNCHANGED <<draft, volatile, hydrated, lastSeq, lastHash, announced,
                        persisted, issued, crashes>>
<1>1. /\ c \in Inside /\ Settle(c)
      /\ UNCHANGED <<draft, volatile, hydrated, lastSeq, lastHash, announced,
                     persisted, issued, crashes>>
  BY DEF HydrationFails, WriteFails, Inside, memory
<1>2. /\ mutex' \in [locked : BOOLEAN, waiters : Seq(Clients)]
      /\ pc' \in [Clients -> PCs] /\ Serialised'
  BY <1>1, SettleSerialised
<1>3. file' \in LedgerText
  <2>1. file \in LedgerText /\ draft[c] \in Event \cup {Garbage} /\ Garbage \in Event \cup {Garbage}
    BY DEF Base, TypeOK, LedgerText
  <2>2. ASSUME NEW fault, file' = TornAppend(file, draft[c], fault)
        PROVE  file' \in LedgerText
    BY <2>1, <2>2, AddTextTyped DEF TornAppend
  <2> QED BY <2>1, <2>2 DEF HydrationFails, WriteFails
<1>4. TypeOK'
  BY <1>1, <1>2, <1>3 DEF Base, TypeOK, LedgerText
<1> QED BY <1>1, <1>2, <1>4 DEF Base

\* A failed read of the last line leaves the counters unset.
LEMMA HydrationFailsIndInv ==
  ASSUME IndInv, NEW c \in Clients, HydrationFails(c)
  PROVE  IndInv'
<1>1. Base' /\ \A d \in Clients : pc'[d] \notin {"writing", "announcing"}
  BY IndInvIsBase, FailsBase, SettleSerialised
<1>2. /\ UNCHANGED <<draft, volatile, hydrated, lastSeq, lastHash, announced, file,
                     persisted, issued, crashes>>
      /\ ~hydrated
  BY DEF HydrationFails, memory
<1>3. InSync'
  BY <1>1, <1>2 DEF IndInv, InSync
<1>4. TornTailIsLast' /\ ChainIntact' /\ AnnouncedArePersisted' /\ AnnouncedWithoutGaps'
  BY <1>2 DEF IndInv, TornTailIsLast, ChainIntact, AnnouncedArePersisted,
              AnnouncedWithoutGaps, Lines
<1> QED BY <1>1, <1>3, <1>4 DEF IndInv, Base

\* A rejected append that left the file as it was changes nothing but the
\* owner of the mutex.
LEMMA WriteFailsIndInv ==
  ASSUME IndInv, NEW c \in Clients, WriteFails(c), FaultsAreClean
  PROVE  IndInv'
<1>1. Base' /\ \A d \in Clients : pc'[d] \notin {"writing", "announcing"}
  BY IndInvIsBase, FailsBase, SettleSerialised
<1>2. UNCHANGED <<draft, volatile, hydrated, lastSeq, lastHash, announced, file,
                  persisted, issued, crashes>>
  BY DEF WriteFails, memory, FaultsAreClean
<1>3. InSync'
  <2>1. Quiet
    <3>1. Inside = {c} /\ pc[c] = "writing"
      BY IndInvIsBase, OneInside DEF WriteFails, Inside
    <3> QED BY <3>1 DEF Quiet, Inside
  <2> QED BY <1>1, <1>2, <2>1 DEF IndInv, InSync, Quiet
<1>4. TornTailIsLast' /\ ChainIntact' /\ AnnouncedArePersisted' /\ AnnouncedWithoutGaps'
  BY <1>2 DEF IndInv, TornTailIsLast, ChainIntact, AnnouncedArePersisted,
              AnnouncedWithoutGaps, Lines
<1> QED BY <1>1, <1>3, <1>4 DEF IndInv, Base

\* An append keeps the types, whatever the file ended with.
LEMMA WriteBase ==
  ASSUME Base, NEW c \in Clients, Write(c)
  PROVE  /\ Base'
         /\ c \in Inside /\ Inside = {c}
         /\ UNCHANGED <<mutex, draft, volatile, hydrated, lastSeq, lastHash, announced,
                        persisted, issued, crashes>>
         /\ \A d \in Clients : d # c => pc'[d] \notin {"writing", "announcing"}
         /\ pc'[c] = "announcing"
<1>1. c \in Inside /\ Inside = {c}
  BY OneInside DEF Write, Inside
<1>2. UNCHANGED <<mutex, draft, volatile, hydrated, lastSeq, lastHash, announced,
                  persisted, issued, crashes>>
  BY DEF Write, memory
<1>3. /\ pc' \in [Clients -> PCs] /\ Serialised'
      /\ \A d \in Clients : d # c => pc'[d] \notin {"writing", "announcing"}
      /\ pc'[c] = "announcing"
  BY <1>1, <1>2, InsideStaysSerialised DEF Write, Base, TypeOK
<1>4. file' \in LedgerText
  <2>1. file \in LedgerText /\ draft[c] \in Event \cup {Garbage}
    BY DEF Base, TypeOK, LedgerText
  <2> QED BY <2>1, AddTextTyped DEF Write, AppendJsonl
<1>5. TypeOK'
  BY <1>2, <1>3, <1>4 DEF Base, TypeOK, LedgerText
<1> QED BY <1>1, <1>2, <1>3, <1>5 DEF Base

\* An append extends the chain by the draft, which was stamped with the
\* number and the hash that are still current.
LEMMA WriteIndInv ==
  ASSUME IndInv, NEW c \in Clients, Write(c)
  PROVE  IndInv'
<1>1. /\ Base' /\ Inside = {c} /\ Quiet
      /\ \A d \in Clients : d # c => pc'[d] \notin {"writing", "announcing"}
      /\ pc'[c] = "announcing"
  <2>1. Inside = {c} /\ pc[c] = "writing"
    BY IndInvIsBase, WriteBase DEF Write
  <2> QED BY <2>1, IndInvIsBase, WriteBase DEF Quiet, Inside
<1>2. /\ hydrated /\ draft[c].seq = lastSeq + 1 /\ draft[c].prev = lastHash /\ ~volatile[c]
      /\ lastHash = HashOf(LastLine(file)) /\ LastLine(file).seq <= lastSeq
  BY <1>1 DEF IndInv, InSync, Write, Quiet
<1>3. /\ file \in LedgerText
      /\ file.terminated /\ draft[c] \in Event /\ lastSeq \in Nat
  BY <1>2 DEF IndInv, TypeOK, TornTailIsLast, LedgerText
<1>4. UNCHANGED <<mutex, draft, volatile, hydrated, lastSeq, lastHash, announced,
                  persisted, issued, crashes>>
  BY DEF Write, memory
<1>5. /\ file'.terminated
      /\ Len(file'.lines) = Len(file.lines) + 1 /\ Len(file.lines) \in Nat
      /\ file'.lines[Len(file.lines) + 1] = draft[c]
      /\ \A i \in 1..Len(file.lines) : file'.lines[i] = file.lines[i]
  <2>1. file' = [lines |-> Append(file.lines, draft[c]), terminated |-> TRUE]
    BY <1>3 DEF Write, AppendJsonl, AddText
  <2>2. file'.lines = Append(file.lines, draft[c]) /\ file'.terminated
    BY <2>1
  <2>3. draft[c] \in Event \cup {Garbage} /\ file.lines \in Seq(Event \cup {Garbage})
    BY <1>3 DEF LedgerText
  <2>4. /\ file'.lines \in Seq(Event \cup {Garbage})
        /\ Len(file'.lines) = Len(file.lines) + 1 /\ Len(file.lines) \in Nat
        /\ file'.lines[Len(file.lines) + 1] = draft[c]
        /\ \A i \in 1..Len(file.lines) : file'.lines[i] = file.lines[i]
    BY ONLY <2>2, <2>3, AppendProperties
  <2> QED BY <2>2, <2>4
<1>6. Lines' # <<>> /\ LastLine(file') = draft[c]
  BY <1>5 DEF LastLine, Lines
<1>7. TornTailIsLast'
  BY <1>5 DEF TornTailIsLast
<1>8. InSync'
  <2>1. \A d \in Clients : pc'[d] \in {"writing", "announcing"} => d = c
    BY <1>1
  <2>2. announced # <<>> => announced[Len(announced)].seq = lastSeq
    BY DEF IndInv, InSync
  <2> QED BY <1>2, <1>1, <1>4, <1>6, <2>1, <2>2 DEF InSync
<1>9. ChainIntact'
  <2> DEFINE n == Len(file.lines)
  <2>1. draft[c] # Garbage /\ draft[c].seq \in Nat
    BY <1>3, GarbageIsNoEvent DEF Event
  <2>2. /\ draft[c].prev = IF n + 1 = 1 THEN Genesis ELSE HashOf(file.lines[n])
        /\ draft[c].seq > IF n + 1 = 1 THEN 0 ELSE file.lines[n].seq
    <3>1. CASE n = 0
      <4>1. file.lines = <<>>
        BY <3>1, <1>3, EmptySeq
      <4> QED BY <3>1, <4>1, <1>2, <1>3 DEF LastLine, HashOf
    <3>2. CASE n # 0
      <4>1. file.lines # <<>> /\ LastLine(file) = file.lines[n]
        BY <3>2 DEF LastLine
      <4>2. file.lines[n] \in Event
        <5>1. n \in 1..n /\ file.lines[n] \in Event \cup {Garbage}
          <6>1. file.lines \in Seq(Event \cup {Garbage})
            BY <1>3 DEF LedgerText
          <6> QED BY <3>2, <6>1, <1>5, ElementOfSeq
        <5>2. file.lines[n] # Garbage
          BY <5>1, <1>3 DEF IndInv, ChainIntact, Lines, Linked
        <5> QED BY <5>1, <5>2
      <4>3. file.lines[n].seq \in Nat
        BY <4>2 DEF Event
      <4> QED BY <3>2, <4>1, <4>3, <1>2, <1>3, <1>5
    <3> QED BY <3>1, <3>2
  <2>3. n \in Nat /\ file'.lines[n + 1] = draft[c]
        /\ \A j \in 1..n : file'.lines[j] = file.lines[j]
    BY <1>5
  <2>4. \A i \in 1..n : Linked(file.lines, i)
    BY <1>3 DEF IndInv, ChainIntact, Lines
  <2> HIDE DEF n
  <2>5. \A i \in 1..n : Linked(file'.lines, i)
    <3> SUFFICES ASSUME NEW i \in 1..n
                 PROVE  Linked(file'.lines, i)
      OBVIOUS
    <3>1. Linked(file.lines, i) /\ file'.lines[i] = file.lines[i]
      BY <2>3, <2>4
    <3>2. i # 1 => file'.lines[i - 1] = file.lines[i - 1]
      BY <2>3
    <3> QED BY <3>1, <3>2 DEF Linked
  <2>6. Linked(file'.lines, n + 1)
    <3>1. n # 0 => file'.lines[n + 1 - 1] = file.lines[n] /\ n + 1 - 1 = n
      BY <2>3
    <3> QED BY <2>1, <2>2, <2>3, <3>1 DEF Linked
  <2>7. \A i \in 1..(n + 1) : Linked(file'.lines, i)
    BY <2>3, <2>5, <2>6
  <2>8. Len(file'.lines) = n + 1
    BY <1>5 DEF n
  <2> QED BY <2>7, <2>8 DEF ChainIntact, Lines
<1>10. AnnouncedArePersisted'
  <2> SUFFICES ASSUME NEW e \in persisted
               PROVE  \E i \in 1..Len(file'.lines) : file'.lines[i] = e
    BY <1>4 DEF AnnouncedArePersisted, Lines
  <2>1. PICK i \in 1..Len(file.lines) : file.lines[i] = e
    BY DEF IndInv, AnnouncedArePersisted, Lines
  <2>2. i \in 1..Len(file'.lines)
    BY <1>5
  <2> QED BY <1>5, <2>1, <2>2
<1>11. AnnouncedWithoutGaps'
  BY <1>4 DEF IndInv, AnnouncedWithoutGaps
<1> QED BY <1>1, <1>7, <1>8, <1>9, <1>10, <1>11 DEF IndInv, Base

\* An announcement settles the commit and keeps the types.
LEMMA AnnounceBase ==
  ASSUME Base, NEW c \in Clients, Announce(c)
  PROVE  /\ Base'
         /\ c \in Inside /\ Inside = {c} /\ Settle(c)
         /\ UNCHANGED <<draft, volatile, hydrated, file, issued, crashes>>
         /\ \A d \in Clients : pc'[d] \notin {"writing", "announcing"}
<1>1. /\ c \in Inside /\ Inside = {c} /\ Settle(c)
      /\ UNCHANGED <<draft, volatile, hydrated, file, issued, crashes>>
  BY OneInside DEF Announce, Inside
<1>2. /\ mutex' \in [locked : BOOLEAN, waiters : Seq(Clients)]
      /\ pc' \in [Clients -> PCs] /\ Serialised'
      /\ \A d \in Clients : pc'[d] \notin {"writing", "announcing"}
  BY <1>1, SettleSerialised
<1>3. /\ draft[c] \in Event /\ draft[c].seq \in Nat /\ draft[c].id \in Id
  BY DEF Base, TypeOK, Event
<1>4. announced' \in Seq(Event)
  <2>1. announced \in Seq(Event) /\ announced' = Append(announced, draft[c])
    BY DEF Announce, Base, TypeOK
  <2> QED BY ONLY <2>1, <1>3, AppendProperties
<1>5. lastHash' \in Id \cup {Genesis} /\ persisted' \subseteq Event /\ lastSeq' \in Nat
  BY <1>3 DEF Announce, HashAfter, HashOf, Base, TypeOK
<1>6. TypeOK'
  BY <1>1, <1>2, <1>4, <1>5 DEF Base, TypeOK
<1> QED BY <1>1, <1>2, <1>6 DEF Base

\* The counters catch up with the event that was just written, or skip it when
\* it is volatile, and the event joins the announced ones.
LEMMA AnnounceIndInv ==
  ASSUME IndInv, NEW c \in Clients, Announce(c)
  PROVE  IndInv'
<1>1. /\ Base' /\ Inside = {c}
      /\ \A d \in Clients : pc'[d] \notin {"writing", "announcing"}
  BY IndInvIsBase, AnnounceBase
<1>2. UNCHANGED <<draft, volatile, hydrated, file, issued, crashes>>
  BY DEF Announce
<1>3. /\ hydrated /\ draft[c].seq = lastSeq + 1 /\ draft[c].prev = lastHash
      /\ lastSeq \in Nat /\ draft[c] \in Event
      /\ ~volatile[c] => Lines # <<>> /\ LastLine(file) = draft[c]
  BY DEF Announce, IndInv, InSync, TypeOK
<1>4. /\ lastSeq' = lastSeq + 1 /\ lastSeq' = draft[c].seq
      /\ lastHash' = IF volatile[c] THEN lastHash ELSE HashOf(draft[c])
      /\ announced' = Append(announced, draft[c])
      /\ persisted' = IF volatile[c] THEN persisted ELSE persisted \cup {draft[c]}
  BY <1>3 DEF Announce, HashAfter
<1>5. /\ announced \in Seq(Event) /\ announced' \in Seq(Event)
      /\ Len(announced) \in Nat /\ Len(announced') = Len(announced) + 1
      /\ announced'[Len(announced) + 1] = draft[c]
      /\ \A i \in 1..Len(announced) : announced'[i] = announced[i]
  <2>1. announced \in Seq(Event)
    BY DEF IndInv, TypeOK
  <2> QED BY ONLY <2>1, <1>3, <1>4, AppendProperties
<1>6. InSync'
  <2>1. lastHash' = HashOf(LastLine(file)) /\ LastLine(file).seq <= lastSeq'
    <3>1. CASE volatile[c]
      <4>1. Quiet
        BY <1>1, <3>1 DEF Quiet, Inside
      <4>2. lastHash = HashOf(LastLine(file)) /\ LastLine(file).seq <= lastSeq
        BY <1>3, <4>1 DEF IndInv, InSync, Quiet
      <4>3. LastLine(file).seq \in Nat
        <5>1. CASE file.lines = <<>>
          BY <5>1 DEF LastLine
        <5>2. CASE file.lines # <<>>
          <6>1. file.lines \in Seq(Event \cup {Garbage}) /\ file.terminated
            BY <1>3 DEF IndInv, TypeOK, TornTailIsLast
          <6>2. Len(file.lines) \in 1..Len(file.lines)
            BY <5>2, <6>1, LenProperties, EmptySeq
          <6>3. file.lines[Len(file.lines)] \in Event
            BY <6>1, <6>2, ElementOfSeq DEF IndInv, ChainIntact, Linked, Lines
          <6> QED BY <5>2, <6>3 DEF LastLine, Event
        <5> QED BY <5>1, <5>2
      <4> QED BY <3>1, <4>2, <4>3, <1>3, <1>4
    <3>2. CASE ~volatile[c]
      <4>1. draft[c].seq \in Nat
        BY <1>3 DEF Event
      <4> QED BY <3>2, <4>1, <1>3, <1>4
    <3> QED BY <3>1, <3>2
  <2>2. announced'[Len(announced')].seq = lastSeq'
    BY <1>4, <1>5
  <2> QED BY <1>1, <1>2, <1>3, <2>1, <2>2 DEF InSync
<1>7. AnnouncedWithoutGaps'
  <2> SUFFICES ASSUME NEW i \in 1..Len(announced') - 1
               PROVE  announced'[i + 1].seq = announced'[i].seq + 1
    BY DEF AnnouncedWithoutGaps
  <2>1. CASE i = Len(announced)
    <3>1. announced # <<>> /\ announced'[i] = announced[i]
      BY <1>5, <2>1
    <3>2. announced[i].seq = lastSeq
      BY <2>1, <3>1 DEF IndInv, InSync
    <3> QED BY <1>3, <1>5, <2>1, <3>1, <3>2
  <2>2. CASE i # Len(announced)
    <3>1. i \in 1..Len(announced) - 1 /\ i \in 1..Len(announced) /\ i + 1 \in 1..Len(announced)
      BY <1>5, <2>2
    <3> QED BY <1>5, <3>1 DEF IndInv, AnnouncedWithoutGaps
  <2> QED BY <2>1, <2>2
<1>8. AnnouncedArePersisted'
  <2> SUFFICES ASSUME NEW e \in persisted'
               PROVE  \E i \in 1..Len(file.lines) : file.lines[i] = e
    BY <1>2 DEF AnnouncedArePersisted, Lines
  <2>1. CASE e \in persisted
    BY <2>1 DEF IndInv, AnnouncedArePersisted, Lines
  <2>2. CASE ~volatile[c] /\ e = draft[c]
    <3>1. file.lines # <<>> /\ file.lines[Len(file.lines)] = e
      BY <2>2, <1>3 DEF LastLine, Lines
    <3>2. file.lines \in Seq(Event \cup {Garbage})
      BY DEF IndInv, TypeOK
    <3> QED BY <3>1, <3>2, LenProperties, EmptySeq
  <2> QED BY <1>4, <2>1, <2>2
<1>9. TornTailIsLast' /\ ChainIntact'
  BY <1>2, <1>3 DEF IndInv, TornTailIsLast, ChainIntact, Lines
<1> QED BY <1>1, <1>6, <1>7, <1>8, <1>9 DEF IndInv, Base

\* A crash starts the process again, with whatever it left in the file.
LEMMA CrashBase ==
  ASSUME Base, Crash
  PROVE  Base'
<1>1. /\ mutex' = FreeMutex /\ pc' = [c \in Clients |-> "idle"] /\ draft' = NoDraft
      /\ volatile' = [c \in Clients |-> FALSE] /\ hydrated' = FALSE /\ lastSeq' = 0
      /\ lastHash' = Genesis /\ announced' = <<>> /\ persisted' = persisted
      /\ issued' = issued /\ crashes' \in 0..MaxCrashes
  BY BoundsAssumption DEF Crash, Base, TypeOK
<1>2. Serialised' /\ mutex' \in [locked : BOOLEAN, waiters : Seq(Clients)]
  <2>1. Inside' = {} /\ Locking' = {}
    BY <1>1 DEF Inside, Locking
  <2>2. Consistent(FreeMutex, {}, {}) /\ FreeMutex \in [locked : BOOLEAN, waiters : Seq(Clients)]
    BY DEF Consistent, FreeMutex
  <2> QED BY <1>1, <2>1, <2>2 DEF Serialised, Locking
<1>3. /\ pc' \in [Clients -> PCs] /\ draft' \in [Clients -> Event]
      /\ volatile' \in [Clients -> BOOLEAN] /\ lastHash' \in Id \cup {Genesis}
      /\ hydrated' \in BOOLEAN /\ lastSeq' \in Nat /\ announced' \in Seq(Event)
      /\ persisted' \subseteq Event /\ issued' \in 0..MaxCommits
  <2>1. 1 \in Id /\ 0 \in Nat
    BY BoundsAssumption DEF Id
  <2>2. draft' \in [Clients -> Event]
    BY <1>1, <2>1 DEF NoDraft, Event
  <2>3. <<>> \in Seq(Event) /\ issued \in 0..MaxCommits /\ persisted \subseteq Event
    BY DEF Base, TypeOK
  <2> QED BY <1>1, <2>2, <2>3
<1>4. file' \in LedgerText
  <2>1. file \in LedgerText
    BY DEF Base, TypeOK, LedgerText
  <2>2. ASSUME NEW c \in Clients, NEW tail \in CrashTails, file' = TornAppend(file, draft[c], tail)
        PROVE  file' \in LedgerText
    <3>1. draft[c] \in Event \cup {Garbage} /\ Garbage \in Event \cup {Garbage}
      BY DEF Base, TypeOK
    <3> QED BY <2>1, <2>2, <3>1, AddTextTyped DEF TornAppend
  <2> QED BY <2>1, <2>2 DEF Crash
<1>5. TypeOK'
  BY <1>1, <1>2, <1>3, <1>4 DEF TypeOK, LedgerText
<1> QED BY <1>2, <1>5 DEF Base

\* A crash forgets the counters and leaves at most a fragment at the end of the
\* ledger, behind a line that was complete.
LEMMA CrashIndInv ==
  ASSUME IndInv, Crash, FaultsAreClean
  PROVE  IndInv'
<1>1. /\ mutex' = FreeMutex /\ pc' = [c \in Clients |-> "idle"] /\ draft' = NoDraft
      /\ volatile' = [c \in Clients |-> FALSE] /\ hydrated' = FALSE /\ lastSeq' = 0
      /\ lastHash' = Genesis /\ announced' = <<>> /\ persisted' = persisted
      /\ issued' = issued /\ crashes' \in 0..MaxCrashes
  BY BoundsAssumption DEF Crash, IndInv, TypeOK
<1>2. file \in LedgerText
  BY DEF IndInv, TypeOK, LedgerText
<1>3. \/ file' = file
      \/ file.terminated /\ file' = [lines |-> Append(file.lines, Garbage), terminated |-> FALSE]
  <2>1. CASE file' = file
    BY <2>1
  <2>2. ASSUME NEW c \in Clients, NEW tail \in CrashTails,
               pc[c] = "writing", file' = TornAppend(file, draft[c], tail)
        PROVE  file.terminated /\ file' = [lines |-> Append(file.lines, Garbage), terminated |-> FALSE]
    <3>1. file.terminated
      BY <2>2 DEF IndInv, InSync, TornTailIsLast
    <3>2. tail = "fragment"
      BY <2>2 DEF FaultsAreClean
    <3> QED BY <2>2, <3>1, <3>2 DEF TornAppend, AddText
  <2> QED BY <2>1, <2>2 DEF Crash
<1>4. Base' /\ InSync' /\ AnnouncedWithoutGaps'
  BY <1>1, IndInvIsBase, CrashBase DEF InSync, AnnouncedWithoutGaps
<1>5. CASE file' = file
  <2>1. TornTailIsLast' /\ ChainIntact' /\ AnnouncedArePersisted'
    BY <1>1, <1>5 DEF IndInv, TornTailIsLast, ChainIntact, AnnouncedArePersisted, Lines
  <2> QED BY <1>4, <2>1 DEF IndInv, Base
<1>6. CASE file.terminated /\ file' = [lines |-> Append(file.lines, Garbage), terminated |-> FALSE]
  <2>1. file'.lines = Append(file.lines, Garbage) /\ ~file'.terminated
    BY <1>6
  <2>2. /\ file'.lines \in Seq(Event \cup {Garbage})
        /\ Len(file'.lines) = Len(file.lines) + 1 /\ Len(file.lines) \in Nat
        /\ file'.lines[Len(file.lines) + 1] = Garbage
        /\ \A i \in 1..Len(file.lines) : file'.lines[i] = file.lines[i]
    <3>1. Garbage \in Event \cup {Garbage} /\ file.lines \in Seq(Event \cup {Garbage})
      BY <1>2 DEF LedgerText
    <3> QED BY ONLY <2>1, <3>1, AppendProperties
  <2>3. TornTailIsLast'
    BY <1>1, <2>1, <2>2 DEF TornTailIsLast, Lines, LastLine
  <2>4. ChainIntact'
    <3>1. \A i \in 1..Len(file.lines) : Linked(file.lines, i)
      BY <1>6 DEF IndInv, ChainIntact, Lines
    <3>2. ASSUME NEW i \in 1..Len(file.lines)
          PROVE  Linked(file'.lines, i)
      <4>1. i # 1 => file'.lines[i - 1] = file.lines[i - 1]
        <5>1. i # 1 => i - 1 \in 1..Len(file.lines)
          BY <2>2
        <5>2. \A k \in 1..Len(file.lines) : file'.lines[k] = file.lines[k]
          BY <2>2
        <5> QED BY ONLY <5>1, <5>2
      <4> QED BY <3>1, <2>2, <4>1 DEF Linked
    <3> QED BY <3>2, <2>1, <2>2 DEF ChainIntact, Lines
  <2>5. AnnouncedArePersisted'
    <3> SUFFICES ASSUME NEW e \in persisted
                 PROVE  \E i \in 1..Len(file'.lines) : file'.lines[i] = e
      BY <1>1 DEF AnnouncedArePersisted, Lines
    <3>1. PICK i \in 1..Len(file.lines) : file.lines[i] = e
      BY DEF IndInv, AnnouncedArePersisted, Lines
    <3>2. i \in 1..Len(file'.lines)
      BY <2>2
    <3> QED BY <2>2, <3>1, <3>2
  <2> QED BY <1>4, <2>3, <2>4, <2>5 DEF IndInv, Base
<1> QED BY <1>3, <1>5, <1>6

\* Every step keeps the invariant.
LEMMA NextIndInv == FaultsAreClean /\ IndInv /\ [Next]_vars => IndInv'
<1> SUFFICES ASSUME FaultsAreClean, IndInv, [Next]_vars
             PROVE  IndInv'
  OBVIOUS
<1>1. ASSUME NEW c \in Clients, NEW isVolatile \in BOOLEAN, Commit(c, isVolatile)
      PROVE  IndInv'
  BY ONLY <1>1, IndInv, CommitIndInv
<1>2. ASSUME NEW c \in Clients, Progress(c)
      PROVE  IndInv'
  BY <1>2, StampIndInv, HydrationFailsIndInv, WriteIndInv, WriteFailsIndInv,
     AnnounceIndInv DEF Progress
<1>3. CASE Crash
  BY <1>3, CrashIndInv
<1>4. CASE UNCHANGED vars
  BY <1>4 DEF vars, memory, IndInv, TypeOK, Serialised, TornTailIsLast, InSync,
     ChainIntact, AnnouncedArePersisted, AnnouncedWithoutGaps, Inside, Lines
<1> QED BY <1>1, <1>2, <1>3, <1>4 DEF Next, Exhausted

\* The invariant that ties the counters to the ledger holds in every reachable
\* state.
THEOREM IndInvHolds == ASSUME FaultsAreClean PROVE Spec => []IndInv
<1> QED BY InitIndInv, NextIndInv, PTL DEF Spec

\* The ledger is one hash chain with increasing numbers whatever fails and
\* whenever the process dies, with at most a fragment behind it.
THEOREM ChainIntactHolds == ASSUME FaultsAreClean PROVE Spec => []ChainIntact
<1>1. IndInv => ChainIntact
  BY DEF IndInv
<1> QED BY IndInvHolds, <1>1, PTL

\* No durable event that a listener saw is ever lost from the ledger.
THEOREM AnnouncedArePersistedHolds ==
  ASSUME FaultsAreClean PROVE Spec => []AnnouncedArePersisted
<1>1. IndInv => AnnouncedArePersisted
  BY DEF IndInv
<1> QED BY IndInvHolds, <1>1, PTL

\* Failed commits leave no gap in the numbers the listeners see.
THEOREM AnnouncedWithoutGapsHolds ==
  ASSUME FaultsAreClean PROVE Spec => []AnnouncedWithoutGaps
<1>1. IndInv => AnnouncedWithoutGaps
  BY DEF IndInv
<1> QED BY IndInvHolds, <1>1, PTL
------------------------------------------------------------------------------
\* Initially nobody has called.
LEMMA InitCallOrder == Init => Base /\ CallOrder
<1> SUFFICES ASSUME Init PROVE CallOrder
  BY InitIndInv, IndInvIsBase
<1>1. /\ announced = <<>> /\ mutex.waiters = <<>> /\ \A c \in Clients : pc[c] = "idle"
  BY DEF Init, FreeMutex
<1> QED BY <1>1 DEF CallOrder, CommitsInCallOrder

\* A caller in the queue is a caller that sleeps, and each sleeping caller is in
\* the queue.
LEMMA QueueSleeps ==
  ASSUME Base
  PROVE  /\ \A i \in 1..Len(mutex.waiters) :
               mutex.waiters[i] \in Clients /\ pc[mutex.waiters[i]] = "locking"
         /\ \A d \in Locking : \E i \in 1..Len(mutex.waiters) : mutex.waiters[i] = d
<1>1. Locking = {mutex.waiters[i] : i \in 1..Len(mutex.waiters)}
  BY OneInside DEF Consistent
<1>2. Locking \subseteq Clients /\ \A d \in Locking : pc[d] = "locking"
  BY DEF Locking
<1> QED BY <1>1, <1>2

\* Whoever calls last comes last.
LEMMA CommitCallOrder ==
  ASSUME Base, CallOrder, NEW c \in Clients, NEW v \in BOOLEAN, Commit(c, v)
  PROVE  CallOrder'
<1> DEFINE w == mutex.waiters
<1>1. /\ pc[c] = "idle" /\ issued \in Nat /\ issued' = issued + 1
      /\ w \in Seq(Clients) /\ Len(w) \in Nat
      /\ UNCHANGED announced
  BY DEF Commit, Base, TypeOK, memory
<1>2. /\ \A d \in Clients : draft[d].id \in Nat
      /\ \A d \in Clients : draft'[d].id = IF d = c THEN issued + 1 ELSE draft[d].id
  <2>1. \A d \in Clients : draft[d] \in Event
    BY DEF Base, TypeOK
  <2>2. draft' = [draft EXCEPT ![c] = [draft[c] EXCEPT !.id = issued + 1]]
    BY DEF Commit
  <2>3. DOMAIN draft = Clients /\ [draft[c] EXCEPT !.id = issued + 1].id = issued + 1
    BY <2>1 DEF Base, TypeOK, Event
  <2> QED BY <2>1, <2>2, <2>3 DEF Event, Id
<1>3. \A i \in 1..Len(w) : w[i] \in Clients /\ w[i] # c /\ pc[w[i]] # "idle"
  BY <1>1, QueueSleeps
<1>4. announced # <<>> => announced[Len(announced)].id \in Nat
  <2>1. announced \in Seq(Event)
    BY DEF Base, TypeOK
  <2>2. announced # <<>> => announced[Len(announced)] \in Event
    BY <2>1, LenProperties, EmptySeq, ElementOfSeq
  <2> QED BY <2>2 DEF Event, Id
<1>5. \A d \in Clients : pc'[d] # "idle" => d = c \/ pc[d] # "idle"
  BY DEF Commit, Base, TypeOK
<1>6. \A d \in Clients : pc[d] # "idle" => draft[d].id <= issued
  BY DEF CallOrder
<1>7. CommitsInCallOrder'
  BY <1>1 DEF CallOrder, CommitsInCallOrder
<1>8. ASSUME NEW d \in Clients, pc'[d] # "idle"
      PROVE  /\ draft'[d].id <= issued'
             /\ announced' # <<>> => announced'[Len(announced')].id < draft'[d].id
  BY <1>1, <1>2, <1>4, <1>5, <1>8 DEF CallOrder
<1>9. announced' # <<>> => announced'[Len(announced')].id <= issued'
  BY <1>1, <1>4 DEF CallOrder
<1>10. CASE mutex.locked
  <2>1. mutex'.waiters = Append(w, c)
    BY <1>10 DEF Commit, Lock, Base, TypeOK
  <2>2. /\ Len(mutex'.waiters) = Len(w) + 1
        /\ mutex'.waiters[Len(w) + 1] = c
        /\ \A i \in 1..Len(w) : mutex'.waiters[i] = w[i]
    BY ONLY <2>1, <1>1, AppendProperties
  <2> HIDE DEF w
  <2>3. Inside' = Inside /\ c \notin Inside
    BY <1>10, <1>1 DEF Commit, Inside, Base, TypeOK
  <2>4. ASSUME NEW i \in 1..Len(mutex'.waiters)
        PROVE  \/ i \in 1..Len(w) /\ mutex'.waiters[i] = w[i] /\ draft'[w[i]].id = draft[w[i]].id
               \/ i = Len(w) + 1 /\ mutex'.waiters[i] = c /\ draft'[c].id = issued + 1
    BY <1>1, <1>2, <1>3, <2>2
  <2>5. \A d \in Inside : d \in Clients /\ pc[d] # "idle" /\ d # c
    BY <2>3 DEF Inside
  <2>6. /\ \A i \in 1..Len(w), d \in Inside : draft[d].id < draft[w[i]].id
        /\ \A i, j \in 1..Len(w) : i < j => draft[w[i]].id < draft[w[j]].id
    BY DEF CallOrder, w
  <2>7. \A d \in Inside : draft'[d].id = draft[d].id /\ draft[d].id < issued + 1
    BY <1>1, <1>2, <1>6, <2>5
  <2>8. \A i \in 1..Len(w) : draft[w[i]].id < issued + 1
    BY <1>1, <1>2, <1>3, <1>6
  <2>9. \A i \in 1..Len(mutex'.waiters) :
          /\ \A d \in Inside' : draft'[d].id < draft'[mutex'.waiters[i]].id
          /\ \A j \in 1..Len(mutex'.waiters) :
                i < j => draft'[mutex'.waiters[i]].id < draft'[mutex'.waiters[j]].id
    <3> TAKE i \in 1..Len(mutex'.waiters)
    <3>1. ASSUME NEW d \in Inside
          PROVE  draft'[d].id < draft'[mutex'.waiters[i]].id
      BY <2>4, <2>6, <2>7
    <3>2. ASSUME NEW j \in 1..Len(mutex'.waiters), i < j
          PROVE  draft'[mutex'.waiters[i]].id < draft'[mutex'.waiters[j]].id
      <4>1. i \in 1..Len(w)
        BY <1>1, <2>2, <3>2
      <4>2. mutex'.waiters[i] = w[i] /\ draft'[w[i]].id = draft[w[i]].id
        BY <1>1, <2>4, <4>1
      <4> QED BY <2>4, <2>6, <2>8, <3>2, <4>1, <4>2
    <3> QED BY <2>3, <3>1, <3>2
  <2> QED BY <1>7, <1>8, <1>9, <2>9 DEF CallOrder
<1>11. CASE ~mutex.locked
  <2>1. w = <<>> /\ mutex'.waiters = <<>>
    <3>1. mutex.waiters = <<>>
      BY <1>11, OneInside DEF Consistent
    <3> QED BY <1>11, <3>1 DEF Commit, Lock, Base, TypeOK
  <2>2. 1..Len(mutex'.waiters) = {}
    BY <2>1
  <2> QED BY ONLY <1>7, <1>8, <1>9, <2>2 DEF CallOrder
<1> QED BY <1>10, <1>11

\* A step of the caller inside that neither calls nor announces.
LEMMA InsideCallOrder ==
  ASSUME Base, CallOrder, UNCHANGED <<mutex, announced, issued>>, Inside' = Inside,
         \A d \in Clients : draft'[d].id = draft[d].id /\ (pc'[d] # "idle" => pc[d] # "idle")
  PROVE  CallOrder'
<1>1. \A i \in 1..Len(mutex.waiters) : mutex.waiters[i] \in Clients
  BY QueueSleeps
<1>2. Inside \subseteq Clients
  BY DEF Inside
<1>3. CommitsInCallOrder'
  BY DEF CallOrder, CommitsInCallOrder
<1>4. ASSUME NEW c \in Clients, pc'[c] # "idle"
      PROVE  /\ draft'[c].id <= issued'
             /\ announced' # <<>> => announced'[Len(announced')].id < draft'[c].id
  BY <1>4 DEF CallOrder
<1>5. announced' # <<>> => announced'[Len(announced')].id <= issued'
  BY DEF CallOrder
<1>6. ASSUME NEW i \in 1..Len(mutex'.waiters)
      PROVE  /\ \A d \in Inside' : draft'[d].id < draft'[mutex'.waiters[i]].id
             /\ \A j \in 1..Len(mutex'.waiters) :
                   i < j => draft'[mutex'.waiters[i]].id < draft'[mutex'.waiters[j]].id
  BY <1>1, <1>2 DEF CallOrder
<1> QED BY ONLY <1>3, <1>4, <1>5, <1>6 DEF CallOrder

\* The mutex goes to the caller that has waited longest.
LEMMA SettleCallOrder ==
  ASSUME Base, CallOrder, NEW c \in Inside, Settle(c), UNCHANGED <<draft, issued>>
  PROVE  /\ \A d \in Clients : pc'[d] # "idle" =>
               \E i \in 1..Len(mutex.waiters) : mutex.waiters[i] = d
         /\ \A i \in 1..Len(mutex'.waiters) :
               /\ \A d \in Inside' : draft'[d].id < draft'[mutex'.waiters[i]].id
               /\ \A j \in 1..Len(mutex'.waiters) :
                     i < j => draft'[mutex'.waiters[i]].id < draft'[mutex'.waiters[j]].id
<1> DEFINE w == mutex.waiters
<1>1. Inside = {c} /\ c \in Clients
  BY OneInside DEF Inside
<1>2. pc' = [d \in Clients |-> IF d \in WokenByUnlock(mutex) THEN "hydrating"
                               ELSE IF d = c THEN "idle" ELSE pc[d]]
  BY DEF Settle
<1>3. w \in Seq(Clients) /\ Len(w) \in Nat
  BY DEF Base, TypeOK
<1>4. ASSUME NEW d \in Clients, d \notin WokenByUnlock(mutex), pc'[d] # "idle"
      PROVE  d \in Locking /\ pc'[d] = "locking"
  <2>1. d # c /\ pc'[d] = pc[d] /\ d \notin Inside
    BY <1>1, <1>2, <1>4
  <2> QED BY <2>1, <1>4 DEF Inside, Locking, Base, TypeOK
<1>5. CASE w = <<>>
  <2>1. WokenByUnlock(mutex) = {} /\ mutex'.waiters = <<>>
    BY <1>5 DEF Settle, Unlock, WokenByUnlock, Base, TypeOK
  <2> QED BY <1>4, <2>1, QueueSleeps
<1>6. CASE w # <<>>
  <2>1. /\ WokenByUnlock(mutex) = {w[1]} /\ 1 \in 1..Len(w)
        /\ mutex'.waiters = Tail(w)
    BY <1>3, <1>6 DEF Settle, Unlock, WokenByUnlock, Base, TypeOK
  <2>2. /\ Len(mutex'.waiters) = Len(w) - 1
        /\ \A i \in 1..Len(mutex'.waiters) : mutex'.waiters[i] = w[i + 1]
    BY <1>3, <1>6, <2>1
  <2>3. \A d \in Inside' : d = w[1]
    BY <1>4, <2>1 DEF Inside
  <2>4. \A i, j \in 1..Len(w) : i < j => draft[w[i]].id < draft[w[j]].id
    BY DEF CallOrder
  <2>5. \A d \in Clients : pc'[d] # "idle" => \E i \in 1..Len(w) : w[i] = d
    BY <1>4, <2>1, QueueSleeps
  <2> HIDE DEF w
  <2>6. ASSUME NEW i \in 1..Len(mutex'.waiters)
        PROVE  /\ draft[w[1]].id < draft[mutex'.waiters[i]].id
               /\ \A j \in 1..Len(mutex'.waiters) :
                     i < j => draft[mutex'.waiters[i]].id < draft[mutex'.waiters[j]].id
    <3>1. i + 1 \in 1..Len(w) /\ 1 < i + 1
      BY <1>3, <2>2
    <3>2. \A j \in 1..Len(mutex'.waiters) : i < j => j + 1 \in 1..Len(w) /\ i + 1 < j + 1
      BY <1>3, <2>2
    <3> QED BY <2>1, <2>2, <2>4, <3>1, <3>2
  <2> QED BY <2>3, <2>5, <2>6 DEF w
<1> QED BY <1>5, <1>6

\* A commit that fails leaves the order as it is.
LEMMA FailsCallOrder ==
  ASSUME Base, CallOrder, NEW c \in Clients, HydrationFails(c) \/ WriteFails(c)
  PROVE  CallOrder'
<1>1. c \in Inside /\ Settle(c) /\ UNCHANGED <<draft, announced, issued>>
  BY FailsBase
<1>2. \A d \in Clients : pc'[d] # "idle" => pc[d] # "idle"
  BY <1>1, SettleCallOrder, QueueSleeps
<1> QED BY <1>1, <1>2, SettleCallOrder DEF CallOrder, CommitsInCallOrder

\* The event that is announced was called after the announced ones and before
\* those that wait.
LEMMA AnnounceCallOrder ==
  ASSUME Base, CallOrder, NEW c \in Clients, Announce(c)
  PROVE  CallOrder'
<1>1. /\ c \in Inside /\ Settle(c) /\ UNCHANGED <<draft, issued>>
      /\ announced' = Append(announced, draft[c])
  BY AnnounceBase DEF Announce
<1>2. pc[c] # "idle" /\ draft[c] \in Event /\ announced \in Seq(Event)
  BY DEF Announce, Base, TypeOK
<1>3. /\ Len(announced) \in Nat /\ Len(announced') = Len(announced) + 1
      /\ announced'[Len(announced) + 1] = draft[c]
      /\ \A i \in 1..Len(announced) : announced'[i] = announced[i]
  BY ONLY <1>1, <1>2, AppendProperties
<1>4. announced'[Len(announced')].id = draft[c].id /\ draft[c].id <= issued'
  BY <1>1, <1>2, <1>3 DEF CallOrder
<1>5. ASSUME NEW d \in Clients, pc'[d] # "idle"
      PROVE  pc[d] # "idle" /\ draft[c].id < draft'[d].id
  <2>1. PICK i \in 1..Len(mutex.waiters) : mutex.waiters[i] = d
    BY <1>1, <1>5, SettleCallOrder
  <2> QED BY <1>1, <2>1, QueueSleeps DEF CallOrder
<1>6. CommitsInCallOrder'
  <2> SUFFICES ASSUME NEW i \in 1..Len(announced') - 1
               PROVE  announced'[i].id < announced'[i + 1].id
    BY DEF CommitsInCallOrder
  <2>1. CASE i = Len(announced)
    <3>1. announced # <<>> /\ i \in 1..Len(announced)
      BY <1>2, <1>3, <2>1
    <3> QED BY <1>2, <1>3, <2>1, <3>1 DEF CallOrder
  <2>2. CASE i # Len(announced)
    <3>1. i \in 1..Len(announced) - 1 /\ i \in 1..Len(announced) /\ i + 1 \in 1..Len(announced)
      BY <1>3, <2>2
    <3> QED BY <1>3, <3>1 DEF CallOrder, CommitsInCallOrder
  <2> QED BY <2>1, <2>2
<1>7. \A d \in Clients : pc'[d] # "idle" => draft'[d].id <= issued'
  BY <1>1, <1>5 DEF CallOrder
<1> QED BY <1>1, <1>4, <1>5, <1>6, <1>7, SettleCallOrder DEF CallOrder

\* Every step keeps the order of the calls, whatever fails.
LEMMA NextCallOrder == Base /\ CallOrder /\ [Next]_vars => Base' /\ CallOrder'
<1> SUFFICES ASSUME Base, CallOrder, [Next]_vars
             PROVE  Base' /\ CallOrder'
  OBVIOUS
<1>1. ASSUME NEW c \in Clients, NEW isVolatile \in BOOLEAN, Commit(c, isVolatile)
      PROVE  Base' /\ CallOrder'
  BY ONLY <1>1, Base, CallOrder, CommitBase, CommitCallOrder
<1>2. ASSUME NEW c \in Clients, Stamp(c)
      PROVE  Base' /\ CallOrder'
  <2>1. Base' /\ Inside' = Inside
    BY <1>2, StampBase DEF Inside, Stamp, Base, TypeOK
  <2>2. UNCHANGED <<mutex, announced, issued>>
    BY <1>2 DEF Stamp
  <2>3. \A d \in Clients : draft'[d].id = draft[d].id /\ (pc'[d] # "idle" => pc[d] # "idle")
    BY <1>2 DEF Stamp, Base, TypeOK
  <2> QED BY <2>1, <2>2, <2>3, InsideCallOrder
<1>3. ASSUME NEW c \in Clients, Write(c)
      PROVE  Base' /\ CallOrder'
  <2>1. Base' /\ UNCHANGED <<mutex, draft, announced, issued>>
    BY <1>3, WriteBase
  <2>2. Inside' = Inside /\ \A d \in Clients : pc'[d] # "idle" => pc[d] # "idle"
    BY <1>3 DEF Write, Inside, Base, TypeOK
  <2> QED BY <2>1, <2>2, InsideCallOrder
<1>4. ASSUME NEW c \in Clients, HydrationFails(c) \/ WriteFails(c)
      PROVE  Base' /\ CallOrder'
  BY <1>4, FailsBase, FailsCallOrder
<1>5. ASSUME NEW c \in Clients, Announce(c)
      PROVE  Base' /\ CallOrder'
  BY <1>5, AnnounceBase, AnnounceCallOrder
<1>6. CASE Crash
  <2>1. /\ announced' = <<>> /\ mutex'.waiters = <<>> /\ \A c \in Clients : pc'[c] = "idle"
    BY <1>6 DEF Crash, FreeMutex
  <2> QED BY <1>6, <2>1, CrashBase DEF CallOrder, CommitsInCallOrder
<1>7. CASE UNCHANGED vars
  BY <1>7 DEF vars, memory, Base, TypeOK, Serialised, Inside, CallOrder, CommitsInCallOrder
<1> QED BY <1>1, <1>2, <1>3, <1>4, <1>5, <1>6, <1>7 DEF Next, Progress, Exhausted

\* Events reach the listeners in the order in which commit() was called,
\* whatever a failed append or a crash leaves in the file.
THEOREM CommitsInCallOrderHolds == Spec => []CommitsInCallOrder
<1>1. CallOrder => CommitsInCallOrder
  BY DEF CallOrder
<1> QED BY InitCallOrder, NextCallOrder, <1>1, PTL DEF Spec
=============================================================================
