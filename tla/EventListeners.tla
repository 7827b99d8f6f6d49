--------------------------- MODULE EventListeners ---------------------------
(***************************************************************************)
(* DefaultEventListener on the pointers of its LinkedList: trigger() walks *)
(* the callbacks while a callback may take itself off the list or register *)
(* another one, as those in src/ do.  The other operations of the list run *)
(* between triggers.                                                       *)
(***************************************************************************)
EXTENDS LinkedList

VARIABLES
    list,
    items,   \* history: the sequence that the list stands for
    walk     \* trigger(): the current node, who is registered since the start
             \* and still waits for the call, and who was called

listVars == <<list, items, walk>>
NoWalk == [current |-> 0, awaiting |-> {}, called |-> <<>>]

ListInit == list = EmptyList /\ items = <<>> /\ walk = NoWalk

\* The tokens that a new node may get.
Unused == Tokens \ (ToSet(items) \cup ToSet(walk.called) \cup {walk.current})
Still == walk.current = 0 /\ UNCHANGED walk
-----------------------------------------------------------------------------
PutFirst == \E t \in Unused : list' = InsertFirst(list, t) /\ items' = <<t>> \o items
PutLast == \E t \in Unused : list' = InsertLast(list, t) /\ items' = Append(items, t)
TakeFirst == list' = WithoutFirst(list) /\ items' = IF items = <<>> THEN items ELSE Tail(items)
TakeLast == list' = WithoutLast(list) /\ items' = IF items = <<>> THEN items ELSE Front(items)
TakeOut(t) ==
    /\ list' = WithoutToken(list, t)
    /\ \/ t \notin ToSet(items) /\ UNCHANGED items
       \/ \E i \in 1..Len(items) : items[i] = t /\ items' = RemoveAt(items, i)
TakeAll == list' = Clear(list) /\ items' = <<>>

\* trigger() begins its walk.
StartWalk ==
    /\ walk.current = 0 /\ list.first # 0
    /\ walk' = [NoWalk EXCEPT !.current = list.first, !.awaiting = ToSet(items)]
    /\ UNCHANGED <<list, items>>

\* The walk as it would be if it read the next node after the callback.
CalledLate(t) ==
    /\ \/ UNCHANGED <<list, items>>
       \/ TakeOut(t)
       \/ PutLast
    /\ walk' = [current |-> list'.next[t], awaiting |-> walk.awaiting \ {t},
                called |-> Append(walk.called, t)]

\* The callback of node t runs; the walk has read its next node before.
Call(t) ==
    /\ \/ UNCHANGED <<list, items>>
       \/ TakeOut(t)
       \/ PutLast
    /\ walk' = [current |-> list.next[t], awaiting |-> walk.awaiting \ {t},
                called |-> Append(walk.called, t)]

ListNext ==
    \/ (PutFirst \/ PutLast \/ TakeFirst \/ TakeLast \/ TakeAll \/ \E t \in Tokens : TakeOut(t)) /\ Still
    \/ StartWalk
    \/ walk.current # 0 /\ Call(walk.current)

ListSpec == ListInit /\ [][ListNext]_listVars
-----------------------------------------------------------------------------
\* The pointers stand for the sequence, forwards and backwards, whatever nodes
\* were taken out of the middle, and a trigger() calls every callback that is
\* registered throughout, once.
ListIsASequence ==
    /\ Walk(list.first, list.next) = items
    /\ Walk(list.last, list.previous) = Reverse(items)
    /\ list.length = Len(items) /\ list.registry = ToSet(items)
    /\ walk.current = 0 => walk.awaiting = {}
    /\ IsInjective(walk.called)

\* The inductive invariant behind it.  The pointers of the list link the nodes of
\* the sequence, each of which is there once ...
ListRecord ==
    [first : Tokens \cup {0}, last : Tokens \cup {0}, registry : SUBSET Tokens, length : Nat,
     next : [Tokens -> Tokens \cup {0}], previous : [Tokens -> Tokens \cup {0}]]

Shows(l, s) ==
    /\ l \in ListRecord /\ s \in Seq(Tokens) /\ IsInjective(s)
    /\ l.length = Len(s) /\ l.registry = ToSet(s)
    /\ l.first = IF s = <<>> THEN 0 ELSE s[1]
    /\ l.last = IF s = <<>> THEN 0 ELSE s[Len(s)]
    /\ \A i \in 1..Len(s) :
          /\ l.next[s[i]] = IF i = Len(s) THEN 0 ELSE s[i + 1]
          /\ l.previous[s[i]] = IF i = 1 THEN 0 ELSE s[i - 1]

\* ... and a walk stands at a node behind which nobody was called and all are
\* that still wait.
WalkGoesOn ==
    /\ walk \in [current : Tokens \cup {0}, awaiting : SUBSET Tokens, called : Seq(Tokens)]
    /\ IsInjective(walk.called)
    /\ IF walk.current = 0 THEN walk.awaiting = {}
       ELSE \E i \in 1..Len(items) :
               /\ items[i] = walk.current
               /\ walk.awaiting \subseteq {items[j] : j \in i..Len(items)}
               /\ \A j \in i..Len(items) : items[j] \notin ToSet(walk.called)

ListIndInv == Shows(list, items) /\ WalkGoesOn
=============================================================================
