----------------------------- MODULE LinkedList -----------------------------
(***************************************************************************)
(* LinkedList as operators on a record of pointers: 0 is null, a node is   *)
(* its token, and `registry' maps the tokens of the list to their nodes.   *)
(* A node that is taken out keeps no pointers, clear() leaves most of them.*)
(***************************************************************************)
EXTENDS Naturals, Sequences, FiniteSets, SequencesExt

CONSTANT Tokens   \* the tokens that Symbol() makes, as positive numbers

ASSUME TokensAssumption == IsFiniteSet(Tokens) /\ Tokens \subseteq Nat \ {0}

EmptyList == [first |-> 0, last |-> 0, registry |-> {}, length |-> 0,
              next |-> [t \in Tokens |-> 0], previous |-> [t \in Tokens |-> 0]]

\* The pointer at n, if n is a node, becomes v.
Pointed(pointer, n, v) == [t \in Tokens |-> IF t = n THEN v ELSE pointer[t]]

\* insertFirst() and insertLast() with the token t that they return.
InsertFirst(list, t) ==
    [first |-> t, last |-> IF list.first = 0 THEN t ELSE list.last,
     next |-> Pointed(list.next, t, list.first),
     previous |-> Pointed(Pointed(list.previous, t, 0), list.first, t),
     length |-> list.length + 1, registry |-> list.registry \cup {t}]
InsertLast(list, t) ==
    [first |-> IF list.last = 0 THEN t ELSE list.first, last |-> t,
     next |-> Pointed(Pointed(list.next, t, 0), list.last, t),
     previous |-> Pointed(list.previous, t, list.last),
     length |-> list.length + 1, registry |-> list.registry \cup {t}]

\* A node of the list is taken out.
Removed(list, t) ==
    LET prev == list.previous[t] next == list.next[t]
    IN  [first |-> IF prev = 0 THEN next ELSE list.first,
         last |-> IF next = 0 THEN prev ELSE list.last,
         next |-> Pointed(Pointed(list.next, prev, next), t, 0),
         previous |-> Pointed(Pointed(list.previous, next, prev), t, 0),
         length |-> list.length - 1, registry |-> list.registry \ {t}]

\* removeByToken(), removeFirst() and removeLast(); they leave the list as it is when
\* there is no such node.
WithoutToken(list, t) == IF t \in list.registry THEN Removed(list, t) ELSE list
WithoutFirst(list) == IF list.first # 0 THEN Removed(list, list.first) ELSE list
WithoutLast(list) == IF list.last # 0 THEN Removed(list, list.last) ELSE list

Clear(list) ==
    [first |-> 0, last |-> 0, length |-> 0, registry |-> {},
     next |-> Pointed(list.next, list.first, 0),
     previous |-> Pointed(list.previous, list.last, 0)]

\* What toArray() and values(), and what backwards() walks along.
Walk(start, pointer) ==
    LET path[n \in 0..Cardinality(Tokens)] ==
            IF n = 0 THEN <<>>
            ELSE LET p == path[n - 1]
                     t == IF p = <<>> THEN start ELSE IF Last(p) = 0 THEN 0 ELSE pointer[Last(p)]
                 IN  IF t = 0 THEN p ELSE Append(p, t)
    IN  path[Cardinality(Tokens)]
=============================================================================
