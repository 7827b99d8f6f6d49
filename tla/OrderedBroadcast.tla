-------------------------- MODULE OrderedBroadcast --------------------------
(***************************************************************************)
(* What a multiplexer promises, whatever its policy for slow consumers: a  *)
(* totally ordered broadcast.  Members are subscribed from the start;      *)
(* every event reaches the inbox of every member that is present.          *)
(***************************************************************************)
EXTENDS Naturals, Sequences

CONSTANT Members

VARIABLES
    log,        \* number of events published; event n is the number n
    inbox,      \* what each member has still to read
    delivered,  \* what each member has read
    present     \* the members that still take events

vars == <<log, inbox, delivered, present>>

Init ==
    /\ log = 0
    /\ inbox = [m \in Members |-> <<>>]
    /\ delivered = [m \in Members |-> <<>>]
    /\ present \subseteq Members

Publish ==
    /\ log' = log + 1
    /\ inbox' = [m \in Members |-> IF m \in present THEN Append(inbox[m], log')
                                                    ELSE inbox[m]]
    /\ UNCHANGED <<delivered, present>>

Deliver(m) ==
    /\ inbox[m] # <<>>
    /\ delivered' = [delivered EXCEPT ![m] = Append(@, Head(inbox[m]))]
    /\ inbox' = [inbox EXCEPT ![m] = Tail(@)]
    /\ UNCHANGED <<log, present>>

\* Members leave; those of `dropping' give up what they have not read.
Leave(leaving, dropping) ==
    /\ present' = present \ leaving
    /\ dropping \cap present' = {}
    /\ inbox' = [m \in Members |-> IF m \in dropping THEN <<>> ELSE inbox[m]]
    /\ UNCHANGED <<log, delivered>>

Next ==
    \/ Publish
    \/ \E m \in Members : Deliver(m)
    \/ \E leaving, dropping \in SUBSET Members : Leave(leaving, dropping)

Spec == Init /\ [][Next]_vars
=============================================================================
