------------------------------- MODULE Listing -------------------------------
(***************************************************************************)
(* What a directory enumeration of a mounted archive promises each of its  *)
(* callers, as if there were no other: from its start, and again from each *)
(* restart, the entries of the directory that match the filter are given   *)
(* out one by one, each once and in the directory's order; and it is told  *)
(* that this was all only when none of them is left.                       *)
(***************************************************************************)
EXTENDS Integers, Sequences

CONSTANTS
    Enums,      \* the enumerations
    Filters, All, \* the filters; the one that every name matches
    Matches(_, _), \* does a name match a filter?
    None        \* no directory

VARIABLES
    content,    \* the names in each directory, in order
    dirOf,      \* the directory an open enumeration walks, or None
    want,       \* its filter
    shown,      \* the entries given out since the start or the last restart
    complete    \* the enumerations that were told so: that this was all

vars == <<content, dirOf, want, shown, complete>>

Names(e) == content[dirOf[e]]
Rest(e) == {k \in 1..Len(Names(e)) :
               Matches(Names(e)[k], want[e]) /\ \A j \in shown[e] : j < k}

\* The directories are made before anybody walks them.
Fill ==
    /\ \A e \in Enums : dirOf[e] = None
    /\ UNCHANGED <<dirOf, want, shown, complete>>

Open(e) ==
    /\ dirOf[e] = None
    /\ \E d \in DOMAIN content : dirOf' = [dirOf EXCEPT ![e] = d]
    /\ want' = [want EXCEPT ![e] = All]
    /\ shown' = [shown EXCEPT ![e] = {}]
    /\ complete' = complete \ {e}
    /\ UNCHANGED content

Restart(e) ==
    /\ dirOf[e] # None
    /\ \E f \in Filters : want' = [want EXCEPT ![e] = f]
    /\ shown' = [shown EXCEPT ![e] = {}]
    /\ complete' = complete \ {e}
    /\ UNCHANGED <<content, dirOf>>

Show(e) ==
    /\ dirOf[e] # None
    /\ \E k \in Rest(e) :
           /\ \A j \in Rest(e) : k <= j
           /\ shown' = [shown EXCEPT ![e] = @ \union {k}]
    /\ UNCHANGED <<content, dirOf, want, complete>>

Finish(e) ==
    /\ dirOf[e] # None /\ Rest(e) = {}
    /\ complete' = complete \union {e}
    /\ UNCHANGED <<content, dirOf, want, shown>>

Close(e) ==
    /\ dirOf[e] # None
    /\ dirOf' = [dirOf EXCEPT ![e] = None]
    /\ want' = [want EXCEPT ![e] = All]
    /\ shown' = [shown EXCEPT ![e] = {}]
    /\ complete' = complete \ {e}
    /\ UNCHANGED content

Init ==
    /\ dirOf = [e \in Enums |-> None]
    /\ want = [e \in Enums |-> All]
    /\ shown = [e \in Enums |-> {}]
    /\ complete = {}

Next == Fill \/ \E e \in Enums : Open(e) \/ Restart(e) \/ Show(e) \/ Finish(e) \/ Close(e)

Spec == Init /\ [][Next]_vars
=============================================================================
