-------------------------------- MODULE KeyRefs --------------------------------
(***************************************************************************)
(* What a reference tree promises (src/src/include/ref_tree_proto.h): an   *)
(* object comes to life with the first reference to its key, lives as long *)
(* as there is one, and everybody who refers to a key at the same time     *)
(* refers to the same object.  Which object that is, and how threads       *)
(* compete to make it, is not said.                                        *)
(***************************************************************************)
EXTENDS Naturals

CONSTANTS
    Keys, Refs, None,
    FirstRefs   \* the sets of references that a new object may start with

VARIABLES
    key_of,   \* what each reference refers to
    born      \* how many objects have come to life

Init == key_of = [r \in Refs |-> None] /\ born = 0

Referred(k) == \E r \in Refs : key_of[r] = k

\* The first reference, or the initial_ref_cnt first ones.
Create(k, R) ==
    /\ ~Referred(k)
    /\ \A r \in R : key_of[r] = None
    /\ key_of' = [r \in Refs |-> IF r \in R THEN k ELSE key_of[r]]
    /\ born' = born + 1

Share(k, r) ==
    /\ Referred(k)
    /\ key_of[r] = None
    /\ key_of' = [key_of EXCEPT ![r] = k]
    /\ UNCHANGED born

Drop(r) ==
    /\ key_of[r] # None
    /\ key_of' = [key_of EXCEPT ![r] = None]
    /\ UNCHANGED born

Next ==
    \/ \E k \in Keys : \/ \E R \in FirstRefs : Create(k, R)
                       \/ \E r \in Refs : Share(k, r)
    \/ \E r \in Refs : Drop(r)

Spec == Init /\ [][Next]_<<key_of, born>>
================================================================================
