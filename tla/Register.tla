------------------------------ MODULE Register ------------------------------
(***************************************************************************)
(* What the metrics file promises: a register that one writer sets and any *)
(* number of readers copy, each in one step. Values only grow. A reader    *)
(* holds the copy until it is done with it, whatever is written meanwhile. *)
(***************************************************************************)
EXTENDS Integers

CONSTANT Readers

VARIABLES
    value,       \* the latest snapshot, 0 before the first one
    got          \* what each reader holds, Idle if nothing

Idle == -1

Init ==
    /\ value = 0
    /\ got = [r \in Readers |-> Idle]

Write ==
    /\ value' \in Int
    /\ value' > value
    /\ UNCHANGED got

Read(r) ==
    /\ got[r] = Idle
    /\ value > 0
    /\ got' = [got EXCEPT ![r] = value]
    /\ UNCHANGED value

\* Readers are done, one or, when their process ends, several at once.
Done(readers) ==
    /\ got' = [r \in Readers |-> IF r \in readers THEN Idle ELSE got[r]]
    /\ UNCHANGED value

Next ==
    \/ Write
    \/ \E r \in Readers : Read(r)
    \/ \E readers \in SUBSET Readers : Done(readers)

Spec == Init /\ [][Next]_<<value, got>>
=============================================================================
