--------------------------- MODULE EffectReserves ---------------------------
(****************************************************************************)
(* What SessionEffects promises its callers (the docstring of               *)
(* _session_effects.py): work that was accepted is executed one at a time   *)
(* and in order for each resource; resources do not wait for one another;   *)
(* each class of work holds at most Capacity accepted effects; only the end *)
(* of the session drops accepted work.                                      *)
(****************************************************************************)
EXTENDS Integers, Sequences, FiniteSets

CONSTANTS Resources, Capacity

VARIABLES
    pending,    \* accepted work of each resource that has not ended, in order
    running     \* the session has not been told to end

Classes == {"ordinary", "cleanup"}

\* Accepted work of one class, each piece by its resource and its place there.
Work(class) ==
    UNION {{<<r, i>> : i \in {j \in DOMAIN pending[r] : pending[r][j] = class}} :
             r \in Resources}

Held(class) == Cardinality(Work(class))

Init ==
    /\ pending = [r \in Resources |-> <<>>]
    /\ running = TRUE

\* One piece of work is accepted for each resource in rs.
Accept(rs, class) ==
    /\ Held(class) + Cardinality(rs) <= Capacity
    /\ pending' = [r \in Resources |->
                     IF r \in rs THEN Append(pending[r], class) ELSE pending[r]]
    /\ UNCHANGED running

\* The oldest work of one resource ends.
Complete(r) ==
    /\ running
    /\ pending[r] # <<>>
    /\ pending' = [pending EXCEPT ![r] = Tail(@)]
    /\ UNCHANGED running

End == running /\ running' = FALSE /\ UNCHANGED pending

Drop(r) ==
    /\ ~running
    /\ pending[r] # <<>>
    /\ pending' = [pending EXCEPT ![r] = <<>>]
    /\ UNCHANGED running

Next ==
    \/ \E rs \in SUBSET Resources, class \in Classes : Accept(rs, class)
    \/ \E r \in Resources : Complete(r) \/ Drop(r)
    \/ End

Spec == Init /\ [][Next]_<<pending, running>>
=============================================================================
