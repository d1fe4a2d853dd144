----------------------------- MODULE RunEffect -----------------------------
(***************************************************************************)
(* What a run promises to the repository it works on, without any of the   *)
(* machinery: policy gives the run its authority once, and the run uses it *)
(* for at most one result.  No queue, no retries, no clock.                *)
(***************************************************************************)
EXTENDS Naturals

CONSTANTS RunIds, Kinds, Results

VARIABLES authority,  \* the kinds of write policy granted to each run
          performed   \* how often each result of a run exists on GitHub

Init ==
    /\ authority = [r \in RunIds |-> {}]
    /\ performed = [r \in RunIds |-> [x \in Results |-> 0]]

\* Dispatch: authority is given once, before anything has been written.
Authorise(r, kinds) ==
    /\ authority[r] = {}
    /\ \A x \in Results : performed[r][x] = 0
    /\ authority' = [authority EXCEPT ![r] = kinds]
    /\ UNCHANGED performed

\* The one write of the run.
Perform(r, x) ==
    /\ x \in authority[r]
    /\ \A y \in Results : performed[r][y] = 0
    /\ performed' = [performed EXCEPT ![r][x] = @ + 1]
    /\ UNCHANGED authority

Next ==
    \E r \in RunIds :
        \/ \E kinds \in SUBSET Kinds : Authorise(r, kinds)
        \/ \E x \in Results : Perform(r, x)

Spec == Init /\ [][Next]_<<authority, performed>>
=============================================================================
