----------------------------- MODULE MCOperators -----------------------------
(* The operators' signed votes and the agents' authority beside each other.     *)
(* Authority takes the decision on a request as it comes; Approvals shows what  *)
(* it took to get one.  A run exercises one and leaves the other as it was.     *)
EXTENDS Approvals, MCAuthority

VARIABLE half

\* Quorums as policy rules write them; 0 is what a rule without one has.
RuleQuorums == {0, 2}

\* Pinned operators are interchangeable.
Permuted == Permutations(Pinned)

Still == CHOOSE office \in MCOffices : office.broken

MCInit ==
    /\ Init /\ AuthInit
    /\ (half = "votes" /\ sc = Still) \/ half = "authority"

MCNext ==
    \/ half = "votes" /\ Next /\ UNCHANGED <<half, authVars>>
    \/ half = "authority" /\ AuthNext /\ UNCHANGED <<half, vars>>

MCSpec == MCInit /\ [][MCNext]_<<half, vars, authVars>>
=============================================================================
