---------------------------- MODULE MCFederation ----------------------------
(* Two operators of one group and a node of which only the blocks tell.    *)
EXTENDS Federation, TLC

CONSTANTS n1, n2, s1

OneGroup == [n \in {n1, n2, s1} |-> 1]

\* The wallets in the order of config.nodesWallets ...
ListOrder == [n \in {n1, n2, s1} |-> CASE n = n1 -> 1 [] n = n2 -> 2 [] n = s1 -> 3]

\* ... or in any order.
AnyOrder == [n \in {n1, n2, s1} |-> 0]

\* The sentinel is of another group.
TwoGroups == [OneGroup EXCEPT ![s1] = 2]

OperatorSymmetry == Permutations({n1, n2})
=============================================================================
