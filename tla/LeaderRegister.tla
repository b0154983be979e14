--------------------------- MODULE LeaderRegister ---------------------------
(***************************************************************************)
(* What the Archipel chain promises the orchestrators about leadership:    *)
(* one register per group, taken by compare-and-set.  A free register goes *)
(* to whoever asks; a held one only to a challenger that names its holder, *)
(* and nobody but the holder can free it.  The pallet keeps the register   *)
(* in two storage items and is shown to implement this module (see         *)
(* ArchipelPallet); the federation is built on it.                         *)
(***************************************************************************)
CONSTANTS Account,      \* the nodes' signing accounts
          Group,        \* the group ids
          NoLeader      \* the value of a free register, not an account

VARIABLE leader         \* leader[g]: the holder of group g, or NoLeader

Init == leader = [g \in Group |-> NoLeader]

\* `sender', naming `reported' as the leader it wants to replace, may take a
\* register held by `held'.
MayTake(held, sender, reported) ==
  \/ held = NoLeader
  \/ /\ sender # reported
     /\ reported = held

Take(sender, reported, group) ==
  /\ MayTake(leader[group], sender, reported)
  /\ leader' = [leader EXCEPT ![group] = sender]

Release(sender, group) ==
  /\ leader[group] = sender
  /\ leader' = [leader EXCEPT ![group] = NoLeader]

Next ==
  \E sender \in Account, group \in Group :
    \/ \E reported \in Account \cup {NoLeader} : Take(sender, reported, group)
    \/ Release(sender, group)

Spec == Init /\ [][Next]_leader
=============================================================================
