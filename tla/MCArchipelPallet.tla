-------------------------- MODULE MCArchipelPallet --------------------------
(* Small instance of the pallet: at the bounds the system idles.           *)
EXTENDS ArchipelPallet, TLC

CONSTANTS a1, a2, a3

MCSymmetry == Permutations({a1, a2, a3})

\* The last block is full: the bounds, not the pallet, end the behaviour.
AtBound ==
  /\ block = MaxBlock
  /\ Len(events) = MaxExtrinsics
  /\ UNCHANGED vars

MCSpec == Init /\ [][Next \/ AtBound]_vars
=============================================================================
