------------------------------ MODULE MCOverlay ------------------------------
(* The instance the run of Overlay checks: a contract and a slot, a manager   *)
(* with an empty base and one whose base knows both, the code only by hash.   *)
EXTENDS Overlay, TLC

CONSTANTS contract, slot, upstreamCode

Contract(inline) == [val |-> 1, hash |-> upstreamCode, inline |-> inline]
MCChain == [k \in {contract, slot} |-> IF k = slot THEN Slot(1) ELSE Contract(TRUE)]
Cold == [at |-> [k \in {contract, slot} |-> Nothing], code |-> {}]
Warm == [at |-> [MCChain EXCEPT ![contract] = Contract(FALSE)], code |-> {upstreamCode}]
MCBases == {Cold, Warm}

Symmetry == Permutations(Ids)
=============================================================================
