----------------------------- MODULE MCSurfaces ------------------------------
(* The surfaces on a small instance: base fees that rise with the block, and *)
(* requests that leave sessions and table alone counted dearer               *)
EXTENDS Surfaces

RisingFee == [b \in 1 .. MaxBlock |-> 2 * b - 1]

CostOf == [m \in Methods |->
  CASE m \in {"open", "send_sync", "fork_from", "discard", "block_number"} -> 1
    [] m \in {"send", "gas_price", "advance", "set_balance", "snapshot", "stop"} -> 2
    [] OTHER -> 3]
=============================================================================
