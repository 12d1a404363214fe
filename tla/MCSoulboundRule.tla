--------------------------- MODULE MCSoulboundRule --------------------------
(***************************************************************************)
(* Two batches over a wallet that always holds and one that mints or burns *)
(* at the second of three blocks, of which the first two share a window;   *)
(* one slot, two reads a call.                                             *)
(***************************************************************************)
EXTENDS SoulboundRule

CONSTANTS keeper, mover, x1, x2

const_Block == 0..2
const_Question == {keeper, mover, Lock}
const_Histories ==
  {[b \in const_Block |-> IF b = 0 THEN {keeper} ELSE {keeper, mover}],
   [b \in const_Block |-> IF b = 0 THEN {keeper, mover} ELSE {keeper}]}
=============================================================================
