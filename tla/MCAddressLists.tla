---------------------------- MODULE MCAddressLists ----------------------------
(***************************************************************************)
(* Blocks of 4 bytes, slots of two heights under a head of four levels, a  *)
(* break that starts off a boundary and that others move.                  *)
(***************************************************************************)
EXTENDS AddressLists

MCSlotsPerBlock == [h \in Heights |-> 4]
MCOthers == [d \in Directions |-> IF d = "up" THEN {3} ELSE {2}]
=============================================================================
