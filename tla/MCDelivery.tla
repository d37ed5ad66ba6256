----------------------------- MODULE MCDelivery -----------------------------
(***************************************************************************)
(* Two members of a group, whose rows are not in the order of their slots: *)
(* the owner's is the first, and GROUP_CREATE named the other one twice.   *)
(***************************************************************************)
EXTENDS Delivery

CONSTANTS u1, u2

MCSlots   == <<u1, u2>>
MCMembers == <<u2, u1, u1>>
=============================================================================
