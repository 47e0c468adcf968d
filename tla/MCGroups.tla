------------------------------ MODULE MCGroups ------------------------------
(* A group with two users who can be its members. *)
EXTENDS Groups, TLC

CONSTANTS creator, alice, bob

MCMembers == {alice, bob}
MCSymmetry == Permutations(MCMembers)
=============================================================================
