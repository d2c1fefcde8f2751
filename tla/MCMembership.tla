----------------------------- MODULE MCMembership ----------------------------
(* Small instances of Membership: this node and one or two others. *)
EXTENDS MembershipInv

CONSTANTS me, a1, a2
=============================================================================
