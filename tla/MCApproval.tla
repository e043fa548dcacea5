----------------------------- MODULE MCApproval -----------------------------
(* A small instance of Approval.                                           *)
EXTENDS Approval

CONSTANTS d1, d2
=============================================================================
