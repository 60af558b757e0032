---------------------------- MODULE MCAuthRenewal ----------------------------
(* Instances of AuthRenewal for TLC. *)
EXTENDS AuthRenewal
=============================================================================
