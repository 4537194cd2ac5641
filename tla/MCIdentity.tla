----------------------------- MODULE MCIdentity -----------------------------
(* Two names, a storage volume and two registrations at a time. *)
EXTENDS Identity
=============================================================================
