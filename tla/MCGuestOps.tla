----------------------------- MODULE MCGuestOps -----------------------------
(***************************************************************************)
(* Instances of GuestOps for TLC.  Two calls meet only in the reboots of   *)
(* the guest, so that one worker takes every branch of every kind of call. *)
(***************************************************************************)
EXTENDS GuestOps

Transfers == {"upload", "download"}
Scripts   == {"script"}
=============================================================================
