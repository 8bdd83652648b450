---------------------------- MODULE MCGiftCards ----------------------------
(* Model-checking instances of GiftCards. *)
EXTENDS GiftCards, TLC
=============================================================================
