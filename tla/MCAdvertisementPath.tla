------------------------ MODULE MCAdvertisementPath ------------------------
(* A small instance of AdvertisementPath for TLC. *)
EXTENDS AdvertisementPath, TLC
=============================================================================
