---------------------------- MODULE MCTabletModel ----------------------------
(* Instances of TabletModel for TLC. *)
EXTENDS TabletModel
=============================================================================
