---------------------------- MODULE MCLazyQueue ----------------------------
(* Instances of LazyQueue for TLC. *)
EXTENDS LazyQueue
=============================================================================
