---------------------------- MODULE MCSelThreadPool ----------------------------
(* Instances of SelThreadPool for TLC. *)
EXTENDS SelThreadPool
================================================================================
