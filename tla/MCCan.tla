-------------------------------- MODULE MCCan --------------------------------
(***************************************************************************)
(* An instance of Can for TLC.                                             *)
(***************************************************************************)
EXTENDS Can

(* Two threads of one node, and one of another.                              *)
MCNode == [s \in Senders |-> IF s = "c" THEN "B" ELSE "A"]
=============================================================================
