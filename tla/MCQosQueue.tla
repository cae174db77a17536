------------------------------ MODULE MCQosQueue ------------------------------
(***************************************************************************)
(* An instance of QosQueue for TLC.                                        *)
(***************************************************************************)
EXTENDS QosQueue
=============================================================================
