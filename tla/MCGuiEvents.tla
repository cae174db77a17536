---------------------------- MODULE MCGuiEvents ----------------------------
(***************************************************************************)
(* Instances of GuiEvents for TLC.                                         *)
(***************************************************************************)
EXTENDS GuiEvents, TLC

CONSTANTS gui, tcp, f1, i1

(* The frequency is too large for an int.                                  *)
MCAsInt == [f \in Freqs |-> i1]

=============================================================================
