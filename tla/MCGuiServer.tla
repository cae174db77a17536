---------------------------- MODULE MCGuiServer ----------------------------
(* GuiServer for TLC: connections as model values, of which one sends        *)
(* three lines, the first two of one character, and the others none.         *)
EXTENDS GuiServer, TLC

CONSTANTS c1, c2, c3

MCLength == (c1 :> 4) @@ (c2 :> 0) @@ (c3 :> 0)
MCEnds == {1, 2, 4}
=============================================================================
