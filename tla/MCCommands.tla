------------------------------ MODULE MCCommands ------------------------------
(***************************************************************************)
(* Instances of Commands for TLC.                                          *)
(***************************************************************************)
EXTENDS Commands

(* The rest of one; a whole one; the first part of one; two in one; and a whole    *)
(* one that is a command which fails.                                          *)
MCKinds ==
  LET Kind(s, n, here) == [size |-> s, length |-> n, local |-> here, valid |-> FALSE] IN
    {Kind(2, 0, FALSE), Kind(9, 3, FALSE), Kind(7, 3, FALSE), Kind(16, 1, FALSE),
     Kind(7, 1, TRUE)}

(* Steps of one degree and of two, and an azimuth that takes a sign and four        *)
(* characters.                                                                *)
MCPositions == {<<0, 0>>, <<1, 1>>, <<2, 1>>, <<-180, 0>>}
=============================================================================
