-------------------------------- MODULE MCRdp --------------------------------
(***************************************************************************)
(* Instances of Rdp for TLC.                                               *)
(***************************************************************************)
EXTENDS Rdp

(* The first number of each end is close to the wrap, and the server's first  *)
(* is that of the connection it may still have from before.                   *)
MCIss == [client |-> <<M - 2, 5>>, server |-> <<M - 1, 2>>]

MCMaxSend == [client |-> 2, server |-> 1]

MCManySend == [client |-> 4, server |-> 0]
=============================================================================
