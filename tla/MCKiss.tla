-------------------------------- MODULE MCKiss --------------------------------
(***************************************************************************)
(* An instance of Kiss for TLC.                                             *)
(***************************************************************************)
EXTENDS Kiss, TLC

(* Both bytes that are escaped, and more than fits.                          *)
MCPayloads == {<<FEND, FESC>>, <<TFEND, 7, 7>>}

MCNoise == {FEND, FESC, 7}

Threads == Permutations(Senders)
=============================================================================
