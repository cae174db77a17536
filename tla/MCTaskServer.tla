---------------------------- MODULE MCTaskServer ----------------------------
(***************************************************************************)
(* Instances of TaskServer for TLC.                                        *)
(***************************************************************************)
EXTENDS TaskServer, TLC

CONSTANTS tm, re, pg, ft    \* one flow per service: telemetry, reply, ping, FTP

MCPortOf ==
  [f \in Flows |-> CASE f = tm -> "telemetry" [] f = re -> "reply"
                     [] f = pg -> "ping" [] f = ft -> "ftp"]

(* Buffers are interchangeable.                                            *)
BufferSymmetry == Permutations(Buffers)

=============================================================================
