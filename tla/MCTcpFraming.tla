---------------------------- MODULE MCTcpFraming ----------------------------
(* An instance of TcpFraming for TLC.                                      *)
EXTENDS TcpFraming

\* Empty, short, just fitting and too large for a buffer of four cells.
MCLengths == {0, 1, 2, 3}
=============================================================================
