--------------------------- MODULE MCMessageBuild ---------------------------
(* An instance of MessageBuild for TLC.                                    *)
EXTENDS MessageBuild

\* Every length up to a message with one element too many in every array:
\* 36 bytes of headers, then 57 + 3 + 3 * (17 + 9 + 16) for SPI.
MCDatagramSizes == 0 .. 230

\* Below, at and above the capacities, and the largest value there is.
MCBytes == {0, 1, 2, 3, 255}
MCWords == {0, 1, 2, 3, 65535}
=============================================================================
