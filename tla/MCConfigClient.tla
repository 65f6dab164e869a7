--------------------------- MODULE MCConfigClient ---------------------------
(* An instance of ConfigClient for TLC.                                    *)
EXTENDS ConfigClient

\* No body, one chunk, the largest that is read, one that is too large.
MCMaxBody   == 3
MCBodySizes == {0, 1, 3, 4}
=============================================================================
