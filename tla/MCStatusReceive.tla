-------------------------- MODULE MCStatusReceive ---------------------------
(* An instance of StatusReceive for TLC.                                   *)
EXTENDS StatusReceive

Dg(valid, method, id, iso) ==
  [valid |-> valid, method |-> method, data_id |-> id, iso |-> iso]

\* The last digits of the ids.
MCDataId == [s \in {"shi", "spi"} |-> IF s = "shi" THEN 3 ELSE 4]

\* No entries, as many as there is room for and one more; SPI without its
\* array; counters on both sides of the wrap-around; the other stream's id
\* and a foreign header.
MCDatagrams ==
  { Dg(TRUE, "shi", 3, <<6, 0>>), Dg(TRUE, "shi", 3, <<7, 1, 5>>),
    Dg(TRUE, "shi", 3, <<0, 2, 6, 7>>),
    Dg(TRUE, "spi", 4, <<6>>), Dg(TRUE, "spi", 4, <<7, 1, 5>>),
    Dg(TRUE, "spi", 4, <<0, 2, 6, 7>>),
    Dg(TRUE, "shi", 4, <<7, 0>>), Dg(TRUE, "spi", 3, <<7>>),
    Dg(FALSE, "shi", 3, <<7, 0>>), Dg(FALSE, "spi", 4, <<7>>) }
=============================================================================
