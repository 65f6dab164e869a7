---------------------------- MODULE MCParamUpdate ----------------------------
(* Instances of ParamUpdate for TLC.                                       *)
EXTENDS ParamUpdate, FiniteSets, TLC

CONSTANTS f1, f2, x1, x2

MCFrameIds == {f1, f2}
MCFilters  == {x1, x2}

\* Calls that set one or two parameters: a flag, both flags, a flag and the
\* config, both parts of the config.
MaxParams == 2
MCBatches ==
  {b \in Batch : Cardinality({p \in DOMAIN b : b[p] # Keep}) \in 1..MaxParams}

\* No action tells one frame id, or one filter, from another.
Symm == Permutations(MCFrameIds) \cup Permutations(MCFilters)
=============================================================================
