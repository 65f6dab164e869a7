-------------------------- MODULE MCStreamLifecycle --------------------------
(* Instances of StreamLifecycle for TLC.                                   *)
EXTENDS StreamLifecycle

\* Three descriptors for two streams: one more than both sockets need, so
\* that a number one stream gave up is there for the other.
MCFds == 3 .. 5
=============================================================================
