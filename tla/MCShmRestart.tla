---------------------------- MODULE MCShmRestart ----------------------------
(* An instance of ShmRestart for TLC; the bounds are discussed in README.  *)
EXTENDS ShmRestart

\* An empty payload and one that makes frames wrap in the middle of a header.
MCSizes == {0, 2}
=============================================================================
