------------------------------ MODULE MCShmRing -----------------------------
(* Instances of ShmRing for TLC; the bounds are discussed in README.md.    *)
EXTENDS ShmRing

\* An empty payload (a bare RTP header makes one), a small and a large frame.
MCSizes == {0, 1, 3}
=============================================================================
