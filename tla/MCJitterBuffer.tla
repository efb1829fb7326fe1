--------------------------- MODULE MCJitterBuffer ---------------------------
(* The jitter buffer for TLC: the program's constants scaled down. *)
EXTENDS JitterBuffer

MCSizes == {1}
MCLiveSizes == {2}
MCTwoSizes == {1, 2}
MCHeads == {0}
MCWrapHeads == {13}
=============================================================================
