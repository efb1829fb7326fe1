--------------------------- MODULE MCRelayService ---------------------------
(* The service for TLC: two laptops to choose from, two sessions that could   *)
(* be there at once.                                                          *)
EXTENDS RelayService

CONSTANTS l1, l2, j1, j2

MCLaptops == {l1, l2}
MCJobs    == {j1, j2}
=============================================================================
