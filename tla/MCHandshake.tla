---------------------------- MODULE MCHandshake ----------------------------
(* The handshake for TLC: one phone, two codes, two device ids of the laptop. *)
EXTENDS Handshake

CONSTANTS p1, c1, c2

MCPhones == {p1}
MCCodes  == {c1, c2}
=============================================================================
