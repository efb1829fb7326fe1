-------------------------- MODULE MCLaptopSession --------------------------
(* The laptop's sessions for TLC: phones and connections are model values. *)
EXTENDS LaptopSession

CONSTANTS p1, p2, c1, c2

MCOnePhone  == {p1}
MCPhones    == {p1, p2}
MCOneConn   == {c1}
MCConns     == {c1, c2}
=============================================================================
