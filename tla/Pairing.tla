------------------------------ MODULE Pairing ------------------------------
(***************************************************************************)
(* What the handshake of one phone and one laptop promises: a key is used, *)
(* and remembered, by the phone only if the laptop granted it on the very  *)
(* connection the phone is on, and it is the key the laptop uses itself.   *)
(* Codes, proofs, messages and refusals are left to the module Handshake,  *)
(* which implements this one.                                              *)
(***************************************************************************)
CONSTANTS
  Keys,
  Laptops, \* device ids a laptop goes by
  NoKey

VARIABLES
  granted, \* the key the laptop uses, once it has granted it
  offer,   \* the key it granted and the phone has not heard of yet
  adopted, \* the key the phone uses
  stored   \* for each laptop, the key the phone remembers

vars == <<granted, offer, adopted, stored>>

Init ==
  /\ granted = NoKey
  /\ offer = NoKey
  /\ adopted = NoKey
  /\ stored = [i \in Laptops |-> NoKey]

\* Nothing is granted over the head of a phone that uses a key already.  The grant may
\* come too late for a phone that has gone.
Grant(k) ==
  /\ granted = NoKey /\ adopted = NoKey
  /\ granted' = k
  /\ offer' \in {k, NoKey}
  /\ UNCHANGED <<adopted, stored>>

Adopt ==
  /\ offer # NoKey
  /\ adopted' = offer
  /\ offer' = NoKey
  /\ UNCHANGED <<granted, stored>>

Remember(i) ==
  /\ adopted # NoKey
  /\ stored' = [stored EXCEPT ![i] = adopted]
  /\ UNCHANGED <<granted, offer, adopted>>

Discard(i) ==
  /\ stored' = [stored EXCEPT ![i] = NoKey]
  /\ UNCHANGED <<granted, offer, adopted>>

\* What it granted may be lost, or still reach the phone.
LaptopEnds ==
  /\ granted' = NoKey
  /\ offer' \in {offer, NoKey}
  /\ UNCHANGED <<adopted, stored>>

PhoneEnds ==
  /\ adopted' = NoKey
  /\ offer' = NoKey
  /\ UNCHANGED <<granted, stored>>

Next ==
  \/ \E k \in Keys : Grant(k)
  \/ Adopt
  \/ \E i \in Laptops : Remember(i) \/ Discard(i)
  \/ LaptopEnds \/ PhoneEnds

Spec == Init /\ [][Next]_vars

\* While both use a key it is the same one.
Agreement == granted # NoKey /\ adopted # NoKey => granted = adopted
=============================================================================
