---------------------------- MODULE PhoneSession ----------------------------
(***************************************************************************)
(* What the phone's service promises its user: a session begins only while *)
(* the service is on; a prompt for a code is for the laptop of a session,  *)
(* which takes it along; a key is stored only of that laptop, which then   *)
(* is the one discovery looks for.  If sessions are exclusive, there is    *)
(* one at a time, and a service is switched off between them and does      *)
(* nothing any more.                                                       *)
(*                                                                         *)
(* Who starts and ends a session, and in how many steps, is left open:     *)
(* RelayService decides that, and implements this.                         *)
(***************************************************************************)
CONSTANTS Laptops, None, Jobs, Exclusive

VARIABLES
  on,
  peer,   \* the laptop each job has a session with, or None
  prompt, \* the laptop whose code is asked for, or None
  keys,   \* laptops whose key is stored
  last    \* the one discovery looks for, or None

store == <<keys, last>>
vars  == <<on, peer, prompt, store>>

Idle == \A j \in Jobs : peer[j] = None

Init ==
  /\ on = TRUE
  /\ peer = [j \in Jobs |-> None]
  /\ prompt = None
  /\ keys \in SUBSET Laptops
  /\ last \in keys \cup {None}

\* Sessions that overlap may outlast the service.
Serves(j) == peer[j] # None /\ (Exclusive => on)

Begin(j, l) ==
  /\ on /\ peer[j] = None
  /\ Exclusive => Idle
  /\ peer' = [peer EXCEPT ![j] = l]
  /\ UNCHANGED <<on, prompt, store>>

Drop(l) ==
  /\ keys' = keys \ {l}
  /\ last' = IF last = l THEN None ELSE last

\* A key that was refused is dropped for the code.
Ask(j) ==
  /\ Serves(j)
  /\ prompt' = peer[j]
  /\ Drop(peer[j]) \/ UNCHANGED store
  /\ UNCHANGED <<on, peer>>

Store(j) ==
  /\ Serves(j)
  /\ keys' = keys \cup {peer[j]} /\ last' = peer[j]
  /\ prompt' = None
  /\ UNCHANGED <<on, peer>>

Withdraw ==
  /\ Exclusive => on
  /\ prompt' = None
  /\ UNCHANGED <<on, peer, store>>

\* The prompt goes before the session does, or is another's.
End(j) ==
  /\ Serves(j)
  /\ prompt # None => \E i \in Jobs \ {j} : peer[i] = prompt
  /\ peer' = [peer EXCEPT ![j] = None]
  /\ UNCHANGED <<on, prompt, store>>

Forget(l) ==
  /\ on
  /\ Drop(l)
  /\ UNCHANGED <<on, peer, prompt>>

SwitchOff ==
  /\ on
  /\ Exclusive => Idle /\ prompt = None
  /\ on' = FALSE
  /\ UNCHANGED <<peer, prompt, store>>

Next ==
  \/ \E j \in Jobs : Ask(j) \/ Store(j) \/ End(j) \/ \E l \in Laptops : Begin(j, l)
  \/ \E l \in Laptops : Forget(l)
  \/ Withdraw \/ SwitchOff

Spec == Init /\ [][Next]_vars

TypeOK == peer \in [Jobs -> Laptops \cup {None}]

\* A prompt is for the laptop of a session, and discovery never looks for one whose key is
\* gone.  If sessions are exclusive there is one, and none when the service is off.
Orderly ==
  /\ prompt # None => \E j \in Jobs : peer[j] = prompt
  /\ last # None => last \in keys
  /\ Exclusive =>
       /\ \A i, j \in Jobs : peer[i] # None /\ peer[j] # None => i = j
       /\ ~on => Idle
=============================================================================
