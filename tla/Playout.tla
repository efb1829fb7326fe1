------------------------------ MODULE Playout ------------------------------
(***************************************************************************)
(* What a listener is promised of a stream of numbered chunks.  A chunk    *)
(* that arrives is kept if its turn is still to come, and refused if not.  *)
(* Chunks are played in the order they were sent; silence takes the place  *)
(* of one only if it is missing while a later one waits.                   *)
(*                                                                         *)
(* Playback may restart: after silence, giving up on what waited, or at a  *)
(* chunk from far away.  A restart forgets the position, and with it what  *)
(* has been played: a late copy of a played chunk may then be played       *)
(* again.  In between nothing is played twice (Once).                      *)
(*                                                                         *)
(* How deep the queue is, when it is cut, when playback pauses and how     *)
(* much silence there is before a restart are left open: JitterBuffer      *)
(* decides that, and implements this.                                      *)
(***************************************************************************)
EXTENDS Integers, FiniteSets

CONSTANTS
  NoPosition,
  Far,    \* how far from the position a chunk is taken for another stream
  Room,   \* chunks that may wait before the oldest makes room for a new one
  Slack   \* chunks that may wait before playback skips some

VARIABLES
  head,     \* chunks sent: the number of the next
  position, \* number of the chunk to be played next, or NoPosition
  pending,  \* chunks that have arrived and wait to be played
  arrived,  \* the chunk that arrived last, or NoPosition if playback took a turn since
  output    \* what the listener got then: "null", "silence" or "audio"; or "none"

vars == <<head, position, pending, arrived, output>>

Init ==
  /\ head \in Nat
  /\ position = NoPosition
  /\ pending = {}
  /\ arrived = NoPosition /\ output = "none"

Behind(n) == position # NoPosition /\ n < position

FarAway(n) == position # NoPosition /\ n - position \notin -Far..Far

Send ==
  /\ head' = head + 1
  /\ UNCHANGED <<position, pending, arrived, output>>

\* The oldest may have to make room.
Keep(n) ==
  /\ ~Behind(n)
  /\ \/ pending' = pending \cup {n}
     \/ /\ Cardinality(pending) >= Room
        /\ \E oldest \in pending :
             /\ \A m \in pending : oldest <= m
             /\ pending' = (pending \ {oldest}) \cup {n}

Refuse(n) == Behind(n) /\ UNCHANGED pending

Arrives(n) == n \in 0..(head - 1) /\ arrived' = n /\ output' = "none" /\ UNCHANGED head

\* A chunk arrives, once or again.
Arrive(n) ==
  /\ Arrives(n) /\ ~FarAway(n)
  /\ Keep(n) \/ Refuse(n)
  /\ UNCHANGED position

\* It is all there is after a restart.
Jump(n) ==
  /\ Arrives(n) /\ FarAway(n)
  /\ position' = NoPosition
  /\ pending' = {n}

Turn(result) == arrived' = NoPosition /\ output' = result /\ UNCHANGED head

\* One that waits is played; older ones are skipped if too many wait.
Play(n) ==
  /\ n \in pending
  /\ ~Behind(n)
  /\ (\E m \in pending : m < n) => Cardinality(pending) > Slack
  /\ position' = n + 1
  /\ pending' = {m \in pending : m > n}
  /\ Turn("audio")

Missing ==
  /\ position # NoPosition
  /\ position \notin pending
  /\ \E m \in pending : m > position

Conceal ==
  /\ Missing
  /\ position' = position + 1
  /\ Turn("silence")
  /\ UNCHANGED pending

GiveUp ==
  /\ Missing
  /\ position' = NoPosition
  /\ pending' = {}
  /\ Turn("silence")

Pause == Turn("null") /\ UNCHANGED <<position, pending>>

Next ==
  \/ Send
  \/ \E n \in 0..(head - 1) : Arrive(n) \/ Jump(n)
  \/ \E n \in pending : Play(n)
  \/ Conceal \/ GiveUp \/ Pause

Spec == Init /\ [][Next]_vars

\* What waits has been sent and is not behind the position, and playback never gets ahead of
\* the sender, silence included.
Honest ==
  /\ \A n \in pending : n < head /\ ~Behind(n)
  /\ position # NoPosition => position <= head

\* What is played, or was skipped or played before, neither waits nor comes back to be played,
\* however many copies of it arrive, until playback restarts.
Once ==
  [][\A n \in 0..(head - 1) :
       Behind(n) \/ Play(n) =>
         position' = NoPosition \/ (Behind(n)' /\ n \notin pending')]_vars
=============================================================================
