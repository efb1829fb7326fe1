---------------------------- MODULE JitterBuffer ----------------------------
(***************************************************************************)
(* The phone's jitter buffer (audio/JitterBuffer.kt), together with the    *)
(* two loops that drive it (network/AudioReceiver.kt): the receive loop    *)
(* pushes every packet that authenticates, the playback loop pops.         *)
(*                                                                         *)
(* The sender numbers packets 0, 1, 2, ... modulo 2^32; the network loses, *)
(* delays, duplicates and reorders them.  A buffered chunk is represented  *)
(* by its sequence number: the TreeMap's keys, whose order is UNSIGNED,    *)
(* while the play position is compared by SIGNED distance.  push and pop   *)
(* are atomic here, as the class is written and unit-tested; what happens  *)
(* when the two threads interleave inside them is a separate question.     *)
(*                                                                         *)
(* Not here: the frame-level drift correction, which reads the depth but   *)
(* feeds nothing back into the state below, and the diagnostic counters.   *)
(***************************************************************************)
EXTENDS Integers, FiniteSets

CONSTANTS
  HalfSpace,       \* 2^31 in the program: half the sequence-number space
  InitialHeads,    \* where the sender's counter may stand when a session starts
  LastSeq,         \* bound of a run: the sender stops here (-1: never)
  Reorder,         \* bound: how far behind the newest packet one may still arrive
  Sizes,           \* packet payload sizes, in bytes, the sender may use
  SeedSize,        \* the constructor's guess of the packet size
  TargetBytes,     \* configured depth: targetDepthMs * bytesPerMs
  BaseMax,         \* baseMaxBufferedChunks
  ResyncDistance,  \* RESYNC_DISTANCE_CHUNKS
  MaxConceal,      \* MAX_CONSECUTIVE_CONCEALMENTS
  TrimMargin,      \* LATENCY_TRIM_MIN_MARGIN_CHUNKS
  AdaptWindow,     \* ADAPT_WINDOW_POPS
  GrowShare,       \* 1 / LATE_FRACTION_TO_GROW
  MaxExtraBytes    \* MAX_ADAPTIVE_EXTRA_MS * bytesPerMs

SeqSpace == 2 * HalfSpace
Seqs     == 0..(SeqSpace - 1)
NoSeq    == -1

ASSUME BufferAssumption ==
  /\ HalfSpace \in Nat \ {0}
  /\ InitialHeads \subseteq Seqs
  /\ LastSeq \in Seqs \cup {NoSeq}
  /\ Reorder \in Nat \ {0}
  /\ Sizes \subseteq Nat \ {0}
  /\ SeedSize \in Nat \ {0}
  /\ TargetBytes \in Nat \ {0}
  /\ BaseMax \in Nat \ {0}
  /\ ResyncDistance \in Nat
  /\ MaxConceal \in Nat \ {0}
  /\ TrimMargin \in Nat
  /\ AdaptWindow \in Nat \ {0}
  /\ GrowShare \in Nat \ {0, 1}
  /\ MaxExtraBytes \in Nat

VARIABLES
  \* the sender and the network
  head,                    \* sequence number of the next packet to be sent
  sent,                    \* packets behind head that may still arrive (at most Reorder)
  \* the fields of JitterBuffer
  chunks,                  \* keys of the TreeMap
  nextSequence,            \* the play position, or NoSeq for null
  started,
  chunkSizeBytes,
  pendingChunkSizeBytes,
  consecutiveConcealments,
  adaptiveExtraChunks,
  windowPops,
  windowLate,
  windowConcealed,
  \* what the last call was: the packet pushed or NoSeq, and what pop gave the playback loop,
  \* "null", "silence" or "audio", or "none"
  arrived,
  output

network == <<head, sent>>
size    == <<chunkSizeBytes, pendingChunkSizeBytes>>
window  == <<adaptiveExtraChunks, windowPops, windowLate, windowConcealed>>
play    == <<chunks, nextSequence, started, consecutiveConcealments>>
call    == <<arrived, output>>
vars    == <<network, size, window, play, call>>

-----------------------------------------------------------------------------
(* Sequence numbers *)

Succ(s) == IF s + 1 = SeqSpace THEN 0 ELSE s + 1

\* (a - b).toInt() for two UInts: the signed, wraparound-correct distance.
Distance(a, b) ==
  LET d == a - b IN
  IF d >= HalfSpace THEN d - SeqSpace
  ELSE IF d < -HalfSpace THEN d + SeqSpace
  ELSE d

\* TreeMap.firstKey(): the least key in unsigned order.
FirstKey(S) == CHOOSE s \in S : \A t \in S : s <= t

\* What is left of S when pollFirstEntry() has run until n keys remain.
KeepLast(S, n) == {s \in S : Cardinality({t \in S : t > s}) < n}

-----------------------------------------------------------------------------
(* Depths derived from the observed packet size *)

AtLeast(m, n) == IF n < m THEN m ELSE n
AtMost(m, n)  == IF n > m THEN m ELSE n

EffectiveTarget(bytes, extra) ==
  AtLeast(1, (TargetBytes + bytes - 1) \div bytes + extra)

MaxBufferedChunks(bytes, extra) == AtLeast(BaseMax, 3 * EffectiveTarget(bytes, extra))

LatencyTrimThreshold(bytes, extra) ==
  LET target == EffectiveTarget(bytes, extra)
  IN  AtLeast(2 * target, target + TrimMargin)

ExtraCeiling(bytes) == MaxExtraBytes \div bytes

-----------------------------------------------------------------------------
Init ==
  /\ head \in InitialHeads
  /\ sent = 0
  /\ chunks = {}
  /\ nextSequence = NoSeq
  /\ started = FALSE
  /\ chunkSizeBytes = SeedSize
  /\ pendingChunkSizeBytes = 0
  /\ consecutiveConcealments = 0
  /\ adaptiveExtraChunks = 0
  /\ windowPops = 0
  /\ windowLate = 0
  /\ windowConcealed = 0
  /\ arrived = NoSeq /\ output = "none"

(* The laptop sends its next packet. *)
Send ==
  /\ head # LastSeq
  /\ head' = Succ(head)
  /\ sent' = AtMost(Reorder, sent + 1)
  /\ UNCHANGED <<size, window, play, call>>

\* Packets the network may deliver now: lost ones are those never picked.
InFlight == {s \in Seqs : Distance(head, s) \in 1..sent}

-----------------------------------------------------------------------------
(* push, one action per way through it *)

\* observeChunkSize: a new size is adopted when it repeats.
ObserveChunkSize(bytes) ==
  /\ chunkSizeBytes' = IF bytes = pendingChunkSizeBytes THEN bytes ELSE chunkSizeBytes
  /\ pendingChunkSizeBytes' =
       IF bytes \in {chunkSizeBytes, pendingChunkSizeBytes} THEN 0 ELSE bytes

TooFar(s) ==
  /\ nextSequence # NoSeq
  /\ \/ Distance(s, nextSequence) < -ResyncDistance
     \/ Distance(s, nextSequence) > ResyncDistance

\* Mutant: the packet that is due counts as late.
TooLateOrDue(s) ==
  /\ nextSequence # NoSeq
  /\ ~TooFar(s)
  /\ Distance(s, nextSequence) <= 0

TooLate(s) ==
  /\ nextSequence # NoSeq
  /\ ~TooFar(s)
  /\ Distance(s, nextSequence) < 0

\* resync(), and then the packet becomes the first of the new position.
Resync ==
  /\ nextSequence' = NoSeq
  /\ started' = FALSE
  /\ consecutiveConcealments' = 0

\* Mutant: no cap.
EvictNone(s) == {}

\* Evicts the first key when the map is full and s is not in it already.
Evicted(s) ==
  IF Cardinality(chunks) >= MaxBufferedChunks(chunkSizeBytes', adaptiveExtraChunks)
     /\ s \notin chunks
  THEN {FirstKey(chunks)}
  ELSE {}

Pushed(s) == arrived' = s /\ output' = "none"

\* windowLate stops counting at AdaptWindow: the share test is decided by then.
PushLate(s, bytes) ==
  /\ TooLate(s)
  /\ ObserveChunkSize(bytes)
  /\ windowLate' = AtMost(AdaptWindow, windowLate + 1)
  /\ Pushed(s)
  /\ UNCHANGED <<network, play, adaptiveExtraChunks, windowPops, windowConcealed>>

PushResync(s, bytes) ==
  /\ TooFar(s)
  /\ ObserveChunkSize(bytes)
  /\ Resync
  /\ chunks' = {s}
  /\ Pushed(s)
  /\ UNCHANGED <<network, window>>

PushBuffer(s, bytes) ==
  /\ ~TooFar(s) /\ ~TooLate(s)
  /\ ObserveChunkSize(bytes)
  /\ chunks' = (chunks \ Evicted(s)) \cup {s}
  /\ Pushed(s)
  /\ UNCHANGED <<network, window, nextSequence, started, consecutiveConcealments>>

Push(s, bytes) == PushLate(s, bytes) \/ PushResync(s, bytes) \/ PushBuffer(s, bytes)

-----------------------------------------------------------------------------
(* pop, one action per way through it *)

Target    == EffectiveTarget(chunkSizeBytes, adaptiveExtraChunks)
Threshold == LatencyTrimThreshold(chunkSizeBytes, adaptiveExtraChunks)

\* started, or about to start because the target depth is reached
Ready == started \/ Cardinality(chunks) >= Target

\* Mutant: the depth is not looked at by the pop that starts playback.
TrimmingWhenStarted == started /\ Cardinality(chunks) > Threshold

Trimming == Cardinality(chunks) > Threshold

\* The buffer and the position after the start and the trim at the top of pop.
Kept == IF Trimming THEN KeepLast(chunks, Target) ELSE chunks

Position == IF Trimming \/ ~started THEN FirstKey(Kept) ELSE nextSequence

ConcealedSoFar == IF Trimming \/ ~started THEN 0 ELSE consecutiveConcealments

\* adaptDepth: at the end of a window, grow on lateness, shrink when it was clean.
WindowEnds == windowPops + 1 >= AdaptWindow

\* Mutant: no ceiling.
UnboundedExtra ==
  IF windowLate * GrowShare > windowPops + 1
  THEN adaptiveExtraChunks + AtLeast(1, Target \div 4)
  ELSE IF windowConcealed = 0 /\ adaptiveExtraChunks > 0
  THEN adaptiveExtraChunks - 1
  ELSE adaptiveExtraChunks

AdaptedExtra ==
  IF windowLate * GrowShare > windowPops + 1
  THEN AtMost(ExtraCeiling(chunkSizeBytes),
              adaptiveExtraChunks + AtLeast(1, Target \div 4))
  ELSE IF windowConcealed = 0 /\ adaptiveExtraChunks > 0
  THEN adaptiveExtraChunks - 1
  ELSE adaptiveExtraChunks

AdaptDepth(concealed) ==
  /\ adaptiveExtraChunks' = IF WindowEnds THEN AdaptedExtra ELSE adaptiveExtraChunks
  /\ windowPops' = IF WindowEnds THEN 0 ELSE windowPops + 1
  /\ windowLate' = IF WindowEnds THEN 0 ELSE windowLate
  /\ windowConcealed' = (IF WindowEnds THEN 0 ELSE windowConcealed) + concealed

Popped(result) == arrived' = NoSeq /\ output' = result

PopPrebuffering ==
  /\ ~Ready
  /\ Popped("null")
  /\ UNCHANGED <<network, size, window, play>>

\* Mutant: conceal and advance through an empty buffer.
ConcealOnEmpty ==
  /\ Ready
  /\ Kept = {}
  /\ AdaptDepth(1)
  /\ nextSequence' = Succ(nextSequence)
  /\ Popped("silence")
  /\ UNCHANGED <<network, size, chunks, started, consecutiveConcealments>>

\* Nothing buffered: pause and refill, keeping the position.
PopRefill ==
  /\ Ready
  /\ Kept = {}
  /\ AdaptDepth(0)
  /\ started' = FALSE
  /\ Popped("null")
  /\ UNCHANGED <<network, size, chunks, nextSequence, consecutiveConcealments>>

PopAudio ==
  /\ Ready
  /\ Position \in Kept
  /\ AdaptDepth(0)
  /\ started' = TRUE
  /\ chunks' = Kept \ {Position}
  /\ nextSequence' = Succ(Position)
  /\ consecutiveConcealments' = 0
  /\ Popped("audio")
  /\ UNCHANGED <<network, size>>

\* Mutant: one concealment too many.
PopConcealOneMore ==
  /\ Ready
  /\ Kept # {} /\ Position \notin Kept
  /\ ConcealedSoFar + 1 <= MaxConceal
  /\ AdaptDepth(1)
  /\ started' = TRUE
  /\ chunks' = Kept
  /\ nextSequence' = Succ(Position)
  /\ consecutiveConcealments' = ConcealedSoFar + 1
  /\ Popped("silence")
  /\ UNCHANGED <<network, size>>

PopConceal ==
  /\ Ready
  /\ Kept # {} /\ Position \notin Kept
  /\ ConcealedSoFar + 1 < MaxConceal
  /\ AdaptDepth(1)
  /\ started' = TRUE
  /\ chunks' = Kept
  /\ nextSequence' = Succ(Position)
  /\ consecutiveConcealments' = ConcealedSoFar + 1
  /\ Popped("silence")
  /\ UNCHANGED <<network, size>>

\* MAX_CONSECUTIVE_CONCEALMENTS in a row: give up on the position.
PopStarved ==
  /\ Ready
  /\ Kept # {} /\ Position \notin Kept
  /\ ConcealedSoFar + 1 >= MaxConceal
  /\ AdaptDepth(1)
  /\ Resync
  /\ chunks' = {}
  /\ Popped("silence")
  /\ UNCHANGED <<network, size>>

Pop == PopPrebuffering \/ PopRefill \/ PopAudio \/ PopConceal \/ PopStarved

-----------------------------------------------------------------------------
Next ==
  \/ Send
  \/ \E s \in InFlight, bytes \in Sizes : Push(s, bytes)
  \/ Pop

Spec == Init /\ [][Next]_vars

\* The receive loop takes the newest packet as soon as it is there.
PushNewest == \E s \in InFlight, bytes \in Sizes : Distance(head, s) = 1 /\ Push(s, bytes)

(***************************************************************************)
(* Fairness.  The playback loop never stops popping (it blocks only in a   *)
(* write that ends), the laptop keeps sending, and the link is not dead:   *)
(* again and again a packet arrives before its successor is sent.  That    *)
(* must be one that makes a difference to the buffer: with 2^32 sequence   *)
(* numbers none has the number of one that still waits or of one just      *)
(* played, but in the small space of a run it may.                         *)
(***************************************************************************)
FairSpec == Spec /\ WF_vars(Pop) /\ WF_vars(Send) /\ SF_play(PushNewest)

\* The run ends before the sequence numbers come back to the other half of the
\* space: with 2^31 packets of 5 ms, four months of streaming.
NoWrap ==
  /\ InitialHeads \subseteq 0..LastSeq
  /\ LastSeq \in 0..(HalfSpace - 1)

-----------------------------------------------------------------------------
(* Properties *)

\* A started buffer has a play position.
StartedOK == started \in BOOLEAN /\ (started => nextSequence # NoSeq)

\* Every field holds a value of its type; a started buffer has a play position
\* (so pop's `nextSequence ?: return null` is never taken), and a run of
\* concealments is always shorter than the one that forces a resync.
TypeOK ==
  /\ head \in Seqs
  /\ sent \in 0..Reorder
  /\ chunks \in SUBSET Seqs
  /\ nextSequence \in Seqs \cup {NoSeq}
  /\ StartedOK
  /\ chunkSizeBytes \in Sizes \cup {SeedSize}
  /\ pendingChunkSizeBytes \in Sizes \cup {0}
  /\ consecutiveConcealments \in 0..(MaxConceal - 1)
  /\ adaptiveExtraChunks \in 0..MaxExtraBytes
  /\ windowPops \in 0..(AdaptWindow - 1)
  /\ windowLate \in 0..AdaptWindow
  /\ windowConcealed \in 0..(windowPops + 1)
  /\ arrived \in Seqs \cup {NoSeq}
  /\ output \in {"null", "silence", "audio", "none"}

\* Nothing buffered lies behind the play position (push drops late packets,
\* start and trim move the position to the oldest chunk kept): what is in the
\* buffer is still going to be played.
NothingBehindPosition ==
  nextSequence # NoSeq => \A s \in chunks : Distance(s, nextSequence) >= 0

\* The play position never overtakes the sender: an empty buffer pauses
\* instead of burning through sequence numbers that are still in flight.
PositionNotPastSender ==
  nextSequence # NoSeq => Distance(head, nextSequence) >= 0

\* The buffer is bounded by the cap of the deepest target it may ever have, that of the
\* adaptive ceiling, whatever the order of arrivals, and however the packet size and the
\* target move meanwhile: the ceiling is that of a size the sender used at some time.
BoundedBuffer ==
  \E bytes, at \in Sizes \cup {SeedSize} :
    Cardinality(chunks) <= MaxBufferedChunks(bytes, ExtraCeiling(at))

\* The play position only moves forward, except when a resync gives it up.
PlaysForward ==
  [][nextSequence # NoSeq /\ nextSequence' # NoSeq
       => Distance(nextSequence', nextSequence) >= 0]_vars

\* Standing latency is corrected at once: no pop leaves the buffer deeper than
\* the trim threshold it was checked against.
PopBoundsLatency == [][Pop => Cardinality(chunks') <= Threshold]_vars

\* While the sender keeps to one packet size, the depth the buffer adds by itself
\* stays under MAX_ADAPTIVE_EXTRA_MS, through the switch from the guessed size too.
ExtraUnderCeiling == adaptiveExtraChunks * chunkSizeBytes <= MaxExtraBytes

\* While the sequence numbers do not wrap, the buffer is a playout of the stream, whatever
\* the network loses, delays, duplicates and reorders.  A packet that arrives is kept unless
\* its turn is over; between two resyncs chunks are played in order and none twice; only a
\* full buffer gives up chunks that wait, and only silence that went on too long or a packet
\* from far away makes it forget the position.
PO == INSTANCE Playout WITH
        NoPosition <- NoSeq, Far <- ResyncDistance, Room <- BaseMax, Slack <- TrimMargin + 1,
        position <- nextSequence, pending <- chunks

ImplementsPlayout == PO!Spec

\* The buffer cannot wedge: while packets keep arriving, real audio is
\* released again and again.
AudioAgain == []<><<Pop /\ output' = "audio">>_vars
=============================================================================
