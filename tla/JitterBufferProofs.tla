------------------------- MODULE JitterBufferProofs -------------------------
(* Theorems about the jitter buffer, for every value of its constants. *)
EXTENDS JitterBuffer, FiniteSetTheorems, WellFoundedInduction, TLAPS

-----------------------------------------------------------------------------
(* Arithmetic of the derived depths *)

\* A quotient is between zero and its dividend.
LEMMA DivBounds ==
  ASSUME NEW a \in Nat, NEW b \in Nat \ {0}
  PROVE  a \div b \in 0..a
  OBVIOUS

\* effectiveTargetChunks is at least one chunk.
LEMMA TargetType ==
  ASSUME NEW bytes \in Nat \ {0}, NEW extra \in Nat
  PROVE  EffectiveTarget(bytes, extra) \in Nat \ {0}
<1>1. TargetBytes + bytes - 1 \in Nat
  BY BufferAssumption
<1>2. (TargetBytes + bytes - 1) \div bytes \in Nat
  BY <1>1, DivBounds
<1>3. QED
  BY <1>2 DEF EffectiveTarget, AtLeast

\* The adaptive extra, in chunks, is at most MAX_ADAPTIVE_EXTRA_MS in bytes.
LEMMA CeilingType ==
  ASSUME NEW bytes \in Nat \ {0}
  PROVE  ExtraCeiling(bytes) \in 0..MaxExtraBytes
  BY BufferAssumption, DivBounds DEF ExtraCeiling

-----------------------------------------------------------------------------
(* The first key of a non-empty set of sequence numbers is its least element. *)

NatLess == {p \in Nat \X Nat : p[1] < p[2]}

\* firstKey() of a non-empty map is one of its keys, and the least.
LEMMA FirstKeyIsLeast ==
  ASSUME NEW S \in SUBSET Nat, S # {}
  PROVE  /\ FirstKey(S) \in S
         /\ \A t \in S : FirstKey(S) <= t
<1>1. IsWellFoundedOn(NatLess, Nat)
  BY NatLessThanWellFounded, Zenon DEF OpToRel, NatLess
<1>2. PICK x \in S : \A y \in S : ~ (<<y, x>> \in NatLess)
  BY <1>1, WFMin
<1>3. ASSUME NEW y \in S, y < x PROVE FALSE
  <2>1. <<y, x>> \in NatLess
    BY <1>3 DEF NatLess
  <2>2. QED
    BY <1>2, <2>1
<1>4. \E y \in S : \A t \in S : y <= t
  BY <1>3
<1>5. QED
  BY <1>4, Zenon DEF FirstKey

-----------------------------------------------------------------------------
(* What the top of pop leaves: a part of the buffer, and a position in it     *)
(* whenever pop starts or trims, unless nothing is left.                      *)

\* trimToTarget only takes chunks out.
LEMMA KeptPart ==
  ASSUME chunks \in SUBSET Seqs
  PROVE  Kept \in SUBSET chunks
  BY DEF Kept, KeepLast

\* Sequence numbers are natural numbers.
LEMMA SeqsAreNat == Seqs \subseteq Nat
  BY DEF Seqs

\* Where pop starts or trims, the position is the least key that is left.
LEMMA StartPosition ==
  ASSUME chunks \in SUBSET Seqs, Kept # {}, Trimming \/ ~started
  PROVE  /\ Position \in Kept
         /\ \A s \in Kept : Position <= s
  BY KeptPart, SeqsAreNat, FirstKeyIsLeast DEF Position

\* The successor of a sequence number is one, across the wrap too.
LEMMA SuccType ==
  ASSUME NEW s \in Seqs
  PROVE  Succ(s) \in Seqs
  BY BufferAssumption DEF Succ, Seqs, SeqSpace

\* adaptDepth keeps the window's counters and the extra depth within their bounds.
LEMMA AdaptDepthType ==
  ASSUME TypeOK, NEW c \in 0..1, AdaptDepth(c)
  PROVE  /\ adaptiveExtraChunks' \in 0..MaxExtraBytes
         /\ windowPops' \in 0..(AdaptWindow - 1)
         /\ windowLate' \in 0..AdaptWindow
         /\ windowConcealed' \in 0..(windowPops' + 1)
<1>1. chunkSizeBytes \in Nat \ {0} /\ adaptiveExtraChunks \in Nat
  BY BufferAssumption DEF TypeOK
<1>2. Target \in Nat \ {0}
  BY <1>1, TargetType DEF Target
<1>3. Target \div 4 \in Nat
  BY <1>2, DivBounds
<1>4. ExtraCeiling(chunkSizeBytes) \in 0..MaxExtraBytes
  BY <1>1, CeilingType
<1>5. AdaptedExtra \in 0..MaxExtraBytes
  BY <1>1, <1>3, <1>4, BufferAssumption DEF AdaptedExtra, AtMost, AtLeast, TypeOK
<1>6. QED
  BY <1>5, BufferAssumption DEF AdaptDepth, WindowEnds, TypeOK

-----------------------------------------------------------------------------
(* Type correctness: every field keeps its type, a started buffer has a play  *)
(* position, and a run of concealments stays shorter than MaxConceal.         *)

\* started is a Boolean with a position: a fact of its own, since the SMT solver
\* handles Boolean-valued variables poorly.
LEMMA StartedSame ==
  ASSUME TypeOK, UNCHANGED <<started, nextSequence>>
  PROVE  StartedOK'
  BY Zenon DEF TypeOK, StartedOK

\* A new buffer is well typed.
LEMMA TypeInit == Init => TypeOK
<1> SUFFICES ASSUME Init PROVE TypeOK
  OBVIOUS
<1>1. StartedOK
  BY Zenon DEF Init, StartedOK
<1>2. QED
  BY <1>1, BufferAssumption DEF Init, TypeOK

\* The sender does not touch the buffer.
LEMMA TypeSend == TypeOK /\ Send => TypeOK'
  BY BufferAssumption, SuccType, StartedSame
  DEF TypeOK, Send, AtMost, size, window, play, call

\* push keeps the types, whichever way it takes.
LEMMA TypePush ==
  ASSUME TypeOK, NEW s \in InFlight, NEW bytes \in Sizes, Push(s, bytes)
  PROVE  TypeOK'
<1>1. s \in Seqs
  BY DEF InFlight
<1>2. CASE PushLate(s, bytes)
  BY <1>1, <1>2, StartedSame, BufferAssumption
  DEF TypeOK, PushLate, ObserveChunkSize, AtMost, Pushed, network, play
<1>3. CASE PushResync(s, bytes)
  <2>1. StartedOK'
    BY <1>3, Zenon DEF PushResync, Resync, StartedOK
  <2>2. QED
    BY <1>1, <1>3, <2>1, BufferAssumption
    DEF TypeOK, PushResync, ObserveChunkSize, Resync, Pushed, network, window
<1>4. CASE PushBuffer(s, bytes)
  BY <1>1, <1>4, StartedSame, BufferAssumption
  DEF TypeOK, PushBuffer, ObserveChunkSize, Pushed, network, window
<1>5. QED
  BY <1>2, <1>3, <1>4 DEF Push

\* pop keeps the types, whichever way it takes; the concealment run stays short.
LEMMA TypePop == TypeOK /\ Pop => TypeOK'
<1> SUFFICES ASSUME TypeOK, Pop PROVE TypeOK'
  OBVIOUS
<1>1. Kept \in SUBSET Seqs
  BY KeptPart DEF TypeOK
<1>2. CASE PopPrebuffering
  BY <1>2, StartedSame DEF TypeOK, PopPrebuffering, Popped, network, size, window, play
<1>3. CASE PopRefill
  <2>1. AdaptDepth(0)
    BY <1>3 DEF PopRefill
  <2>2. StartedOK'
    BY <1>3, Zenon DEF PopRefill, StartedOK
  <2>3. QED
    BY <1>3, <2>1, <2>2, AdaptDepthType DEF TypeOK, PopRefill, Popped, network, size
<1>4. CASE PopAudio
  <2>1. Position \in Seqs
    BY <1>1, <1>4 DEF PopAudio
  <2>2. Succ(Position) \in Seqs /\ Succ(Position) # NoSeq
    BY <2>1, SuccType DEF Seqs, NoSeq
  <2>3. StartedOK'
    BY <1>4, <2>2, Zenon DEF PopAudio, StartedOK
  <2>4. QED
    BY <1>1, <1>4, <2>2, <2>3, AdaptDepthType, BufferAssumption
    DEF TypeOK, PopAudio, Popped, network, size
<1>5. CASE PopConceal
  <2>1. started /\ Position = nextSequence /\ ConcealedSoFar = consecutiveConcealments
    BY <1>5, StartPosition DEF PopConceal, TypeOK, Position, ConcealedSoFar
  <2>2. Succ(Position) \in Seqs /\ Succ(Position) # NoSeq
    <3>1. nextSequence \in Seqs
      BY <2>1, Zenon DEF TypeOK, StartedOK
    <3>2. QED
      BY <2>1, <3>1, SuccType DEF Seqs, NoSeq
  <2>3. StartedOK'
    BY <1>5, <2>2, Zenon DEF PopConceal, StartedOK
  <2>4. QED
    BY <1>1, <1>5, <2>1, <2>2, <2>3, AdaptDepthType, BufferAssumption
    DEF TypeOK, PopConceal, Popped, network, size
<1>6. CASE PopStarved
  <2>1. AdaptDepth(1)
    BY <1>6 DEF PopStarved
  <2>2. StartedOK'
    BY <1>6, Zenon DEF PopStarved, Resync, StartedOK
  <2>3. QED
    BY <1>6, <2>1, <2>2, AdaptDepthType, BufferAssumption
    DEF TypeOK, PopStarved, Resync, Popped, network, size
<1>7. QED
  BY <1>2, <1>3, <1>4, <1>5, <1>6 DEF Pop

\* Every reachable state of the buffer is well typed.
THEOREM TypeCorrect == Spec => []TypeOK
<1>1. TypeOK /\ [Next]_vars => TypeOK'
  <2> SUFFICES ASSUME TypeOK, [Next]_vars PROVE TypeOK'
    OBVIOUS
  <2>1. CASE Send
    BY <2>1, TypeSend
  <2>2. ASSUME NEW s \in InFlight, NEW bytes \in Sizes, Push(s, bytes)
        PROVE  TypeOK'
    BY <2>2, TypePush
  <2>3. CASE Pop
    BY <2>3, TypePop
  <2>4. CASE UNCHANGED vars
    BY <2>4, StartedSame DEF TypeOK, vars, network, size, window, play, call
  <2>5. QED
    BY <2>1, <2>2, <2>3, <2>4 DEF Next
<1>2. QED
  BY <1>1, TypeInit, PTL DEF Spec

-----------------------------------------------------------------------------
(* The order of playback, as long as the sequence numbers do not wrap.        *)
(*                                                                            *)
(* The three facts need one another: packets come from behind head, so the    *)
(* buffer stays behind head; the position moves to a buffered key or to the   *)
(* successor of a position with a later key behind it, so it stays behind     *)
(* head too; and push refuses what lies before the position.                  *)

OrderInv ==
  /\ head <= LastSeq /\ sent <= head
  /\ \A s \in chunks : s < head
  /\ nextSequence # NoSeq => nextSequence <= head
  /\ nextSequence # NoSeq => \A s \in chunks : nextSequence <= s

\* Without a wrap the signed distance is the plain difference.
LEMMA PlainDistance ==
  ASSUME NoWrap, NEW a \in 0..LastSeq, NEW b \in 0..LastSeq
  PROVE  Distance(a, b) = a - b
  BY BufferAssumption DEF NoWrap, Distance

\* Without a wrap the successor is the next number.
LEMMA PlainSucc ==
  ASSUME NoWrap, NEW s \in 0..LastSeq
  PROVE  Succ(s) = s + 1
  BY BufferAssumption DEF NoWrap, Succ, SeqSpace

\* Without a wrap what is in flight lies behind the sender's counter.
LEMMA InFlightBehindHead ==
  ASSUME NoWrap, TypeOK, OrderInv, NEW s \in InFlight
  PROVE  s \in 0..(head - 1)
<1>1. /\ head \in Nat /\ sent \in Nat /\ sent <= head /\ head < HalfSpace
      /\ s \in 0..(2 * HalfSpace - 1) /\ Distance(head, s) \in 1..sent
  BY BufferAssumption DEF NoWrap, TypeOK, OrderInv, InFlight, Seqs, SeqSpace
<1>2. QED
  BY <1>1, BufferAssumption DEF Distance, SeqSpace

\* Under OrderInv every sequence number of the state lies below the wrap.
LEMMA OrderTypes ==
  ASSUME NoWrap, TypeOK, OrderInv
  PROVE  /\ head \in 0..LastSeq
         /\ chunks \in SUBSET (0..LastSeq)
         /\ nextSequence # NoSeq => nextSequence \in 0..LastSeq
  BY BufferAssumption DEF NoWrap, TypeOK, OrderInv, Seqs

\* The empty buffer is in order.
LEMMA OrderInit == NoWrap /\ Init => OrderInv
  BY DEF NoWrap, Init, OrderInv

\* Sending only moves the bound.
LEMMA OrderSend ==
  ASSUME NoWrap, TypeOK, OrderInv, Send
  PROVE  OrderInv'
<1>1. head \in 0..LastSeq /\ Succ(head) = head + 1
  BY OrderTypes, PlainSucc
<1>2. QED
  BY <1>1, BufferAssumption
  DEF NoWrap, TypeOK, OrderInv, Send, AtMost, play, Seqs

\* push keeps the order: it refuses what lies before the position.
LEMMA OrderPush ==
  ASSUME NoWrap, TypeOK, OrderInv,
         NEW s \in InFlight, NEW bytes \in Sizes, Push(s, bytes)
  PROVE  OrderInv'
<1>1. s \in 0..LastSeq /\ s < head
  BY InFlightBehindHead, OrderTypes, BufferAssumption DEF NoWrap
<1>2. CASE PushLate(s, bytes)
  BY <1>2 DEF OrderInv, PushLate, network, play
<1>3. CASE PushResync(s, bytes)
  BY <1>1, <1>3 DEF OrderInv, PushResync, Resync, network
<1>4. CASE PushBuffer(s, bytes)
  <2>1. nextSequence # NoSeq => s >= nextSequence
    <3> SUFFICES ASSUME nextSequence # NoSeq PROVE s >= nextSequence
      OBVIOUS
    <3>1. nextSequence \in 0..LastSeq
      BY OrderTypes
    <3>2. Distance(s, nextSequence) = s - nextSequence
      BY <1>1, <3>1, PlainDistance
    <3>3. Distance(s, nextSequence) >= 0
      BY <1>1, <1>4, <3>1, <3>2 DEF PushBuffer, TooFar, TooLate
    <3>4. QED
      BY <1>1, <3>1, <3>2, <3>3
  <2>2. chunks' \subseteq chunks \cup {s}
    BY <1>4 DEF PushBuffer
  <2>3. QED
    BY <1>1, <1>4, <2>1, <2>2 DEF OrderInv, PushBuffer, network
<1>5. QED
  BY <1>2, <1>3, <1>4 DEF Push

\* A pop with something buffered leaves a position within the sender's reach.
LEMMA OrderPosition ==
  ASSUME NoWrap, TypeOK, OrderInv, Ready, Kept # {}
  PROVE  /\ Position \in 0..LastSeq /\ Position < head
         /\ \A s \in Kept : Position <= s
         /\ nextSequence # NoSeq => nextSequence <= Position
<1>1. chunks \in SUBSET Seqs /\ Kept \in SUBSET chunks
  BY KeptPart DEF TypeOK
<1>2. CASE Trimming \/ ~started
  <2>1. Position \in Kept /\ \A s \in Kept : Position <= s
    BY <1>1, <1>2, StartPosition
  <2>2. QED
    BY <1>1, <2>1, OrderTypes DEF OrderInv
<1>3. CASE ~(Trimming \/ ~started)
  <2>1. Position = nextSequence /\ Kept = chunks
    BY <1>3 DEF Position, Kept
  <2>2. nextSequence # NoSeq
    BY <1>3, Zenon DEF TypeOK, StartedOK
  <2>3. PICK s \in chunks : TRUE
    BY <2>1
  <2>4. nextSequence \in 0..LastSeq /\ nextSequence <= s /\ s < head
    BY <2>2, OrderTypes DEF OrderInv
  <2>5. s \in 0..LastSeq /\ head \in 0..LastSeq
    BY OrderTypes
  <2>6. \A t \in chunks : nextSequence <= t
    BY <2>2 DEF OrderInv
  <2>7. nextSequence < head
    BY <2>4, <2>5
  <2>8. QED
    BY <2>1, <2>4, <2>6, <2>7
<1>4. QED
  BY <1>2, <1>3

\* pop keeps the order: it moves the position to the least key or past it.
LEMMA OrderPop ==
  ASSUME NoWrap, TypeOK, OrderInv, Pop
  PROVE  OrderInv'
<1>1. chunks \in SUBSET (0..LastSeq) /\ Kept \in SUBSET chunks
  BY OrderTypes, KeptPart DEF TypeOK
<1>2. CASE PopPrebuffering
  BY <1>2 DEF OrderInv, PopPrebuffering, network, play
<1>3. CASE PopRefill
  BY <1>3 DEF OrderInv, PopRefill, network
<1>4. CASE PopAudio
  <2>1. Ready /\ Kept # {}
    BY <1>4 DEF PopAudio
  <2>2. Succ(Position) = Position + 1
    BY <2>1, OrderPosition, PlainSucc
  <2>3. nextSequence' = Position + 1 /\ chunks' = Kept \ {Position}
    BY <1>4, <2>2 DEF PopAudio
  <2>4. head' = head /\ sent' = sent
    BY <1>4 DEF PopAudio, network
  <2>5. QED
    BY <1>1, <2>1, <2>3, <2>4, OrderPosition, OrderTypes DEF OrderInv
<1>5. CASE PopConceal
  <2>1. Ready /\ Kept # {} /\ Position \notin Kept
    BY <1>5 DEF PopConceal
  <2>2. Succ(Position) = Position + 1
    BY <2>1, OrderPosition, PlainSucc
  <2>3. nextSequence' = Position + 1 /\ chunks' = Kept
    BY <1>5, <2>2 DEF PopConceal
  <2>4. head' = head /\ sent' = sent
    BY <1>5 DEF PopConceal, network
  <2>5. QED
    BY <1>1, <2>1, <2>3, <2>4, OrderPosition, OrderTypes DEF OrderInv
<1>6. CASE PopStarved
  BY <1>6 DEF OrderInv, PopStarved, Resync, network
<1>7. QED
  BY <1>2, <1>3, <1>4, <1>5, <1>6 DEF Pop

\* The order is an invariant as long as the sequence number does not wrap.
LEMMA OrderInvariant == NoWrap => (Spec => [](TypeOK /\ OrderInv))
<1> SUFFICES ASSUME NoWrap PROVE Spec => [](TypeOK /\ OrderInv)
  OBVIOUS
<1>1. Init => OrderInv
  BY OrderInit
<1>2. TypeOK /\ OrderInv /\ [Next]_vars => OrderInv'
  <2> SUFFICES ASSUME TypeOK, OrderInv, [Next]_vars PROVE OrderInv'
    OBVIOUS
  <2>1. CASE Send
    BY <2>1, OrderSend
  <2>2. ASSUME NEW s \in InFlight, NEW bytes \in Sizes, Push(s, bytes)
        PROVE  OrderInv'
    BY <2>2, OrderPush
  <2>3. CASE Pop
    BY <2>3, OrderPop
  <2>4. CASE UNCHANGED vars
    BY <2>4 DEF OrderInv, vars, network, play
  <2>5. QED
    BY <2>1, <2>2, <2>3, <2>4 DEF Next
<1>3. QED
  BY <1>1, <1>2, TypeCorrect, PTL DEF Spec

\* Until the sequence numbers wrap, nothing in the buffer lies behind the play
\* position, whatever the network loses, duplicates, delays or reorders.
THEOREM BufferAhead == NoWrap => (Spec => []NothingBehindPosition)
<1> SUFFICES ASSUME NoWrap PROVE Spec => []NothingBehindPosition
  OBVIOUS
<1>1. TypeOK /\ OrderInv => NothingBehindPosition
  <2> SUFFICES ASSUME TypeOK, OrderInv, nextSequence # NoSeq, NEW s \in chunks
               PROVE  Distance(s, nextSequence) >= 0
    BY DEF NothingBehindPosition
  <2>1. s \in 0..LastSeq /\ nextSequence \in 0..LastSeq
    BY OrderTypes
  <2>2. QED
    BY <2>1, PlainDistance DEF OrderInv
<1>2. QED
  BY <1>1, OrderInvariant, PTL

\* Until the sequence numbers wrap, playback never overtakes the sender.
THEOREM PlaybackBehindSender == NoWrap => (Spec => []PositionNotPastSender)
<1> SUFFICES ASSUME NoWrap PROVE Spec => []PositionNotPastSender
  OBVIOUS
<1>1. TypeOK /\ OrderInv => PositionNotPastSender
  <2> SUFFICES ASSUME TypeOK, OrderInv, nextSequence # NoSeq
               PROVE  Distance(head, nextSequence) >= 0
    BY DEF PositionNotPastSender
  <2>1. head \in 0..LastSeq /\ nextSequence \in 0..LastSeq
    BY OrderTypes
  <2>2. QED
    BY <2>1, PlainDistance DEF OrderInv
<1>2. QED
  BY <1>1, OrderInvariant, PTL

\* Until the sequence numbers wrap, the play position only moves forward, unless
\* a resync gives it up: no chunk is played out of order or twice in one run.
THEOREM PlaybackForward == NoWrap => (Spec => PlaysForward)
<1> SUFFICES ASSUME NoWrap PROVE Spec => PlaysForward
  OBVIOUS
<1> DEFINE Forward == nextSequence # NoSeq /\ nextSequence' # NoSeq
                        => Distance(nextSequence', nextSequence) >= 0
<1>1. TypeOK /\ OrderInv /\ (TypeOK /\ OrderInv)' /\ [Next]_vars => [Forward]_vars
  <2> SUFFICES ASSUME TypeOK, OrderInv, TypeOK', OrderInv', Next,
                      nextSequence # NoSeq, nextSequence' # NoSeq
               PROVE  Distance(nextSequence', nextSequence) >= 0
    OBVIOUS
  <2>1. nextSequence \in 0..LastSeq
    BY OrderTypes
  <2>2. nextSequence' \in 0..LastSeq
    BY BufferAssumption DEF NoWrap, TypeOK, OrderInv, Seqs
  <2>3. nextSequence' >= nextSequence
    <3>1. CASE nextSequence' = nextSequence
      BY <2>1, <3>1
    <3>2. CASE PopAudio \/ PopConceal
      <4>1. Ready /\ Kept # {} /\ nextSequence' = Succ(Position)
        BY <3>2 DEF PopAudio, PopConceal
      <4>2. Position \in 0..LastSeq /\ nextSequence <= Position
        BY <4>1, OrderPosition
      <4>3. QED
        BY <2>1, <4>1, <4>2, PlainSucc
    <3>3. nextSequence' = nextSequence \/ PopAudio \/ PopConceal
      BY DEF Next, Send, Push, PushLate, PushResync, PushBuffer, Resync, Pop,
             PopPrebuffering, PopRefill, PopStarved, play
    <3>4. QED
      BY <3>1, <3>2, <3>3
  <2>4. QED
    BY <2>1, <2>2, <2>3, PlainDistance
<1>2. QED
  BY <1>1, OrderInvariant, PTL DEF Spec, PlaysForward

-----------------------------------------------------------------------------
(* The bound on the buffer.  The cap follows the target, and the target moves *)
(* with the packet size and with the adaptation: a cap that shrinks evicts    *)
(* nothing by itself.  What push keeps is the bound of the largest cap.       *)

CapAt(bytes, at) == MaxBufferedChunks(bytes, ExtraCeiling(at))

\* The extra depth is under the ceiling of a packet size there was.
ExtraReached == \E at \in Sizes \cup {SeedSize} : adaptiveExtraChunks <= ExtraCeiling(at)

\* The cap of a packet size is largest at the deepest adaptive extra.
LEMMA CapType ==
  ASSUME NEW bytes \in Nat \ {0}, NEW at \in Nat \ {0}, NEW extra \in 0..ExtraCeiling(at)
  PROVE  /\ MaxBufferedChunks(bytes, extra) \in Nat \ {0}
         /\ CapAt(bytes, at) \in Nat \ {0}
         /\ MaxBufferedChunks(bytes, extra) <= CapAt(bytes, at)
<1>1. (TargetBytes + bytes - 1) \div bytes \in Nat
  BY BufferAssumption, DivBounds
<1> DEFINE base == (TargetBytes + bytes - 1) \div bytes
           most == ExtraCeiling(at)
<1>2. base \in Nat /\ most \in Nat /\ extra \in 0..most
  BY <1>1, CeilingType
<1> HIDE DEF base, most
<1>3. EffectiveTarget(bytes, extra) = AtLeast(1, base + extra)
  BY DEF EffectiveTarget, base
<1>4. EffectiveTarget(bytes, most) = AtLeast(1, base + most)
  BY DEF EffectiveTarget, base
<1>5. CapAt(bytes, at) = MaxBufferedChunks(bytes, most)
  BY DEF CapAt, most
<1>6. QED
  BY <1>2, <1>3, <1>4, <1>5, BufferAssumption DEF MaxBufferedChunks, AtLeast

\* The extra depth grows up to the ceiling of the size there is, or not at all.
LEMMA ExtraPop ==
  ASSUME TypeOK, ExtraReached, NEW c \in 0..1, AdaptDepth(c)
  PROVE  ExtraReached'
<1>1. chunkSizeBytes \in Sizes \cup {SeedSize} /\ chunkSizeBytes \in Nat \ {0}
  BY BufferAssumption DEF TypeOK
<1>2. adaptiveExtraChunks \in Nat /\ ExtraCeiling(chunkSizeBytes) \in Nat
  BY <1>1, CeilingType DEF TypeOK
<1>3. Target \in Nat /\ Target \div 4 \in Nat
  BY <1>1, <1>2, TargetType, DivBounds DEF Target
<1>4. \/ adaptiveExtraChunks' <= ExtraCeiling(chunkSizeBytes)
      \/ adaptiveExtraChunks' = adaptiveExtraChunks
      \/ adaptiveExtraChunks' = adaptiveExtraChunks - 1
  BY <1>2, <1>3 DEF AdaptDepth, AdaptedExtra, AtMost, AtLeast
<1>5. PICK at \in Sizes \cup {SeedSize} : adaptiveExtraChunks <= ExtraCeiling(at)
  BY DEF ExtraReached
<1>6. ExtraCeiling(at) \in Nat
  BY CeilingType, BufferAssumption
<1>7. adaptiveExtraChunks' <= ExtraCeiling(chunkSizeBytes) \/ adaptiveExtraChunks' <= ExtraCeiling(at)
  BY <1>2, <1>4, <1>5, <1>6
<1>8. QED
  BY <1>1, <1>7 DEF ExtraReached

\* Sets of sequence numbers are finite, so their size is a number.
LEMMA BufferFinite ==
  ASSUME NEW S \in SUBSET Seqs
  PROVE  IsFiniteSet(S) /\ Cardinality(S) \in Nat
<1>1. IsFiniteSet(Seqs)
  BY FS_Interval, BufferAssumption DEF Seqs, SeqSpace
<1>2. QED
  BY <1>1, FS_Subset, FS_CardinalityType

\* push keeps the bound: at the cap it evicts one chunk for the one it adds.
LEMMA BoundedPush ==
  ASSUME TypeOK, TypeOK', BoundedBuffer, ExtraReached,
         NEW s \in InFlight, NEW bytes \in Sizes, PushBuffer(s, bytes)
  PROVE  BoundedBuffer'
<1>1. /\ s \in Seqs /\ chunks \in SUBSET Seqs
      /\ IsFiniteSet(chunks) /\ Cardinality(chunks) \in Nat
  BY BufferFinite DEF InFlight, TypeOK
<1>2. PICK b, a \in Sizes \cup {SeedSize} : Cardinality(chunks) <= CapAt(b, a)
  BY DEF BoundedBuffer, CapAt
<1>3. b \in Nat \ {0} /\ a \in Nat \ {0} /\ 0 \in 0..ExtraCeiling(a)
  BY BufferAssumption, CeilingType
<1>4. CapAt(b, a) \in Nat
  BY <1>3, CapType
<1> PICK at \in Sizes \cup {SeedSize} : adaptiveExtraChunks <= ExtraCeiling(at)
  BY DEF ExtraReached
<1>9. /\ chunkSizeBytes' \in Sizes \cup {SeedSize}
      /\ MaxBufferedChunks(chunkSizeBytes', adaptiveExtraChunks) \in Nat \ {0}
      /\ CapAt(chunkSizeBytes', at) \in Nat
      /\ MaxBufferedChunks(chunkSizeBytes', adaptiveExtraChunks) <= CapAt(chunkSizeBytes', at)
  <2>1. /\ chunkSizeBytes' \in Sizes \cup {SeedSize} /\ chunkSizeBytes' \in Nat \ {0}
        /\ at \in Nat \ {0} /\ adaptiveExtraChunks \in Nat
    BY BufferAssumption DEF TypeOK
  <2>2. adaptiveExtraChunks \in 0..ExtraCeiling(at)
    BY <2>1, CeilingType
  <2>3. QED
    BY <2>1, <2>2, CapType
<1>5. chunks' = (chunks \ Evicted(s)) \cup {s}
  BY DEF PushBuffer
<1>6. CASE s \in chunks \/ Evicted(s) # {}
  <2>1. Cardinality(chunks') <= Cardinality(chunks)
    <3>1. CASE s \in chunks
      <4>1. Evicted(s) = {}
        BY <3>1 DEF Evicted
      <4>2. chunks' = chunks
        BY <1>5, <3>1, <4>1
      <4>3. QED
        BY <1>1, <4>2
    <3>2. CASE s \notin chunks /\ Evicted(s) # {}
      <4>1. Evicted(s) = {FirstKey(chunks)}
        BY <3>2 DEF Evicted
      <4>2. chunks # {}
        <5>1. Cardinality(chunks) >= MaxBufferedChunks(chunkSizeBytes', adaptiveExtraChunks)
          BY <3>2 DEF Evicted
        <5>2. QED
          BY <1>1, <1>9, <5>1, FS_EmptySet
      <4>3. FirstKey(chunks) \in chunks
        BY <1>1, <4>2, FirstKeyIsLeast, SeqsAreNat
      <4>4. /\ IsFiniteSet(chunks \ {FirstKey(chunks)})
            /\ Cardinality(chunks \ {FirstKey(chunks)}) = Cardinality(chunks) - 1
        BY <1>1, <4>3, FS_RemoveElement
      <4>5. Cardinality(chunks') = Cardinality(chunks)
        <5>1. chunks' = (chunks \ {FirstKey(chunks)}) \cup {s}
          BY <1>5, <4>1
        <5>2. s \notin chunks \ {FirstKey(chunks)}
          BY <3>2
        <5>3. Cardinality(chunks') = Cardinality(chunks \ {FirstKey(chunks)}) + 1
          BY <4>4, <5>1, <5>2, FS_AddElement
        <5>4. QED
          BY <1>1, <4>4, <5>3
      <4>6. QED
        BY <1>1, <4>5
    <3>3. QED
      BY <1>6, <3>1, <3>2
  <2>2. Cardinality(chunks') \in Nat
    BY BufferFinite DEF TypeOK
  <2>3. Cardinality(chunks') <= CapAt(b, a)
    BY <1>1, <1>2, <1>4, <2>1, <2>2
  <2>4. QED
    BY <2>3 DEF BoundedBuffer, CapAt
<1>7. CASE s \notin chunks /\ Evicted(s) = {}
  <2>1. Cardinality(chunks) < MaxBufferedChunks(chunkSizeBytes', adaptiveExtraChunks)
    BY <1>1, <1>7, <1>9 DEF Evicted
  <2>2. Cardinality(chunks') = Cardinality(chunks) + 1
    BY <1>1, <1>5, <1>7, FS_AddElement
  <2>3. Cardinality(chunks') <= CapAt(chunkSizeBytes', at)
    BY <1>1, <1>9, <2>1, <2>2
  <2>4. QED
    BY <1>9, <2>3 DEF BoundedBuffer, CapAt
<1>10. QED
  BY <1>6, <1>7

\* Steps that only take chunks out keep the bound.
LEMMA BoundedShrink ==
  ASSUME TypeOK, BoundedBuffer, chunks' \in SUBSET chunks
  PROVE  BoundedBuffer'
<1>1. PICK b, a \in Sizes \cup {SeedSize} : Cardinality(chunks) <= CapAt(b, a)
  BY DEF BoundedBuffer, CapAt
<1>2. b \in Nat \ {0} /\ a \in Nat \ {0} /\ 0 \in 0..ExtraCeiling(a)
  BY BufferAssumption, CeilingType
<1>3. CapAt(b, a) \in Nat
  BY <1>2, CapType
<1>4. /\ IsFiniteSet(chunks) /\ Cardinality(chunks) \in Nat
      /\ Cardinality(chunks') \in Nat
  BY BufferFinite DEF TypeOK
<1>5. Cardinality(chunks') <= Cardinality(chunks)
  BY <1>4, FS_Subset
<1>6. Cardinality(chunks') <= CapAt(b, a)
  BY <1>1, <1>3, <1>4, <1>5
<1>7. QED
  BY <1>6 DEF BoundedBuffer, CapAt

\* The buffer never holds more than the cap of the deepest possible target,
\* for every order of arrivals and every change of packet size.
THEOREM BufferBounded == Spec => []BoundedBuffer
<1>1. Init => BoundedBuffer
  <2> SUFFICES ASSUME Init PROVE BoundedBuffer
    OBVIOUS
  <2>1. Cardinality(chunks) = 0
    BY FS_EmptySet DEF Init
  <2>2. CapAt(SeedSize, SeedSize) \in Nat
    BY BufferAssumption, CeilingType, CapType
  <2>3. QED
    BY <2>1, <2>2 DEF BoundedBuffer, CapAt
<1>2. Init => ExtraReached
  <2>1. ExtraCeiling(SeedSize) \in Nat
    BY BufferAssumption, CeilingType
  <2>2. QED
    BY <2>1 DEF Init, ExtraReached
<1>3. TypeOK /\ ExtraReached /\ [Next]_vars => ExtraReached'
  <2> SUFFICES ASSUME TypeOK, ExtraReached, [Next]_vars PROVE ExtraReached'
    OBVIOUS
  <2>1. CASE PopRefill \/ PopAudio \/ PopConceal \/ PopStarved
    BY <2>1, ExtraPop DEF PopRefill, PopAudio, PopConceal, PopStarved
  <2>2. CASE UNCHANGED adaptiveExtraChunks
    BY <2>2 DEF ExtraReached
  <2>3. [Next]_vars => \/ PopRefill \/ PopAudio \/ PopConceal \/ PopStarved
                       \/ UNCHANGED adaptiveExtraChunks
    BY DEF Next, Send, Push, PushLate, PushResync, PushBuffer, Pop, PopPrebuffering, window, vars
  <2>4. QED
    BY <2>1, <2>2, <2>3
<1>4. TypeOK /\ TypeOK' /\ ExtraReached /\ BoundedBuffer /\ [Next]_vars => BoundedBuffer'
  <2> SUFFICES ASSUME TypeOK, TypeOK', ExtraReached, BoundedBuffer, [Next]_vars
               PROVE  BoundedBuffer'
    OBVIOUS
  <2>1. ASSUME NEW s \in InFlight, NEW bytes \in Sizes, PushResync(s, bytes)
        PROVE  BoundedBuffer'
    <3>1. Cardinality(chunks') = 1
      BY <2>1, FS_Singleton DEF PushResync
    <3>2. CapAt(SeedSize, SeedSize) \in Nat \ {0}
      BY BufferAssumption, CeilingType, CapType
    <3>3. QED
      BY <3>1, <3>2 DEF BoundedBuffer, CapAt
  <2>2. ASSUME NEW s \in InFlight, NEW bytes \in Sizes, PushBuffer(s, bytes)
        PROVE  BoundedBuffer'
    BY <2>2, BoundedPush
  <2>3. ASSUME NEW s \in InFlight, NEW bytes \in Sizes, PushLate(s, bytes)
        PROVE  BoundedBuffer'
    BY <2>3, BoundedShrink DEF PushLate, play
  <2>4. CASE Pop
    <3>1. Kept \in SUBSET chunks
      BY KeptPart DEF TypeOK
    <3>2. chunks' \in SUBSET chunks
      BY <2>4, <3>1 DEF Pop, PopPrebuffering, PopRefill, PopAudio, PopConceal,
                        PopStarved, play
    <3>3. QED
      BY <3>2, BoundedShrink
  <2>5. CASE Send \/ UNCHANGED vars
    <3>1. chunks' = chunks
      BY <2>5 DEF Send, vars, play
    <3>2. QED
      BY <3>1, BoundedShrink
  <2>6. QED
    BY <2>1, <2>2, <2>3, <2>4, <2>5 DEF Next, Push
<1>5. QED
  BY <1>1, <1>2, <1>3, <1>4, TypeCorrect, PTL DEF Spec

-----------------------------------------------------------------------------
(* What the trim keeps: the upper end of the buffer, no more than it should.  *)

\* With a key every later one is kept, too.
LEMMA KeepLastUpper ==
  ASSUME NEW S \in SUBSET Seqs, NEW n \in Nat,
         NEW m \in KeepLast(S, n), NEW p \in S, p > m
  PROVE  p \in KeepLast(S, n)
<1> DEFINE Above(q) == {t \in S : t > q}
<1>1. Above(p) \subseteq Above(m)
  <2>1. m \in Nat /\ p \in Nat
    BY SeqsAreNat DEF KeepLast
  <2>2. ASSUME NEW t \in S, t > p PROVE t > m
    <3>1. t \in Nat
      BY SeqsAreNat
    <3>2. QED
      BY <2>1, <2>2, <3>1
  <2>3. QED
    BY <2>2
<1>2. /\ IsFiniteSet(Above(m)) /\ Cardinality(Above(m)) \in Nat
      /\ Cardinality(Above(p)) \in Nat
  BY BufferFinite
<1>3. Cardinality(Above(p)) <= Cardinality(Above(m))
  BY <1>1, <1>2, FS_Subset
<1>4. Cardinality(Above(m)) < n
  BY DEF KeepLast
<1>5. Cardinality(Above(p)) < n
  BY <1>2, <1>3, <1>4
<1>6. QED
  BY <1>5 DEF KeepLast

\* pollFirstEntry() until n keys remain leaves at most n: the least that is left has
\* fewer than n above it.
LEMMA KeepLastBound ==
  ASSUME NEW S \in SUBSET Seqs, NEW n \in Nat
  PROVE  Cardinality(KeepLast(S, n)) <= n
<1> DEFINE K == KeepLast(S, n)
<1>1. K \in SUBSET S
  BY DEF KeepLast
<1>2. CASE K = {}
  BY <1>2, FS_EmptySet
<1>3. CASE K # {}
  <2>1. PICK m \in K : \A t \in K : m <= t
    BY <1>1, <1>3, SeqsAreNat, FirstKeyIsLeast
  <2> DEFINE A == {t \in S : t > m}
  <2>2. IsFiniteSet(A) /\ Cardinality(A) \in Nat
    BY BufferFinite
  <2>3. Cardinality(A) < n
    <3>1. m \in KeepLast(S, n)
      BY <2>1
    <3>2. QED
      BY <3>1 DEF KeepLast
  <2>4. IsFiniteSet(A \cup {m}) /\ Cardinality(A \cup {m}) = Cardinality(A) + 1
    <3>1. m \in Nat
      BY <1>1, SeqsAreNat
    <3>2. m \notin A
      BY <3>1
    <3>3. QED
      BY <2>2, <3>2, FS_AddElement
  <2>5. ASSUME NEW t \in K PROVE t \in A \cup {m}
    <3>1. t \in Nat /\ m \in Nat /\ t \in S /\ m <= t
      BY <1>1, <2>1, SeqsAreNat
    <3>2. QED
      BY <3>1
  <2>6. Cardinality(K) <= Cardinality(A \cup {m}) /\ Cardinality(K) \in Nat
    BY <1>1, <2>4, <2>5, FS_Subset, BufferFinite
  <2>7. QED
    BY <2>2, <2>3, <2>4, <2>6
<1>4. QED
  BY <1>2, <1>3

\* A buffer that is not empty has a last key.
LEMMA LastKey ==
  ASSUME NEW S \in SUBSET Seqs, S # {}
  PROVE  \E m \in S : \A t \in S : t <= m
<1> DEFINE T == {SeqSpace - t : t \in S}
<1>1. T \in SUBSET Nat /\ T # {}
  <2>1. ASSUME NEW t \in S PROVE SeqSpace - t \in Nat
    <3>1. t \in 0..(SeqSpace - 1) /\ SeqSpace \in Nat
      BY BufferAssumption DEF Seqs, SeqSpace
    <3>2. QED
      BY <3>1
  <2>2. QED
    BY <2>1
<1>2. PICK k \in T : \A t \in T : k <= t
  BY <1>1, FirstKeyIsLeast
<1>3. PICK m \in S : k = SeqSpace - m
  BY <1>2
<1>4. ASSUME NEW t \in S PROVE t <= m
  <2>1. SeqSpace - m <= SeqSpace - t
    BY <1>2, <1>3
  <2>2. t \in Nat /\ m \in Nat /\ SeqSpace \in Nat
    BY <1>3, SeqsAreNat, BufferAssumption DEF SeqSpace
  <2>3. QED
    BY <2>1, <2>2
<1>5. QED
  BY <1>3, <1>4

\* The trim never empties the buffer: the last key has nothing above it.
LEMMA TrimKeepsOne ==
  ASSUME TypeOK, chunks # {}
  PROVE  Kept # {}
<1>1. chunks \in SUBSET Seqs
  BY DEF TypeOK
<1>2. PICK m \in chunks : \A t \in chunks : t <= m
  BY <1>1, LastKey
<1>3. {t \in chunks : t > m} = {}
  <2>1. ASSUME NEW t \in chunks, t > m PROVE FALSE
    <3>1. t \in Nat /\ m \in Nat /\ t <= m
      BY <1>1, <1>2, SeqsAreNat
    <3>2. QED
      BY <2>1, <3>1
  <2>2. QED
    BY <2>1
<1>4. Target \in Nat \ {0}
  BY TargetType, BufferAssumption DEF TypeOK, Target
<1>5. m \in KeepLast(chunks, Target)
  BY <1>3, <1>4, FS_EmptySet DEF KeepLast
<1>6. QED
  BY <1>2, <1>5 DEF Kept

\* What the top of pop keeps is within the threshold.
LEMMA KeptBound ==
  ASSUME TypeOK
  PROVE  Cardinality(Kept) <= Threshold
<1>1. chunks \in SUBSET Seqs /\ Cardinality(chunks) \in Nat
  BY BufferFinite DEF TypeOK
<1>2. chunkSizeBytes \in Nat \ {0} /\ adaptiveExtraChunks \in Nat
  BY BufferAssumption DEF TypeOK
<1>3. Target \in Nat \ {0}
  BY <1>2, TargetType DEF Target
<1>4. Threshold \in Nat /\ Target <= Threshold
  BY <1>3, BufferAssumption DEF Threshold, LatencyTrimThreshold, Target, AtLeast
<1>5. CASE Trimming
  <2>1. Kept = KeepLast(chunks, Target)
    BY <1>5 DEF Kept
  <2>2. Cardinality(Kept) <= Target
    BY <1>1, <1>3, <2>1, KeepLastBound
  <2>3. Cardinality(Kept) \in Nat
    BY <1>1, KeptPart, BufferFinite
  <2>4. QED
    BY <1>3, <1>4, <2>2, <2>3
<1>6. CASE ~Trimming
  <2>1. Kept = chunks /\ ~(Cardinality(chunks) > Threshold)
    BY <1>6 DEF Kept, Trimming
  <2>2. QED
    BY <1>1, <1>4, <2>1
<1>7. QED
  BY <1>5, <1>6

\* No pop leaves more than the trim threshold buffered, whichever way it takes.
THEOREM PopsBoundLatency == Spec => PopBoundsLatency
<1> DEFINE Bounded == Pop => Cardinality(chunks') <= Threshold
<1>1. TypeOK /\ [Next]_vars => [Bounded]_vars
  <2> SUFFICES ASSUME TypeOK, Pop PROVE Cardinality(chunks') <= Threshold
    OBVIOUS
  <2>1. /\ Kept \in SUBSET chunks /\ Kept \in SUBSET Seqs /\ chunks \in SUBSET Seqs
        /\ IsFiniteSet(Kept) /\ Cardinality(Kept) \in Nat
    BY KeptPart, BufferFinite DEF TypeOK
  <2>2. Cardinality(Kept) <= Threshold
    BY KeptBound
  <2>3. Threshold \in Nat
    <3>1. chunkSizeBytes \in Nat \ {0} /\ adaptiveExtraChunks \in Nat
      BY BufferAssumption DEF TypeOK
    <3>2. QED
      BY <3>1, TargetType, BufferAssumption DEF Threshold, LatencyTrimThreshold, AtLeast
  <2>4. CASE PopPrebuffering
    <3>1. ~started /\ Cardinality(chunks) < Target
      <4>1. Cardinality(chunks) \in Nat /\ Target \in Nat
        BY <2>1, BufferFinite, TargetType, BufferAssumption DEF TypeOK, Target
      <4>2. QED
        BY <2>4, <4>1 DEF PopPrebuffering, Ready
    <3>2. Target \in Nat /\ Target <= Threshold
      BY TargetType, BufferAssumption DEF TypeOK, Target, Threshold, LatencyTrimThreshold, AtLeast
    <3>3. chunks' = chunks /\ Cardinality(chunks) \in Nat
      BY <2>1, <2>4, BufferFinite DEF PopPrebuffering, play
    <3>4. QED
      BY <2>3, <3>1, <3>2, <3>3
  <2>5. CASE PopRefill
    <3>1. chunks = {}
      BY <2>5, TrimKeepsOne DEF PopRefill
    <3>2. chunks' = {}
      BY <2>5, <3>1 DEF PopRefill
    <3>3. QED
      BY <2>3, <3>2, FS_EmptySet
  <2>6. CASE PopAudio \/ PopConceal \/ PopStarved
    <3>1. chunks' \in SUBSET Kept
      BY <2>6 DEF PopAudio, PopConceal, PopStarved
    <3>2. Cardinality(chunks') <= Cardinality(Kept) /\ Cardinality(chunks') \in Nat
      BY <2>1, <3>1, FS_Subset, FS_CardinalityType
    <3>3. QED
      BY <2>1, <2>2, <2>3, <3>2
  <2>7. QED
    BY <2>4, <2>5, <2>6 DEF Pop
<1>2. QED
  BY <1>1, TypeCorrect, PTL DEF Spec, PopBoundsLatency

-----------------------------------------------------------------------------
(* The buffer implements the playout of a stream, step by step.               *)

\* The size of a set is the same for both modules.
LEMMA SameSize == ASSUME NEW S PROVE PO!Cardinality(S) = Cardinality(S)
  BY Zenon DEF PO!Cardinality, PO!IsFiniteSet, Cardinality, IsFiniteSet

\* What push takes to be far away, late or early is so.
LEMMA PushPlace ==
  ASSUME NoWrap, TypeOK, OrderInv, NEW s \in InFlight
  PROVE  /\ s \in 0..(head - 1) /\ s \in 0..LastSeq
         /\ TooFar(s) <=> PO!FarAway(s)
         /\ TooLate(s) <=> PO!Behind(s) /\ ~PO!FarAway(s)
<1>1. s \in 0..(head - 1) /\ s \in 0..LastSeq
  BY InFlightBehindHead, OrderTypes, BufferAssumption DEF NoWrap
<1>2. CASE nextSequence = NoSeq
  BY <1>1, <1>2 DEF TooFar, TooLate, PO!FarAway, PO!Behind
<1>3. CASE nextSequence # NoSeq
  <2>1. nextSequence \in 0..LastSeq
    BY <1>3, OrderTypes
  <2>2. Distance(s, nextSequence) = s - nextSequence
    BY <1>1, <2>1, PlainDistance
  <2>3. QED
    BY <1>1, <1>3, <2>1, <2>2, BufferAssumption DEF TooFar, TooLate, PO!FarAway, PO!Behind
<1>4. QED
  BY <1>2, <1>3, <1>1

\* A packet that is late is refused.
LEMMA PushRefuses ==
  ASSUME NoWrap, TypeOK, OrderInv,
         NEW s \in InFlight, NEW bytes \in Sizes, PushLate(s, bytes)
  PROVE  PO!Arrive(s)
<1>1. PO!Refuse(s) /\ ~PO!FarAway(s) /\ s \in 0..(head - 1)
  BY PushPlace DEF PushLate, play, PO!Refuse
<1>2. PO!Arrives(s) /\ UNCHANGED nextSequence
  BY <1>1 DEF PushLate, Pushed, network, play, PO!Arrives
<1>3. QED
  BY <1>1, <1>2 DEF PO!Arrive

\* A packet from far away is all that is left.
LEMMA PushJumps ==
  ASSUME NoWrap, TypeOK, OrderInv,
         NEW s \in InFlight, NEW bytes \in Sizes, PushResync(s, bytes)
  PROVE  PO!Jump(s)
<1>1. s \in 0..(head - 1) /\ PO!FarAway(s)
  BY PushPlace DEF PushResync
<1>2. QED
  BY <1>1 DEF PushResync, Resync, Pushed, network, PO!Jump, PO!Arrives

\* Only a full buffer evicts, and then the oldest.
LEMMA EvictsOldest ==
  ASSUME TypeOK, NEW s, Evicted(s) # {}, chunkSizeBytes' \in Nat \ {0}
  PROVE  /\ Cardinality(chunks) >= BaseMax
         /\ \E oldest \in chunks : Evicted(s) = {oldest} /\ \A m \in chunks : oldest <= m
<1>1. /\ chunks \in SUBSET Nat /\ Cardinality(chunks) \in Nat
      /\ adaptiveExtraChunks \in Nat
  BY BufferFinite, SeqsAreNat DEF TypeOK
<1>2. EffectiveTarget(chunkSizeBytes', adaptiveExtraChunks) \in Nat \ {0}
  BY <1>1, TargetType
<1>3. /\ MaxBufferedChunks(chunkSizeBytes', adaptiveExtraChunks) \in Nat \ {0}
      /\ MaxBufferedChunks(chunkSizeBytes', adaptiveExtraChunks) >= BaseMax
  BY <1>2, BufferAssumption DEF MaxBufferedChunks, AtLeast
<1>4. /\ Cardinality(chunks) >= MaxBufferedChunks(chunkSizeBytes', adaptiveExtraChunks)
      /\ Evicted(s) = {FirstKey(chunks)}
  BY DEF Evicted
<1>5. chunks # {}
  BY <1>1, <1>3, <1>4, FS_EmptySet
<1>6. FirstKey(chunks) \in chunks /\ \A m \in chunks : FirstKey(chunks) <= m
  BY <1>1, <1>5, FirstKeyIsLeast
<1>7. Cardinality(chunks) >= BaseMax
  BY <1>1, <1>3, <1>4, BufferAssumption
<1>8. QED
  BY <1>4, <1>6, <1>7

\* A packet that is buffered arrives: it is not behind the position, and what
\* makes room for it in a full buffer is the oldest.
LEMMA PushArrives ==
  ASSUME NoWrap, TypeOK, OrderInv,
         NEW s \in InFlight, NEW bytes \in Sizes, PushBuffer(s, bytes)
  PROVE  PO!Arrive(s)
<1>1. s \in 0..(head - 1) /\ ~PO!Behind(s) /\ ~PO!FarAway(s)
  BY PushPlace DEF PushBuffer
<1>2. /\ chunks' = (chunks \ Evicted(s)) \cup {s}
      /\ UNCHANGED nextSequence /\ PO!Arrives(s)
  BY <1>1 DEF PushBuffer, Pushed, network, PO!Arrives
<1>3. PO!Keep(s)
  <2>1. CASE Evicted(s) = {}
    BY <1>1, <1>2, <2>1 DEF PO!Keep
  <2>2. CASE Evicted(s) # {}
    <3>1. chunkSizeBytes' \in Nat \ {0}
      BY BufferAssumption DEF TypeOK, PushBuffer, ObserveChunkSize
    <3>2. QED
      BY <1>1, <1>2, <2>2, <3>1, EvictsOldest, SameSize DEF PO!Keep
  <2>3. QED
    BY <2>1, <2>2
<1>4. QED
  BY <1>1, <1>2, <1>3 DEF PO!Arrive

\* A chunk that is released is one that waits, and what was older is gone.
LEMMA PopPlays ==
  ASSUME NoWrap, TypeOK, OrderInv, PopAudio
  PROVE  Position \in chunks /\ PO!Play(Position)
<1>1. /\ Ready /\ Position \in Kept /\ Kept # {}
      /\ chunks' = Kept \ {Position} /\ nextSequence' = Succ(Position)
      /\ PO!Turn("audio")
  BY DEF PopAudio, Popped, network, PO!Turn
<1>2. /\ Position \in 0..LastSeq
      /\ \A s \in Kept : Position <= s
      /\ nextSequence # NoSeq => nextSequence <= Position
  BY <1>1, OrderPosition
<1>3. nextSequence' = Position + 1
  BY <1>1, <1>2, PlainSucc
<1>4. /\ chunks \in SUBSET Seqs /\ chunks \in SUBSET (0..LastSeq)
      /\ Kept \in SUBSET chunks /\ Position \in chunks
  BY <1>1, KeptPart, OrderTypes DEF TypeOK
<1>5. ~PO!Behind(Position)
  <2> SUFFICES ASSUME nextSequence # NoSeq, Position < nextSequence PROVE FALSE
    BY DEF PO!Behind
  <2>1. nextSequence \in 0..LastSeq
    BY OrderTypes
  <2>2. QED
    BY <1>2, <2>1
<1>6. Kept \ {Position} = {m \in chunks : m > Position}
  <2>1. ASSUME NEW m \in Kept, m # Position PROVE m > Position
    <3>1. m \in 0..LastSeq /\ Position <= m
      BY <1>2, <1>4
    <3>2. QED
      BY <1>2, <2>1, <3>1
  <2>2. ASSUME NEW m \in chunks, m > Position PROVE m \in Kept
    <3>1. CASE Trimming
      <4>1. Kept = KeepLast(chunks, Target)
        BY <3>1 DEF Kept
      <4>2. Target \in Nat
        BY TargetType, BufferAssumption DEF TypeOK, Target
      <4>3. QED
        BY <1>1, <1>4, <2>2, <4>1, <4>2, KeepLastUpper
    <3>2. CASE ~Trimming
      BY <3>2 DEF Kept
    <3>3. QED
      BY <3>1, <3>2
  <2>3. ASSUME NEW m \in chunks, m > Position PROVE m # Position
    BY <1>2, <2>3
  <2>4. QED
    BY <1>4, <2>1, <2>2, <2>3
<1>7. (\E m \in chunks : m < Position) => Cardinality(chunks) > TrimMargin + 1
  <2>1. CASE Trimming
    <3>1. Target \in Nat \ {0} /\ Cardinality(chunks) \in Nat
      BY TargetType, BufferFinite, BufferAssumption DEF TypeOK, Target
    <3>2. Threshold >= TrimMargin + 1 /\ Threshold \in Nat
      BY <3>1, BufferAssumption DEF Threshold, Target, LatencyTrimThreshold, AtLeast
    <3>3. QED
      BY <2>1, <3>1, <3>2, BufferAssumption DEF Trimming
  <2>2. CASE ~Trimming
    <3>1. \A m \in chunks : m \in 0..LastSeq /\ Position <= m
      BY <1>2, <1>4, <2>2 DEF Kept
    <3>2. QED
      BY <1>2, <3>1
  <2>3. QED
    BY <2>1, <2>2
<1>8. QED
  BY <1>1, <1>3, <1>4, <1>5, <1>6, <1>7, SameSize DEF PO!Play

\* Silence is released in place of a chunk that is missing while a later one waits.
LEMMA SilenceForMissing ==
  ASSUME NoWrap, TypeOK, OrderInv, Ready, Kept # {}, Position \notin Kept
  PROVE  /\ PO!Missing
         /\ Position = nextSequence /\ Kept = chunks /\ Succ(Position) = nextSequence + 1
<1>1. ~(Trimming \/ ~started)
  BY StartPosition DEF TypeOK
<1>2. Position = nextSequence /\ Kept = chunks
  BY <1>1 DEF Position, Kept
<1>3. nextSequence # NoSeq
  BY <1>1, Zenon DEF TypeOK, StartedOK
<1>4. Position \in 0..LastSeq /\ \A s \in Kept : Position <= s
  BY OrderPosition
<1>5. Succ(Position) = nextSequence + 1
  BY <1>2, <1>4, PlainSucc
<1>6. \E m \in chunks : m > nextSequence
  <2>1. PICK m \in chunks : TRUE
    BY <1>2
  <2>2. m \in 0..LastSeq /\ nextSequence <= m /\ m # nextSequence
    BY <1>2, <1>4, OrderTypes
  <2>3. QED
    BY <1>2, <1>4, <2>2
<1>7. QED
  BY <1>2, <1>3, <1>5, <1>6 DEF PO!Missing

\* Every step of the buffer is a step of the playout, or none.
LEMMA StepImplements ==
  ASSUME NoWrap, TypeOK, OrderInv, [Next]_vars
  PROVE  [PO!Next]_PO!vars
<1>1. CASE Send
  <2>1. head' = head + 1
    BY <1>1, OrderTypes, PlainSucc DEF Send
  <2>2. PO!Send
    BY <1>1, <2>1 DEF Send, play, call, PO!Send
  <2>3. QED
    BY <2>2 DEF PO!Next
<1>2. ASSUME NEW s \in InFlight, NEW bytes \in Sizes, PushLate(s, bytes)
      PROVE  PO!Next
  BY <1>2, PushRefuses, InFlightBehindHead DEF PO!Next
<1>3. ASSUME NEW s \in InFlight, NEW bytes \in Sizes, PushResync(s, bytes)
      PROVE  PO!Next
  BY <1>3, PushJumps, InFlightBehindHead DEF PO!Next
<1>4. ASSUME NEW s \in InFlight, NEW bytes \in Sizes, PushBuffer(s, bytes)
      PROVE  PO!Next
  BY <1>4, PushArrives, InFlightBehindHead DEF PO!Next
<1>5. CASE PopPrebuffering \/ PopRefill
  <2>1. PO!Pause
    BY <1>5 DEF PopPrebuffering, PopRefill, Popped, network, play, PO!Pause, PO!Turn
  <2>2. QED
    BY <2>1 DEF PO!Next
<1>6. CASE PopAudio
  BY <1>6, PopPlays DEF PO!Next
<1>7. CASE PopConceal
  <2>1. PO!Missing /\ nextSequence' = nextSequence + 1 /\ UNCHANGED chunks
    BY <1>7, SilenceForMissing DEF PopConceal
  <2>2. PO!Turn("silence")
    BY <1>7 DEF PopConceal, Popped, network, PO!Turn
  <2>3. QED
    BY <2>1, <2>2 DEF PO!Conceal, PO!Next
<1>8. CASE PopStarved
  <2>1. PO!Missing
    BY <1>8, SilenceForMissing DEF PopStarved
  <2>2. PO!Turn("silence") /\ nextSequence' = NoSeq /\ chunks' = {}
    BY <1>8 DEF PopStarved, Resync, Popped, network, PO!Turn
  <2>3. QED
    BY <2>1, <2>2 DEF PO!GiveUp, PO!Next
<1>9. CASE UNCHANGED vars
  BY <1>9 DEF vars, network, play, call, PO!vars
<1>10. QED
  BY <1>1, <1>2, <1>3, <1>4, <1>5, <1>6, <1>7, <1>8, <1>9 DEF Next, Push, Pop

\* Until the sequence numbers wrap, the buffer implements the playout: what arrives is kept
\* unless it is behind the position, chunks are played in the order they were sent, silence
\* only stands for a chunk that is missing while a later one waits, and playback restarts
\* only after silence or at a packet from further away than RESYNC_DISTANCE_CHUNKS.
THEOREM BufferImplementsPlayout == NoWrap => (Spec => ImplementsPlayout)
<1> SUFFICES ASSUME NoWrap PROVE Spec => ImplementsPlayout
  OBVIOUS
<1>1. Init => PO!Init
  BY BufferAssumption DEF NoWrap, Init, PO!Init
<1>2. TypeOK /\ OrderInv /\ [Next]_vars => [PO!Next]_PO!vars
  BY StepImplements
<1>3. QED
  BY <1>1, <1>2, OrderInvariant, PTL DEF Spec, ImplementsPlayout, PO!Spec

\* What Playout promises of any buffer that implements it: what waits was sent and playback
\* does not run ahead of the sender; and from one restart to the next, what is played, or was
\* skipped, never waits or is played again, however many copies of it arrive.
THEOREM PlayoutOnce == PO!Spec => []PO!Honest /\ PO!Once
<1> DEFINE Types == /\ head \in Nat /\ chunks \in SUBSET Nat
                    /\ nextSequence \in Nat \cup {NoSeq}
           Inv == Types /\ PO!Honest
<1> USE DEF NoSeq, PO!Honest, PO!Behind
<1>1. PO!Init => Inv
  BY DEF PO!Init
<1>2. Inv /\ [PO!Next]_PO!vars => Inv'
  <2> SUFFICES ASSUME Inv, [PO!Next]_PO!vars PROVE Inv'
    OBVIOUS
  <2>1. CASE PO!Send
    BY <2>1 DEF PO!Send
  <2>2. ASSUME NEW n \in 0..(head - 1), PO!Arrive(n) PROVE Inv'
    <3>1. chunks' \subseteq chunks \cup {n} /\ (n \in chunks' => n \in chunks \/ ~PO!Behind(n))
      BY <2>2 DEF PO!Arrive, PO!Keep, PO!Refuse
    <3>2. n \in Nat /\ n < head /\ UNCHANGED <<head, nextSequence>>
      BY <2>2 DEF PO!Arrive, PO!Arrives
    <3>3. QED
      BY <3>1, <3>2
  <2>3. ASSUME NEW n \in 0..(head - 1), PO!Jump(n) PROVE Inv'
    BY <2>3 DEF PO!Jump, PO!Arrives
  <2>4. ASSUME NEW n \in chunks, PO!Play(n) PROVE Inv'
    <3>1. n \in Nat /\ n < head /\ UNCHANGED head
      BY <2>4 DEF PO!Play, PO!Turn
    <3>2. nextSequence' = n + 1 /\ chunks' \subseteq chunks /\ \A m \in chunks' : m > n
      BY <2>4 DEF PO!Play
    <3>3. \A m \in chunks' : m \in Nat /\ m < head' /\ ~(m < nextSequence')
      BY <3>1, <3>2
    <3>4. QED
      BY <3>1, <3>2, <3>3
  <2>5. CASE PO!Conceal
    BY <2>5 DEF PO!Conceal, PO!Missing, PO!Turn
  <2>6. CASE PO!GiveUp \/ PO!Pause
    BY <2>6 DEF PO!GiveUp, PO!Pause, PO!Turn
  <2>7. CASE UNCHANGED PO!vars
    BY <2>7 DEF PO!vars
  <2>8. QED
    BY <2>1, <2>2, <2>3, <2>4, <2>5, <2>6, <2>7 DEF PO!Next
<1>3. ASSUME Inv, Inv', [PO!Next]_PO!vars,
             NEW n \in 0..(head - 1), PO!Behind(n) \/ PO!Play(n), nextSequence' # NoSeq
      PROVE  PO!Behind(n)' /\ n \notin chunks'
  <2>1. CASE PO!Play(n)
    BY <2>1 DEF PO!Play
  <2>2. CASE PO!Behind(n)
    <3>1. nextSequence' >= nextSequence
      <4> nextSequence \in Nat
        BY <1>3, <2>2
      <4>1. CASE UNCHANGED nextSequence
        BY <4>1
      <4>2. ASSUME NEW m \in chunks, PO!Play(m) PROVE nextSequence' >= nextSequence
        BY <1>3, <2>2, <4>2 DEF PO!Play
      <4>3. CASE PO!Conceal
        BY <2>2, <4>3 DEF PO!Conceal
      <4>4. QED
        BY <1>3, <4>1, <4>2, <4>3
        DEF PO!Next, PO!Send, PO!Arrive, PO!Jump, PO!GiveUp, PO!Pause, PO!vars
    <3>2. PO!Behind(n)'
      BY <1>3, <2>2, <3>1
    <3>3. QED
      BY <1>3, <3>2
  <2>3. QED
    BY <1>3, <2>1, <2>2
<1>4. Inv /\ Inv' /\ [PO!Next]_PO!vars
        => [\A n \in 0..(head - 1) :
              PO!Behind(n) \/ PO!Play(n) =>
                nextSequence' = NoSeq \/ (PO!Behind(n)' /\ n \notin chunks')]_PO!vars
  BY <1>3
<1>5. QED
  BY <1>1, <1>2, <1>4, PTL DEF PO!Spec, PO!Once

\* Until the sequence numbers wrap, no packet is played twice between two resyncs, nor one
\* after a later one; after a resync a copy that is still under way may be.
THEOREM BufferPlaysOnce == NoWrap => (Spec => []PO!Honest /\ PO!Once)
<1> SUFFICES ASSUME NoWrap PROVE Spec => []PO!Honest /\ PO!Once
  OBVIOUS
<1>1. QED
  BY BufferImplementsPlayout, PlayoutOnce, PTL DEF ImplementsPlayout

-----------------------------------------------------------------------------
(* The ceiling of the adaptive depth *)

\* A product grows with either factor.
LEMMA MulMono ==
  ASSUME NEW a \in Nat, NEW b \in Nat, NEW c \in Nat, NEW d \in Nat, a <= b, c <= d
  PROVE  a * c <= b * d
<1>1. a * c <= b * c
  OBVIOUS
<1>2. b * c <= b * d
  OBVIOUS
<1>3. QED
  BY <1>1, <1>2

\* Below a bound a product stays there when its factors shrink.
LEMMA LowerProduct ==
  ASSUME NEW a \in Nat, NEW b \in Nat, NEW c \in Nat, NEW d \in Nat, NEW m \in Nat,
         a <= b, c <= d, b * d <= m
  PROVE  a * c <= m
<1>1. a * c <= b * d
  BY MulMono
<1>2. a * c \in Nat /\ b * d \in Nat
  OBVIOUS
<1>3. QED
  BY <1>1, <1>2

\* What is divided is not exceeded by the product.
LEMMA DivMul ==
  ASSUME NEW a \in Nat, NEW b \in Nat \ {0}
  PROVE  (a \div b) * b <= a
OBVIOUS

\* The sender keeps to one packet size, and it is no greater than the first guess: the
\* guess is 10 ms of audio, more than one packet holds.
OneSize == \E bytes \in Sizes : Sizes = {bytes} /\ bytes <= SeedSize

\* A step that grows the depth stops at the ceiling.
LEMMA AdaptUnderCeiling ==
  ASSUME TypeOK, ExtraUnderCeiling, NEW c \in 0..1, AdaptDepth(c), UNCHANGED chunkSizeBytes
  PROVE  ExtraUnderCeiling'
<1>1. chunkSizeBytes \in Nat \ {0} /\ adaptiveExtraChunks \in Nat /\ MaxExtraBytes \in Nat
  BY BufferAssumption DEF TypeOK
<1>2. adaptiveExtraChunks' \in Nat
  BY AdaptDepthType
<1>3. CASE adaptiveExtraChunks' <= adaptiveExtraChunks
  <2>1. adaptiveExtraChunks * chunkSizeBytes <= MaxExtraBytes /\ chunkSizeBytes <= chunkSizeBytes
    BY <1>1 DEF ExtraUnderCeiling
  <2>2. adaptiveExtraChunks' * chunkSizeBytes <= MaxExtraBytes
    BY <1>1, <1>2, <1>3, <2>1, LowerProduct, Zenon
  <2>3. QED
    BY <2>2 DEF ExtraUnderCeiling
<1>4. CASE adaptiveExtraChunks' <= ExtraCeiling(chunkSizeBytes)
  <2>1. ExtraCeiling(chunkSizeBytes) \in Nat
    BY <1>1, CeilingType
  <2>2. ExtraCeiling(chunkSizeBytes) * chunkSizeBytes <= MaxExtraBytes /\ chunkSizeBytes <= chunkSizeBytes
    BY <1>1, DivMul DEF ExtraCeiling
  <2>3. adaptiveExtraChunks' * chunkSizeBytes <= MaxExtraBytes
    BY <1>1, <1>2, <1>4, <2>1, <2>2, LowerProduct, Zenon
  <2>4. QED
    BY <2>3 DEF ExtraUnderCeiling
<1>5. adaptiveExtraChunks' <= adaptiveExtraChunks \/ adaptiveExtraChunks' <= ExtraCeiling(chunkSizeBytes)
  <2>1. Target \in Nat /\ ExtraCeiling(chunkSizeBytes) \in Nat
    BY <1>1, TargetType, CeilingType DEF Target
  <2>2. AtMost(ExtraCeiling(chunkSizeBytes), adaptiveExtraChunks + AtLeast(1, Target \div 4))
          <= ExtraCeiling(chunkSizeBytes)
    BY <1>1, <2>1, DivBounds DEF AtMost, AtLeast
  <2>3. QED
    BY <1>1, <2>1, <2>2 DEF AdaptDepth, AdaptedExtra
<1>6. QED
  BY <1>3, <1>4, <1>5

\* With one packet size the depth that adaptDepth adds stays under MAX_ADAPTIVE_EXTRA_MS,
\* across the switch from the guessed size, for any jitter.
THEOREM ExtraBounded == OneSize => (Spec => []ExtraUnderCeiling)
<1> SUFFICES ASSUME OneSize PROVE Spec => []ExtraUnderCeiling
  OBVIOUS
<1>1. Init => ExtraUnderCeiling
  BY BufferAssumption DEF Init, ExtraUnderCeiling
<1>2. TypeOK /\ ExtraUnderCeiling /\ [Next]_vars => ExtraUnderCeiling'
  <2> SUFFICES ASSUME TypeOK, ExtraUnderCeiling, [Next]_vars PROVE ExtraUnderCeiling'
    OBVIOUS
  <2>1. CASE Send \/ PopPrebuffering \/ UNCHANGED vars
    BY <2>1 DEF Send, PopPrebuffering, vars, size, window, ExtraUnderCeiling
  <2>2. ASSUME NEW s \in InFlight, NEW bytes \in Sizes, Push(s, bytes) PROVE ExtraUnderCeiling'
    <3>1. UNCHANGED adaptiveExtraChunks /\ chunkSizeBytes' \in {chunkSizeBytes, bytes}
      BY <2>2 DEF Push, PushLate, PushResync, PushBuffer, ObserveChunkSize, window
    <3>2. chunkSizeBytes \in Nat /\ chunkSizeBytes' \in Nat /\ chunkSizeBytes' <= chunkSizeBytes
      BY <3>1, BufferAssumption DEF TypeOK, OneSize
    <3>3. adaptiveExtraChunks \in Nat /\ MaxExtraBytes \in Nat
      BY BufferAssumption DEF TypeOK
    <3>4. adaptiveExtraChunks <= adaptiveExtraChunks /\ adaptiveExtraChunks * chunkSizeBytes <= MaxExtraBytes
      BY <3>3 DEF ExtraUnderCeiling
    <3>5. adaptiveExtraChunks * chunkSizeBytes' <= MaxExtraBytes
      BY <3>2, <3>3, <3>4, LowerProduct, Zenon
    <3>6. QED
      BY <3>1, <3>5 DEF ExtraUnderCeiling
  <2>3. CASE PopRefill \/ PopAudio \/ PopConceal \/ PopStarved
    <3>1. UNCHANGED chunkSizeBytes /\ (AdaptDepth(0) \/ AdaptDepth(1))
      BY <2>3 DEF PopRefill, PopAudio, PopConceal, PopStarved, size
    <3>2. QED
      BY <3>1, AdaptUnderCeiling
  <2>4. QED
    BY <2>1, <2>2, <2>3 DEF Next, Pop
<1>3. QED
  BY <1>1, <1>2, TypeCorrect, PTL DEF Spec
=============================================================================
