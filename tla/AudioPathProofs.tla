-------------------------- MODULE AudioPathProofs --------------------------
(* How chunks are cut, numbered and learned from, for every capture format and latency *)
(* mode and however many sequence numbers there are.                                   *)
EXTENDS AudioPath, FiniteSetTheorems, TLAPS

-----------------------------------------------------------------------------
(* Products and quotients *)

\* A product grows with either factor.
LEMMA MulMono ==
  ASSUME NEW a \in Nat, NEW b \in Nat, NEW n \in Nat, a <= b
  PROVE  a * n <= b * n
OBVIOUS

\* Rounding up exceeds what is divided by less than the divisor.
LEMMA CeilDivFacts ==
  ASSUME NEW a \in Nat, NEW b \in Nat \ {0}
  PROVE  /\ CeilDiv(a, b) \in Nat
         /\ a <= CeilDiv(a, b) * b
         /\ CeilDiv(a, b) * b <= a + b - 1
         /\ a > 0 => CeilDiv(a, b) > 0
BY DEF CeilDiv

\* Nor does it pass a multiple of the divisor.
LEMMA CeilDivLeast ==
  ASSUME NEW a \in Nat, NEW b \in Nat \ {0}, NEW c \in Nat, a <= c * b
  PROVE  CeilDiv(a, b) <= c
<1>1. CeilDiv(a, b) \in Nat /\ CeilDiv(a, b) * b <= a + b - 1
  BY CeilDivFacts
<1>2. SUFFICES ASSUME c + 1 <= CeilDiv(a, b) PROVE FALSE
  BY <1>1
<1>3. (c + 1) * b <= CeilDiv(a, b) * b
  BY <1>1, <1>2, MulMono
<1>4. (c + 1) * b = c * b + b
  OBVIOUS
<1>5. QED
  BY <1>1, <1>3, <1>4

\* Multiples leave no remainder,
LEMMA MultipleMod ==
  ASSUME NEW q \in Nat, NEW n \in Nat \ {0}
  PROVE  (q * n) % n = 0
OBVIOUS

\* and what leaves none is one.
LEMMA ModMultiple ==
  ASSUME NEW a \in Nat, NEW n \in Nat \ {0}, a % n = 0
  PROVE  \E q \in Nat : a = q * n
<1>1. a \div n \in Nat /\ a = (a \div n) * n
  OBVIOUS
<1>2. QED
  BY <1>1

-----------------------------------------------------------------------------
(* max_payload_bytes and even_split_bytes *)

Budget == MaxDatagramBytes - (HeaderLen + AeadTagLen)

\* The largest payload is whole frames, one at least, and within the budget if a frame is.
LEMMA MaxPayloadFacts ==
  ASSUME NEW frame \in Nat \ {0}
  PROVE  \E k \in Nat \ {0} : /\ MaxPayloadBytes(frame) = k * frame
                              /\ frame <= Budget => k * frame <= Budget
<1>1. Budget = 1171
  BY DEF Budget, MaxDatagramBytes, HeaderLen, AeadTagLen
<1> DEFINE k == Larger(Budget \div frame, 1)
<1>2. k \in Nat \ {0}
  BY <1>1 DEF Larger
<1>3. ASSUME frame <= Budget PROVE k * frame <= Budget
  <2>1. (Budget \div frame) * frame <= Budget
    BY <1>1
  <2>2. 1 * frame <= Budget
    BY <1>1, <1>3
  <2>3. QED
    BY <2>1, <2>2 DEF Larger
<1>4. MaxPayloadBytes(frame) = k * frame
  BY DEF MaxPayloadBytes, Budget
<1>5. QED
  BY <1>2, <1>3, <1>4

\* A packet of an even split is whole frames, no more than the largest payload.
LEMMA EvenSplitFacts ==
  ASSUME NEW len \in Nat, NEW k \in Nat \ {0}, NEW frame \in Nat \ {0}
  PROVE  \E c \in Nat : /\ EvenSplitBytes(len, k * frame, frame) = c * frame
                        /\ c * frame <= k * frame
                        /\ len > 0 => c > 0
<1> DEFINE most    == k * frame
           packets == Larger(CeilDiv(len, most), 1)
           ideal   == CeilDiv(len, packets)
           c       == CeilDiv(ideal, frame)
<1>1. most \in Nat \ {0}
  OBVIOUS
<1>2. packets \in Nat \ {0} /\ CeilDiv(len, most) <= packets
  <2>1. CeilDiv(len, most) \in Nat
    BY <1>1, CeilDivFacts
  <2>2. QED
    BY <2>1 DEF Larger
<1>3. len <= packets * most
  <2>1. len <= CeilDiv(len, most) * most /\ CeilDiv(len, most) \in Nat
    BY <1>1, CeilDivFacts
  <2>2. CeilDiv(len, most) * most <= packets * most
    BY <1>1, <1>2, <2>1, MulMono
  <2>3. packets * most \in Nat /\ CeilDiv(len, most) * most \in Nat
    BY <1>1, <1>2, <2>1
  <2>4. QED
    BY <2>1, <2>2, <2>3
<1>4. ideal \in Nat /\ ideal <= most /\ (len > 0 => ideal > 0)
  <2>1. packets * most = most * packets
    BY <1>1, <1>2
  <2>2. ideal <= most
    BY <1>1, <1>2, <1>3, <2>1, CeilDivLeast
  <2>3. QED
    BY <1>2, <2>2, CeilDivFacts
<1>5. c \in Nat /\ c <= k /\ (len > 0 => c > 0)
  BY <1>4, CeilDivLeast, CeilDivFacts
<1>6. c * frame <= k * frame
  BY <1>5, MulMono
<1>7. EvenSplitBytes(len, k * frame, frame) = c * frame
  BY DEF EvenSplitBytes
<1>8. QED
  BY <1>5, <1>6, <1>7

\* Where the frames of a chunk can be shared out evenly, the split does it.
LEMMA EvenSplitExact ==
  ASSUME NEW len \in Nat, NEW most \in Nat \ {0}, NEW frame \in Nat \ {0},
         len % (CeilDiv(len, most) * frame) = 0
  PROVE  \E n \in Nat : len = n * EvenSplitBytes(len, most, frame)
<1> DEFINE packets == CeilDiv(len, most)
<1>1. CASE len = 0
  <2>1. EvenSplitBytes(len, most, frame) \in Nat
    BY <1>1 DEF EvenSplitBytes, CeilDiv, Larger
  <2>2. len = 0 * EvenSplitBytes(len, most, frame)
    BY <1>1, <2>1
  <2>3. QED
    BY <2>2
<1>2. CASE len > 0
  <2>1. packets \in Nat \ {0} /\ Larger(packets, 1) = packets
    <3>1. packets \in Nat /\ packets > 0
      BY <1>2, CeilDivFacts
    <3>2. QED
      BY <3>1 DEF Larger
  <2>2. packets * frame \in Nat \ {0}
    BY <2>1
  <2>3. PICK q \in Nat : len = q * (packets * frame)
    BY <2>2, ModMultiple
  <2>4. len = (q * frame) * packets /\ q * frame \in Nat
    BY <2>1, <2>3
  <2>5. CeilDiv(len, packets) = q * frame
    <3>1. CeilDiv(len, packets) <= q * frame
      BY <2>1, <2>4, CeilDivLeast
    <3>2. CeilDiv(len, packets) \in Nat /\ len <= CeilDiv(len, packets) * packets
      BY <2>1, CeilDivFacts
    <3>3. ASSUME CeilDiv(len, packets) < q * frame PROVE FALSE
      <4>1. (CeilDiv(len, packets) + 1) * packets <= (q * frame) * packets
        BY <2>1, <2>4, <3>2, <3>3, MulMono
      <4>2. (CeilDiv(len, packets) + 1) * packets = CeilDiv(len, packets) * packets + packets
        BY <2>1, <3>2
      <4>3. CeilDiv(len, packets) * packets \in Nat
        BY <2>1, <3>2
      <4>4. QED
        BY <2>1, <2>4, <3>2, <4>1, <4>2, <4>3
    <3>4. QED
      BY <2>4, <3>1, <3>2, <3>3
  <2>6. CeilDiv(q * frame, frame) = q
    <3>1. CeilDiv(q * frame, frame) <= q
      BY <2>4, CeilDivLeast
    <3>2. CeilDiv(q * frame, frame) \in Nat /\ q * frame <= CeilDiv(q * frame, frame) * frame
      BY <2>4, CeilDivFacts
    <3>3. ASSUME CeilDiv(q * frame, frame) < q PROVE FALSE
      <4>1. (CeilDiv(q * frame, frame) + 1) * frame <= q * frame
        BY <3>2, <3>3, MulMono
      <4>2. (CeilDiv(q * frame, frame) + 1) * frame = CeilDiv(q * frame, frame) * frame + frame
        BY <3>2
      <4>3. CeilDiv(q * frame, frame) * frame \in Nat
        BY <3>2
      <4>4. QED
        BY <2>4, <3>2, <4>1, <4>2, <4>3
    <3>4. QED
      BY <3>1, <3>2, <3>3
  <2>7. EvenSplitBytes(len, most, frame) = q * frame
    BY <2>1, <2>5, <2>6 DEF EvenSplitBytes
  <2>8. len = packets * EvenSplitBytes(len, most, frame)
    BY <2>1, <2>4, <2>7
  <2>9. QED
    BY <2>1, <2>8
<1>3. QED
  BY <1>1, <1>2

-----------------------------------------------------------------------------
(* send_frame *)

\* One frame fits into a packet: up to 585 channels.
FramesFit == \A f \in Formats : BytesPerFrame(f) <= Budget

\* Capture hands over whole frames.
WholeChunks ==
  \A f \in Formats, ms \in Modes : BytesPerChunk(f, ms) % BytesPerFrame(f) = 0

\* Frames and chunks have lengths.
LEMMA FormatTypes ==
  ASSUME NEW f \in Formats, NEW ms \in Modes
  PROVE  BytesPerFrame(f) \in Nat \ {0} /\ BytesPerChunk(f, ms) \in Nat
<1>1. f.rate \in Nat /\ f.channels \in Nat \ {0} /\ f.sampleBytes \in Nat /\ ms \in Nat
  BY AudioAssumption
<1>2. f.sampleBytes * f.channels * f.rate * ms \in Nat
  BY <1>1
<1>3. QED
  BY <1>1, <1>2 DEF BytesPerFrame, BytesPerChunk, Larger

\* Lengths are numbers, and of no packet 0.
SizeInv ==
  /\ format \in Formats /\ mode \in Modes
  /\ rest \in Nat
  /\ perPacket \in Nat
  /\ rest > 0 => perPacket > 0
  /\ sizes \subseteq Nat \ {0}

\* The packet that is cut next and those that were sent fit the budget.
FitInv == FramesFit => perPacket <= Budget /\ \A n \in sizes : n <= Budget

\* What is left and what was sent are whole frames.
Framed(n) == \E q \in Nat : n = q * BytesPerFrame(format)
FrameInv ==
  WholeChunks => Framed(rest) /\ Framed(perPacket) /\ \A n \in sizes : Framed(n)

\* The packets of a chunk that divides are as long as the next one, of which there is a
\* whole number left.
EqualInv ==
  Divides(format) =>
    \E n \in Nat : sizes \subseteq {n} /\ (rest > 0 => n = perPacket /\ \E q \in Nat : rest = q * n)

CutInv == SizeInv /\ FitInv /\ FrameInv /\ EqualInv

LEMMA BudgetType == Budget \in Nat
BY DEF Budget, MaxDatagramBytes, HeaderLen, AeadTagLen

\* A chunk is begun well cut, the first one of a new mode, too.
LEMMA BeginCut ==
  ASSUME SizeInv, NEW id, BeginChunk(id)
  PROVE  CutInv' /\ perPacket' = PacketSize(format, mode)
<1> DEFINE frame == BytesPerFrame(format)
           len   == BytesPerChunk(format, mode)
<1>1. frame \in Nat \ {0} /\ len \in Nat
  BY FormatTypes DEF SizeInv
<1>2. PICK k \in Nat \ {0} : /\ MaxPayloadBytes(frame) = k * frame
                             /\ frame <= Budget => k * frame <= Budget
  BY <1>1, MaxPayloadFacts
<1>3. PICK c \in Nat : PerPacket(len, frame) = c * frame /\ c * frame <= k * frame /\ (len > 0 => c > 0)
  BY <1>1, <1>2, EvenSplitFacts DEF PerPacket
<1>4. rest' = len /\ perPacket' = c * frame /\ sizes' = {} /\ UNCHANGED <<format, mode>>
  BY <1>3 DEF BeginChunk, user
<1>5. c * frame \in Nat /\ k * frame \in Nat \ {0} /\ (c > 0 => c * frame > 0)
  BY <1>1
<1>6. SizeInv'
  BY <1>1, <1>3, <1>4, <1>5 DEF SizeInv
<1>7. FitInv'
  <2> SUFFICES ASSUME FramesFit PROVE c * frame <= Budget
    BY <1>4 DEF FitInv
  <2>1. frame <= Budget
    BY DEF FramesFit, SizeInv
  <2>2. QED
    BY <1>2, <1>3, <1>5, <2>1, BudgetType
<1>8. FrameInv'
  <2> SUFFICES ASSUME WholeChunks PROVE \E q \in Nat : len = q * frame
    BY <1>4 DEF FrameInv, Framed
  <2>1. QED
    BY <1>1, ModMultiple DEF WholeChunks, SizeInv
<1>9. EqualInv'
  <2> SUFFICES ASSUME Divides(format) PROVE \E n \in Nat : n = perPacket' /\ \E q \in Nat : rest' = q * n
    BY <1>4 DEF EqualInv
  <2>1. len % (CeilDiv(len, k * frame) * frame) = 0
    BY <1>2 DEF Divides, SizeInv
  <2>2. \E q \in Nat : len = q * PerPacket(len, frame)
    BY <1>1, <1>2, <1>5, <2>1, EvenSplitExact DEF PerPacket
  <2>3. QED
    BY <1>3, <1>4, <1>5, <2>2
<1>10. perPacket' = PacketSize(format, mode)
  BY <1>3, <1>4 DEF PacketSize
<1>11. QED
  BY <1>6, <1>7, <1>8, <1>9, <1>10 DEF CutInv

\* What is sent next is no more than is left and, where the chunk divides, as much as
\* every packet of it.
LEMMA SliceFacts ==
  ASSUME CutInv, rest > 0
  PROVE  /\ Slice \in Nat \ {0} /\ Slice <= rest /\ Slice <= perPacket
         /\ Slice \in {perPacket, rest}
         /\ Divides(format) => Slice = perPacket
<1>1. rest \in Nat \ {0} /\ perPacket \in Nat \ {0}
  BY DEF CutInv, SizeInv
<1>2. Slice \in Nat \ {0} /\ Slice <= rest /\ Slice <= perPacket /\ Slice \in {perPacket, rest}
  BY <1>1 DEF Slice, Lesser
<1>3. ASSUME Divides(format) PROVE Slice = perPacket
  <2>1. PICK q \in Nat : rest = q * perPacket
    BY <1>3 DEF CutInv, EqualInv
  <2>2. q # 0
    BY <1>1, <2>1
  <2>3. rest = (q - 1) * perPacket + perPacket /\ (q - 1) * perPacket \in Nat
    BY <1>1, <2>1, <2>2
  <2>4. QED
    BY <1>1, <2>3 DEF Slice, Lesser
<1>4. QED
  BY <1>2, <1>3

\* A packet leaves what is left of the chunk well cut.
LEMMA SendCut ==
  ASSUME CutInv, SendOne
  PROVE  CutInv'
<1> DEFINE frame == BytesPerFrame(format)
<1>1. /\ frame \in Nat \ {0} /\ rest \in Nat \ {0} /\ perPacket \in Nat \ {0}
      /\ format \in Formats /\ mode \in Modes
  BY FormatTypes DEF CutInv, SizeInv, SendOne, SendPart
<1>2. /\ rest' = rest - Slice /\ sizes' = sizes \cup {Slice} /\ UNCHANGED <<format, mode>>
      /\ perPacket' = IF rest' = 0 THEN 0 ELSE perPacket
  BY DEF SendOne, SendPart, user
<1>3. /\ Slice \in Nat \ {0} /\ Slice <= rest /\ Slice <= perPacket
      /\ Slice \in {perPacket, rest}
      /\ Divides(format) => Slice = perPacket
  BY <1>1, SliceFacts
<1>4. SizeInv'
  BY <1>1, <1>2, <1>3 DEF CutInv, SizeInv
<1>5. FitInv'
  BY <1>1, <1>2, <1>3, BudgetType DEF CutInv, FitInv
<1>6. FrameInv'
  <2> SUFFICES ASSUME WholeChunks
               PROVE  /\ \E q \in Nat : rest' = q * frame
                      /\ \E q \in Nat : perPacket' = q * frame
                      /\ \A n \in sizes' : \E q \in Nat : n = q * frame
    BY <1>2 DEF FrameInv, Framed
  <2>1. PICK a \in Nat : rest = a * frame
    BY DEF CutInv, FrameInv, Framed
  <2>2. PICK b \in Nat : Slice = b * frame
    BY <1>3 DEF CutInv, FrameInv, Framed
  <2>3. b <= a
    <3>1. SUFFICES ASSUME a + 1 <= b PROVE FALSE
      OBVIOUS
    <3>2. (a + 1) * frame <= b * frame
      BY <1>1, <3>1, MulMono
    <3>3. (a + 1) * frame = a * frame + frame /\ a * frame \in Nat
      BY <1>1
    <3>4. QED
      BY <1>1, <1>3, <2>1, <2>2, <3>2, <3>3
  <2>4. a - b \in Nat /\ rest - Slice = (a - b) * frame
    BY <1>1, <2>1, <2>2, <2>3
  <2>5. \E q \in Nat : rest' = q * frame
    BY <1>2, <2>4
  <2>6. \E q \in Nat : perPacket' = q * frame
    <3>1. 0 = 0 * frame
      BY <1>1
    <3>2. QED
      BY <1>2, <3>1 DEF CutInv, FrameInv, Framed
  <2>7. QED
    BY <1>2, <2>2, <2>5, <2>6 DEF CutInv, FrameInv, Framed
<1>7. EqualInv'
  <2> SUFFICES ASSUME Divides(format)
               PROVE  \E n \in Nat : /\ sizes' \subseteq {n}
                                     /\ rest' > 0 => n = perPacket' /\ \E q \in Nat : rest' = q * n
    BY <1>2 DEF EqualInv
  <2>1. PICK n \in Nat : sizes \subseteq {n} /\ n = perPacket /\ \E q \in Nat : rest = q * n
    BY <1>1 DEF CutInv, EqualInv
  <2>2. PICK q \in Nat : rest = q * n
    BY <2>1
  <2>3. q - 1 \in Nat /\ rest - n = (q - 1) * n
    <3>1. q # 0
      BY <1>1, <2>2
    <3>2. q - 1 \in Nat /\ q * n = (q - 1) * n + n
      BY <3>1
    <3>3. QED
      BY <2>2, <3>2
  <2>4. sizes' \subseteq {n}
    BY <1>2, <1>3, <2>1
  <2>5. \E p \in Nat : rest' = p * n
    BY <1>2, <1>3, <2>1, <2>3
  <2>6. rest' > 0 => n = perPacket'
    BY <1>2, <2>1
  <2>7. QED
    BY <2>4, <2>5, <2>6
<1>8. QED
  BY <1>4, <1>5, <1>6, <1>7 DEF CutInv

\* What is left of a chunk is given up.
LEMMA DropCut ==
  ASSUME CutInv, rest' = 0, perPacket' = 0, sizes' \in {sizes, {}}, UNCHANGED <<format, mode>>
  PROVE  CutInv'
<1>1. Framed(0)'
  <2>1. 0 = 0 * BytesPerFrame(format)
    BY FormatTypes DEF CutInv, SizeInv
  <2>2. QED
    BY <2>1 DEF Framed
<1>2. FrameInv'
  BY <1>1 DEF CutInv, FrameInv, Framed
<1>3. QED
  BY <1>2, BudgetType DEF CutInv, SizeInv, FitInv, EqualInv

\* However sessions, modes and failures fall between the packets.
LEMMA CutStep ==
  ASSUME CutInv, [Next]_vars
  PROVE  CutInv'
<1>s. ASSUME UNCHANGED <<format, chunk>>, mode' \in Modes PROVE CutInv'
  BY <1>s DEF CutInv, SizeInv, FitInv, FrameInv, Framed, EqualInv, chunk
<1>m. mode \in Modes
  BY DEF CutInv, SizeInv
<1>1. CASE SetLatencyMode \/ SetStreamingEnabled \/ UNCHANGED vars
  BY <1>1, <1>m, <1>s DEF SetLatencyMode, SetStreamingEnabled, vars, user
<1>2. CASE OpenSession \/ CloseSession \/ PhoneConfigures
  BY <1>2, <1>m, <1>s DEF OpenSession, CloseSession, PhoneConfigures, user
<1>3. CASE Restart
  BY <1>3, DropCut DEF Restart
<1>4. CASE Capture
  BY <1>4, BeginCut DEF Capture, CutInv
<1>5. CASE SendDelivered \/ SendLost
  BY <1>5, SendCut DEF SendDelivered, SendLost
<1>6. CASE SendFails
  BY <1>6, DropCut DEF SendFails, SendPart, user
<1>7. QED
  BY <1>1, <1>2, <1>3, <1>4, <1>5, <1>6 DEF Next

LEMMA CutInit == Init => CutInv
<1> SUFFICES ASSUME Init PROVE CutInv
  OBVIOUS
<1>1. rest = 0 /\ perPacket = 0 /\ sizes = {} /\ format \in Formats /\ mode \in Modes
  BY DEF Init
<1>2. Framed(0)
  <2>1. 0 = 0 * BytesPerFrame(format)
    BY <1>1, FormatTypes
  <2>2. QED
    BY <2>1 DEF Framed
<1>3. QED
  BY <1>1, <1>2, BudgetType DEF CutInv, SizeInv, FitInv, FrameInv, EqualInv

LEMMA CutKept == Spec => []CutInv
BY CutInit, CutStep, PTL DEF Spec

\* Whatever is captured and whichever mode is chosen meanwhile, no datagram is over the
\* budget, none carries a part of a frame, and where a chunk divides they do not differ.
THEOREM CutWell == FramesFit /\ WholeChunks => (Spec => []WellCut)
<1> SUFFICES ASSUME FramesFit, WholeChunks PROVE Spec => []WellCut
  OBVIOUS
<1>1. CutInv => WellCut
  <2> SUFFICES ASSUME CutInv PROVE WellCut
    OBVIOUS
  <2>1. FitsMtu
    BY DEF CutInv, SizeInv, FitInv, FitsMtu, Budget, MaxDatagramBytes, HeaderLen, AeadTagLen
  <2>2. WholeFrames
    <3>1. BytesPerFrame(format) \in Nat \ {0}
      BY FormatTypes DEF CutInv, SizeInv
    <3>2. QED
      BY <3>1, MultipleMod DEF CutInv, FrameInv, Framed, WholeFrames
  <2>3. EqualPackets
    <3>1. ASSUME NEW n \in Nat, sizes \subseteq {n} PROVE Cardinality(sizes) <= 1
      <4>1. IsFiniteSet({n}) /\ Cardinality({n}) = 1
        BY FS_Singleton
      <4>2. QED
        BY <3>1, <4>1, FS_Subset
    <3>2. QED
      BY <3>1 DEF CutInv, EqualInv, EqualPackets
  <2>4. QED
    BY <2>1, <2>2, <2>3 DEF WellCut
<1>2. QED
  BY <1>1, CutKept, PTL
-----------------------------------------------------------------------------
(* Sessions and nonces *)

\* A session that begins is none of those that are still of account.
LEMMA NewSession ==
  ASSUME {session, held, phone} \subseteq SessionIds \cup {NoSession}
  PROVE  GenerateSessionId \in SessionIds \ {session, held, phone}
<1>1. SessionIds \ {session, held, phone} # {}
  BY AudioAssumption
<1>2. QED
  BY <1>1 DEF GenerateSessionId

LEMMA UnusedType == Unused \in (SessionIds \cup {NoSession}) \X (0..(SeqSpace - 1))
<1>1. 0 \in 0..(SeqSpace - 1) /\ NoSession \in SessionIds \cup {NoSession}
  BY AudioAssumption
<1>2. QED
  BY <1>1 DEF Unused, BuildNonce

\* Forgetting leaves nonces, and each as it was or none.
LEMMA ForgetFacts ==
  ASSUME NEW nonces \in [Ages -> (SessionIds \cup {NoSession}) \X (0..(SeqSpace - 1))], NEW ids
  PROVE  /\ Forget(nonces, ids) \in [Ages -> (SessionIds \cup {NoSession}) \X (0..(SeqSpace - 1))]
         /\ \A k \in Ages : Forget(nonces, ids)[k] \in {nonces[k], Unused}
BY UnusedType DEF Forget

\* The sessions, the chunk's clone among them, and the counter.  While a chunk is sent
\* there is a session to send it in.
LinkInv ==
  /\ streamingEnabled \in BOOLEAN
  /\ {session, held, phone} \subseteq SessionIds \cup {NoSession}
  /\ sequence \in 0..(SeqSpace - 1)
  /\ recent \in [Ages -> (SessionIds \cup {NoSession}) \X (0..(SeqSpace - 1))]
  /\ rest > 0 => held # NoSession

\* The number of a packet sent k packets ago.
Number(k) == IF k <= sequence THEN sequence - k ELSE sequence - k + SeqSpace

\* The packets still of account were numbered one after the other.
NumberInv == \A k \in Ages : recent[k] # Unused => recent[k][2] = Number(k)

NonceInv == LinkInv /\ NumberInv

\* Forgetting nonces, in a step that sends no packet.
LEMMA ForgetKept ==
  ASSUME NonceInv, NEW ids, recent' = Forget(recent, ids), sequence' = sequence
  PROVE  /\ recent' \in [Ages -> (SessionIds \cup {NoSession}) \X (0..(SeqSpace - 1))]
         /\ NumberInv'
<1>1. /\ recent' \in [Ages -> (SessionIds \cup {NoSession}) \X (0..(SeqSpace - 1))]
      /\ \A k \in Ages : recent'[k] \in {recent[k], Unused}
  BY ForgetFacts DEF NonceInv, LinkInv
<1>2. ASSUME NEW k \in Ages, recent'[k] # Unused PROVE recent'[k][2] = Number(k)'
  BY <1>1, <1>2 DEF NonceInv, NumberInv, Number
<1>3. QED
  BY <1>1, <1>2 DEF NumberInv

\* A packet takes the number that is due, at the wrap, too.
LEMMA SendNumbered ==
  ASSUME NonceInv, SendPart, phone' = phone
  PROVE  NonceInv'
<1> DEFINE used == Used(BuildNonce(held, sequence))
           Nonces == [Ages -> (SessionIds \cup {NoSession}) \X (0..(SeqSpace - 1))]
<1>1. /\ SeqSpace \in Nat \ {0} /\ sequence \in 0..(SeqSpace - 1)
      /\ held \in SessionIds \cup {NoSession} /\ recent \in Nonces
  BY AudioAssumption DEF NonceInv, LinkInv
<1>2. /\ sequence' = (sequence + 1) % SeqSpace
      /\ held' = IF rest' = 0 THEN NoSession ELSE held
      /\ UNCHANGED <<user, session>>
      /\ recent' = Forget(used, {session, held'} \ {NoSession})
  BY DEF SendPart
<1>3. sequence' = IF sequence + 1 = SeqSpace THEN 0 ELSE sequence + 1
  BY <1>1, <1>2
<1>4. /\ used \in Nonces
      /\ \A k \in Ages : used[k] = IF k = 1 THEN <<held, sequence>> ELSE recent[k - 1]
  <2>1. ASSUME NEW k \in Ages, k # 1 PROVE k - 1 \in Ages
    BY <1>1, <2>1 DEF Ages
  <2>2. <<held, sequence>> \in (SessionIds \cup {NoSession}) \X (0..(SeqSpace - 1))
    BY <1>1
  <2>3. QED
    BY <1>1, <2>1, <2>2 DEF Used, BuildNonce
<1>5. recent' \in Nonces /\ \A k \in Ages : recent'[k] \in {used[k], Unused}
  BY <1>2, <1>4, ForgetFacts
<1>6. ASSUME NEW k \in Ages, recent'[k] # Unused PROVE recent'[k][2] = Number(k)'
  <2>1. recent'[k] = used[k]
    BY <1>5, <1>6
  <2>2. CASE k = 1
    BY <1>1, <1>3, <1>4, <2>1, <2>2 DEF Number
  <2>3. CASE k # 1
    <3>1. k - 1 \in Ages /\ k \in Int /\ k < SeqSpace
      BY <1>1, <2>3 DEF Ages
    <3>2. recent[k - 1][2] = Number(k - 1)
      BY <1>4, <1>6, <2>1, <2>3, <3>1 DEF NonceInv, NumberInv
    <3>3. Number(k - 1) = Number(k)'
      BY <1>1, <1>3, <3>1 DEF Number, Ages
    <3>4. QED
      BY <1>4, <2>1, <2>3, <3>2, <3>3
  <2>4. QED
    BY <2>2, <2>3
<1>7. LinkInv'
  <2>1. sequence' \in 0..(SeqSpace - 1)
    BY <1>1, <1>3
  <2>2. rest > 0 /\ held # NoSession
    BY DEF SendPart, NonceInv, LinkInv
  <2>3. rest' > 0 => held' # NoSession
    BY <1>2, <2>2
  <2>4. streamingEnabled' \in BOOLEAN /\ {session', held', phone'} \subseteq SessionIds \cup {NoSession}
    BY <1>2 DEF NonceInv, LinkInv, user
  <2>5. QED
    BY <1>5, <2>1, <2>3, <2>4 DEF LinkInv
<1>8. QED
  BY <1>6, <1>7 DEF NonceInv, NumberInv

LEMMA NonceStep ==
  ASSUME NonceInv, [Next]_vars
  PROVE  NonceInv'
<1>1. CASE SetLatencyMode \/ SetStreamingEnabled \/ UNCHANGED vars
  BY <1>1 DEF SetLatencyMode, SetStreamingEnabled, vars, user, chunk, receiver,
              NonceInv, LinkInv, NumberInv, Number
<1>2. CASE OpenSession
  <2>1. session' \in SessionIds
    BY <1>2, NewSession DEF OpenSession, NonceInv, LinkInv
  <2>2. phone' \in SessionIds \cup {NoSession}
    BY <1>2, <2>1 DEF OpenSession, Configure, receiver, NonceInv, LinkInv
  <2>3. /\ recent' \in [Ages -> (SessionIds \cup {NoSession}) \X (0..(SeqSpace - 1))]
        /\ NumberInv'
    BY <1>2, ForgetKept DEF OpenSession
  <2>4. QED
    BY <1>2, <2>1, <2>2, <2>3 DEF OpenSession, user, chunk, NonceInv, LinkInv
<1>3. CASE CloseSession
  <2>1. /\ recent' \in [Ages -> (SessionIds \cup {NoSession}) \X (0..(SeqSpace - 1))]
        /\ NumberInv'
    BY <1>3, ForgetKept DEF CloseSession
  <2>2. QED
    BY <1>3, <2>1 DEF CloseSession, user, chunk, receiver, NonceInv, LinkInv
<1>4. CASE PhoneConfigures
  BY <1>4 DEF PhoneConfigures, Configure, user, chunk, NonceInv, LinkInv, NumberInv, Number
<1>5. CASE Restart
  <2>1. 0 \in 0..(SeqSpace - 1)
    BY AudioAssumption
  <2>2. QED
    BY <1>5, <2>1, UnusedType DEF Restart, receiver, NonceInv, LinkInv, NumberInv
<1>6. CASE Capture
  BY <1>6 DEF Capture, BeginChunk, user, receiver, NonceInv, LinkInv, NumberInv, Number
<1>7. CASE SendDelivered \/ SendLost \/ SendFails
  BY <1>7, SendNumbered DEF SendDelivered, SendLost, SendFails, SendOne, Receive, receiver
<1>8. QED
  BY <1>1, <1>2, <1>3, <1>4, <1>5, <1>6, <1>7 DEF Next

LEMMA NonceInit == Init => NonceInv
<1>1. 0 \in 0..(SeqSpace - 1)
  BY AudioAssumption
<1>2. QED
  BY <1>1, UnusedType DEF Init, NonceInv, LinkInv, NumberInv

\* Of 2^32 packets no two are sealed under the same nonce, whatever comes between them:
\* within a process the numbers go on, across sessions, too, and between processes the
\* session is another.
THEOREM NoncesFresh == Spec => NonceFresh
<1>1. NonceInv => (SendPart => \A k \in Ages : recent[k] # BuildNonce(held, sequence))
  <2> SUFFICES ASSUME NonceInv, SendPart, NEW k \in Ages, recent[k] = BuildNonce(held, sequence)
               PROVE  FALSE
    OBVIOUS
  <2>1. held # NoSession
    BY DEF SendPart, NonceInv, LinkInv
  <2>2. recent[k] # Unused /\ recent[k][2] = sequence
    BY <2>1 DEF Unused, BuildNonce
  <2>3. sequence = Number(k)
    BY <2>2 DEF NonceInv, NumberInv
  <2>4. sequence \in 0..(SeqSpace - 1) /\ k \in 1..(SeqSpace - 1) /\ SeqSpace \in Nat \ {0}
    BY AudioAssumption DEF NonceInv, LinkInv, Ages
  <2>5. QED
    BY <2>3, <2>4 DEF Number
<1>2. NonceInv /\ [Next]_vars => NonceInv'
  BY NonceStep
<1>3. QED
  BY <1>1, <1>2, NonceInit, PTL DEF Spec, NonceFresh

-----------------------------------------------------------------------------
(* What the phone learns *)

\* Sizes the phone may take for the packet size, or for a candidate.
Sizes == {PacketSize(format, ms) : ms \in Modes}

\* What is sent, what is learned and what is about to be are packet sizes of some mode.
LearnInv ==
  /\ chunkSizeBytes \in Nat \ {0}
  /\ pendingChunkSizeBytes \in Nat
  /\ Divides(format) =>
       /\ rest > 0 => perPacket \in Sizes
       /\ chunkSizeBytes \in {SeedSize} \cup Sizes
       /\ pendingChunkSizeBytes \in {0} \cup Sizes

PathInv == CutInv /\ NonceInv /\ LearnInv

\* A packet the phone's session opens has the size of the slice it was sealed from.
LEMMA ReceivedSize ==
  ASSUME Receive(Packet)
  PROVE  ObserveChunkSize(Slice)
<1>1. Opened(Packet) # AeadFailure /\ ObserveChunkSize(Opened(Packet).payload)
  BY DEF Receive
<1>2. Opened(Packet) # AeadFailure => Opened(Packet) = [payload |-> Packet.payload.payload]
  BY DEF Opened, DecryptPayload
<1>3. Packet.payload.payload = Slice
  BY DEF Packet, Encode, EncryptPayload
<1>4. QED
  BY <1>1, <1>2, <1>3

LEMMA LearnStep ==
  ASSUME PathInv, [Next]_vars
  PROVE  LearnInv'
<1>u. ASSUME UNCHANGED <<format, rest, perPacket, chunkSizeBytes, pendingChunkSizeBytes>>
      PROVE  LearnInv'
  BY <1>u DEF PathInv, LearnInv, Sizes
<1>c. ASSUME UNCHANGED <<format, rest, perPacket>>, chunkSizeBytes' = SeedSize,
             pendingChunkSizeBytes' = 0
      PROVE  LearnInv'
  BY <1>c, AudioAssumption DEF PathInv, LearnInv, Sizes
<1>r. ASSUME UNCHANGED <<format, chunkSizeBytes, pendingChunkSizeBytes>>,
             rest' > 0 => rest > 0 /\ perPacket' = perPacket
      PROVE  LearnInv'
  BY <1>r DEF PathInv, LearnInv, Sizes
<1>1. CASE SetLatencyMode \/ SetStreamingEnabled \/ UNCHANGED vars
  BY <1>1, <1>u DEF SetLatencyMode, SetStreamingEnabled, vars, user, chunk, receiver
<1>2. CASE OpenSession
  BY <1>2, <1>u, <1>c DEF OpenSession, Configure, user, chunk, receiver
<1>3. CASE CloseSession
  BY <1>3, <1>u DEF CloseSession, user, chunk, receiver
<1>4. CASE PhoneConfigures
  BY <1>4, <1>c DEF PhoneConfigures, Configure, user, chunk
<1>5. CASE Restart
  BY <1>5, <1>r DEF Restart, receiver
<1>6. CASE Capture
  <2>1. perPacket' = PacketSize(format, mode) /\ mode \in Modes
    BY <1>6, BeginCut DEF Capture, PathInv, CutInv, SizeInv
  <2>2. QED
    BY <1>6, <2>1 DEF Capture, BeginChunk, user, receiver, PathInv, LearnInv, Sizes
<1>7. CASE SendLost
  <2>1. Slice \in Nat \ {0} /\ Slice <= rest /\ rest \in Nat \ {0}
    BY <1>7, SliceFacts DEF SendLost, SendOne, SendPart, PathInv, CutInv, SizeInv
  <2>2. QED
    BY <1>7, <2>1, <1>r DEF SendLost, SendOne, SendPart, user, receiver
<1>8. CASE SendFails
  BY <1>8, <1>r DEF SendFails, SendPart, user, receiver
<1>9. CASE SendDelivered
  <2>1. ObserveChunkSize(Slice)
    BY <1>9, ReceivedSize DEF SendDelivered
  <2>2. /\ format' = format /\ rest > 0 /\ rest' = rest - Slice
        /\ perPacket' = IF rest' = 0 THEN 0 ELSE perPacket
    BY <1>9 DEF SendDelivered, SendOne, SendPart, user
  <2>3. Slice \in Nat \ {0} /\ (Divides(format) => Slice = perPacket) /\ rest \in Nat
    BY <2>2, SliceFacts DEF PathInv, CutInv, SizeInv
  <2>4. /\ chunkSizeBytes' \in {chunkSizeBytes, Slice}
        /\ pendingChunkSizeBytes' \in {0, Slice}
    BY <2>1 DEF ObserveChunkSize
  <2>5. chunkSizeBytes' \in Nat \ {0} /\ pendingChunkSizeBytes' \in Nat
    BY <2>3, <2>4 DEF PathInv, LearnInv
  <2>6. ASSUME Divides(format)
        PROVE  /\ Slice \in Sizes
               /\ rest' > 0 => perPacket' \in Sizes
    BY <2>2, <2>3, <2>6 DEF PathInv, LearnInv
  <2>7. Sizes' = Sizes /\ (Divides(format)' <=> Divides(format))
    BY <2>2 DEF Sizes
  <2>8. QED
    BY <2>4, <2>5, <2>6, <2>7 DEF PathInv, LearnInv
<1>10. QED
  BY <1>1, <1>2, <1>3, <1>4, <1>5, <1>6, <1>7, <1>8, <1>9 DEF Next

LEMMA PathKept == Spec => []PathInv
<1>1. Init => PathInv
  <2> SUFFICES ASSUME Init PROVE LearnInv
    BY CutInit, NonceInit DEF PathInv
  <2>1. QED
    BY AudioAssumption DEF Init, LearnInv
<1>2. PathInv /\ [Next]_vars => PathInv'
  BY CutStep, NonceStep, LearnStep DEF PathInv
<1>3. QED
  BY <1>1, <1>2, PTL DEF Spec

\* Every variable keeps to its type: no packet is empty, the counter stays within its 32
\* bits, and the phone never learns a size of 0.
THEOREM TypeCorrect == Spec => []TypeOK
<1>1. PathInv => TypeOK
  BY DEF PathInv, CutInv, SizeInv, NonceInv, LinkInv, LearnInv, TypeOK
<1>2. QED
  BY <1>1, PathKept, PTL

\* Where the chunks of the format divide, the phone learns nothing but packet sizes, over
\* every loss and every change of mode or session in the middle of a chunk.
THEOREM RealSizesLearned == Spec => []LearnsRealSizes
<1>1. PathInv => LearnsRealSizes
  BY DEF PathInv, LearnInv, Sizes, LearnsRealSizes
<1>2. QED
  BY <1>1, PathKept, PTL

\* The two ends together: packets fit, carry whole frames and are equal, and the phone takes
\* nothing but their size for one.
THEOREM SizesKept == FramesFit /\ WholeChunks => (Spec => []SizesHold)
<1> SUFFICES ASSUME FramesFit, WholeChunks PROVE Spec => []SizesHold
  OBVIOUS
<1>1. Spec => []WellCut
  BY CutWell
<1>2. WellCut /\ LearnsRealSizes => SizesHold
  BY DEF SizesHold
<1>3. QED
  BY <1>1, <1>2, RealSizesLearned, PTL
=============================================================================
