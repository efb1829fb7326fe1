----------------------------- MODULE AudioPath -----------------------------
(***************************************************************************)
(* The way of the audio: a captured chunk is cut into packets, each sealed *)
(* under the session's key and sent (AudioSender::send_frame); the phone   *)
(* opens what belongs to its own session (AudioReceiver.receiveLoop) and   *)
(* learns the packet size from it (JitterBuffer.observeChunkSize).         *)
(*                                                                         *)
(* Nothing about the size is negotiated: the phone derives its buffer      *)
(* depth and the length of concealment silence from what it has learned.   *)
(* The counter of packets lives as long as the sender's task; sessions,    *)
(* which share the phone's key, begin and end meanwhile, and send_frame    *)
(* goes on with the session it cloned until its chunk is sent.             *)
(***************************************************************************)
EXTENDS Packetiser, Crypto, FiniteSets

CONSTANTS
  Formats,     \* capture formats: [rate, channels, sampleBytes] of the mix format
  Modes,       \* chunk_ms() of the latency modes the user may choose
  SeedSize,    \* the phone's first guess: 10 ms of the announced format
  SeqSpace,    \* 2^32 in the program: the packet counter wraps here
  SessionIds,  \* ids a session may get
  NoSession,
  SessionKey   \* of the paired phone, the same in every session

ASSUME AudioAssumption ==
  /\ \A f \in Formats : {f.rate, f.channels, f.sampleBytes} \subseteq Nat \ {0}
  /\ Modes \subseteq Nat \ {0}
  /\ SeedSize \in Nat \ {0}
  /\ SeqSpace \in Nat \ {0}
  /\ NoSession \notin SessionIds
  /\ \A a, b, c \in SessionIds \cup {NoSession} : SessionIds \ {a, b, c} # {}

VARIABLES
  format,                \* of the captured device
  mode,                  \* the latency mode
  streamingEnabled,      \* the Start/Stop toggle
  session,               \* id of AppState.session, or NoSession
  \* send_frame
  held,                  \* the session cloned for the current chunk
  sequence,              \* AudioSender.sequence
  rest,                  \* bytes of the current chunk not yet sent
  perPacket,             \* even_split_bytes of the current chunk
  sizes,                 \* payload sizes sent for the current chunk
  recent,                \* nonces of the last packets, the newest first
  \* the phone
  phone,                 \* id its receiver is configured with, or NoSession
  chunkSizeBytes,        \* learned size
  pendingChunkSizeBytes  \* candidate size, or 0

user     == <<format, mode, streamingEnabled>>
chunk    == <<rest, perPacket, sizes>>
receiver == <<phone, chunkSizeBytes, pendingChunkSizeBytes>>
vars     == <<user, session, held, sequence, chunk, recent, receiver>>

\* bytes_per_chunk in the capture loop: the device's block align, its rate, chunk_ms.
BytesPerChunk(f, ms) == (f.sampleBytes * f.channels * f.rate * ms) \div 1000

\* The last packets but for as many as there are sequence numbers: the packet before
\* them had the number that is due again.
Ages   == 1..(SeqSpace - 1)
Unused == BuildNonce(NoSession, 0)

-----------------------------------------------------------------------------
Init ==
  /\ format \in Formats
  /\ mode \in Modes
  /\ streamingEnabled = TRUE
  /\ session = NoSession
  /\ held = NoSession
  /\ sequence = 0
  /\ rest = 0
  /\ perPacket = 0
  /\ sizes = {}
  /\ recent = [k \in Ages |-> Unused]
  /\ phone = NoSession
  /\ chunkSizeBytes = SeedSize
  /\ pendingChunkSizeBytes = 0

\* The user may change the latency mode at any time; capture reads it per chunk.
SetLatencyMode ==
  /\ mode' \in Modes \ {mode}
  /\ UNCHANGED <<format, streamingEnabled, session, held, sequence, chunk, recent, receiver>>

SetStreamingEnabled ==
  /\ streamingEnabled' = ~streamingEnabled
  /\ UNCHANGED <<format, mode, session, held, sequence, chunk, recent, receiver>>

-----------------------------------------------------------------------------
(* Sessions *)

\* A random id is none that was used before; of those, which one does not matter.
GenerateSessionId == CHOOSE id \in SessionIds : id \notin {session, held, phone}

\* Nonces of a session that neither is active nor has packets left to send are
\* forgotten: its id never comes back.
Forget(nonces, ids) == [k \in Ages |-> IF nonces[k][1] \in ids THEN nonces[k] ELSE Unused]

\* The phone's receiver is a new one for every session.
Configure(id) ==
  /\ phone' = id
  /\ chunkSizeBytes' = SeedSize
  /\ pendingChunkSizeBytes' = 0

\* The phone has configured its receiver already, or will (PhoneConfigures).
OpenSession ==
  /\ session' = GenerateSessionId
  /\ recent' = Forget(recent, {session', held})
  /\ Configure(session') \/ UNCHANGED receiver
  /\ UNCHANGED <<user, held, sequence, chunk>>

CloseSession ==
  /\ session # NoSession
  /\ session' = NoSession
  /\ recent' = Forget(recent, {held})
  /\ UNCHANGED <<user, held, sequence, chunk, receiver>>

PhoneConfigures ==
  /\ session # NoSession /\ phone # session
  /\ Configure(session)
  /\ UNCHANGED <<user, session, held, sequence, chunk, recent>>

\* The laptop's process ends, and another starts.
Restart ==
  /\ session' = NoSession /\ held' = NoSession
  /\ streamingEnabled' = TRUE
  /\ sequence' = 0
  /\ rest' = 0 /\ perPacket' = 0 /\ sizes' = {}
  /\ recent' = [k \in Ages |-> Unused]
  /\ UNCHANGED <<format, mode, receiver>>

-----------------------------------------------------------------------------
(* send_frame *)

BeginChunk(id) ==
  /\ held' = id
  /\ rest' = BytesPerChunk(format, mode)
  /\ perPacket' = PerPacket(rest', BytesPerFrame(format))
  /\ sizes' = {}
  /\ UNCHANGED <<user, session, recent, receiver>>

\* Mutant: a chunk's packets are numbered from 0.
NumberFromZero ==
  /\ rest = 0 /\ streamingEnabled /\ session # NoSession
  /\ BeginChunk(session)
  /\ sequence' = 0

\* A chunk that finds no session, or transmission stopped, is not sent.
Capture ==
  /\ rest = 0 /\ streamingEnabled /\ session # NoSession
  /\ BeginChunk(session)
  /\ UNCHANGED sequence

\* Mutant: the last packet is as long as the others, whatever is left.
FullSlice == perPacket

\* slice of pcm.chunks(per_packet)
Slice == Lesser(perPacket, rest)

\* The sampling rate the header names: 44.1 kHz, or else 48.
SampleRate(f) == IF f.rate = 44100 THEN "Hz44100" ELSE "Hz48000"

\* The part of a packet that stays readable.  Its timestamp is left out.
HeaderBytes(n) ==
  [codec |-> "RawPcm", sequence |-> n, sampleRate |-> SampleRate(format),
   channels |-> format.channels]

Encode(header, sealed) == [header |-> header, payload |-> sealed]

Packet ==
  Encode(HeaderBytes(sequence),
         EncryptPayload(SessionKey, held, sequence, HeaderBytes(sequence), Slice))

Used(nonce) == [k \in Ages |-> IF k = 1 THEN nonce ELSE recent[k - 1]]

\* send_one: the counter moves on before the packet is sealed and sent.  With its
\* chunk send_frame ends, and its clone of the session.
SendPart ==
  /\ rest > 0
  /\ sequence' = (sequence + 1) % SeqSpace
  /\ held' = IF rest' = 0 THEN NoSession ELSE held
  /\ perPacket' = IF rest' = 0 THEN 0 ELSE perPacket
  /\ recent' = Forget(Used(BuildNonce(held, sequence)), {session, held'} \ {NoSession})
  /\ UNCHANGED <<user, session>>

SendOne ==
  /\ rest' = rest - Slice
  /\ SendPart
  /\ sizes' = sizes \cup {Slice}

-----------------------------------------------------------------------------
(* receiveLoop *)

\* Mutant: a size once adopted is never corrected.
ObserveFirstOnly(bytes) ==
  /\ chunkSizeBytes' = IF chunkSizeBytes = SeedSize THEN bytes ELSE chunkSizeBytes
  /\ UNCHANGED pendingChunkSizeBytes

\* A new size is adopted once it repeats.
ObserveChunkSize(bytes) ==
  /\ chunkSizeBytes' = IF bytes = pendingChunkSizeBytes THEN bytes ELSE chunkSizeBytes
  /\ pendingChunkSizeBytes' =
       IF bytes \in {chunkSizeBytes, pendingChunkSizeBytes} THEN 0 ELSE bytes

\* What the phone's session makes of a datagram.
Opened(datagram) ==
  IF phone = NoSession THEN AeadFailure
  ELSE DecryptPayload(SessionKey, phone, datagram.header.sequence, datagram.header,
                      datagram.payload)

Receive(datagram) ==
  /\ Opened(datagram) # AeadFailure
  /\ ObserveChunkSize(Opened(datagram).payload)
  /\ UNCHANGED phone

SendDelivered == SendOne /\ Receive(Packet)

\* Lost on the way, or it does not authenticate, or the phone has closed its receiver:
\* it makes no difference.
SendLost == SendOne /\ UNCHANGED receiver

\* A socket error makes send_frame return: the rest of the chunk is never sent.
SendFails ==
  /\ rest' = 0
  /\ SendPart
  /\ UNCHANGED <<sizes, receiver>>

-----------------------------------------------------------------------------
Next ==
  \/ SetLatencyMode \/ SetStreamingEnabled
  \/ OpenSession \/ CloseSession \/ PhoneConfigures \/ Restart
  \/ Capture \/ SendDelivered \/ SendLost \/ SendFails

Spec == Init /\ [][Next]_vars

\* Capture goes on, and the link delivers again and again.
FairSpec ==
  Spec /\ WF_vars(Capture) /\ WF_vars(SendDelivered \/ SendLost \/ SendFails)
       /\ SF_vars(SendDelivered)

-----------------------------------------------------------------------------
(* Properties *)

\* Every variable holds a value of its type.
TypeOK ==
  /\ format \in Formats
  /\ mode \in Modes
  /\ streamingEnabled \in BOOLEAN
  /\ {session, held, phone} \subseteq SessionIds \cup {NoSession}
  /\ sequence \in 0..(SeqSpace - 1)
  /\ rest \in Nat
  /\ perPacket \in Nat
  /\ sizes \subseteq Nat \ {0}
  /\ recent \in [Ages -> (SessionIds \cup {NoSession}) \X (0..(SeqSpace - 1))]
  /\ chunkSizeBytes \in Nat \ {0}
  /\ pendingChunkSizeBytes \in Nat

\* No datagram exceeds the MTU budget, header and tag included.
FitsMtu == \A n \in sizes : n + HeaderLen + AeadTagLen <= MaxDatagramBytes

\* "a packet never carries a partial sample": whole frames only.
WholeFrames == \A n \in sizes : n % BytesPerFrame(format) = 0

\* The packet size of a mode, when a chunk splits evenly.
PacketSize(f, ms) == PerPacket(BytesPerChunk(f, ms), BytesPerFrame(f))

\* The chunks of a format have a whole number of frames for each of the packets they
\* need, in every mode: so it is at 48 kHz, but not at 44.1 kHz.
Divides(f) ==
  \A ms \in Modes :
    LET len     == BytesPerChunk(f, ms)
        packets == CeilDiv(len, MaxPayloadBytes(BytesPerFrame(f)))
    IN  len % (packets * BytesPerFrame(f)) = 0

\* "every packet is the same size": the packets of a chunk do not differ, wherever
\* the chunk can be divided so at all.
EqualPackets == Divides(format) => Cardinality(sizes) <= 1

\* A chunk is cut so that every packet fits the budget, carries whole frames and is as
\* long as the others.
WellCut == FitsMtu /\ WholeFrames /\ EqualPackets

\* No two packets are sealed under the same key and nonce, across sessions that come
\* and go while a chunk is sent, calls that fail, restarts and the counter's wrap: none
\* of the last 2^32 packets had the nonce of the next one.
NonceFresh ==
  [][SendPart => \A k \in Ages : recent[k] # BuildNonce(held, sequence)]_vars

\* Whatever is lost on the way, and however chunks of two modes and of two sessions follow
\* each other, the phone takes nothing for the packet size that is none: what it has learned
\* is its first guess or what a mode really sends.
LearnsRealSizes ==
  Divides(format) => chunkSizeBytes \in {SeedSize} \cup {PacketSize(format, ms) : ms \in Modes}

\* What the sender cuts and what the phone makes of it.
SizesHold == WellCut /\ LearnsRealSizes

\* The phone is in the laptop's session and is sent its audio.
Streams == streamingEnabled /\ session # NoSession /\ phone = session

SettlesOn(ms) == mode = ms /\ Divides(format) /\ Streams
Learned(ms)   == chunkSizeBytes = PacketSize(format, ms)

\* Whatever is lost on the way, and however often the user changes the mode and the
\* phone comes back meanwhile, once a session stays the phone learns the packet size of
\* the mode and keeps it: packets of an older session do not mislead it.
LearnsPacketSize ==
  <>[][session' = session]_vars
    => \A ms \in Modes : <>[]SettlesOn(ms) => <>[]Learned(ms)
=============================================================================
