----------------------------- MODULE Packetiser -----------------------------
(***************************************************************************)
(* How the laptop cuts a captured chunk into packets (protocol/packet.rs). *)
(* The numbers are the program's own.                                      *)
(***************************************************************************)
EXTENDS Integers

MaxDatagramBytes == 1200
HeaderLen        == 13
AeadTagLen       == 16

CeilDiv(a, b) == (a + b - 1) \div b
Larger(a, b)  == IF a > b THEN a ELSE b
Lesser(a, b)  == IF a < b THEN a ELSE b

\* The wire carries 16-bit samples, whatever the device's own sample size is.
BytesPerFrame(f) == Larger(f.channels, 1) * 2

MaxPayloadBytes(frame) ==
  LET budget == MaxDatagramBytes - (HeaderLen + AeadTagLen)
  IN  Larger(budget \div frame, 1) * frame

\* Mutant: fill each packet, then a short remainder.
FillPackets(len, maxPayload, frame) == maxPayload

EvenSplitBytes(len, maxPayload, frame) ==
  LET packets == Larger(CeilDiv(len, maxPayload), 1)
      ideal   == CeilDiv(len, packets)
  IN  CeilDiv(ideal, frame) * frame

\* The packet size of a chunk of len bytes.
PerPacket(len, frame) == EvenSplitBytes(len, MaxPayloadBytes(frame), frame)
=============================================================================
