------------------------------- MODULE Crypto -------------------------------
(***************************************************************************)
(* The cryptography both ends share (protocol/crypto.rs), as terms: a key, *)
(* a proof or a ciphertext names what it was made from, and two are equal  *)
(* only if they were made from the same.  That HMAC-SHA256, HKDF-SHA256    *)
(* and ChaCha20-Poly1305 behave like this is assumed; what the protocol    *)
(* does with them is what the modules that extend this one check.          *)
(*                                                                         *)
(* The concatenations of the code (salt, message, nonce) are tuples: their *)
(* parts have fixed lengths, so no two of them run together.               *)
(***************************************************************************)

\* HMAC of the parts of a message under a key.
HmacSha256(key, parts) == [mac |-> parts, under |-> key]

\* HKDF of a code, salted with both device ids.
DeriveSessionKey(code, phone, laptop) == [code |-> code, phone |-> phone, laptop |-> laptop]

ProofMatches(expected, proof) == proof = expected

\* PAIR_REQUEST: the phone's user typed the code.  The challenge is the nonce of the
\* connection's HELLO_ACK.
ComputePairProof(code, phone, challenge) == HmacSha256(code, <<phone, challenge>>)
VerifyPairProof(code, phone, challenge, proof) ==
  ProofMatches(HmacSha256(code, <<phone, challenge>>), proof)

\* REPAIR: the phone still has the key.
ComputeRepairProof(key, phone, challenge) == HmacSha256(key, <<phone, challenge>>)
VerifyRepairProof(key, phone, challenge, proof) ==
  ProofMatches(HmacSha256(key, <<phone, challenge>>), proof)

-----------------------------------------------------------------------------
(* Sealing of audio packets *)

AeadFailure == [failure |-> "AeadFailure"]

BuildNonce(sessionId, sequence) == <<sessionId, sequence>>

EncryptPayload(key, sessionId, sequence, header, payload) ==
  [key |-> key, nonce |-> BuildNonce(sessionId, sequence), aad |-> header, payload |-> payload]

\* Opens only under the same key, nonce and header.
DecryptPayload(key, sessionId, sequence, header, sealed) ==
  IF sealed.key = key /\ sealed.nonce = BuildNonce(sessionId, sequence) /\ sealed.aad = header
  THEN [payload |-> sealed.payload]
  ELSE AeadFailure
=============================================================================
