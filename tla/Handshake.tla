----------------------------- MODULE Handshake -----------------------------
(***************************************************************************)
(* The handshake of one phone with the laptop, both ends                   *)
(* (network/control_channel.rs, state.rs; on the phone ControlChannel.kt,  *)
(* RelayService.connectTo and PairedDeviceStore.kt), over the laptop's     *)
(* configuration and its file.                                             *)
(*                                                                         *)
(* Each end remembers the other by itself: either may forget, fail to save *)
(* or lose its memory without the other noticing, and the handshake is     *)
(* what brings them together again, by a stored key or by a new code.      *)
(*                                                                         *)
(* A connection delivers in order what was sent on it, up to its end.      *)
(* Connections follow one another here; LaptopSession has those that       *)
(* overlap.  A challenge is made for one connection and nothing sent on    *)
(* one is ever read on another, so one constant stands for all of them.    *)
(***************************************************************************)
EXTENDS ConfigStore, Sequences

CONSTANTS
  Phone,           \* the device id of the phone
  MaxPairAttempts, \* MAX_PAIR_ATTEMPTS, on the laptop
  MaxCodeAttempts, \* MAX_PAIRING_CODE_ATTEMPTS, on the phone
  NoCode           \* no valid code

\* "Stay under it so the last try still gets a real answer": a refused REPAIR costs
\* one attempt as well.
ASSUME HandshakeAssumption ==
  /\ Phone \in Phones
  /\ MaxCodeAttempts \in Nat \ {0}
  /\ MaxPairAttempts \in Nat /\ MaxCodeAttempts < MaxPairAttempts
  /\ NoCode \notin Codes

-----------------------------------------------------------------------------
(* protocol/control.rs *)

Challenge == "nonce"

Message(type, fields) == [type |-> type, body |-> fields]

Hello           == Message("HELLO", Phone)
HelloAck(i, b)  == Message("HELLO_ACK", [device_id |-> i, paired |-> b])
PairRequest(pf) == Message("PAIR_REQUEST", pf)
Repair(pf)      == Message("REPAIR", pf)
PairOk(k)       == Message("PAIR_OK", k)
PairFail        == Message("PAIR_FAIL", "reason")
Capabilities    == Message("CAPABILITIES", "48000 Hz, stereo")

\* A PAIR_OK carries the id of the session and not its key: the key is noted in it for
\* the properties, and nobody reads it.

\* What the laptop, and what the phone may have to read.
PhoneProofs ==
  {ComputePairProof(c, Phone, Challenge) : c \in Codes}
    \cup {ComputeRepairProof(k, Phone, Challenge) : k \in Keys}
PhoneMessages ==
  {Hello, Capabilities} \cup {PairRequest(pf) : pf \in PhoneProofs}
                        \cup {Repair(pf) : pf \in PhoneProofs}
LaptopMessages ==
  {PairFail, Capabilities} \cup {HelloAck(i, b) : i \in Ids, b \in BOOLEAN}
                           \cup {PairOk(k) : k \in Keys}

-----------------------------------------------------------------------------
VARIABLES
  \* the laptop
  code,     \* the pairing code while is_current_valid(), else NoCode
  lpc,      \* where handle_connection is
  rounds,   \* rounds of complete_pairing used up
  lkey,     \* session_key
  clearing, \* is the window between forgetting the phone and clearing its session?
  \* the phone
  ppc,      \* where connectTo is
  keys,     \* PairedDeviceStore: the key saved for each laptop
  ack,      \* device_id of the HELLO_ACK, 0 before it
  tries,    \* codes refused on this connection
  pkey,     \* the key offered by a REPAIR, or derived from the code last typed
  \* the connection
  toLaptop, toPhone

laptopVars == <<code, lpc, rounds, lkey, clearing>>
phoneVars  == <<ppc, keys, ack, tries, pkey>>
vars == <<configVars, laptopVars, phoneVars, toLaptop, toPhone>>

LaptopSteps == {"none", "hello", "pairing", "gaveUp", "remembered", "saving", "verified",
                "granted", "streaming", "revoked"}
PhoneSteps  == {"idle", "hello", "repairing", "prompt", "coding", "accepted", "agreed",
                "streaming"}

Init ==
  /\ ConfigInit
  /\ code = NoCode
  /\ lpc = "none"
  /\ rounds = 0
  /\ lkey = NoKey
  /\ clearing = FALSE
  /\ ppc = "idle"
  /\ keys = [i \in Ids |-> NoKey]
  /\ ack = 0
  /\ tries = 0
  /\ pkey = NoKey
  /\ toLaptop = <<>>
  /\ toPhone = <<>>

LaptopGone == lpc \in {"none", "gaveUp"}
PhoneGone  == ppc = "idle"

LaptopReads(type) == toLaptop # <<>> /\ Head(toLaptop).type = type /\ toLaptop' = Tail(toLaptop)
PhoneReads(type)  == toPhone # <<>> /\ Head(toPhone).type = type /\ toPhone' = Tail(toPhone)

-----------------------------------------------------------------------------
(* The laptop: handle_connection and complete_pairing *)

\* HELLO: HELLO_ACK says who the laptop is and whether it remembers the phone.
AnswerHello ==
  /\ lpc = "hello"
  /\ LockFree
  /\ LaptopReads("HELLO")
  /\ toPhone' = Append(toPhone, HelloAck(config.id, config.keys[Phone] # NoKey))
  /\ lpc' = "pairing"
  /\ rounds' = 0
  /\ UNCHANGED <<configVars, code, lkey, clearing, phoneVars>>

\* verify_pairing_proof: against the code displayed now, if it is still valid.
CodeProved ==
  code # NoCode /\ VerifyPairProof(code, Phone, Challenge, Head(toLaptop).body)

\* Mutant: an entry that is there already stays as it is.
KeepEntry ==
  /\ lpc = "pairing"
  /\ LaptopReads("PAIR_REQUEST")
  /\ CodeProved
  /\ lkey' = DeriveSessionKey(code, Phone, config.id)
  /\ RememberDevice(Phone, IF config.keys[Phone] = NoKey THEN lkey' ELSE config.keys[Phone])
  /\ lpc' = "remembered"
  /\ UNCHANGED <<code, rounds, clearing, phoneVars, toPhone>>

\* PAIR_REQUEST with a proof of the code: the key is derived and remembered.
AcceptCode ==
  /\ lpc = "pairing"
  /\ LaptopReads("PAIR_REQUEST")
  /\ CodeProved
  /\ lkey' = DeriveSessionKey(code, Phone, config.id)
  /\ RememberDevice(Phone, lkey')
  /\ lpc' = "remembered"
  /\ UNCHANGED <<code, rounds, clearing, phoneVars, toPhone>>

\* The lock is taken again for the save; whether that succeeds is not looked at.
SavePairing ==
  /\ lpc = "remembered"
  /\ SaveRemembered
  /\ lpc' = "saving"
  /\ UNCHANGED <<code, rounds, lkey, clearing, phoneVars, toLaptop, toPhone>>

PairingSaved ==
  /\ lpc = "saving"
  /\ SaveEnds
  /\ lpc' = "verified"
  /\ UNCHANGED <<code, rounds, lkey, clearing, phoneVars, toLaptop, toPhone>>

\* Mutant: a stored key counts only while a code is displayed, too.
KeyProvedWithCode ==
  /\ code # NoCode
  /\ config.keys[Phone] # NoKey
  /\ VerifyRepairProof(config.keys[Phone], Phone, Challenge, Head(toLaptop).body)

KeyProved ==
  /\ config.keys[Phone] # NoKey
  /\ VerifyRepairProof(config.keys[Phone], Phone, Challenge, Head(toLaptop).body)

\* REPAIR with a proof of the stored key.
AcceptRepair ==
  /\ lpc = "pairing"
  /\ LockFree
  /\ LaptopReads("REPAIR")
  /\ KeyProved
  /\ lkey' = config.keys[Phone]
  /\ lpc' = "verified"
  /\ UNCHANGED <<configVars, code, rounds, clearing, phoneVars, toPhone>>

\* A proof that fails: PAIR_FAIL, and a round is used up; after the last, the
\* connection is closed (PairingGaveUp).
Refuse ==
  /\ lpc = "pairing"
  /\ \/ LaptopReads("PAIR_REQUEST") /\ ~CodeProved
     \/ LaptopReads("REPAIR") /\ LockFree /\ ~KeyProved
  /\ toPhone' = Append(toPhone, PairFail)
  /\ rounds' = rounds + 1
  /\ lpc' = IF rounds' < MaxPairAttempts THEN "pairing" ELSE "gaveUp"
  /\ UNCHANGED <<configVars, code, lkey, clearing, phoneVars>>

\* Mutant: CAPABILITIES are left for the phone to begin with.
GrantOnly ==
  /\ lpc = "verified"
  /\ toPhone' = Append(toPhone, PairOk(lkey))
  /\ lpc' = "granted"
  /\ UNCHANGED <<configVars, code, rounds, lkey, clearing, phoneVars, toLaptop>>

\* PAIR_OK and CAPABILITIES; the key was read before and is not looked up again.
GrantSession ==
  /\ lpc = "verified"
  /\ toPhone' = toPhone \o <<PairOk(lkey), Capabilities>>
  /\ lpc' = "granted"
  /\ UNCHANGED <<configVars, code, rounds, lkey, clearing, phoneVars, toLaptop>>

\* The phone's CAPABILITIES, or the end of the stream: the session is opened.
OpenSession ==
  /\ lpc = "granted"
  /\ \/ LaptopReads("CAPABILITIES")
     \/ toLaptop = <<>> /\ PhoneGone /\ UNCHANGED toLaptop
  /\ lpc' = "streaming"
  /\ UNCHANGED <<configVars, code, rounds, lkey, clearing, phoneVars, toPhone>>

\* The handler returns, its locals gone.
CloseHandler ==
  /\ lpc' = "none"
  /\ rounds' = 0
  /\ lkey' = NoKey

\* End of stream in complete_pairing (ClosedEarly) or in heartbeat_loop; and the tick
\* that finds the session revoked.
LaptopEnds ==
  /\ \/ lpc \in {"hello", "pairing", "streaming"} /\ toLaptop = <<>> /\ PhoneGone
     \/ lpc = "revoked"
  /\ CloseHandler
  /\ UNCHANGED <<configVars, code, clearing, phoneVars, toLaptop, toPhone>>

Laptop ==
  \/ AnswerHello
  \/ AcceptCode \/ SavePairing \/ PairingSaved
  \/ AcceptRepair \/ Refuse
  \/ GrantSession \/ OpenSession \/ LaptopEnds

-----------------------------------------------------------------------------
(* The phone: connectTo *)

Connect ==
  /\ PhoneGone /\ LaptopGone /\ up
  /\ ppc' = "hello"
  /\ lpc' = "hello"
  /\ rounds' = 0
  /\ toLaptop' = <<Hello>>
  /\ toPhone' = <<>>
  /\ UNCHANGED <<configVars, code, lkey, clearing, keys, ack, tries, pkey>>

\* getSavedLaptop, if the laptop says that it remembers us.
SavedKey(body) == IF body.paired THEN keys[body.device_id] ELSE NoKey

OfferKey ==
  /\ ppc = "hello"
  /\ PhoneReads("HELLO_ACK")
  /\ LET body == Head(toPhone).body IN
     /\ SavedKey(body) # NoKey
     /\ ack' = body.device_id
     /\ pkey' = SavedKey(body)
     /\ toLaptop' = Append(toLaptop, Repair(ComputeRepairProof(SavedKey(body), Phone, Challenge)))
  /\ ppc' = "repairing"
  /\ UNCHANGED <<configVars, laptopVars, keys, tries>>

AskCode ==
  /\ ppc = "hello"
  /\ PhoneReads("HELLO_ACK")
  /\ SavedKey(Head(toPhone).body) = NoKey
  /\ ack' = Head(toPhone).body.device_id
  /\ ppc' = "prompt"
  /\ UNCHANGED <<configVars, laptopVars, keys, tries, pkey, toLaptop>>

\* What the finally of connectTo leaves of a connection.
HangUp ==
  /\ ppc' = "idle"
  /\ ack' = 0
  /\ tries' = 0
  /\ pkey' = NoKey

\* Mutant: a refused key is kept for the next attempt.
RetryKey ==
  /\ ppc = "repairing"
  /\ PhoneReads("PAIR_FAIL")
  /\ HangUp
  /\ UNCHANGED <<configVars, laptopVars, keys, toLaptop>>

\* The key is stale: forgotten, and a code is asked for on the same connection.
KeyRefused ==
  /\ ppc = "repairing"
  /\ PhoneReads("PAIR_FAIL")
  /\ keys' = [keys EXCEPT ![ack] = NoKey]
  /\ ppc' = "prompt"
  /\ UNCHANGED <<configVars, laptopVars, ack, tries, pkey, toLaptop>>

\* Mutant: the key is saved as soon as the code is typed.
SaveTyped(c) ==
  /\ ppc = "prompt"
  /\ pkey' = DeriveSessionKey(c, Phone, ack)
  /\ keys' = [keys EXCEPT ![ack] = pkey']
  /\ toLaptop' = Append(toLaptop, PairRequest(ComputePairProof(c, Phone, Challenge)))
  /\ ppc' = "coding"
  /\ UNCHANGED <<configVars, laptopVars, ack, tries, toPhone>>

\* The user types a code, the one displayed or another.
TypeCode(c) ==
  /\ ppc = "prompt"
  /\ pkey' = DeriveSessionKey(c, Phone, ack)
  /\ toLaptop' = Append(toLaptop, PairRequest(ComputePairProof(c, Phone, Challenge)))
  /\ ppc' = "coding"
  /\ UNCHANGED <<configVars, laptopVars, keys, ack, tries, toPhone>>

\* Mutant: one try more than the phone has.
CodeRefusedOneMore ==
  /\ ppc = "coding"
  /\ PhoneReads("PAIR_FAIL")
  /\ IF tries < MaxCodeAttempts
     THEN ppc' = "prompt" /\ tries' = tries + 1 /\ UNCHANGED <<ack, pkey>>
     ELSE HangUp
  /\ UNCHANGED <<configVars, laptopVars, keys, toLaptop>>

\* Asked again, or given up after the last try.
CodeRefused ==
  /\ ppc = "coding"
  /\ PhoneReads("PAIR_FAIL")
  /\ IF tries + 1 < MaxCodeAttempts
     THEN ppc' = "prompt" /\ tries' = tries + 1 /\ UNCHANGED <<ack, pkey>>
     ELSE HangUp
  /\ UNCHANGED <<configVars, laptopVars, keys, toLaptop>>

Accepted ==
  /\ ppc \in {"repairing", "coding"}
  /\ PhoneReads("PAIR_OK")
  /\ ppc' = "accepted"
  /\ UNCHANGED <<configVars, laptopVars, keys, ack, tries, pkey, toLaptop>>

\* finishPairing: CAPABILITIES are answered with the same.
AnswerCapabilities ==
  /\ ppc = "accepted"
  /\ PhoneReads("CAPABILITIES")
  /\ toLaptop' = Append(toLaptop, Capabilities)
  /\ ppc' = "agreed"
  /\ UNCHANGED <<configVars, laptopVars, keys, ack, tries, pkey>>

\* saveLaptop; then the session is configured and the phone shows STREAMING.
SaveKey ==
  /\ ppc = "agreed"
  /\ keys' = [keys EXCEPT ![ack] = pkey]
  /\ ppc' = "streaming"
  /\ UNCHANGED <<configVars, laptopVars, ack, tries, pkey, toLaptop, toPhone>>

\* The laptop has closed the connection, and everything it sent is read.
EndOfStream ==
  /\ ppc \in {"hello", "repairing", "coding", "accepted", "streaming"}
  /\ LaptopGone /\ toPhone = <<>>
  /\ HangUp
  /\ UNCHANGED <<configVars, laptopVars, keys, toLaptop, toPhone>>

PhoneSide ==
  \/ Connect \/ OfferKey \/ AskCode \/ KeyRefused \/ CodeRefused
  \/ Accepted \/ AnswerCapabilities \/ SaveKey \/ EndOfStream

\* The user of the phone forgets the laptop; ending the session is a step of its own.
PhoneForgets(i) ==
  /\ keys[i] # NoKey
  /\ keys' = [keys EXCEPT ![i] = NoKey]
  /\ UNCHANGED <<configVars, laptopVars, ppc, ack, tries, pkey, toLaptop, toPhone>>

-----------------------------------------------------------------------------
(* The laptop's window, the saves of main and of the window, and the file *)

\* The window's thread waits for its own saves.
WindowIdle == up /\ ~clearing /\ (writing = NoConfig \/ lpc = "saving")

ShowCode ==
  /\ WindowIdle
  /\ lpc # "streaming"
  /\ code = NoCode
  /\ code' \in Codes
  /\ UNCHANGED <<configVars, lpc, rounds, lkey, clearing, phoneVars, toLaptop, toPhone>>

CodeExpires ==
  /\ code # NoCode
  /\ code' = NoCode
  /\ UNCHANGED <<configVars, lpc, rounds, lkey, clearing, phoneVars, toLaptop, toPhone>>

ForgetPhone ==
  /\ WindowIdle
  /\ ForgetDevice(Phone)
  /\ clearing' = TRUE
  /\ UNCHANGED <<code, lpc, rounds, lkey, phoneVars, toLaptop, toPhone>>

\* clear_session_if, after the save: only a session that is open by now is ended.
ClearSession ==
  /\ clearing
  /\ writing = NoConfig \/ lpc = "saving"
  /\ clearing' = FALSE
  /\ lpc' = IF lpc = "streaming" THEN "revoked" ELSE lpc
  /\ UNCHANGED <<configVars, code, rounds, lkey, phoneVars, toLaptop, toPhone>>

Saving ==
  /\ Truncate \/ (lpc # "saving" /\ SaveEnds)
  /\ UNCHANGED <<laptopVars, phoneVars, toLaptop, toPhone>>

-----------------------------------------------------------------------------
(* What goes wrong *)

\* The phone's network, its service or its user ends the connection.
PhoneLeaves ==
  /\ ~PhoneGone
  /\ HangUp
  /\ toPhone' = <<>>
  /\ UNCHANGED <<configVars, laptopVars, keys, toLaptop>>

\* A read or a write of the handler fails, or three beats are missed; what was under
\* way to the phone may be lost with the connection.
LaptopDrops ==
  /\ lpc \in {"hello", "pairing", "verified", "granted", "streaming"}
  /\ CloseHandler
  /\ toLaptop' = <<>>
  /\ toPhone' \in {toPhone, <<>>}
  /\ UNCHANGED <<configVars, code, clearing, phoneVars>>

LaptopCrashes ==
  /\ Crash
  /\ CloseHandler
  /\ code' = NoCode
  /\ clearing' = FALSE
  /\ toLaptop' = <<>>
  /\ UNCHANGED <<phoneVars, toPhone>>

LaptopStarts ==
  /\ Start
  /\ UNCHANGED <<laptopVars, phoneVars, toLaptop, toPhone>>

Fault == PhoneLeaves \/ LaptopDrops

-----------------------------------------------------------------------------
Users ==
  \/ \E c \in Codes : TypeCode(c)
  \/ \E i \in Ids : PhoneForgets(i)
  \/ ShowCode \/ ForgetPhone

Next ==
  \/ Laptop \/ PhoneSide \/ Users
  \/ CodeExpires \/ ClearSession \/ Saving
  \/ Fault \/ LaptopCrashes \/ LaptopStarts

Spec == Init /\ [][Next]_vars

(***************************************************************************)
(* Fairness.  Both ends and a save under way take their next step.  The    *)
(* handler gets the mutex of the configuration in the end: the window      *)
(* takes it at a user's pace.  Users owe nothing: nobody has to type a     *)
(* code, and the laptop may be left off.                                   *)
(***************************************************************************)
FairSpec ==
  /\ Spec
  /\ SF_vars(Laptop)
  /\ WF_vars(PhoneSide)
  /\ WF_vars(Saving)
  /\ WF_vars(ClearSession)

-----------------------------------------------------------------------------
(* Properties *)

\* Every variable holds a value of its type, and neither end counts past its budget.
TypeOK ==
  /\ ConfigTypeOK
  /\ code \in Codes \cup {NoCode}
  /\ lpc \in LaptopSteps
  /\ rounds \in 0..MaxPairAttempts
  /\ lkey \in Keys \cup {NoKey}
  /\ clearing \in BOOLEAN
  /\ ppc \in PhoneSteps
  /\ keys \in [Ids -> Keys \cup {NoKey}]
  /\ ack \in Ids \cup {0}
  /\ tries \in 0..(MaxCodeAttempts - 1)
  /\ pkey \in Keys \cup {NoKey}
  /\ toLaptop \in Seq(PhoneMessages)
  /\ toPhone \in Seq(LaptopMessages)

LaptopInSession == lpc \in {"granted", "streaming", "revoked"}
PhoneInSession  == ppc \in {"accepted", "agreed", "streaming"}

\* While both ends are in a session they use one key, and each of them either
\* remembers that key for the other or was told to forget it since: nobody will have
\* to type a code the next time, however the memories differed before.
KeysAgree ==
  LaptopInSession /\ PhoneInSession =>
    /\ lkey = pkey
    /\ config.keys[Phone] \in {lkey, NoKey}
    /\ ppc = "streaming" => keys[ack] \in {pkey, NoKey}

\* What the next read is for: anything else ends the connection, or is lost.
LaptopAwaits ==
  CASE lpc = "hello"   -> {"HELLO"}
    [] lpc = "pairing" -> {"PAIR_REQUEST", "REPAIR"}
    [] lpc = "granted" -> {"CAPABILITIES"}
    [] OTHER           -> {}

PhoneAwaits ==
  CASE ppc = "hello"                  -> {"HELLO_ACK"}
    [] ppc \in {"repairing", "coding"} -> {"PAIR_OK", "PAIR_FAIL"}
    [] ppc = "accepted"               -> {"CAPABILITIES"}
    [] OTHER                          -> {}

\* Neither end has a timeout on what it reads in the handshake.  While both are there, each is sent only what
\* it reads next, and never do both wait for each other with nothing under way: wherever the
\* phone's branches (a key, a code, a code after a refused key) meet the laptop's loop.
NoMutualWait ==
  ~LaptopGone /\ ~PhoneGone =>
    /\ toLaptop # <<>> => Head(toLaptop).type \in LaptopAwaits
    /\ toPhone # <<>> => Head(toPhone).type \in PhoneAwaits
    /\ toLaptop = <<>> /\ toPhone = <<>> => LaptopAwaits = {} \/ PhoneAwaits = {}

\* "Stay under it so the last try still gets a real answer": the laptop does not give
\* up on a phone that still has its user type a code, a refused REPAIR included.
LastCodeAnswered ==
  lpc = "gaveUp" => ppc # "prompt" /\ (ppc = "coding" => toPhone # <<>>)

\* The loop of each end fits the other's, to its last round.
LoopsMeet == NoMutualWait /\ LastCodeAnswered

\* A code is asked for only if the keys that the two ends remember really differ: while
\* the laptop waits to be proved one, the REPAIR of the right key is never refused, nor
\* left untried.
NoNeedlessPrompt ==
  [][ppc # "prompt" /\ ppc' = "prompt" /\ lpc = "pairing" /\ config.keys[Phone] # NoKey
       => keys[config.id] # config.keys[Phone]]_vars

\* A restart brings back what was in memory, paired and forgotten phones alike, unless
\* a save failed, was cut off or had not been reached, or the file cannot be read; and
\* the phone is told PAIR_OK only after its pairing was given to the disk.
PairingsSurvive ==
  [][/\ ~up /\ up' =>
          \/ config' = config
          \/ unsaved # "none" \/ file.kind # "whole" \/ StartUnreadable
     /\ lpc = "verified" /\ lpc' = "granted" => unsaved # "change" \/ writing # NoConfig]_vars

\* The handshake implements Pairing.  The laptop's grant is an offer until its PAIR_OK
\* is read.
Granted == IF LaptopInSession THEN lkey ELSE NoKey
Offers  == {k \in Keys : \E n \in DOMAIN toPhone : toPhone[n] = PairOk(k)}
Offer   == IF PhoneGone \/ Offers = {} THEN NoKey ELSE CHOOSE k \in Offers : TRUE
Adopted == IF PhoneInSession THEN pkey ELSE NoKey

P == INSTANCE Pairing WITH
       Laptops <- Ids, granted <- Granted, offer <- Offer, adopted <- Adopted, stored <- keys

ImplementsPairing == P!Spec

\* No end breaks off any more: a step that looks like it is one that the code takes
\* itself (a step is what it does to the state).
NothingBreaks == [][Fault => Laptop \/ PhoneSide]_vars

\* While the laptop runs and nothing more breaks, the phone streams or asks for a code,
\* again and again: no disagreement of the two memories keeps it reconnecting in vain.
HealsOrAsks ==
  <>[]up /\ <>NothingBreaks => []<>(ppc \in {"prompt", "streaming"})
=============================================================================
