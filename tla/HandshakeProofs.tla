-------------------------- MODULE HandshakeProofs --------------------------
(* What holds of the handshake for any phones, codes, device ids and budgets. *)
EXTENDS Handshake, TLAPS

-----------------------------------------------------------------------------
(* Messages and keys *)

\* A key is made from a code, for one phone and one laptop.
LEMMA KeyMade ==
  ASSUME NEW c \in Codes, NEW i \in Ids
  PROVE  DeriveSessionKey(c, Phone, i) \in Keys
BY HandshakeAssumption DEF Keys

\* What either end sends is what the other may have to read.
LEMMA PhoneSends ==
  /\ Hello \in PhoneMessages /\ Capabilities \in PhoneMessages
  /\ \A c \in Codes : PairRequest(ComputePairProof(c, Phone, Challenge)) \in PhoneMessages
  /\ \A k \in Keys : Repair(ComputeRepairProof(k, Phone, Challenge)) \in PhoneMessages
BY Zenon DEF PhoneMessages, PhoneProofs

\* And the other way round.
LEMMA LaptopSends ==
  /\ PairFail \in LaptopMessages /\ Capabilities \in LaptopMessages
  /\ \A i \in Ids, b \in BOOLEAN : HelloAck(i, b) \in LaptopMessages
  /\ \A k \in Keys : PairOk(k) \in LaptopMessages
BY DEF LaptopMessages

\* Only a HELLO_ACK is read as one.
LEMMA AckRead ==
  ASSUME NEW m \in LaptopMessages, m.type = "HELLO_ACK"
  PROVE  m.body.device_id \in Ids /\ m.body.paired \in BOOLEAN
<1>1. PairFail.type # "HELLO_ACK" /\ Capabilities.type # "HELLO_ACK"
  BY DEF PairFail, Capabilities, Message
<1>2. \A k : PairOk(k).type # "HELLO_ACK"
  BY DEF PairOk, Message
<1>3. \A i, b : HelloAck(i, b).body.device_id = i /\ HelloAck(i, b).body.paired = b
  BY DEF HelloAck, Message
<1>4. PICK i \in Ids, b \in BOOLEAN : m = HelloAck(i, b)
  BY <1>1, <1>2 DEF LaptopMessages
<1>5. QED
  BY <1>3, <1>4

\* A line keeps its type: reading.
LEMMA ReadType ==
  ASSUME NEW S, NEW q \in Seq(S), q # <<>>
  PROVE  Head(q) \in S /\ Tail(q) \in Seq(S)
OBVIOUS

\* Sending.
LEMMA SendType ==
  ASSUME NEW S, NEW q \in Seq(S), NEW x \in S
  PROVE  Append(q, x) \in Seq(S)
OBVIOUS

-----------------------------------------------------------------------------
(* Types *)

GrantSteps == {"remembered", "saving", "verified", "granted", "streaming", "revoked"}

\* What the types of the messages sent next rest on.
TypeInv ==
  /\ TypeOK
  /\ lpc \in GrantSteps => lkey \in Keys
  /\ lpc = "pairing" => rounds < MaxPairAttempts
  /\ ppc \notin {"idle", "hello"} => ack \in Ids

\* The configuration keeps its type, whoever changes it.
LEMMA WithKeyType ==
  ASSUME NEW c \in Configs, NEW p \in Phones, NEW k \in Keys \cup {NoKey}
  PROVE  WithKey(c, p, k) \in Configs
BY DEF WithKey, Configs

\* So does the default of a first start.
LEMMA DefaultType == ASSUME NEW i \in Ids PROVE Default(i) \in Configs
BY DEF Default, Configs

\* The configuration keeps its type, whichever part of a step changes it.
LEMMA ConfigStep ==
  ASSUME ConfigTypeOK,
         \/ UNCHANGED configVars
         \/ Truncate \/ SaveEnds \/ Crash \/ Start
         \/ SaveRemembered \/ ForgetDevice(Phone)
         \/ \E k \in Keys : RememberDevice(Phone, k)
  PROVE  ConfigTypeOK'
<1> USE ConfigAssumption DEF ConfigTypeOK
<1>1. CASE UNCHANGED configVars
  BY <1>1 DEF configVars
<1>2. CASE Truncate
  BY <1>2 DEF Truncate, Cut, Files
<1>3. CASE SaveEnds
  BY <1>3 DEF SaveEnds, Saved, SaveFails, Whole, Files
<1>4. CASE Crash
  BY <1>4 DEF Crash
<1>5. CASE Start
  <2>1. ASSUME NEW c \in Configs, StartWith(c), minted' \in Ids PROVE ConfigTypeOK'
    BY <2>1 DEF StartWith, BeginSave
  <2>2. CASE StartLoaded
    <3>1. file # Missing
      BY <2>2 DEF StartLoaded, Missing
    <3>2. file.config \in Configs
      BY <3>1 DEF Files
    <3>3. QED
      BY <2>1, <2>2, <3>2 DEF StartLoaded, PartsOf
  <2>3. CASE StartFresh
    <3>1. minted + 1 \in Ids
      BY <2>3 DEF StartFresh, MintLeft, Ids
    <3>2. QED
      BY <2>1, <2>3, <3>1, DefaultType DEF StartFresh
  <2>4. CASE StartUnreadable
    <3>1. minted + 1 \in Ids
      BY <2>4 DEF StartUnreadable, MintLeft, Ids
    <3>2. QED
      BY <2>1, <2>4, <3>1, DefaultType DEF StartUnreadable
  <2>5. QED
    BY <1>5, <2>2, <2>3, <2>4 DEF Start
<1>6. CASE SaveRemembered
  BY <1>6 DEF SaveRemembered, BeginSave
<1>7. CASE ForgetDevice(Phone)
  BY <1>7, WithKeyType, HandshakeAssumption DEF ForgetDevice, BeginSave
<1>8. ASSUME NEW k \in Keys, RememberDevice(Phone, k) PROVE ConfigTypeOK'
  BY <1>8, WithKeyType, HandshakeAssumption DEF RememberDevice
<1>9. QED
  BY <1>1, <1>2, <1>3, <1>4, <1>5, <1>6, <1>7, <1>8

\* Types are kept by every step, and so is what a key about to be used rests on.
LEMMA TypeKept == Spec => []TypeInv
<1>1. Init => TypeInv
  <2> SUFFICES ASSUME Init PROVE TypeInv
    OBVIOUS
  <2>1. 1 \in Ids
    BY ConfigAssumption DEF Ids
  <2>2. ConfigTypeOK
    BY <2>1, DefaultType DEF Init, ConfigInit, ConfigTypeOK, Files
  <2>3. rounds \in 0..MaxPairAttempts /\ tries \in 0..(MaxCodeAttempts - 1)
    BY HandshakeAssumption DEF Init
  <2>4. keys \in [Ids -> Keys \cup {NoKey}]
    BY DEF Init
  <2>5. lpc \in LaptopSteps /\ ppc \in PhoneSteps
    BY DEF Init, LaptopSteps, PhoneSteps
  <2>6. toLaptop \in Seq(PhoneMessages) /\ toPhone \in Seq(LaptopMessages)
    BY DEF Init
  <2>7. TypeOK
    BY <2>2, <2>3, <2>4, <2>5, <2>6 DEF Init, TypeOK
  <2>8. QED
    BY <2>7 DEF Init, TypeInv, GrantSteps
<1>2. TypeInv /\ [Next]_vars => TypeInv'
  <2> SUFFICES ASSUME TypeInv, [Next]_vars PROVE TypeInv'
    OBVIOUS
  <2> DEFINE
    LaptopTypes ==
      /\ code \in Codes \cup {NoCode} /\ lpc \in LaptopSteps /\ rounds \in 0..MaxPairAttempts
      /\ lkey \in Keys \cup {NoKey} /\ clearing \in BOOLEAN
      /\ lpc \in GrantSteps => lkey \in Keys
      /\ lpc = "pairing" => rounds < MaxPairAttempts
    PhoneTypes ==
      /\ ppc \in PhoneSteps /\ keys \in [Ids -> Keys \cup {NoKey}] /\ ack \in Ids \cup {0}
      /\ tries \in 0..(MaxCodeAttempts - 1) /\ pkey \in Keys \cup {NoKey}
      /\ ppc \notin {"idle", "hello"} => ack \in Ids
    LineTypes == toLaptop \in Seq(PhoneMessages) /\ toPhone \in Seq(LaptopMessages)
  <2>t. ConfigTypeOK /\ LaptopTypes /\ PhoneTypes /\ LineTypes
    BY DEF TypeInv, TypeOK
  <2>q. ASSUME ConfigTypeOK', LaptopTypes', PhoneTypes', LineTypes' PROVE TypeInv'
    BY <2>q DEF TypeInv, TypeOK
  <2>e. <<>> \in Seq(PhoneMessages) /\ <<>> \in Seq(LaptopMessages)
    OBVIOUS
  <2>h. ASSUME NEW type, LaptopReads(type) PROVE toLaptop' \in Seq(PhoneMessages)
    BY <2>t, <2>h, ReadType DEF LaptopReads
  <2>p. ASSUME NEW type, PhoneReads(type)
        PROVE  toPhone' \in Seq(LaptopMessages) /\ Head(toPhone) \in LaptopMessages
    BY <2>t, <2>p, ReadType DEF PhoneReads
  <2>k. ASSUME UNCHANGED configVars PROVE ConfigTypeOK'
    BY <2>t, <2>k, ConfigStep
  <2>l. ASSUME UNCHANGED laptopVars PROVE LaptopTypes'
    BY <2>t, <2>l DEF laptopVars
  <2>o. ASSUME UNCHANGED phoneVars PROVE PhoneTypes'
    BY <2>t, <2>o DEF phoneVars
  <2>i. config \in Configs /\ config.id \in Ids /\ config.keys[Phone] \in Keys \cup {NoKey}
    BY <2>t, HandshakeAssumption DEF ConfigTypeOK, Configs
  <2> USE DEF GrantSteps, LaptopSteps, PhoneSteps
  <2>1. CASE AnswerHello
    <3>1. HelloAck(config.id, config.keys[Phone] # NoKey) \in LaptopMessages
      BY <2>i, LaptopSends
    <3>2. LineTypes'
      BY <2>1, <2>h, <2>t, <3>1, SendType DEF AnswerHello
    <3>3. LaptopTypes'
      BY <2>1, <2>t, HandshakeAssumption DEF AnswerHello
    <3>4. QED
      BY <2>1, <3>2, <3>3, <2>k, <2>o, <2>q DEF AnswerHello
  <2>2. CASE AcceptCode
    <3>1. lkey' \in Keys
      BY <2>2, <2>i, <2>t, KeyMade DEF AcceptCode, CodeProved
    <3>2. ConfigTypeOK'
      BY <2>2, <2>t, <3>1, ConfigStep DEF AcceptCode
    <3>3. LineTypes'
      BY <2>2, <2>h, <2>t DEF AcceptCode
    <3>4. LaptopTypes'
      BY <2>2, <2>t, <3>1 DEF AcceptCode
    <3>5. QED
      BY <2>2, <3>2, <3>3, <3>4, <2>o, <2>q DEF AcceptCode
  <2>3. CASE SavePairing
    BY <2>3, <2>t, <2>o, <2>q, ConfigStep DEF SavePairing
  <2>4. CASE PairingSaved
    BY <2>4, <2>t, <2>o, <2>q, ConfigStep DEF PairingSaved
  <2>5. CASE AcceptRepair
    <3>1. LineTypes'
      BY <2>5, <2>h, <2>t DEF AcceptRepair
    <3>2. LaptopTypes'
      BY <2>5, <2>i, <2>t DEF AcceptRepair, KeyProved
    <3>3. QED
      BY <2>5, <3>1, <3>2, <2>k, <2>o, <2>q DEF AcceptRepair
  <2>6. CASE Refuse
    <3>1. toLaptop' \in Seq(PhoneMessages)
      BY <2>6, <2>h DEF Refuse
    <3>2. LineTypes'
      BY <2>6, <2>t, <3>1, SendType, LaptopSends DEF Refuse
    <3>3. LaptopTypes'
      BY <2>6, <2>t, HandshakeAssumption DEF Refuse
    <3>4. QED
      BY <2>6, <3>2, <3>3, <2>k, <2>o, <2>q DEF Refuse
  <2>7. CASE GrantSession
    <3>1. <<PairOk(lkey), Capabilities>> \in Seq(LaptopMessages)
      BY <2>7, <2>t, LaptopSends DEF GrantSession
    <3>2. LineTypes'
      BY <2>7, <3>1, <2>t DEF GrantSession
    <3>3. LaptopTypes'
      BY <2>7, <2>t DEF GrantSession
    <3>4. QED
      BY <2>7, <3>2, <3>3, <2>k, <2>o, <2>q DEF GrantSession
  <2>8. CASE OpenSession
    <3>1. LineTypes'
      BY <2>8, <2>h, <2>t DEF OpenSession
    <3>2. LaptopTypes'
      BY <2>8, <2>t DEF OpenSession
    <3>3. QED
      BY <2>8, <3>1, <3>2, <2>k, <2>o, <2>q DEF OpenSession
  <2>c. ASSUME CloseHandler, code' \in Codes \cup {NoCode}, clearing' \in BOOLEAN PROVE LaptopTypes'
    BY <2>c, HandshakeAssumption DEF CloseHandler
  <2>9. CASE LaptopEnds
    BY <2>9, <2>t, <2>c, <2>k, <2>o, <2>q DEF LaptopEnds
  <2>10. CASE Connect
    <3>1. <<Hello>> \in Seq(PhoneMessages)
      BY PhoneSends
    <3>2. LaptopTypes' /\ PhoneTypes'
      BY <2>10, <2>t, HandshakeAssumption DEF Connect
    <3>3. QED
      BY <2>10, <3>1, <3>2, <2>e, <2>k, <2>q DEF Connect
  <2>11. CASE OfferKey
    <3> DEFINE body == Head(toPhone).body
    <3>1. body.device_id \in Ids /\ body.paired \in BOOLEAN
      BY <2>11, <2>p, AckRead DEF OfferKey, PhoneReads
    <3>2. pkey' \in Keys /\ ack' \in Ids
      BY <2>11, <2>t, <3>1 DEF OfferKey, SavedKey
    <3>3. toLaptop' = Append(toLaptop, Repair(ComputeRepairProof(pkey', Phone, Challenge)))
      BY <2>11 DEF OfferKey
    <3>4. LineTypes'
      BY <2>11, <2>p, <2>t, <3>2, <3>3, SendType, PhoneSends DEF OfferKey
    <3>5. PhoneTypes'
      BY <2>11, <2>t, <3>2 DEF OfferKey
    <3>6. QED
      BY <2>11, <3>4, <3>5, <2>k, <2>l, <2>q DEF OfferKey
  <2>12. CASE AskCode
    <3>1. Head(toPhone).body.device_id \in Ids
      BY <2>12, <2>p, AckRead DEF AskCode, PhoneReads
    <3>2. LineTypes'
      BY <2>12, <2>p, <2>t DEF AskCode
    <3>3. PhoneTypes'
      BY <2>12, <2>t, <3>1 DEF AskCode
    <3>4. QED
      BY <2>12, <3>2, <3>3, <2>k, <2>l, <2>q DEF AskCode
  <2>g. ASSUME HangUp, keys' \in [Ids -> Keys \cup {NoKey}] PROVE PhoneTypes'
    BY <2>g, HandshakeAssumption DEF HangUp
  <2>13. CASE KeyRefused
    <3>1. LineTypes'
      BY <2>13, <2>p, <2>t DEF KeyRefused
    <3>2. PhoneTypes'
      BY <2>13, <2>t DEF KeyRefused
    <3>3. QED
      BY <2>13, <3>1, <3>2, <2>k, <2>l, <2>q DEF KeyRefused
  <2>14. CASE CodeRefused
    <3>1. LineTypes'
      BY <2>14, <2>p, <2>t DEF CodeRefused
    <3>2. PhoneTypes'
      BY <2>14, <2>t, <2>g, HandshakeAssumption DEF CodeRefused
    <3>3. QED
      BY <2>14, <3>1, <3>2, <2>k, <2>l, <2>q DEF CodeRefused
  <2>15. CASE Accepted
    <3>1. LineTypes'
      BY <2>15, <2>p, <2>t DEF Accepted
    <3>2. PhoneTypes'
      BY <2>15, <2>t DEF Accepted
    <3>3. QED
      BY <2>15, <3>1, <3>2, <2>k, <2>l, <2>q DEF Accepted
  <2>16. CASE AnswerCapabilities
    <3>1. LineTypes'
      BY <2>16, <2>p, <2>t, SendType, PhoneSends DEF AnswerCapabilities
    <3>2. PhoneTypes'
      BY <2>16, <2>t DEF AnswerCapabilities
    <3>3. QED
      BY <2>16, <3>1, <3>2, <2>k, <2>l, <2>q DEF AnswerCapabilities
  <2>17. CASE SaveKey
    <3>1. PhoneTypes'
      BY <2>17, <2>t DEF SaveKey
    <3>2. QED
      BY <2>17, <3>1, <2>t, <2>k, <2>l, <2>q DEF SaveKey
  <2>18. CASE EndOfStream
    BY <2>18, <2>t, <2>g, <2>k, <2>l, <2>q DEF EndOfStream
  <2>19. ASSUME NEW c \in Codes, TypeCode(c) PROVE TypeInv'
    <3>1. pkey' \in Keys
      BY <2>19, <2>t, KeyMade DEF TypeCode
    <3>2. LineTypes'
      BY <2>19, <2>t, SendType, PhoneSends DEF TypeCode
    <3>3. PhoneTypes'
      BY <2>19, <3>1, <2>t DEF TypeCode
    <3>4. QED
      BY <2>19, <3>2, <3>3, <2>k, <2>l, <2>q DEF TypeCode
  <2>20. ASSUME NEW i \in Ids, PhoneForgets(i) PROVE TypeInv'
    <3>1. PhoneTypes'
      BY <2>20, <2>t DEF PhoneForgets
    <3>2. QED
      BY <2>20, <3>1, <2>t, <2>k, <2>l, <2>q DEF PhoneForgets
  <2>21. CASE ShowCode
    BY <2>21, <2>t, <2>k, <2>o, <2>q DEF ShowCode
  <2>22. CASE ForgetPhone
    BY <2>22, <2>t, <2>o, <2>q, ConfigStep DEF ForgetPhone
  <2>23. CASE CodeExpires
    BY <2>23, <2>t, <2>k, <2>o, <2>q DEF CodeExpires
  <2>24. CASE ClearSession
    BY <2>24, <2>t, <2>k, <2>o, <2>q DEF ClearSession
  <2>25. CASE Saving
    BY <2>25, <2>t, <2>l, <2>o, <2>q, ConfigStep DEF Saving
  <2>26. CASE PhoneLeaves
    BY <2>26, <2>t, <2>e, <2>g, <2>k, <2>l, <2>q DEF PhoneLeaves
  <2>27. CASE LaptopDrops
    BY <2>27, <2>t, <2>e, <2>c, <2>k, <2>o, <2>q DEF LaptopDrops
  <2>28. CASE LaptopCrashes
    BY <2>28, <2>t, <2>e, <2>c, <2>o, <2>q, ConfigStep DEF LaptopCrashes
  <2>29. CASE LaptopStarts
    BY <2>29, <2>t, <2>l, <2>o, <2>q, ConfigStep DEF LaptopStarts
  <2>30. CASE UNCHANGED vars
    BY <2>30, <2>t, <2>k, <2>l, <2>o, <2>q DEF vars
  <2>31. QED
    BY <2>1, <2>2, <2>3, <2>4, <2>5, <2>6, <2>7, <2>8, <2>9, <2>10, <2>11, <2>12, <2>13, <2>14, <2>15,
       <2>16, <2>17, <2>18, <2>19, <2>20, <2>21, <2>22, <2>23, <2>24, <2>25, <2>26, <2>27, <2>28,
       <2>29, <2>30 DEF Next, Laptop, PhoneSide, Users, Fault
<1>3. QED
  BY <1>1, <1>2, PTL DEF Spec

\* Every variable keeps its type, whatever is lost, forgotten or interrupted; neither
\* end counts past its budget.
THEOREM TypeCorrect == Spec => []TypeOK
<1>1. TypeInv => TypeOK
  BY DEF TypeInv
<1>2. QED
  BY <1>1, TypeKept, PTL

-----------------------------------------------------------------------------
(* What a restart brings back *)

\* What is being saved is what is in memory; a file written to its end and never out of
\* date says the same; and a change waits for its save only behind "remembered".
StoreInv ==
  /\ writing # NoConfig => writing = config
  /\ unsaved = "none" /\ file.kind = "whole" => file.config = config
  /\ up /\ unsaved = "change" /\ writing = NoConfig => lpc = "remembered"
  /\ up \/ lpc = "none"

\* A file is written to its end or cut short.
LEMMA WholeFile == \A c : Whole(c).kind = "whole" /\ Whole(c).config = c /\ Cut(c).kind = "cut"
BY DEF Whole, Cut

\* The holder of the mutex saves what is in memory, and nobody changes that meanwhile.
LEMMA StoreKept == Spec => []StoreInv
<1>1. Init => StoreInv
  <2>1. Default(1) # NoConfig
    BY DefaultType, ConfigAssumption DEF Ids
  <2>2. QED
    BY <2>1 DEF Init, ConfigInit, StoreInv
<1>2. TypeOK /\ StoreInv /\ [Next]_vars => StoreInv'
  <2> SUFFICES ASSUME TypeOK, StoreInv, [Next]_vars PROVE StoreInv'
    OBVIOUS
  <2>t. config \in Configs /\ writing \in Configs \cup {NoConfig} /\ NoConfig \notin Configs
    BY ConfigAssumption DEF TypeOK, ConfigTypeOK
  <2> USE DEF StoreInv
  <2>c. ASSUME UNCHANGED configVars, lpc # "remembered" \/ lpc' = "remembered",
               lpc # "none" \/ lpc' = "none"
        PROVE  StoreInv'
    BY <2>c DEF configVars
  <2>1. CASE AnswerHello
    BY <2>1, <2>c DEF AnswerHello
  <2>2. CASE AcceptCode
    BY <2>2 DEF AcceptCode, RememberDevice, LockFree
  <2>3. CASE SavePairing
    BY <2>3, <2>t DEF SavePairing, SaveRemembered, BeginSave, LockFree
  <2>4. CASE PairingSaved
    BY <2>4, WholeFile DEF PairingSaved, SaveEnds, Saved, SaveFails
  <2>5. CASE AcceptRepair
    BY <2>5, <2>c DEF AcceptRepair
  <2>6. CASE Refuse
    BY <2>6, <2>c DEF Refuse
  <2>7. CASE GrantSession
    BY <2>7, <2>c DEF GrantSession
  <2>8. CASE OpenSession
    BY <2>8, <2>c DEF OpenSession
  <2>9. CASE LaptopEnds
    BY <2>9, <2>c DEF LaptopEnds, CloseHandler
  <2>10. CASE Connect
    BY <2>10 DEF Connect, configVars, LaptopGone
  <2>11. CASE OfferKey
    BY <2>11, <2>c DEF OfferKey, laptopVars
  <2>12. CASE AskCode
    BY <2>12, <2>c DEF AskCode, laptopVars
  <2>13. CASE KeyRefused
    BY <2>13, <2>c DEF KeyRefused, laptopVars
  <2>14. CASE CodeRefused
    BY <2>14, <2>c DEF CodeRefused, laptopVars
  <2>15. CASE Accepted
    BY <2>15, <2>c DEF Accepted, laptopVars
  <2>16. CASE AnswerCapabilities
    BY <2>16, <2>c DEF AnswerCapabilities, laptopVars
  <2>17. CASE SaveKey
    BY <2>17, <2>c DEF SaveKey, laptopVars
  <2>18. CASE EndOfStream
    BY <2>18, <2>c DEF EndOfStream, laptopVars
  <2>19. ASSUME NEW c \in Codes, TypeCode(c) PROVE StoreInv'
    BY <2>19, <2>c DEF TypeCode, laptopVars
  <2>20. ASSUME NEW i \in Ids, PhoneForgets(i) PROVE StoreInv'
    BY <2>20, <2>c DEF PhoneForgets, laptopVars
  <2>21. CASE ShowCode
    BY <2>21, <2>c DEF ShowCode
  <2>22. CASE ForgetPhone
    <3>1. config' \in Configs
      BY <2>22, <2>t, WithKeyType, HandshakeAssumption DEF ForgetPhone, ForgetDevice
    <3>2. QED
      BY <2>22, <2>t, <3>1 DEF ForgetPhone, ForgetDevice, BeginSave, LockFree
  <2>23. CASE CodeExpires
    BY <2>23, <2>c DEF CodeExpires
  <2>24. CASE ClearSession
    BY <2>24, <2>c DEF ClearSession
  <2>25. CASE Saving
    BY <2>25, WholeFile DEF Saving, SaveEnds, Truncate, Saved, SaveFails, laptopVars
  <2>26. CASE PhoneLeaves
    BY <2>26, <2>c DEF PhoneLeaves, laptopVars
  <2>27. CASE LaptopDrops
    BY <2>27, <2>c DEF LaptopDrops, CloseHandler
  <2>28. CASE LaptopCrashes
    BY <2>28 DEF LaptopCrashes, Crash, CloseHandler
  <2>29. CASE LaptopStarts
    <3>1. ASSUME NEW c \in Configs, StartWith(c), UNCHANGED laptopVars PROVE StoreInv'
      BY <2>t, <3>1, WholeFile DEF StartWith, BeginSave, laptopVars
    <3>2. ASSUME StartLoaded PROVE \E c \in Configs : StartWith(c)
      <4>1. file.config \in Configs
        BY <3>2 DEF StartLoaded, TypeOK, ConfigTypeOK, Files, Missing
      <4>2. QED
        BY <3>2, <4>1 DEF StartLoaded, PartsOf
    <3>3. ASSUME StartFresh \/ StartUnreadable PROVE \E c \in Configs : StartWith(c)
      <4>1. minted + 1 \in Ids
        BY <3>3, ConfigAssumption DEF StartFresh, StartUnreadable, MintLeft, Ids, TypeOK, ConfigTypeOK
      <4>2. QED
        BY <3>3, <4>1, DefaultType DEF StartFresh, StartUnreadable
    <3>4. QED
      BY <2>29, <3>1, <3>2, <3>3 DEF LaptopStarts, Start
  <2>30. CASE UNCHANGED vars
    BY <2>30, <2>c DEF vars, laptopVars
  <2>31. QED
    BY <2>1, <2>2, <2>3, <2>4, <2>5, <2>6, <2>7, <2>8, <2>9, <2>10, <2>11, <2>12, <2>13, <2>14, <2>15,
       <2>16, <2>17, <2>18, <2>19, <2>20, <2>21, <2>22, <2>23, <2>24, <2>25, <2>26, <2>27, <2>28,
       <2>29, <2>30 DEF Next, Laptop, PhoneSide, Users, Fault
<1>3. QED
  BY <1>1, <1>2, TypeCorrect, PTL DEF Spec

\* A restart brings back every pairing that was saved, and PAIR_OK follows the save.
THEOREM PairingsKept == Spec => PairingsSurvive
<1>1. StoreInv /\ [Next]_vars =>
        /\ ~up /\ up' =>
             \/ config' = config
             \/ unsaved # "none" \/ file.kind # "whole" \/ StartUnreadable
        /\ lpc = "verified" /\ lpc' = "granted" => unsaved # "change" \/ writing # NoConfig
  <2> SUFFICES ASSUME StoreInv, [Next]_vars
               PROVE  /\ ~up /\ up' =>
                           \/ config' = config
                           \/ unsaved # "none" \/ file.kind # "whole" \/ StartUnreadable
                      /\ lpc = "verified" /\ lpc' = "granted"
                           => unsaved # "change" \/ writing # NoConfig
    OBVIOUS
  <2>1. lpc = "verified" => unsaved # "change" \/ writing # NoConfig
    BY DEF StoreInv
  <2>2. ASSUME ~up, up' PROVE Start
    <3>1. lpc = "none"
      BY <2>2 DEF StoreInv
    <3>2. QED
      BY <2>2, <3>1, ZenonT(60)
         DEF Next, Laptop, PhoneSide, Users, Fault, vars, configVars,
             AnswerHello, AcceptCode, SavePairing, PairingSaved, AcceptRepair, Refuse, GrantSession,
             OpenSession, LaptopEnds, Connect, OfferKey, AskCode, KeyRefused, CodeRefused, Accepted,
             AnswerCapabilities, SaveKey, EndOfStream, TypeCode, PhoneForgets, ShowCode, ForgetPhone,
             WindowIdle, CodeExpires, ClearSession, Saving, SaveEnds, Truncate, Saved, SaveFails,
             PhoneLeaves, LaptopDrops, LaptopCrashes, Crash, LaptopStarts
  <2>3. ASSUME Start, ~up, unsaved = "none", file.kind = "whole", ~StartUnreadable PROVE config' = config
    BY <2>3 DEF Start, StartLoaded, StartFresh, StartWith, StoreInv
  <2>4. QED
    BY <2>1, <2>2, <2>3
<1>2. QED
  BY <1>1, StoreKept, PTL DEF Spec, PairingsSurvive

-----------------------------------------------------------------------------
(* Where the two ends are *)

\* Messages of different types differ, and one carries what it was made from.
LEMMA MessageFacts ==
  /\ Hello.type = "HELLO" /\ Capabilities.type = "CAPABILITIES" /\ PairFail.type = "PAIR_FAIL"
  /\ \A i, b : /\ HelloAck(i, b).type = "HELLO_ACK"
               /\ HelloAck(i, b).body.device_id = i /\ HelloAck(i, b).body.paired = b
  /\ \A x : /\ PairRequest(x).type = "PAIR_REQUEST" /\ PairRequest(x).body = x
            /\ Repair(x).type = "REPAIR" /\ Repair(x).body = x
            /\ PairOk(x).type = "PAIR_OK" /\ PairOk(x).body = x
BY DEF Hello, Capabilities, PairFail, HelloAck, PairRequest, Repair, PairOk, Message

\* A proof convinces only whoever has what it was made from.
LEMMA ProofFacts ==
  \A k, m : /\ VerifyPairProof(k, Phone, Challenge, ComputePairProof(m, Phone, Challenge)) <=> k = m
           /\ VerifyRepairProof(k, Phone, Challenge, ComputeRepairProof(m, Phone, Challenge)) <=> k = m
BY DEF VerifyPairProof, ComputePairProof, VerifyRepairProof, ComputeRepairProof, ProofMatches, HmacSha256

\* Lines of one and of two messages.
LEMMA QueueFacts ==
  /\ \A x : /\ <<x>> # <<>> /\ Head(<<x>>) = x /\ Tail(<<x>>) = <<>>
            /\ Append(<<>>, x) = <<x>>
  /\ \A x, y : /\ <<>> \o <<x, y>> = <<x, y>> /\ <<x, y>> # <<>>
               /\ Head(<<x, y>>) = x /\ Tail(<<x, y>>) = <<y>>
OBVIOUS

\* Only the entry of the phone changes.
LEMMA WithKeyIs ==
  ASSUME NEW c \in Configs, NEW k
  PROVE  WithKey(c, Phone, k).id = c.id /\ WithKey(c, Phone, k).keys[Phone] = k
BY HandshakeAssumption DEF WithKey, Configs

\* Reading the only message under way empties the line.
LEMMA LaptopReadsOne ==
  ASSUME NEW type, NEW m, toLaptop = <<m>>, LaptopReads(type)
  PROVE  Head(toLaptop) = m /\ m.type = type /\ toLaptop' = <<>>
BY QueueFacts DEF LaptopReads

\* So does the phone's reading.
LEMMA PhoneReadsOne ==
  ASSUME NEW type, NEW m, toPhone = <<m>>, PhoneReads(type)
  PROVE  Head(toPhone) = m /\ m.type = type /\ toPhone' = <<>>
BY QueueFacts DEF PhoneReads

\* At most one message is under way, and in one direction.
Quiet    == toLaptop = <<>> /\ toPhone = <<>>
Asked(m) == toLaptop = <<m>> /\ toPhone = <<>>
Told(m)  == toLaptop = <<>> /\ toPhone = <<m>>

\* The phone has no key that the laptop would accept.
Differ == config.keys[Phone] = NoKey \/ keys[ack] # config.keys[Phone]

AtHello ==
  /\ ppc = "hello"
  /\ \/ lpc = "hello" /\ Asked(Hello)
     \/ /\ lpc = "pairing" /\ rounds = 0
        /\ \E b \in BOOLEAN : /\ Told(HelloAck(config.id, b))
                              /\ b \/ config.keys[Phone] = NoKey

AtRepair ==
  /\ ppc = "repairing" /\ lpc = "pairing"
  /\ pkey \in Keys /\ keys[ack] \in {pkey, NoKey}
  /\ \/ rounds = 0 /\ Asked(Repair(ComputeRepairProof(pkey, Phone, Challenge)))
     \/ rounds = 1 /\ Told(PairFail) /\ config.keys[Phone] # pkey

AtPrompt ==
  /\ ppc = "prompt" /\ lpc = "pairing"
  /\ rounds <= tries + 1
  /\ Quiet /\ Differ

AtCode ==
  /\ ppc = "coding" /\ Differ
  /\ \/ /\ lpc = "pairing" /\ rounds <= tries + 1
        /\ \E c \in Codes : /\ pkey = DeriveSessionKey(c, Phone, ack)
                            /\ Asked(PairRequest(ComputePairProof(c, Phone, Challenge)))
     \/ /\ lpc = "pairing" \/ (lpc = "gaveUp" /\ rounds = MaxPairAttempts)
        /\ rounds <= tries + 2 /\ Told(PairFail)

\* From the accepted proof on both ends have the same key.
AtGrant ==
  /\ lkey = pkey
  /\ \/ /\ ppc \in {"repairing", "coding"} /\ lpc \in {"remembered", "saving", "verified"}
        /\ Quiet
     \/ /\ ppc \in {"repairing", "coding"} /\ lpc = "granted"
        /\ toLaptop = <<>> /\ toPhone = <<PairOk(lkey), Capabilities>>
     \/ ppc = "accepted" /\ lpc = "granted" /\ Told(Capabilities)
     \/ ppc \in {"agreed", "streaming"} /\ lpc = "granted" /\ Asked(Capabilities)
     \/ ppc \in {"agreed", "streaming"} /\ lpc \in {"streaming", "revoked"} /\ Quiet

Phase == AtHello \/ AtRepair \/ AtPrompt \/ AtCode \/ AtGrant

\* As long as neither end has left the connection they are in step, and what either
\* remembers is the key of the session or nothing.
PhaseInv ==
  /\ ppc # "idle" /\ lpc # "none" => Phase
  /\ ppc \notin {"idle", "hello"} /\ lpc # "none" => ack = config.id
  /\ lpc \in GrantSteps => config.keys[Phone] \in {lkey, NoKey}
  /\ ppc = "streaming" => keys[ack] \in {pkey, NoKey}

\* The two ends stay in step for as long as both are there.
LEMMA PhaseKept == Spec => []PhaseInv
<1>1. Init => PhaseInv
  BY DEF Init, PhaseInv, GrantSteps
<1>2. TypeInv /\ StoreInv /\ PhaseInv /\ [Next]_vars => PhaseInv'
  <2> SUFFICES ASSUME TypeInv, StoreInv, PhaseInv, [Next]_vars PROVE PhaseInv'
    OBVIOUS
  <2>t. /\ config \in Configs /\ keys \in [Ids -> Keys \cup {NoKey}]
        /\ lkey \in Keys \cup {NoKey} /\ pkey \in Keys \cup {NoKey}
        /\ tries \in Nat /\ rounds \in Nat
        /\ config.keys[Phone] \in Keys \cup {NoKey} /\ config.id \in Ids
        /\ lpc \in GrantSteps => lkey \in Keys
        /\ lpc \in LaptopSteps /\ ppc \in PhoneSteps
        /\ ppc \notin {"idle", "hello"} => ack \in Ids
    BY HandshakeAssumption DEF TypeInv, TypeOK, ConfigTypeOK, Configs
  <2>n. NoKey \notin Keys /\ NoCode \notin Codes /\ MaxCodeAttempts \in Nat /\ MaxPairAttempts \in Nat
        /\ MaxCodeAttempts < MaxPairAttempts /\ MaxCodeAttempts > 0
    BY ConfigAssumption, HandshakeAssumption
  <2>a. ASSUME ppc # "idle", lpc = "pairing", toLaptop # <<>>
        PROVE  \/ AtRepair /\ rounds = 0 /\ Asked(Repair(ComputeRepairProof(pkey, Phone, Challenge)))
               \/ /\ AtCode /\ rounds <= tries + 1
                  /\ \E c \in Codes : /\ pkey = DeriveSessionKey(c, Phone, ack)
                                      /\ Asked(PairRequest(ComputePairProof(c, Phone, Challenge)))
    BY <2>a DEF PhaseInv, Phase, AtHello, AtRepair, AtPrompt, AtCode, AtGrant, Quiet, Asked, Told
  <2>b. ASSUME ppc # "idle", lpc = "granted", toLaptop # <<>>
        PROVE  AtGrant /\ ppc \in {"agreed", "streaming"} /\ Asked(Capabilities)
    BY <2>b DEF PhaseInv, Phase, AtHello, AtRepair, AtPrompt, AtCode, AtGrant, Quiet, Asked, Told
  <2>c. ASSUME lpc # "none", ppc = "hello", toPhone # <<>>
        PROVE  /\ lpc = "pairing" /\ rounds = 0
               /\ \E b \in BOOLEAN : Told(HelloAck(config.id, b)) /\ (b \/ config.keys[Phone] = NoKey)
    BY <2>c DEF PhaseInv, Phase, AtHello, AtRepair, AtPrompt, AtCode, AtGrant, Asked
  <2>d. ASSUME lpc # "none", ppc = "repairing", toPhone # <<>>
        PROVE  \/ AtRepair /\ rounds = 1 /\ Told(PairFail) /\ config.keys[Phone] # pkey
               \/ /\ lkey = pkey /\ lpc = "granted"
                  /\ toLaptop = <<>> /\ toPhone = <<PairOk(lkey), Capabilities>>
    BY <2>d DEF PhaseInv, Phase, AtHello, AtRepair, AtPrompt, AtCode, AtGrant, Asked, Quiet
  <2>e. ASSUME lpc # "none", ppc = "coding", toPhone # <<>>
        PROVE  \/ /\ Differ /\ rounds <= tries + 2 /\ Told(PairFail)
                  /\ lpc = "pairing" \/ (lpc = "gaveUp" /\ rounds = MaxPairAttempts)
               \/ /\ lkey = pkey /\ lpc = "granted"
                  /\ toLaptop = <<>> /\ toPhone = <<PairOk(lkey), Capabilities>>
    BY <2>e DEF PhaseInv, Phase, AtHello, AtRepair, AtPrompt, AtCode, AtGrant, Asked, Quiet
  <2>f. ASSUME lpc # "none", ppc = "accepted"
        PROVE  lkey = pkey /\ lpc = "granted" /\ Told(Capabilities)
    BY <2>f DEF PhaseInv, Phase, AtHello, AtRepair, AtPrompt, AtCode, AtGrant
  <2> USE DEF PhaseInv, Phase, AtHello, AtRepair, AtPrompt, AtCode, AtGrant, Quiet, Asked, Told, Differ,
              GrantSteps
  <2>1. CASE AnswerHello
    <3>1. ASSUME ppc # "idle" PROVE ppc = "hello" /\ toLaptop = <<Hello>> /\ toPhone = <<>>
      BY <2>1, <3>1 DEF AnswerHello
    <3>2. ASSUME ppc # "idle" PROVE AtHello'
      <4>1. toLaptop' = <<>>
        BY <2>1, <3>1, <3>2, LaptopReadsOne DEF AnswerHello
      <4>2. toPhone' = <<HelloAck(config.id, config.keys[Phone] # NoKey)>>
        BY <2>1, <3>1, <3>2, QueueFacts DEF AnswerHello
      <4>3. QED
        BY <2>1, <3>1, <3>2, <4>1, <4>2 DEF AnswerHello, configVars, phoneVars
    <3>3. QED
      BY <2>1, <3>2 DEF AnswerHello, configVars, phoneVars
  <2>2. CASE AcceptCode
    <3> DEFINE body == Head(toLaptop).body
    <3>1. config'.id = config.id /\ config'.keys[Phone] = lkey'
      BY <2>2, <2>t, WithKeyIs DEF AcceptCode, RememberDevice
    <3>2. ASSUME ppc # "idle" PROVE AtGrant'
      <4>1. PICK m : toLaptop = <<m>> /\ toPhone = <<>>
        BY <2>2, <2>a, <3>2 DEF AcceptCode, LaptopReads
      <4>2. Head(toLaptop) = m /\ m.type = "PAIR_REQUEST" /\ toLaptop' = <<>>
        BY <2>2, <4>1, LaptopReadsOne DEF AcceptCode
      <4>3. ASSUME NEW x, m = Repair(x) PROVE FALSE
        BY <4>2, <4>3, MessageFacts
      <4>4. ppc = "coding" /\ \E c \in Codes : /\ pkey = DeriveSessionKey(c, Phone, ack)
                                            /\ m = PairRequest(ComputePairProof(c, Phone, Challenge))
        BY <2>2, <2>a, <3>2, <4>1, <4>2, <4>3, QueueFacts DEF AcceptCode
      <4>5. PICK c \in Codes : /\ pkey = DeriveSessionKey(c, Phone, ack)
                               /\ m = PairRequest(ComputePairProof(c, Phone, Challenge))
        BY <4>4
      <4>6. VerifyPairProof(code, Phone, Challenge, ComputePairProof(c, Phone, Challenge))
        BY <2>2, <4>2, <4>5, MessageFacts DEF AcceptCode, CodeProved
      <4>7. code = c
        BY <4>6 DEF VerifyPairProof, ComputePairProof, ProofMatches, HmacSha256
      <4>8. lkey' = pkey
        BY <2>2, <4>4, <4>5, <4>7 DEF AcceptCode
      <4>9. QED
        BY <2>2, <4>1, <4>2, <4>4, <4>8 DEF AcceptCode, phoneVars
    <3>3. QED
      BY <2>2, <3>1, <3>2 DEF AcceptCode, phoneVars
  <2>3. CASE SavePairing
    BY <2>3 DEF SavePairing, SaveRemembered, phoneVars
  <2>4. CASE PairingSaved
    BY <2>4 DEF PairingSaved, SaveEnds, Saved, SaveFails, phoneVars
  <2>5. CASE AcceptRepair
    <3>1. ASSUME ppc # "idle" PROVE AtGrant'
      <4>1. PICK m : toLaptop = <<m>> /\ toPhone = <<>>
        BY <2>5, <2>a, <3>1 DEF AcceptRepair, LaptopReads
      <4>2. Head(toLaptop) = m /\ m.type = "REPAIR" /\ toLaptop' = <<>>
        BY <2>5, <4>1, LaptopReadsOne DEF AcceptRepair
      <4>3. ASSUME NEW x, m = PairRequest(x) PROVE FALSE
        BY <4>2, <4>3, MessageFacts
      <4>4. ppc = "repairing" /\ m = Repair(ComputeRepairProof(pkey, Phone, Challenge))
        BY <2>5, <2>a, <3>1, <4>1, <4>2, <4>3, QueueFacts DEF AcceptRepair
      <4>5. VerifyRepairProof(config.keys[Phone], Phone, Challenge, ComputeRepairProof(pkey, Phone, Challenge))
        BY <2>5, <4>2, <4>4, MessageFacts DEF AcceptRepair, KeyProved
      <4>6. lkey' = pkey
        BY <2>5, <4>5
           DEF AcceptRepair, VerifyRepairProof, ComputeRepairProof, ProofMatches, HmacSha256
      <4>7. QED
        BY <2>5, <4>1, <4>2, <4>4, <4>6 DEF AcceptRepair, phoneVars
    <3>2. QED
      BY <2>5, <3>1 DEF AcceptRepair, configVars, phoneVars
  <2>6. CASE Refuse
    <3>1. ASSUME ppc # "idle" PROVE AtRepair' \/ AtCode'
      <4>1. PICK m : toLaptop = <<m>> /\ toPhone = <<>>
        BY <2>6, <2>a, <3>1 DEF Refuse, LaptopReads
      <4>2. /\ Head(toLaptop) = m /\ toLaptop' = <<>>
            /\ \/ m.type = "PAIR_REQUEST"
               \/ m.type = "REPAIR" /\ ~KeyProved
        BY <2>6, <4>1, LaptopReadsOne DEF Refuse
      <4>3. toPhone' = <<PairFail>>
        BY <2>6, <4>1, QueueFacts DEF Refuse
      <4>4. CASE m.type = "REPAIR"
        <5>1. ASSUME NEW x, m = PairRequest(x) PROVE FALSE
          BY <4>4, <5>1, MessageFacts
        <5>2. AtRepair /\ rounds = 0 /\ m = Repair(ComputeRepairProof(pkey, Phone, Challenge))
          BY <2>6, <2>a, <3>1, <4>1, <5>1, QueueFacts DEF Refuse
        <5>3. config.keys[Phone] # pkey
          <6>1. Head(toLaptop).body = ComputeRepairProof(pkey, Phone, Challenge)
            BY <4>2, <5>2, MessageFacts
          <6>2. QED
            BY <2>n, <4>2, <4>4, <5>2, <6>1, ProofFacts DEF KeyProved
        <5>4. lpc' = "pairing" /\ rounds' = 1
          BY <2>6, <2>n, <5>2 DEF Refuse
        <5>5. QED
          BY <2>6, <4>2, <4>3, <5>2, <5>3, <5>4 DEF Refuse, configVars, phoneVars
      <4>5. CASE m.type = "PAIR_REQUEST"
        <5>1. ASSUME NEW x, m = Repair(x) PROVE FALSE
          BY <4>5, <5>1, MessageFacts
        <5>2. AtCode /\ rounds <= tries + 1
          BY <2>6, <2>a, <3>1, <4>1, <5>1, QueueFacts DEF Refuse
        <5>3. rounds' = rounds + 1 /\ lpc' \in {"pairing", "gaveUp"} /\ rounds' <= MaxPairAttempts
              /\ (lpc' = "gaveUp" => rounds' = MaxPairAttempts)
          <6>1. rounds < MaxPairAttempts
            BY <2>6 DEF Refuse, TypeInv
          <6>2. QED
            BY <2>6, <2>t, <2>n, <6>1 DEF Refuse
        <5>4. QED
          BY <2>6, <2>t, <4>2, <4>3, <5>2, <5>3 DEF Refuse, configVars, phoneVars
      <4>6. QED
        BY <4>2, <4>4, <4>5
    <3>2. QED
      BY <2>6, <3>1 DEF Refuse, configVars, phoneVars
  <2>7. CASE GrantSession
    BY <2>7, <2>t, QueueFacts DEF GrantSession, configVars, phoneVars
  <2>8. CASE OpenSession
    <3>1. ASSUME ppc # "idle" PROVE AtGrant'
      <4>1. AtGrant /\ ppc \in {"agreed", "streaming"} /\ toLaptop = <<Capabilities>> /\ toPhone = <<>>
        BY <2>8, <2>b, <3>1 DEF OpenSession, LaptopReads, PhoneGone
      <4>2. toLaptop' = <<>>
        BY <2>8, <4>1, LaptopReadsOne, QueueFacts DEF OpenSession
      <4>3. QED
        BY <2>8, <4>1, <4>2 DEF OpenSession, phoneVars
    <3>2. QED
      BY <2>8, <3>1 DEF OpenSession, configVars, phoneVars
  <2>9. CASE LaptopEnds
    BY <2>9 DEF LaptopEnds, CloseHandler, configVars, phoneVars
  <2>10. CASE Connect
    BY <2>10 DEF Connect, PhoneGone, LaptopGone, configVars
  <2>11. CASE OfferKey
    <3>1. ASSUME lpc # "none" PROVE AtRepair' /\ ack' = config.id
      <4>1. lpc = "pairing" /\ rounds = 0
        BY <2>11, <2>c, <3>1 DEF OfferKey, PhoneReads
      <4>2. PICK b \in BOOLEAN : toLaptop = <<>> /\ toPhone = <<HelloAck(config.id, b)>>
        BY <2>11, <2>c, <3>1 DEF OfferKey, PhoneReads
      <4>3. Head(toPhone) = HelloAck(config.id, b) /\ toPhone' = <<>>
        BY <2>11, <4>2, PhoneReadsOne DEF OfferKey
      <4>4. ack' = config.id /\ pkey' = keys[config.id] /\ pkey' # NoKey
        BY <2>11, <4>3, MessageFacts DEF OfferKey, SavedKey
      <4>5. toLaptop' = <<Repair(ComputeRepairProof(pkey', Phone, Challenge))>>
        BY <2>11, <4>2, QueueFacts DEF OfferKey
      <4>6. pkey' \in Keys /\ keys'[ack'] = pkey'
        BY <2>11, <2>t, <4>4 DEF OfferKey
      <4>7. QED
        BY <2>11, <4>1, <4>3, <4>4, <4>5, <4>6 DEF OfferKey, laptopVars
    <3>2. QED
      BY <2>11, <3>1 DEF OfferKey, configVars, laptopVars
  <2>12. CASE AskCode
    <3>1. ASSUME lpc # "none" PROVE AtPrompt' /\ ack' = config.id
      <4>1. lpc = "pairing" /\ rounds = 0
        BY <2>12, <2>c, <3>1 DEF AskCode, PhoneReads
      <4>2. PICK b \in BOOLEAN : /\ toLaptop = <<>> /\ toPhone = <<HelloAck(config.id, b)>>
                                 /\ b \/ config.keys[Phone] = NoKey
        BY <2>12, <2>c, <3>1 DEF AskCode, PhoneReads
      <4>3. Head(toPhone) = HelloAck(config.id, b) /\ toPhone' = <<>>
        BY <2>12, <4>2, PhoneReadsOne DEF AskCode
      <4>4. ack' = config.id /\ (b => keys[config.id] = NoKey)
        BY <2>12, <4>3, MessageFacts DEF AskCode, SavedKey
      <4>5. Differ'
        BY <2>12, <4>2, <4>4 DEF AskCode, configVars
      <4>6. QED
        BY <2>12, <2>t, <4>1, <4>2, <4>3, <4>4, <4>5 DEF AskCode, laptopVars
    <3>2. QED
      BY <2>12, <3>1 DEF AskCode, configVars, laptopVars
  <2>13. CASE KeyRefused
    <3>1. ASSUME lpc # "none" PROVE AtPrompt'
      <4>1. toPhone # <<PairOk(lkey), Capabilities>>
        BY <2>13, MessageFacts, QueueFacts DEF KeyRefused, PhoneReads
      <4>2. AtRepair /\ rounds = 1 /\ Told(PairFail)
        BY <2>13, <2>d, <3>1, <4>1 DEF KeyRefused, PhoneReads
      <4>3. toPhone' = <<>>
        BY <2>13, <4>2, PhoneReadsOne DEF KeyRefused
      <4>4. keys'[ack'] = NoKey
        BY <2>13, <2>t DEF KeyRefused
      <4>5. Differ'
        BY <2>13, <4>4 DEF KeyRefused, configVars
      <4>6. QED
        BY <2>13, <2>t, <4>2, <4>3, <4>5 DEF KeyRefused, laptopVars
    <3>2. QED
      BY <2>13, <3>1 DEF KeyRefused, configVars, laptopVars
  <2>14. CASE CodeRefused
    <3>1. ASSUME lpc # "none", ppc' # "idle" PROVE AtPrompt'
      <4>1. toPhone # <<PairOk(lkey), Capabilities>>
        BY <2>14, MessageFacts, QueueFacts DEF CodeRefused, PhoneReads
      <4>2. /\ Differ /\ rounds <= tries + 2 /\ Told(PairFail)
            /\ lpc = "pairing" \/ (lpc = "gaveUp" /\ rounds = MaxPairAttempts)
        BY <2>14, <2>e, <3>1, <4>1 DEF CodeRefused, PhoneReads
      <4>3. toPhone' = <<>>
        BY <2>14, <4>2, PhoneReadsOne DEF CodeRefused
      <4>4. /\ ppc' = "prompt" /\ tries' = tries + 1 /\ tries + 1 < MaxCodeAttempts
            /\ UNCHANGED <<ack, pkey>>
        BY <2>14, <3>1 DEF CodeRefused, HangUp
      <4>5. lpc = "pairing"
        BY <2>t, <2>n, <4>2, <4>4
      <4>6. QED
        BY <2>14, <2>t, <4>2, <4>3, <4>4, <4>5 DEF CodeRefused, configVars, laptopVars
    <3>2. ppc' \in {"idle", "prompt"} /\ (ppc' # "idle" => UNCHANGED ack)
      BY <2>14 DEF CodeRefused, HangUp
    <3>3. QED
      BY <2>14, <3>1, <3>2 DEF CodeRefused, configVars, laptopVars
  <2>15. CASE Accepted
    <3>1. ASSUME lpc # "none" PROVE AtGrant'
      <4>1. toPhone # <<PairFail>>
        BY <2>15, MessageFacts, QueueFacts DEF Accepted, PhoneReads
      <4>2. /\ lkey = pkey /\ lpc = "granted"
            /\ toLaptop = <<>> /\ toPhone = <<PairOk(lkey), Capabilities>>
        BY <2>15, <2>d, <2>e, <3>1, <4>1 DEF Accepted, PhoneReads
      <4>3. toPhone' = <<Capabilities>>
        BY <2>15, <4>2, QueueFacts DEF Accepted, PhoneReads
      <4>4. QED
        BY <2>15, <4>2, <4>3 DEF Accepted, laptopVars
    <3>2. QED
      BY <2>15, <3>1 DEF Accepted, configVars, laptopVars
  <2>16. CASE AnswerCapabilities
    <3>1. ASSUME lpc # "none" PROVE AtGrant'
      <4>1. lkey = pkey /\ lpc = "granted" /\ Told(Capabilities)
        BY <2>16, <2>f, <3>1 DEF AnswerCapabilities
      <4>2. toPhone' = <<>> /\ toLaptop' = <<Capabilities>>
        BY <2>16, <4>1, PhoneReadsOne, QueueFacts DEF AnswerCapabilities
      <4>3. QED
        BY <2>16, <4>1, <4>2 DEF AnswerCapabilities, laptopVars
    <3>2. QED
      BY <2>16, <3>1 DEF AnswerCapabilities, configVars, laptopVars
  <2>17. CASE SaveKey
    BY <2>17, <2>t DEF SaveKey, configVars, laptopVars
  <2>18. CASE EndOfStream
    BY <2>18 DEF EndOfStream, HangUp, configVars, laptopVars
  <2>19. ASSUME NEW c \in Codes, TypeCode(c) PROVE PhaseInv'
    BY <2>19, <2>t, QueueFacts DEF TypeCode, configVars, laptopVars
  <2>20. ASSUME NEW i \in Ids, PhoneForgets(i) PROVE PhaseInv'
    BY <2>20, <2>t, <2>n DEF PhoneForgets, configVars, laptopVars
  <2>21. CASE ShowCode
    BY <2>21 DEF ShowCode, configVars, phoneVars
  <2>22. CASE ForgetPhone
    BY <2>22, <2>t, <2>n, WithKeyIs DEF ForgetPhone, ForgetDevice, phoneVars
  <2>23. CASE CodeExpires
    BY <2>23 DEF CodeExpires, configVars, phoneVars
  <2>24. CASE ClearSession
    BY <2>24 DEF ClearSession, configVars, phoneVars
  <2>25. CASE Saving
    BY <2>25 DEF Saving, SaveEnds, Truncate, Saved, SaveFails, laptopVars, phoneVars
  <2>26. CASE PhoneLeaves
    BY <2>26 DEF PhoneLeaves, HangUp, configVars, laptopVars
  <2>27. CASE LaptopDrops
    BY <2>27 DEF LaptopDrops, CloseHandler, configVars, phoneVars
  <2>28. CASE LaptopCrashes
    BY <2>28 DEF LaptopCrashes, Crash, CloseHandler, phoneVars
  <2>29. CASE LaptopStarts
    <3>1. lpc = "none"
      BY <2>29 DEF LaptopStarts, Start, StartLoaded, StartFresh, StartUnreadable, StartWith, StoreInv
    <3>2. QED
      BY <2>29, <3>1 DEF LaptopStarts, laptopVars, phoneVars
  <2>30. CASE UNCHANGED vars
    BY <2>30 DEF vars, configVars, laptopVars, phoneVars
  <2>31. QED
    BY <2>1, <2>2, <2>3, <2>4, <2>5, <2>6, <2>7, <2>8, <2>9, <2>10, <2>11, <2>12, <2>13, <2>14, <2>15,
       <2>16, <2>17, <2>18, <2>19, <2>20, <2>21, <2>22, <2>23, <2>24, <2>25, <2>26, <2>27, <2>28,
       <2>29, <2>30 DEF Next, Laptop, PhoneSide, Users, Fault
<1>3. QED
  BY <1>1, <1>2, TypeKept, StoreKept, PTL DEF Spec

\* While both ends are in a session they use one key, and what either remembers for
\* the other is that key or nothing: complete_pairing and connectTo meet, whatever
\* codes, keys, crashes and lost connections came before.
THEOREM KeysAgreed == Spec => []KeysAgree
<1>1. PhaseInv => KeysAgree
  BY DEF PhaseInv, KeysAgree, LaptopInSession, PhoneInSession, GrantSteps,
         Phase, AtHello, AtRepair, AtPrompt, AtCode, AtGrant
<1>2. QED
  BY <1>1, PhaseKept, PTL

\* MAX_PAIR_ATTEMPTS "stays above" the phone's own budget: the laptop gives up only on
\* a phone that has used its last code.
THEOREM LastCode == Spec => []LastCodeAnswered
<1>1. PhaseInv => LastCodeAnswered
  BY DEF PhaseInv, LastCodeAnswered, Phase, AtHello, AtRepair, AtPrompt, AtCode, AtGrant, Told
<1>2. QED
  BY <1>1, PhaseKept, PTL

\* complete_pairing and connectTo never wait for each other, nor is either sent what it does
\* not read next, whichever branch the phone takes and however often it is refused.
THEOREM NeverBothWait == Spec => []NoMutualWait
<1>1. PhaseInv => NoMutualWait
  <2> SUFFICES ASSUME PhaseInv, lpc \notin {"none", "gaveUp"}, ppc # "idle"
               PROVE  /\ toLaptop # <<>> => Head(toLaptop).type \in LaptopAwaits
                      /\ toPhone # <<>> => Head(toPhone).type \in PhoneAwaits
                      /\ toLaptop = <<>> /\ toPhone = <<>> => LaptopAwaits = {} \/ PhoneAwaits = {}
    BY DEF NoMutualWait, LaptopGone, PhoneGone
  <2> USE MessageFacts, QueueFacts DEF Quiet, Asked, Told, LaptopAwaits, PhoneAwaits
  <2>1. CASE AtHello
    BY <2>1 DEF AtHello
  <2>2. CASE AtRepair
    BY <2>2 DEF AtRepair
  <2>3. CASE AtPrompt
    BY <2>3 DEF AtPrompt
  <2>4. CASE AtCode
    BY <2>4 DEF AtCode
  <2>5. CASE AtGrant
    BY <2>5 DEF AtGrant
  <2>6. QED
    BY <2>1, <2>2, <2>3, <2>4, <2>5 DEF PhaseInv, Phase
<1>2. QED
  BY <1>1, PhaseKept, PTL

\* The loops of the two ends meet: each is sent what it reads next, and an answer to its
\* last code.
THEOREM LoopsFit == Spec => []LoopsMeet
<1>1. NoMutualWait /\ LastCodeAnswered => LoopsMeet
  BY DEF LoopsMeet
<1>2. QED
  BY <1>1, NeverBothWait, LastCode, PTL

\* The phone's user is asked for a code only if the two memories differ.
THEOREM NoNeedless == Spec => NoNeedlessPrompt
<1>1. PhaseInv /\ [Next]_vars =>
        (ppc # "prompt" /\ ppc' = "prompt" /\ lpc = "pairing" /\ config.keys[Phone] # NoKey
           => keys[config.id] # config.keys[Phone])
  <2> SUFFICES ASSUME PhaseInv, [Next]_vars, ppc # "prompt", ppc' = "prompt", lpc = "pairing",
                      config.keys[Phone] # NoKey
               PROVE  keys[config.id] # config.keys[Phone]
    OBVIOUS
  <2>1. AskCode \/ KeyRefused \/ CodeRefused
    BY ZenonT(60)
       DEF Next, Laptop, PhoneSide, Users, Fault, vars, phoneVars,
           AnswerHello, AcceptCode, SavePairing, PairingSaved, AcceptRepair, Refuse, GrantSession,
           OpenSession, LaptopEnds, Connect, OfferKey, Accepted, AnswerCapabilities, SaveKey,
           EndOfStream, HangUp, TypeCode, PhoneForgets, ShowCode, ForgetPhone, CodeExpires,
           ClearSession, Saving, PhoneLeaves, LaptopDrops, LaptopCrashes, LaptopStarts
  <2> USE DEF PhaseInv, Phase, AtHello, AtRepair, AtPrompt, AtCode, AtGrant, Quiet, Asked, Told, Differ
  <2>2. CASE AskCode
    <3>1. PICK b \in BOOLEAN : /\ toPhone = <<HelloAck(config.id, b)>>
                               /\ b \/ config.keys[Phone] = NoKey
      BY <2>2 DEF AskCode, PhoneReads
    <3>2. Head(toPhone) = HelloAck(config.id, b)
      BY <3>1, QueueFacts
    <3>3. keys[config.id] = NoKey
      BY <2>2, <3>1, <3>2, MessageFacts DEF AskCode, SavedKey
    <3>4. QED
      BY <3>3
  <2>3. CASE KeyRefused
    BY <2>3, MessageFacts, QueueFacts DEF KeyRefused, PhoneReads
  <2>4. CASE CodeRefused
    BY <2>4 DEF CodeRefused, PhoneReads
  <2>5. QED
    BY <2>1, <2>2, <2>3, <2>4
<1>2. QED
  BY <1>1, PhaseKept, PTL DEF Spec, NoNeedlessPrompt

-----------------------------------------------------------------------------
(* The handshake implements Pairing *)

\* What the phone may still have to read, after the laptop has gone, too.
Line ==
  /\ ppc = "hello" => toPhone = <<>> \/ \E i, b : toPhone = <<HelloAck(i, b)>>
  /\ ppc \in {"repairing", "coding"} =>
       toPhone \in {<<>>, <<PairFail>>, <<PairOk(pkey), Capabilities>>}
  /\ ppc \in {"prompt", "agreed", "streaming"} => toPhone = <<>>
  /\ ppc = "accepted" => toPhone \in {<<>>, <<Capabilities>>}

LineInv ==
  /\ Line
  /\ ppc \in {"repairing", "coding", "accepted", "agreed", "streaming"} => pkey \in Keys

InStep == lpc # "none" /\ ppc # "idle" => Line

\* While the laptop is there the line to the phone is as its phase has it.
LEMMA LineInStep == PhaseInv => InStep
BY DEF PhaseInv, Phase, AtHello, AtRepair, AtPrompt, AtCode, AtGrant, Quiet, Asked, Told, Line, InStep

\* And what it leaves behind on the line is of the phase it left.
LEMMA LineKept == Spec => []LineInv
<1>1. Init => LineInv
  BY DEF Init, Line, LineInv
<1>2. TypeInv /\ InStep' /\ LineInv /\ [Next]_vars => LineInv'
  <2> SUFFICES ASSUME TypeInv, InStep', LineInv, [Next]_vars PROVE LineInv'
    OBVIOUS
  <2>i. lpc' # "none" /\ ppc' # "idle" => Line'
    BY DEF InStep
  <2>s. ASSUME UNCHANGED phoneVars, toPhone' \in {toPhone, <<>>} PROVE LineInv'
    BY <2>s DEF LineInv, Line, phoneVars
  <2>l. ASSUME UNCHANGED phoneVars, lpc' # "none" PROVE LineInv'
    BY <2>i, <2>l DEF LineInv, Line, phoneVars
  <2>g. ASSUME ppc' = "idle" PROVE LineInv'
    BY <2>g DEF LineInv, Line
  <2>1. CASE AnswerHello \/ AcceptCode \/ SavePairing \/ PairingSaved \/ AcceptRepair
    BY <2>1, <2>l DEF AnswerHello, AcceptCode, SavePairing, PairingSaved, AcceptRepair
  <2>2. CASE Refuse \/ GrantSession \/ OpenSession
    BY <2>2, <2>l DEF Refuse, GrantSession, OpenSession
  <2>3. CASE LaptopEnds \/ LaptopDrops \/ LaptopCrashes \/ LaptopStarts
    BY <2>3, <2>s DEF LaptopEnds, LaptopDrops, LaptopCrashes, LaptopStarts
  <2>4. CASE Connect
    BY <2>4 DEF Connect, LineInv, Line
  <2>5. CASE OfferKey
    <3>1. Head(toPhone) \in LaptopMessages
      BY <2>5, ReadType DEF OfferKey, PhoneReads, TypeInv, TypeOK
    <3>2. pkey' \in Keys
      BY <2>5, <3>1, AckRead DEF OfferKey, PhoneReads, SavedKey, TypeInv, TypeOK
    <3>3. toPhone' = <<>>
      BY <2>5, QueueFacts DEF OfferKey, PhoneReads, LineInv, Line
    <3>4. QED
      BY <2>5, <3>2, <3>3 DEF OfferKey, LineInv, Line
  <2>6. CASE AskCode
    <3>1. toPhone' = <<>>
      BY <2>6, QueueFacts DEF AskCode, PhoneReads, LineInv, Line
    <3>2. QED
      BY <2>6, <3>1 DEF AskCode, LineInv, Line
  <2>7. CASE KeyRefused \/ CodeRefused
    <3>1. toPhone # <<PairOk(pkey), Capabilities>>
      BY <2>7, MessageFacts, QueueFacts DEF KeyRefused, CodeRefused, PhoneReads
    <3>2. toPhone = <<PairFail>>
      BY <2>7, <3>1 DEF KeyRefused, CodeRefused, PhoneReads, LineInv, Line
    <3>3. toPhone' = <<>>
      BY <2>7, <3>2, PhoneReadsOne DEF KeyRefused, CodeRefused
    <3>4. ppc' \in {"prompt", "idle"}
      BY <2>7 DEF KeyRefused, CodeRefused, HangUp
    <3>5. QED
      BY <3>3, <3>4 DEF LineInv, Line
  <2>8. CASE Accepted
    <3>1. toPhone # <<PairFail>>
      BY <2>8, MessageFacts, QueueFacts DEF Accepted, PhoneReads
    <3>2. toPhone = <<PairOk(pkey), Capabilities>>
      BY <2>8, <3>1 DEF Accepted, PhoneReads, LineInv, Line
    <3>3. toPhone' = <<Capabilities>>
      BY <2>8, <3>2, QueueFacts DEF Accepted, PhoneReads
    <3>4. QED
      BY <2>8, <3>3 DEF Accepted, LineInv, Line
  <2>9. CASE AnswerCapabilities
    <3>1. toPhone' = <<>>
      BY <2>9, QueueFacts DEF AnswerCapabilities, PhoneReads, LineInv, Line
    <3>2. QED
      BY <2>9, <3>1 DEF AnswerCapabilities, LineInv, Line
  <2>10. CASE SaveKey
    BY <2>10 DEF SaveKey, LineInv, Line
  <2>11. CASE EndOfStream \/ PhoneLeaves
    BY <2>11, <2>g DEF EndOfStream, PhoneLeaves, HangUp
  <2>12. ASSUME NEW c \in Codes, TypeCode(c) PROVE LineInv'
    BY <2>12, KeyMade DEF TypeCode, LineInv, Line, TypeInv, TypeOK
  <2>13. ASSUME NEW i \in Ids, PhoneForgets(i) PROVE LineInv'
    BY <2>13 DEF PhoneForgets, LineInv, Line
  <2>14. CASE ShowCode \/ ForgetPhone \/ CodeExpires \/ ClearSession \/ Saving
    BY <2>14, <2>s DEF ShowCode, ForgetPhone, CodeExpires, ClearSession, Saving
  <2>15. CASE UNCHANGED vars
    BY <2>15, <2>s DEF vars
  <2>16. QED
    BY <2>1, <2>2, <2>3, <2>4, <2>5, <2>6, <2>7, <2>8, <2>9, <2>10, <2>11, <2>12, <2>13, <2>14, <2>15
       DEF Next, Laptop, PhoneSide, Users, Fault
<1>3. QED
  BY <1>1, <1>2, TypeKept, PhaseKept, LineInStep, PTL DEF Spec

\* There is an offer exactly while the phone has a PAIR_OK to read.
Offered  == ppc \in {"repairing", "coding"} /\ toPhone = <<PairOk(pkey), Capabilities>>
OfferInv == Offer = IF Offered THEN pkey ELSE NoKey

\* The refinement's offer is the key of the PAIR_OK under way.
LEMMA OfferIs == TypeOK /\ LineInv => OfferInv
<1> SUFFICES ASSUME TypeOK, LineInv PROVE OfferInv
  OBVIOUS
<1>1. ASSUME Offered PROVE Offers = {pkey}
  <2>1. DOMAIN toPhone = {1, 2} /\ toPhone[1] = PairOk(pkey) /\ toPhone[2] = Capabilities
    BY <1>1 DEF Offered
  <2>2. \A k : (PairOk(k) = PairOk(pkey) <=> k = pkey) /\ Capabilities # PairOk(k)
    BY MessageFacts
  <2>3. pkey \in Keys
    BY <1>1 DEF Offered, LineInv
  <2>4. QED
    BY <2>1, <2>2, <2>3 DEF Offers
<1>2. ASSUME ~Offered, ppc # "idle" PROVE Offers = {}
  <2>1. \A k : PairFail # PairOk(k) /\ Capabilities # PairOk(k) /\ \A i, b : HelloAck(i, b) # PairOk(k)
    BY MessageFacts
  <2>2. ASSUME NEW n \in DOMAIN toPhone, NEW k PROVE toPhone[n] # PairOk(k)
    <3>1. CASE toPhone = <<>>
      BY <3>1, <2>2
    <3>2. CASE \E x : toPhone = <<x>> /\ x # PairOk(k)
      BY <3>2, <2>2
    <3>3. ppc \in PhoneSteps
      BY DEF TypeOK
    <3>4. QED
      BY <1>2, <2>1, <3>1, <3>2, <3>3 DEF Offered, LineInv, Line, PhoneSteps
  <2>3. QED
    BY <2>2 DEF Offers
<1>3. QED
  BY <1>1, <1>2 DEF OfferInv, Offer, Offered, PhoneGone

\* None while the laptop is still to be convinced, nor once it has opened the session.
Early == lpc \notin {"none", "granted"} => ~Offered

\* No PAIR_OK is under way outside the grant.
LEMMA EarlyHolds == PhaseInv => Early
BY DEF PhaseInv, Phase, AtHello, AtRepair, AtPrompt, AtCode, AtGrant, Quiet, Asked, Told, Early, Offered

\* No grant reaches the phone but the one of its own connection, it uses and remembers
\* no other key, and the laptop grants nothing over its head.
THEOREM ImplementsPairingSpec == Spec => ImplementsPairing
<1>1. Init => P!Init
  BY DEF Init, P!Init, Granted, Offer, Adopted, LaptopInSession, PhoneInSession, PhoneGone
<1>2. /\ TypeInv /\ TypeInv' /\ PhaseInv /\ PhaseInv' /\ LineInv /\ LineInv' /\ OfferInv /\ OfferInv'
      /\ Early /\ Early' /\ [Next]_vars
      => [P!Next]_P!vars
  <2> SUFFICES ASSUME TypeInv, TypeInv', PhaseInv, PhaseInv', LineInv, LineInv', OfferInv, OfferInv',
                      Early, Early', [Next]_vars
               PROVE  [P!Next]_P!vars
    OBVIOUS
  <2> DEFINE Same == UNCHANGED <<Granted, Offer, Adopted, keys>>
  <2>t. /\ pkey \in Keys \cup {NoKey} /\ NoKey \notin Keys /\ ack \in Ids \cup {0}
        /\ ppc \notin {"idle", "hello"} => ack \in Ids
    BY ConfigAssumption DEF TypeInv, TypeOK
  <2>s. ASSUME Same PROVE [P!Next]_P!vars
    BY <2>s DEF P!vars
  <2>o. ASSUME UNCHANGED <<ppc, pkey, toPhone>> PROVE UNCHANGED <<Offer, Adopted>>
    BY <2>o DEF OfferInv, Offered, Adopted, PhoneInSession
  <2>d. ASSUME UNCHANGED laptopVars PROVE Granted' = Granted
    BY <2>d DEF Granted, LaptopInSession, laptopVars
  <2>r. ASSUME lpc \notin {"none", "granted", "streaming", "revoked"},
               lpc' \notin {"none", "granted", "streaming", "revoked"}, UNCHANGED phoneVars
        PROVE  [P!Next]_P!vars
    BY <2>r, <2>s DEF Granted, LaptopInSession, OfferInv, Early, Adopted, PhoneInSession, phoneVars
  <2>w. ASSUME UNCHANGED phoneVars, UNCHANGED <<toPhone, lkey>>,
               lpc' = lpc \/ (lpc \in {"granted", "streaming"} /\ lpc' \in {"streaming", "revoked"})
        PROVE  [P!Next]_P!vars
    <3>1. Granted' = Granted
      BY <2>w DEF Granted, LaptopInSession
    <3>2. QED
      BY <2>w, <2>o, <2>s, <3>1 DEF phoneVars
  <2>e. ASSUME lpc' = "none", UNCHANGED phoneVars, toPhone' \in {toPhone, <<>>}
        PROVE  [P!Next]_P!vars
    <3>1. P!LaptopEnds
      BY <2>e DEF P!LaptopEnds, Granted, LaptopInSession, OfferInv, Offered, Adopted, PhoneInSession, phoneVars
    <3>2. QED
      BY <3>1 DEF P!Next
  <2>p. ASSUME ppc' = "idle", UNCHANGED keys, UNCHANGED laptopVars PROVE [P!Next]_P!vars
    <3>1. P!PhoneEnds
      BY <2>p DEF P!PhoneEnds, Granted, LaptopInSession, OfferInv, Offered, Adopted, PhoneInSession, laptopVars
    <3>2. QED
      BY <3>1 DEF P!Next
  <2>1. CASE AnswerHello \/ AcceptCode \/ SavePairing \/ PairingSaved \/ AcceptRepair \/ Refuse
    BY <2>1, <2>r DEF AnswerHello, AcceptCode, SavePairing, PairingSaved, AcceptRepair, Refuse
  <2>2. CASE GrantSession
    <3>1. lkey \in Keys
      BY <2>2 DEF GrantSession, TypeInv, GrantSteps
    <3>2. Granted = NoKey /\ Granted' = lkey
      BY <2>2 DEF GrantSession, Granted, LaptopInSession
    <3>3. Adopted = NoKey /\ Adopted' = NoKey
      BY <2>2 DEF GrantSession, Adopted, PhoneInSession, phoneVars,
                  PhaseInv, Phase, AtHello, AtRepair, AtPrompt, AtCode, AtGrant
    <3>4. Offer' \in {lkey, NoKey}
      BY <2>2 DEF GrantSession, OfferInv, Offered, phoneVars,
                  PhaseInv, Phase, AtHello, AtRepair, AtPrompt, AtCode, AtGrant
    <3>5. P!Grant(lkey)
      BY <2>2, <3>2, <3>3, <3>4 DEF P!Grant, GrantSession, phoneVars
    <3>6. QED
      BY <3>1, <3>5 DEF P!Next
  <2>3. CASE OpenSession
    BY <2>3, <2>w DEF OpenSession
  <2>4. CASE LaptopEnds \/ LaptopDrops \/ LaptopCrashes
    BY <2>4, <2>e DEF LaptopEnds, LaptopDrops, LaptopCrashes, CloseHandler
  <2>5. CASE Connect
    BY <2>5, <2>s, <2>t DEF Connect, PhoneGone, LaptopGone, Granted, LaptopInSession, OfferInv, Offered,
                       Adopted, PhoneInSession
  <2>6. CASE OfferKey \/ AskCode
    <3>1. ppc = "hello" /\ ppc' \in {"repairing", "prompt"} /\ UNCHANGED <<keys, laptopVars>>
      BY <2>6 DEF OfferKey, AskCode
    <3>2. ~Offered'
      <4>1. PICK m : toPhone = <<m>>
        BY <2>6 DEF OfferKey, AskCode, PhoneReads, LineInv, Line
      <4>2. toPhone' = <<>>
        BY <2>6, <4>1, PhoneReadsOne DEF OfferKey, AskCode
      <4>3. QED
        BY <4>2 DEF Offered
    <3>3. QED
      BY <3>1, <3>2, <2>d, <2>s DEF OfferInv, Offered, Adopted, PhoneInSession
  <2>7. CASE KeyRefused \/ CodeRefused
    <3>1. ~Offered
      BY <2>7, MessageFacts, QueueFacts DEF KeyRefused, CodeRefused, PhoneReads, Offered
    <3>2. ppc' \in {"prompt", "idle"} /\ ppc \in {"repairing", "coding"} /\ UNCHANGED laptopVars
      BY <2>7 DEF KeyRefused, CodeRefused, HangUp
    <3>3. UNCHANGED <<Granted, Offer, Adopted>>
      BY <3>1, <3>2, <2>d DEF OfferInv, Offered, Adopted, PhoneInSession
    <3>4. CASE KeyRefused
      <4>1. P!Discard(ack) /\ ack \in Ids
        BY <3>2, <3>3, <3>4, <2>t DEF P!Discard, KeyRefused
      <4>2. QED
        BY <4>1 DEF P!Next
    <3>5. CASE CodeRefused
      BY <3>3, <3>5, <2>s DEF CodeRefused
    <3>6. QED
      BY <2>7, <3>4, <3>5
  <2>8. CASE Accepted
    <3>1. toPhone # <<PairFail>>
      BY <2>8, MessageFacts, QueueFacts DEF Accepted, PhoneReads
    <3>2. Offered
      BY <2>8, <3>1 DEF Accepted, PhoneReads, LineInv, Line, Offered
    <3>3. pkey \in Keys /\ Offer = pkey /\ Offer' = NoKey /\ Adopted' = pkey
      BY <2>8, <3>2 DEF Accepted, OfferInv, Offered, LineInv, Adopted, PhoneInSession
    <3>4. P!Adopt
      BY <2>8, <3>3, <2>d, <2>t DEF Accepted, P!Adopt
    <3>5. QED
      BY <3>4 DEF P!Next
  <2>9. CASE AnswerCapabilities
    BY <2>9, <2>d, <2>s DEF AnswerCapabilities, OfferInv, Offered, Adopted, PhoneInSession
  <2>10. CASE SaveKey
    <3>1. Adopted = pkey /\ pkey \in Keys /\ ack \in Ids
      BY <2>10, <2>t DEF SaveKey, Adopted, PhoneInSession, LineInv
    <3>2. UNCHANGED <<Granted, Offer, Adopted>>
      BY <2>10, <2>d DEF SaveKey, OfferInv, Offered, Adopted, PhoneInSession
    <3>3. P!Remember(ack)
      BY <2>10, <2>t, <3>1, <3>2 DEF SaveKey, P!Remember
    <3>4. QED
      BY <3>1, <3>3 DEF P!Next
  <2>11. CASE EndOfStream \/ PhoneLeaves
    BY <2>11, <2>p DEF EndOfStream, PhoneLeaves, HangUp
  <2>12. ASSUME NEW c \in Codes, TypeCode(c) PROVE [P!Next]_P!vars
    <3>1. toPhone' = <<>>
      BY <2>12 DEF TypeCode, LineInv, Line
    <3>2. QED
      BY <2>12, <3>1, <2>d, <2>s DEF TypeCode, OfferInv, Offered, Adopted, PhoneInSession
  <2>13. ASSUME NEW i \in Ids, PhoneForgets(i) PROVE [P!Next]_P!vars
    <3>1. P!Discard(i)
      BY <2>13, <2>d, <2>o DEF PhoneForgets, P!Discard
    <3>2. QED
      BY <3>1 DEF P!Next
  <2>14. CASE ShowCode \/ ForgetPhone \/ CodeExpires \/ ClearSession \/ Saving \/ LaptopStarts
    BY <2>14, <2>w DEF ShowCode, ForgetPhone, CodeExpires, ClearSession, Saving, LaptopStarts, laptopVars
  <2>15. CASE UNCHANGED vars
    BY <2>15, <2>w DEF vars, laptopVars
  <2>16. QED
    BY <2>1, <2>2, <2>3, <2>4, <2>5, <2>6, <2>7, <2>8, <2>9, <2>10, <2>11, <2>12, <2>13, <2>14, <2>15
       DEF Next, Laptop, PhoneSide, Users, Fault
<1>3. QED
  BY <1>1, <1>2, TypeKept, PhaseKept, LineKept, TypeCorrect, OfferIs, EarlyHolds, PTL DEF Spec, ImplementsPairing, P!Spec

\* What Pairing promises of any handshake that implements it: two keys in use are one.
THEOREM PairingAgrees == P!Spec => []P!Agreement
<1> DEFINE OneOffer == Granted # NoKey /\ Offer # NoKey => Offer = Granted
           Inv == OneOffer /\ P!Agreement
<1>1. P!Init => Inv
  BY DEF P!Init, P!Agreement
<1>2. Inv /\ [P!Next]_P!vars => Inv'
  <2> SUFFICES ASSUME Inv, [P!Next]_P!vars PROVE Inv'
    OBVIOUS
  <2> USE DEF P!Agreement
  <2>1. ASSUME NEW k \in Keys, P!Grant(k) PROVE Inv'
    BY <2>1 DEF P!Grant
  <2>2. CASE P!Adopt
    BY <2>2 DEF P!Adopt
  <2>3. ASSUME NEW i \in Ids, P!Remember(i) \/ P!Discard(i) PROVE Inv'
    BY <2>3 DEF P!Remember, P!Discard
  <2>4. CASE P!LaptopEnds
    BY <2>4 DEF P!LaptopEnds
  <2>5. CASE P!PhoneEnds
    BY <2>5 DEF P!PhoneEnds
  <2>6. CASE UNCHANGED P!vars
    BY <2>6 DEF P!vars
  <2>7. QED
    BY <2>1, <2>2, <2>3, <2>4, <2>5, <2>6 DEF P!Next
<1>3. QED
  BY <1>1, <1>2, PTL DEF P!Spec
=============================================================================
