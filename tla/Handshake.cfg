SPECIFICATION FairSpec
CONSTANTS
  p1 = p1  c1 = c1  c2 = c2
  NoKey = NoKey  NoCode = NoCode  NoConfig = NoConfig
  Phones <- MCPhones
  Phone = p1
  Codes <- MCCodes
  MaxIds = 2
  MaxPairAttempts = 3
  MaxCodeAttempts = 2
INVARIANTS TypeOK KeysAgree LoopsMeet
PROPERTIES NoNeedlessPrompt PairingsSurvive ImplementsPairing HealsOrAsks
