---------------------------- MODULE ConfigStore ----------------------------
(***************************************************************************)
(* The laptop's configuration (config.rs): its own device id and the keys  *)
(* of the phones it has paired with, in memory behind a mutex and in one   *)
(* file that every save writes in place.                                   *)
(*                                                                         *)
(* A save creates the directory and serialises, truncates the file, writes *)
(* it: the process may die, or a call fail, between any two of these, and  *)
(* a file that was cut short either does not parse or parses without the   *)
(* phones that come last.  Whoever saves holds the mutex until it is done. *)
(* The settings saved along with the pairings are left out.                *)
(***************************************************************************)
EXTENDS Integers, FiniteSets, Crypto

CONSTANTS
  Phones,  \* device ids of phones
  Codes,   \* pairing codes
  MaxIds,  \* bound: device ids this laptop may ever give itself
  NoKey,   \* no entry
  NoConfig \* nothing being saved

Ids  == 1..MaxIds
Keys == {DeriveSessionKey(c, p, i) : c \in Codes, p \in Phones, i \in Ids}

Configs == [id : Ids, keys : [Phones -> Keys \cup {NoKey}]]

ASSUME ConfigAssumption ==
  /\ MaxIds \in Nat \ {0}
  /\ NoKey \notin Keys
  /\ NoConfig \notin Configs

\* The file: absent, written to its end, or cut short.
Missing  == [kind |-> "missing"]
Whole(c) == [kind |-> "whole", config |-> c]
Cut(c)   == [kind |-> "cut", config |-> c]
Files    == {Missing} \cup [kind : {"whole", "cut"}, config : Configs]

VARIABLES
  up,      \* is the program running?
  config,  \* in memory (while it is down: what it was)
  file,
  writing, \* what the holder of the mutex is saving, or NoConfig
  unsaved, \* what is not in the file: "none", a "change" to be saved, or a save that "failed"
  minted   \* device ids made so far

configVars == <<up, config, file, writing, unsaved, minted>>

Default(i) == [id |-> i, keys |-> [p \in Phones |-> NoKey]]

\* main on its first run: there is no file, and the default is about to be saved.
ConfigInit ==
  /\ up = TRUE
  /\ config = Default(1)
  /\ file = Missing
  /\ writing = Default(1)
  /\ unsaved = "change"
  /\ minted = 1

LockFree == up /\ writing = NoConfig

-----------------------------------------------------------------------------
(* Config::save_to *)

\* create_dir_all and to_string_pretty; c is the configuration under the lock.
BeginSave(c) == writing' = c

\* fs::write opens the file, which empties it.
Truncate ==
  /\ writing # NoConfig
  /\ file # Cut(writing)
  /\ file' = Cut(writing)
  /\ UNCHANGED <<up, config, writing, unsaved, minted>>

Saved ==
  /\ writing # NoConfig /\ file = Cut(writing)
  /\ file' = Whole(writing)
  /\ writing' = NoConfig
  /\ unsaved' = "none"
  /\ UNCHANGED <<up, config, minted>>

\* Any of its calls fails; all callers log the error and go on.
SaveFails ==
  /\ writing # NoConfig
  /\ writing' = NoConfig
  /\ unsaved' = "failed"
  /\ UNCHANGED <<up, config, file, minted>>

SaveEnds == Saved \/ SaveFails

-----------------------------------------------------------------------------
(* Changes of the configuration, by whoever has the mutex *)

WithKey(c, p, k) == [c EXCEPT !.keys[p] = k]

\* remember_device; its caller saves later, under a lock of its own.
RememberDevice(p, k) ==
  /\ LockFree
  /\ config' = WithKey(config, p, k)
  /\ unsaved' = "change"
  /\ UNCHANGED <<up, file, writing, minted>>

SaveRemembered ==
  /\ LockFree
  /\ BeginSave(config)
  /\ UNCHANGED <<up, config, file, unsaved, minted>>

\* Mutant: the configuration is saved before the phone is taken out of it.
SaveThenForget(p) ==
  /\ LockFree
  /\ config.keys[p] # NoKey
  /\ config' = WithKey(config, p, NoKey)
  /\ unsaved' = "change"
  /\ BeginSave(config)
  /\ UNCHANGED <<up, file, minted>>

\* Settings > paired phones > Forget: changed and saved under one lock.
ForgetDevice(p) ==
  /\ LockFree
  /\ config.keys[p] # NoKey
  /\ config' = WithKey(config, p, NoKey)
  /\ unsaved' = "change"
  /\ BeginSave(config')
  /\ UNCHANGED <<up, file, minted>>

-----------------------------------------------------------------------------
(* main: start, and the end of the process *)

\* Bound: the next start may have to mint an id.
MintLeft == minted < MaxIds

\* The process is killed, or the window is closed: main returns and waits for nobody.
Crash ==
  /\ up
  /\ file.kind = "whole" \/ MintLeft
  /\ up' = FALSE
  /\ writing' = NoConfig
  /\ UNCHANGED <<config, file, unsaved, minted>>

\* What a file that was cut short may still say: the tables of phones come last.
PartsOf(c) ==
  {d \in Configs : d.id = c.id /\ \A p \in Phones : d.keys[p] \in {c.keys[p], NoKey}}

\* main saves what it has loaded, whatever it was.
StartWith(c) ==
  /\ ~up
  /\ up' = TRUE
  /\ config' = c
  /\ unsaved' = IF file = Whole(c) THEN "none" ELSE "change"
  /\ BeginSave(c)
  /\ UNCHANGED file

\* load_from returns what the file says.
StartLoaded ==
  /\ file.kind # "missing"
  /\ \E c \in IF file.kind = "whole" THEN {file.config} ELSE PartsOf(file.config) : StartWith(c)
  /\ UNCHANGED minted

\* There is no file, or it does not parse: the default, with a new device id.
StartFresh ==
  /\ file.kind # "whole"
  /\ MintLeft
  /\ StartWith(Default(minted + 1))
  /\ minted' = minted + 1

\* The file is there and cannot be read, and is replaced all the same.
StartUnreadable ==
  /\ file.kind = "whole"
  /\ MintLeft
  /\ StartWith(Default(minted + 1))
  /\ minted' = minted + 1

Start == StartLoaded \/ StartFresh \/ StartUnreadable

-----------------------------------------------------------------------------
ConfigTypeOK ==
  /\ up \in BOOLEAN
  /\ config \in Configs
  /\ file \in Files
  /\ writing \in Configs \cup {NoConfig}
  /\ unsaved \in {"none", "change", "failed"}
  /\ minted \in Ids
=============================================================================
