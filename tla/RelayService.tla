---------------------------- MODULE RelayService ----------------------------
(***************************************************************************)
(* The phone's service (service/RelayService.kt): who starts, ends and     *)
(* restarts a session, and what the screens are told meanwhile             *)
(* (state/RelayState.kt).                                                  *)
(*                                                                         *)
(* A session is a coroutine.  It is started by a click, by discovery or by *)
(* the reconnect timer, and torn down by cancelActiveSession, which is     *)
(* called by other coroutines: a caller for each intent that does so, and  *)
(* one for a change of the network.  Fields are shared without a lock; a   *)
(* step here is what one thread does between two suspension points or two  *)
(* fields that another thread may touch in between; the prompt's status,   *)
(* target and code are set, and cleared, in one.                           *)
(*                                                                         *)
(* The channel to the laptop answers, refuses or fails; settings, output   *)
(* devices, notifications and locks are left out.                          *)
(***************************************************************************)
EXTENDS Integers, FiniteSets

CONSTANTS
  Laptops,
  None,
  Jobs,       \* bounds how many sessions exist at once
  HelpAfter,  \* ATTEMPTS_BEFORE_HELP
  CodeTries   \* MAX_PAIRING_CODE_ATTEMPTS

ASSUME RelayAssumption ==
  /\ None \notin Laptops \cup Jobs
  /\ HelpAfter \in Nat /\ CodeTries \in Nat \ {0}

\* Those who call cancelActiveSession.
Callers == {"connect", "dismiss", "forget", "stop", "network"}

VARIABLES
  running,           \* serviceScope is active
  lastTarget,
  suppress,          \* suppressReconnect
  connectJob,
  pairingCode,       \* pendingPairingCode: the job that waits for it
  \* the session coroutines
  pc, laptop, cancelled, tries,
  \* reconnectJob, and reconnectAttempt up to where it makes no difference
  retry, retryTarget, attempt,
  \* the coroutines that call cancelActiveSession, the job each joins, what is to be connected
  caller, joins, wish,
  \* RelayState: status and pendingPairingTarget
  status, promptFor,
  \* PairedDeviceStore
  saved, lastLaptop,
  browsing           \* discovery runs, on the network there is

fields  == <<lastTarget, suppress, connectJob, pairingCode>>
jobs    == <<pc, laptop, cancelled, tries>>
backoff == <<retry, retryTarget, attempt>>
calls   == <<caller, joins, wish>>
screen  == <<status, promptFor>>
store   == <<saved, lastLaptop>>
vars    == <<running, fields, jobs, backoff, calls, screen, store, browsing>>

Steps == {"free", "launched", "handshake", "repairing", "prompting", "answering", "paired",
          "stored", "streaming", "ended", "leaving", "scheduling", "draining"}

\* Blocked in a read of the socket, which cancellation does not interrupt.
Reading == {"handshake", "repairing", "answering", "streaming"}

Statuses == {"DISCOVERING", "CONNECTING", "PAIRING_CODE_REQUIRED", "STREAMING", "DISCONNECTED",
             "RECONNECTING", "NETWORK_CHANGED", "CONNECTION_TROUBLE", "STOPPED"}

\* The service has just been created.
Init ==
  /\ running = TRUE /\ browsing = TRUE
  /\ lastTarget = None /\ suppress = FALSE
  /\ connectJob = None /\ pairingCode = None
  /\ pc = [j \in Jobs |-> "free"] /\ laptop = [j \in Jobs |-> None]
  /\ cancelled = [j \in Jobs |-> FALSE] /\ tries = [j \in Jobs |-> 0]
  /\ retry = "none" /\ retryTarget = None /\ attempt = 0
  /\ caller = [x \in Callers |-> "idle"] /\ joins = [x \in Callers |-> None] /\ wish = None
  /\ status = "DISCOVERING" /\ promptFor = None
  /\ saved \in SUBSET Laptops
  /\ lastLaptop \in saved \cup {None}

-----------------------------------------------------------------------------
(* Starting a session *)

\* connectJob?.isActive
ConnectJobActive == \E j \in Jobs : j = connectJob /\ pc[j] # "free" /\ ~cancelled[j]

\* A job nobody waits for any more stands for a new one.
Fresh(j) == pc[j] = "free" /\ \A x \in Callers : joins[x] # j

Launch(j, l) ==
  /\ Fresh(j)
  /\ lastTarget' = l
  /\ connectJob' = j
  /\ pc' = [pc EXCEPT ![j] = "launched"]
  /\ laptop' = [laptop EXCEPT ![j] = l]
  /\ cancelled' = [cancelled EXCEPT ![j] = FALSE]
  /\ tries' = [tries EXCEPT ![j] = 0]

\* Mutant: any job there has ever been is in the way.
ConnectIfFirst(l) ==
  IF connectJob # None
    THEN UNCHANGED <<lastTarget, connectJob, jobs>>
    ELSE \E j \in Jobs : Launch(j, l)

\* In a cancelled scope nothing is launched.
ConnectTo(l) ==
  IF ~running \/ ConnectJobActive
    THEN UNCHANGED <<lastTarget, connectJob, jobs>>
    ELSE \E j \in Jobs : Launch(j, l)

\* The callback of discovery: the laptop of last time is there.
Discovered ==
  /\ running /\ browsing
  /\ lastLaptop # None
  /\ ~ConnectJobActive
  /\ ConnectTo(lastLaptop)
  /\ UNCHANGED <<running, browsing, suppress, pairingCode, backoff, calls, screen, store>>

\* attempt is only compared with HelpAfter and set back to 0.
RetryBegins ==
  /\ retry = "launched"
  /\ retry' = "waiting"
  /\ attempt' = IF attempt > HelpAfter THEN attempt ELSE attempt + 1
  /\ status' = IF attempt' > HelpAfter THEN "CONNECTION_TROUBLE" ELSE "RECONNECTING"
  /\ UNCHANGED <<running, browsing, fields, jobs, retryTarget, calls, promptFor, store>>

\* The back-off, of a second or more, outlasts the loops of the session that scheduled it.
RetryFires ==
  /\ retry = "waiting"
  /\ \A j \in Jobs : pc[j] # "draining"
  /\ retry' = "none" /\ retryTarget' = None
  /\ ConnectTo(retryTarget)
  /\ UNCHANGED <<running, browsing, suppress, pairingCode, attempt, calls, screen, store>>

CancelRetry == retry' = "none" /\ retryTarget' = None

-----------------------------------------------------------------------------
(* The session coroutine *)

Go(j, from, to) == pc[j] = from /\ pc' = [pc EXCEPT ![j] = to]

\* A finished job keeps nothing.
Finish(j) ==
  /\ pc' = [pc EXCEPT ![j] = "free"]
  /\ laptop' = [laptop EXCEPT ![j] = None]
  /\ cancelled' = [cancelled EXCEPT ![j] = FALSE]
  /\ tries' = [tries EXCEPT ![j] = 0]

\* Cancelled before it was dispatched, a coroutine runs none of its body.
Start(j) ==
  /\ pc[j] = "launched"
  /\ IF cancelled[j]
       THEN Finish(j) /\ UNCHANGED status
       ELSE /\ pc' = [pc EXCEPT ![j] = "handshake"]
            /\ status' = "CONNECTING"
            /\ UNCHANGED <<laptop, cancelled, tries>>
  /\ UNCHANGED <<running, browsing, fields, backoff, calls, promptFor, store>>

\* One round of pairInteractively, up to the wait for the code.
Prompt(j) ==
  /\ status' = "PAIRING_CODE_REQUIRED"
  /\ promptFor' = laptop[j]
  /\ pairingCode' = j

\* Repair needs a key at both ends.
Repair(j) ==
  /\ Go(j, "handshake", "repairing")
  /\ ~cancelled[j]
  /\ laptop[j] \in saved
  /\ UNCHANGED <<running, browsing, fields, laptop, cancelled, tries, backoff, calls, screen, store>>

AskCode(j) ==
  /\ Go(j, "handshake", "prompting")
  /\ ~cancelled[j]
  /\ Prompt(j)
  /\ UNCHANGED <<running, browsing, lastTarget, suppress, connectJob, laptop, cancelled,
                 tries, backoff, calls, store>>

Forgotten(l) ==
  /\ saved' = saved \ {l}
  /\ lastLaptop' = IF lastLaptop = l THEN None ELSE lastLaptop

\* The key is stale: it is discarded, and a code asked for on the same connection.
RepairRefused(j) ==
  /\ Go(j, "repairing", "prompting")
  /\ ~cancelled[j]
  /\ Forgotten(laptop[j])
  /\ Prompt(j)
  /\ UNCHANGED <<running, browsing, lastTarget, suppress, connectJob, laptop, cancelled,
                 tries, backoff, calls>>

\* The user's code completes the deferred that is pending now.
SubmitCode(j) ==
  /\ pairingCode = j
  /\ Go(j, "prompting", "answering")
  /\ ~cancelled[j]
  /\ tries' = [tries EXCEPT ![j] = @ + 1]
  /\ UNCHANGED <<running, browsing, fields, laptop, cancelled, backoff, calls, screen, store>>

\* Mutant: the last try is followed by another.
CodeRefusedOneMore(j) ==
  /\ pc[j] = "answering" /\ ~cancelled[j]
  /\ IF tries[j] <= CodeTries
       THEN pc' = [pc EXCEPT ![j] = "prompting"] /\ Prompt(j)
       ELSE pc' = [pc EXCEPT ![j] = "ended"] /\ UNCHANGED <<pairingCode, screen>>
  /\ UNCHANGED <<running, browsing, lastTarget, suppress, connectJob, laptop, cancelled, tries,
                 backoff, calls, store>>

CodeRefused(j) ==
  /\ pc[j] = "answering" /\ ~cancelled[j]
  /\ IF tries[j] < CodeTries
       THEN pc' = [pc EXCEPT ![j] = "prompting"] /\ Prompt(j)
       ELSE pc' = [pc EXCEPT ![j] = "ended"] /\ UNCHANGED <<pairingCode, screen>>
  /\ UNCHANGED <<running, browsing, lastTarget, suppress, connectJob, laptop, cancelled,
                 tries, backoff, calls, store>>

Accepted(j) ==
  /\ pc[j] \in {"repairing", "answering"} /\ ~cancelled[j]
  /\ pc' = [pc EXCEPT ![j] = "paired"]
  /\ UNCHANGED <<running, browsing, fields, laptop, cancelled, tries, backoff, calls, screen, store>>

\* Mutant: what is stored is the laptop the service is after by now.
StoreTarget(j) ==
  /\ Go(j, "paired", "stored")
  /\ pairingCode' = None /\ promptFor' = None
  /\ saved' = saved \cup {lastTarget} /\ lastLaptop' = lastTarget
  /\ UNCHANGED <<running, browsing, lastTarget, suppress, connectJob, laptop, cancelled,
                 tries, backoff, calls, status>>

\* No suspension point from here: a cancellation comes too late to keep this from happening.
Store(j) ==
  /\ Go(j, "paired", "stored")
  /\ pairingCode' = None /\ promptFor' = None
  /\ saved' = saved \cup {laptop[j]} /\ lastLaptop' = laptop[j]
  /\ UNCHANGED <<running, browsing, lastTarget, suppress, connectJob, laptop, cancelled,
                 tries, backoff, calls, status>>

\* A player could not be set up.
ConfigureFails(j) ==
  /\ Go(j, "stored", "ended")
  /\ UNCHANGED <<running, browsing, fields, laptop, cancelled, tries, backoff, calls, screen, store>>

Stream(j) ==
  /\ Go(j, "stored", "streaming")
  /\ status' = "STREAMING"
  /\ attempt' = 0
  /\ UNCHANGED <<running, browsing, fields, laptop, cancelled, tries, retry, retryTarget, calls,
                 promptFor, store>>

\* The connection fails or is closed; a cancellation is noticed when a read returns,
\* and by the wait for a code at once.
End(j) ==
  /\ pc[j] \in Reading \/ (pc[j] = "prompting" /\ cancelled[j])
  /\ pc' = [pc EXCEPT ![j] = "ended"]
  /\ UNCHANGED <<running, browsing, fields, laptop, cancelled, tries, backoff, calls, screen, store>>

\* Mutant: the prompt is only cleared where the pairing succeeds.
CleanUpNothing(j) ==
  /\ Go(j, "ended", "leaving")
  /\ UNCHANGED <<running, browsing, fields, laptop, cancelled, tries, backoff, calls, screen, store>>

\* The finally, which knows nothing of other sessions.
CleanUp(j) ==
  /\ Go(j, "ended", "leaving")
  /\ pairingCode' = None /\ promptFor' = None
  /\ UNCHANGED <<running, browsing, lastTarget, suppress, connectJob, laptop, cancelled, tries,
                 backoff, calls, status, store>>

Leave(j) ==
  /\ pc[j] = "leaving"
  /\ IF suppress
       THEN pc' = [pc EXCEPT ![j] = "draining"] /\ UNCHANGED status
       ELSE pc' = [pc EXCEPT ![j] = "scheduling"] /\ status' = "DISCONNECTED"
  /\ UNCHANGED <<running, browsing, fields, laptop, cancelled, tries, backoff, calls, promptFor,
                 store>>

\* Nothing is launched in a cancelled scope.
ScheduleReconnect(j) ==
  /\ Go(j, "scheduling", "draining")
  /\ IF lastTarget # None /\ running
       THEN retry' = "launched" /\ retryTarget' = lastTarget
       ELSE UNCHANGED <<retry, retryTarget>>
  /\ UNCHANGED <<running, browsing, fields, laptop, cancelled, tries, attempt, calls, screen,
                 store>>

\* The job is active until the two loops, its children, have ended.
LoopsEnd(j) ==
  /\ pc[j] = "draining"
  /\ Finish(j)
  /\ UNCHANGED <<running, browsing, fields, backoff, calls, screen, store>>

-----------------------------------------------------------------------------
(* cancelActiveSession *)

CallerGoes(x, from, to) == caller[x] = from /\ caller' = [caller EXCEPT ![x] = to]

\* Mutant: the job is joined, but not cancelled.
JoinOnly(x) ==
  /\ running /\ CallerGoes(x, "launched", "joining")
  /\ suppress' = TRUE
  /\ joins' = [joins EXCEPT ![x] = connectJob]
  /\ IF x = "network" THEN CancelRetry ELSE UNCHANGED <<retry, retryTarget>>
  /\ UNCHANGED <<running, browsing, lastTarget, connectJob, pairingCode, jobs, attempt, wish,
                 screen, store>>

\* The change of the network cancels the timer first.
CancelJob(x) ==
  /\ running /\ CallerGoes(x, "launched", "joining")
  /\ suppress' = TRUE
  /\ joins' = [joins EXCEPT ![x] = connectJob]
  /\ cancelled' = [j \in Jobs |-> cancelled[j] \/ (j = connectJob /\ pc[j] # "free")]
  /\ IF x = "network" THEN CancelRetry ELSE UNCHANGED <<retry, retryTarget>>
  /\ UNCHANGED <<running, browsing, lastTarget, connectJob, pairingCode, pc, laptop, tries,
                 attempt, wish, screen, store>>

\* Mutant: the reconnect stays suppressed.
JoinedSuppressing(x) ==
  /\ running /\ CallerGoes(x, "joining", "joined")
  /\ \A j \in Jobs : joins[x] = j => pc[j] = "free"
  /\ joins' = [joins EXCEPT ![x] = None]
  /\ connectJob' = None
  /\ UNCHANGED <<running, browsing, lastTarget, suppress, pairingCode, jobs, backoff, wish,
                 screen, store>>

Joined(x) ==
  /\ running /\ CallerGoes(x, "joining", "joined")
  /\ \A j \in Jobs : joins[x] = j => pc[j] = "free"
  /\ joins' = [joins EXCEPT ![x] = None]
  /\ connectJob' = None
  /\ suppress' = FALSE
  /\ UNCHANGED <<running, browsing, lastTarget, pairingCode, jobs, backoff, wish, screen,
                 store>>

\* In a cancelled scope a coroutine is not dispatched any more, nor resumed from a join: its
\* finally is all that is left.
Abandon(x) ==
  /\ ~running
  /\ caller[x] \in {"launched", "joining"}
  /\ caller' = [caller EXCEPT ![x] = "idle"]
  /\ joins' = [joins EXCEPT ![x] = None]
  /\ suppress' = IF caller[x] = "joining" THEN FALSE ELSE suppress
  /\ UNCHANGED <<running, browsing, lastTarget, connectJob, pairingCode, jobs, backoff, wish,
                 screen, store>>

Reconnect ==
  /\ CallerGoes("connect", "joined", "idle")
  /\ ConnectTo(wish)
  /\ wish' = None
  /\ UNCHANGED <<running, browsing, suppress, pairingCode, backoff, joins, screen, store>>

Dismissed ==
  /\ CallerGoes("dismiss", "joined", "idle")
  /\ UNCHANGED <<running, browsing, fields, jobs, backoff, joins, wish, screen, store>>

RestartAfterForget ==
  /\ CallerGoes("forget", "joined", "idle")
  /\ status' = "DISCOVERING"
  /\ browsing' = TRUE
  /\ UNCHANGED <<running, fields, jobs, backoff, joins, wish, promptFor, store>>

\* stopSelf: the system will call onDestroy.
Stopped ==
  /\ CallerGoes("stop", "joined", "stopping")
  /\ status' = "STOPPED" /\ promptFor' = None
  /\ UNCHANGED <<running, browsing, fields, jobs, backoff, joins, wish, store>>

\* Mutant: discovery is left as it is.
RestartDeaf ==
  /\ CallerGoes("network", "joined", "idle")
  /\ attempt' = 0
  /\ status' = "NETWORK_CHANGED"
  /\ UNCHANGED <<running, browsing, fields, jobs, retry, retryTarget, joins, wish, promptFor, store>>

RestartOnNetwork ==
  /\ CallerGoes("network", "joined", "idle")
  /\ attempt' = 0
  /\ status' = "NETWORK_CHANGED"
  /\ browsing' = TRUE
  /\ UNCHANGED <<running, fields, jobs, retry, retryTarget, joins, wish, promptFor, store>>

-----------------------------------------------------------------------------
(* Intents and callbacks *)

Calls(x) == running /\ CallerGoes(x, "idle", "launched")

ClickConnect(l) ==
  /\ Calls("connect")
  /\ wish' = l
  /\ CancelRetry
  /\ attempt' = 0
  /\ UNCHANGED <<running, browsing, fields, jobs, joins, screen, store>>

\* The sheet is on the screen as long as there is a target to pair with.
CancelPairing ==
  /\ promptFor # None
  /\ Calls("dismiss")
  /\ status' = "DISCOVERING"
  /\ UNCHANGED <<running, browsing, fields, jobs, backoff, joins, wish, promptFor, store>>

Forget(l) ==
  /\ running /\ l \in saved
  /\ Forgotten(l)
  /\ IF lastTarget = l
       THEN Calls("forget") /\ lastTarget' = None /\ CancelRetry /\ attempt' = 0
       ELSE UNCHANGED <<caller, lastTarget, backoff>>
  /\ UNCHANGED <<running, browsing, suppress, connectJob, pairingCode, jobs, joins, wish,
                 screen>>

ClickStop ==
  /\ Calls("stop")
  /\ suppress' = TRUE
  /\ CancelRetry
  /\ UNCHANGED <<running, browsing, lastTarget, connectJob, pairingCode, jobs, attempt, joins,
                 wish, screen, store>>

\* Discovery's sockets belong to the old network.  The debounce starts again, which cancels
\* a teardown that an earlier change has begun.
NetworkChanges ==
  /\ running
  /\ caller["network"] # "joined"
  /\ browsing' = FALSE
  /\ caller' = [caller EXCEPT !["network"] = "launched"]
  /\ joins' = [joins EXCEPT !["network"] = None]
  /\ suppress' = IF caller["network"] = "joining" THEN FALSE ELSE suppress
  /\ UNCHANGED <<running, lastTarget, connectJob, pairingCode, jobs, backoff, wish,
                 screen, store>>

\* onDestroy.
Destroy ==
  /\ running
  /\ CallerGoes("stop", "stopping", "idle")
  /\ running' = FALSE
  /\ suppress' = TRUE
  /\ browsing' = FALSE
  /\ cancelled' = [j \in Jobs |-> pc[j] # "free"]
  /\ CancelRetry
  /\ UNCHANGED <<lastTarget, connectJob, pairingCode, pc, laptop, tries, attempt,
                 joins, wish, screen, store>>

-----------------------------------------------------------------------------
Session(j) ==
  \/ Start(j) \/ Repair(j) \/ AskCode(j) \/ RepairRefused(j) \/ CodeRefused(j) \/ Accepted(j)
  \/ Store(j) \/ ConfigureFails(j) \/ Stream(j) \/ End(j) \/ CleanUp(j) \/ Leave(j)
  \/ ScheduleReconnect(j) \/ LoopsEnd(j)

Continue == Reconnect \/ Dismissed \/ RestartAfterForget \/ Stopped \/ RestartOnNetwork

\* What starts a session or a teardown.
Starts ==
  \/ \E l \in Laptops : ClickConnect(l) \/ Forget(l)
  \/ CancelPairing \/ ClickStop \/ Discovered \/ RetryFires

Work ==
  \/ \E j \in Jobs : Session(j) \/ SubmitCode(j)
  \/ \E x \in Callers : Joined(x) \/ Abandon(x)
  \/ Continue \/ RetryBegins \/ NetworkChanges \/ Destroy

Next == Starts \/ Work \/ \E x \in Callers : CancelJob(x)

Spec == Init /\ [][Next]_vars

(***************************************************************************)
(* The same service where no session and no teardown is started while      *)
(* another teardown is going on.  Nothing in the code sees to that: it is  *)
(* what the user and the network have to be like for the promises that     *)
(* CalmSpec is named in.                                                   *)
(***************************************************************************)

\* A change of the network waits for its debounce first.
Busy(x) ==
  IF x = "network" THEN caller[x] \in {"joining", "joined"} ELSE caller[x] # "idle"

\* No teardown is going on.
Quiet == (\A x \in Callers : ~Busy(x)) /\ \A j \in Jobs : ~cancelled[j]

CancelAlone(x) == CancelJob(x) /\ \A y \in Callers \ {x} : ~Busy(y)

CalmNext == (Quiet /\ Starts) \/ Work \/ \E x \in Callers : CancelAlone(x)

CalmSpec == Init /\ [][CalmNext]_vars

\* A read of the handshake has no timeout: nothing ends it but the laptop.
Unanswered(j) == pc[j] \in {"handshake", "repairing", "answering"}

\* An assumption on the network: discovery that looks for a laptop reports it.  The code
\* promises no such thing, as failures to start or to resolve are dropped without a word.
DiscoveryFinds == SF_vars(Quiet /\ Discovered)

(***************************************************************************)
(* Fairness.  Coroutines run and timers go off; but a laptop need not      *)
(* answer, a session may stream, and a prompt stay on the screen, for      *)
(* ever.  Strong fairness stands for a timer that is held back only while  *)
(* a teardown is going on.                                                 *)
(***************************************************************************)
CalmFairSpec ==
  /\ CalmSpec
  /\ \A j \in Jobs :
       WF_vars(~Unanswered(j) /\ (pc[j] = "streaming" => cancelled[j]) /\ Session(j))
  /\ WF_vars(Continue \/ \E x \in Callers : CancelAlone(x) \/ Joined(x) \/ Abandon(x))
  /\ WF_vars(RetryBegins) /\ SF_vars(Quiet /\ RetryFires)
  /\ WF_vars(Destroy)
  /\ DiscoveryFinds

-----------------------------------------------------------------------------
(* Properties *)

TypeOK ==
  /\ running \in BOOLEAN /\ browsing \in BOOLEAN /\ suppress \in BOOLEAN
  /\ lastTarget \in Laptops \cup {None} /\ wish \in Laptops \cup {None}
  /\ connectJob \in Jobs \cup {None} /\ pairingCode \in Jobs \cup {None}
  /\ pc \in [Jobs -> Steps] /\ laptop \in [Jobs -> Laptops \cup {None}]
  /\ cancelled \in [Jobs -> BOOLEAN] /\ tries \in [Jobs -> 0..CodeTries]
  /\ retry \in {"none", "launched", "waiting"} /\ retryTarget \in Laptops \cup {None}
  /\ attempt \in 0..(HelpAfter + 1)
  /\ caller \in [Callers -> {"idle", "launched", "joining", "joined", "stopping"}]
  /\ joins \in [Callers -> Jobs \cup {None}]
  /\ status \in Statuses /\ promptFor \in Laptops \cup {None}
  /\ saved \subseteq Laptops /\ lastLaptop \in Laptops \cup {None}

\* There is one session at a time, the one that is being cancelled included.
OneSession == \A i, j \in Jobs : pc[i] # "free" /\ pc[j] # "free" => i = j

\* "connectTo refuses to start while one is active": of those not cancelled there is one.
OneActive ==
  \A i, j \in Jobs : pc[i] # "free" /\ ~cancelled[i] /\ pc[j] # "free" /\ ~cancelled[j] => i = j

\* "The prompt would otherwise stay on screen forever with nothing behind it": whoever put it
\* there, and whatever other sessions do to it, behind a prompt there is a session for that
\* laptop, and behind the code that is waited for the session that waits.
PromptAttended ==
  LET Asking == {"prompting", "answering", "paired", "ended"}
  IN  /\ promptFor # None => \E j \in Jobs : laptop[j] = promptFor /\ pc[j] \in Asking
      /\ \A j \in Jobs : pairingCode = j => pc[j] \in Asking

\* A service that is destroyed starts nothing any more, and what it leaves running is cancelled.
OffMeansOff ==
  ~running => retry = "none" /\ \A j \in Jobs : pc[j] = "free" \/ cancelled[j]

\* "Here nothing is running until the user turns it back on".
StoppedMeansStopped == status = "STOPPED" => \A j \in Jobs : pc[j] = "free"

\* "Dropped, and waiting out the reconnect backoff before trying again", "Still retrying":
\* while the service runs there is a session, a timer or one who tears down and goes on from
\* there.
NeverStranded ==
  running /\ status \in {"CONNECTING", "DISCONNECTED", "RECONNECTING", "CONNECTION_TROUBLE"} =>
    \/ \E j \in Jobs : pc[j] # "free"
    \/ retry # "none"
    \/ \E x \in Callers : caller[x] # "idle"

\* A session that waits for a code has its prompt on the screen, and the code reaches it.
PromptShown ==
  \A j \in Jobs : pc[j] = "prompting" => pairingCode = j /\ promptFor = laptop[j]

\* "A stale status is exactly what made this feel broken": the last one is STOPPED, but for
\* a reconnect that was scheduled while Stop tore its session down and tells of itself later.
LastStatus == ~running => status \in {"STOPPED", "RECONNECTING", "CONNECTION_TROUBLE"}

\* What the screen says, or does not say, is true.
StatusTrue ==
  StoppedMeansStopped /\ NeverStranded /\ PromptShown /\ OffMeansOff /\ LastStatus

\* Discovery never goes after a laptop whose key is gone.
LastIsSaved == lastLaptop # None => lastLaptop \in saved

\* No laptop is silent for ever: each read of a handshake returns.
LaptopsAnswer == \A j \in Jobs : []<>~Unanswered(j)

\* "Stopping the relay sometimes did nothing": it ends the service, whether the session
\* streams, waits for a code or is about to be tried again; but in the midst of a handshake
\* only if the laptop answers.
StopWorks == LaptopsAnswer => (caller["stop"] = "launched" ~> ~running)

Trying == \E j \in Jobs : pc[j] = "launched"

NetworkSettles == []<>(caller["network"] = "idle")

\* "A session dropped on its own and a reconnect is already scheduled": there is another
\* attempt, unless its laptop is forgotten, the network has changed or the user has stopped.
DroppedRetried ==
  NetworkSettles /\ LaptopsAnswer =>
    (status = "DISCONNECTED"
       ~> Trying \/ lastTarget = None \/ status = "NETWORK_CHANGED" \/ ~running)

\* "A new network deserves an immediate attempt": discovery runs again on the new network, and
\* nothing keeps it from the laptop of last time, which DiscoveryFinds has it find.
NetworkRetried ==
  NetworkSettles /\ LaptopsAnswer =>
    (status = "NETWORK_CHANGED" ~> Trying \/ lastLaptop = None \/ ~running)

-----------------------------------------------------------------------------
(* The service as an implementation of PhoneSession *)

\* Sessions may overlap, but none begins once the service is off, each asks for codes and
\* stores keys only of its own laptop and takes its prompt along, and discovery is sent after
\* no laptop whose key is gone.
Shared == INSTANCE PhoneSession WITH Exclusive <- FALSE,
  on <- running, peer <- laptop, prompt <- promptFor, keys <- saved, last <- lastLaptop

\* In a calm service they do not overlap: the coroutines, their cancellations and joins are
\* one session at a time, which begins only when the last has gone and is over before the
\* service is.
PS == INSTANCE PhoneSession WITH Exclusive <- TRUE,
  on <- running, peer <- laptop, prompt <- promptFor, keys <- saved, last <- lastLaptop

ImplementsSession == PS!Spec
=============================================================================
