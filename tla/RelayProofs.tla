---------------------------- MODULE RelayProofs ----------------------------
(* Theorems about the phone's service, for every set of laptops and of        *)
(* sessions that could exist at once.                                         *)
EXTENDS RelayService, TLAPS

-----------------------------------------------------------------------------
(* Type correctness.  The count of codes stays in its range because a prompt  *)
(* is only shown below the limit, and what is stored as the last laptop is    *)
(* one because a session that is there has a laptop.                          *)

JobsOK ==
  \A j \in Jobs :
    /\ IF pc[j] = "free" THEN laptop[j] = None ELSE laptop[j] \in Laptops
    /\ pc[j] \in {"launched", "handshake", "repairing"} => tries[j] = 0
    /\ pc[j] = "prompting" => tries[j] < CodeTries

TypeInv ==
  /\ TypeOK
  /\ JobsOK
  /\ retry # "none" => retryTarget \in Laptops
  /\ caller["connect"] # "idle" => wish \in Laptops

\* A connection is started to a laptop, or nothing happens.
LEMMA ConnectToTyped ==
  ASSUME TypeInv, NEW l \in Laptops, ConnectTo(l)
  PROVE  /\ lastTarget' \in Laptops \cup {None}
         /\ connectJob' \in Jobs \cup {None}
         /\ pc' \in [Jobs -> Steps] /\ laptop' \in [Jobs -> Laptops \cup {None}]
         /\ cancelled' \in [Jobs -> BOOLEAN] /\ tries' \in [Jobs -> 0..CodeTries]
         /\ JobsOK'
<1>1. CASE ~running \/ ConnectJobActive
  BY <1>1 DEF ConnectTo, jobs, TypeInv, TypeOK, JobsOK
<1>2. CASE ~(~running \/ ConnectJobActive)
  <2>1. PICK j \in Jobs : Launch(j, l)
    BY <1>2 DEF ConnectTo
  <2>2. 0 \in 0..CodeTries
    BY RelayAssumption
  <2>3. QED
    BY <2>1, <2>2 DEF Launch, TypeInv, TypeOK, JobsOK, Steps
<1>3. QED
  BY <1>1, <1>2

\* What a finished session leaves is typed.
LEMMA FinishTyped ==
  ASSUME TypeInv, NEW j \in Jobs, Finish(j)
  PROVE  /\ pc' \in [Jobs -> Steps] /\ laptop' \in [Jobs -> Laptops \cup {None}]
         /\ cancelled' \in [Jobs -> BOOLEAN] /\ tries' \in [Jobs -> 0..CodeTries]
         /\ JobsOK'
  BY RelayAssumption DEF Finish, TypeInv, TypeOK, JobsOK, Steps

USE DEF fields, jobs, backoff, calls, screen, store

\* The typing of fields, jobs and callers is inductive.
LEMMA AlwaysTyped == Spec => []TypeInv
<1>1. Init => TypeInv
  <2> SUFFICES ASSUME Init PROVE TypeInv
    OBVIOUS
  <2>1. 0 \in 0..CodeTries /\ 0 \in 0..(HelpAfter + 1)
    BY RelayAssumption
  <2>2. JobsOK
    BY DEF Init, JobsOK
  <2>3. TypeOK
    BY <2>1 DEF Init, TypeOK, Steps, Statuses
  <2>4. QED
    BY <2>2, <2>3 DEF Init, TypeInv, Callers
<1>2. TypeInv /\ [Next]_vars => TypeInv'
  <2> SUFFICES ASSUME TypeInv, [Next]_vars PROVE TypeInv'
    OBVIOUS
  <2> USE RelayAssumption
  <2>1. ASSUME NEW j \in Jobs, Start(j) PROVE TypeInv'
    <3>1. CASE cancelled[j]
      BY <2>1, <3>1, FinishTyped DEF Start, TypeInv, TypeOK
    <3>2. CASE ~cancelled[j]
      <4>1. pc' = [pc EXCEPT ![j] = "handshake"] /\ UNCHANGED <<laptop, cancelled, tries>>
        BY <2>1, <3>2 DEF Start
      <4>2. JobsOK' /\ pc' \in [Jobs -> Steps]
        BY <2>1, <4>1 DEF Start, TypeInv, TypeOK, JobsOK, Steps
      <4>3. QED
        BY <2>1, <3>2, <4>1, <4>2 DEF Start, TypeInv, TypeOK, Statuses
    <3>3. QED
      BY <3>1, <3>2
  <2>2. ASSUME NEW j \in Jobs, Repair(j) PROVE TypeInv'
    BY <2>2 DEF Repair, Go, TypeInv, TypeOK, JobsOK, Steps
  <2>3. ASSUME NEW j \in Jobs, AskCode(j) PROVE TypeInv'
    BY <2>3 DEF AskCode, Prompt, Go, TypeInv, TypeOK, JobsOK, Steps, Statuses
  <2>4. ASSUME NEW j \in Jobs, RepairRefused(j) PROVE TypeInv'
    BY <2>4 DEF RepairRefused, Forgotten, Prompt, Go, TypeInv, TypeOK, JobsOK, Steps, Statuses
  <2>5. ASSUME NEW j \in Jobs, SubmitCode(j) PROVE TypeInv'
    BY <2>5 DEF SubmitCode, Go, TypeInv, TypeOK, JobsOK, Steps
  <2>6. ASSUME NEW j \in Jobs, CodeRefused(j) PROVE TypeInv'
    BY <2>6 DEF CodeRefused, Prompt, TypeInv, TypeOK, JobsOK, Steps, Statuses
  <2>7. ASSUME NEW j \in Jobs, Accepted(j) PROVE TypeInv'
    BY <2>7 DEF Accepted, TypeInv, TypeOK, JobsOK, Steps
  <2>8. ASSUME NEW j \in Jobs, Store(j) \/ ConfigureFails(j) \/ Stream(j) PROVE TypeInv'
    <3>1. CASE Store(j)
      BY <3>1 DEF Store, Go, TypeInv, TypeOK, JobsOK, Steps
    <3>2. CASE ConfigureFails(j)
      BY <3>2 DEF ConfigureFails, Go, TypeInv, TypeOK, JobsOK, Steps
    <3>3. CASE Stream(j)
      BY <3>3 DEF Stream, Go, TypeInv, TypeOK, JobsOK, Steps, Statuses
    <3>4. QED
      BY <2>8, <3>1, <3>2, <3>3
  <2>9. ASSUME NEW j \in Jobs, End(j) PROVE TypeInv'
    BY <2>9 DEF End, Reading, TypeInv, TypeOK, JobsOK, Steps
  <2>10. ASSUME NEW j \in Jobs, CleanUp(j) PROVE TypeInv'
    BY <2>10 DEF CleanUp, Go, TypeInv, TypeOK, JobsOK, Steps
  <2>11. ASSUME NEW j \in Jobs, Leave(j) PROVE TypeInv'
    BY <2>11 DEF Leave, TypeInv, TypeOK, JobsOK, Steps, Statuses
  <2>12. ASSUME NEW j \in Jobs, ScheduleReconnect(j) \/ LoopsEnd(j) PROVE TypeInv'
    <3>1. CASE ScheduleReconnect(j)
      BY <3>1 DEF ScheduleReconnect, Go, TypeInv, TypeOK, JobsOK, Steps
    <3>2. CASE LoopsEnd(j)
      BY <3>2, FinishTyped DEF LoopsEnd, TypeInv, TypeOK
    <3>3. QED
      BY <2>12, <3>1, <3>2
  <2>13. ASSUME NEW x \in Callers, CancelJob(x) PROVE TypeInv'
    BY <2>13 DEF CancelJob, CallerGoes, CancelRetry, TypeInv, TypeOK, JobsOK, Callers
  <2>14. ASSUME NEW x \in Callers, Joined(x) PROVE TypeInv'
    BY <2>14, ZenonT(30) DEF Joined, CallerGoes, TypeInv, TypeOK, JobsOK, Callers
  <2>15. ASSUME NEW x \in Callers, Abandon(x) PROVE TypeInv'
    <3>1. caller' = [caller EXCEPT ![x] = "idle"] /\ joins' = [joins EXCEPT ![x] = None]
      BY <2>15 DEF Abandon
    <3>2. suppress' \in BOOLEAN
      BY <2>15 DEF Abandon, TypeInv, TypeOK
    <3>3. caller'["connect"] # "idle" => caller["connect"] # "idle"
      BY <3>1 DEF TypeInv, TypeOK, Callers
    <3>4. UNCHANGED <<running, browsing, lastTarget, connectJob, pairingCode, jobs, backoff, wish, screen,
                      store>>
      BY <2>15 DEF Abandon
    <3>5. TypeOK' /\ JobsOK'
      BY <3>1, <3>2, <3>4 DEF TypeInv, TypeOK, JobsOK
    <3>6. QED
      BY <3>3, <3>4, <3>5 DEF TypeInv
  <2>16. CASE Reconnect
    BY <2>16, ConnectToTyped DEF Reconnect, CallerGoes, TypeInv, TypeOK, Callers
  <2>17. CASE Dismissed
    BY <2>17 DEF Dismissed, CallerGoes, TypeInv, TypeOK, JobsOK, Callers
  <2>18. CASE RestartAfterForget
    BY <2>18 DEF RestartAfterForget, CallerGoes, TypeInv, TypeOK, JobsOK, Callers, Statuses
  <2>19. CASE Stopped
    BY <2>19 DEF Stopped, CallerGoes, TypeInv, TypeOK, JobsOK, Callers, Statuses
  <2>20. CASE RestartOnNetwork
    BY <2>20 DEF RestartOnNetwork, CallerGoes, TypeInv, TypeOK, JobsOK, Callers, Statuses
  <2>21. ASSUME NEW l \in Laptops, ClickConnect(l) PROVE TypeInv'
    BY <2>21 DEF ClickConnect, Calls, CallerGoes, CancelRetry, TypeInv, TypeOK, JobsOK, Callers
  <2>22. ASSUME NEW l \in Laptops, Forget(l) PROVE TypeInv'
    BY <2>22 DEF Forget, Forgotten, Calls, CallerGoes, CancelRetry, TypeInv, TypeOK, JobsOK, Callers
  <2>23. CASE CancelPairing
    BY <2>23 DEF CancelPairing, Calls, CallerGoes, TypeInv, TypeOK, JobsOK, Callers, Statuses
  <2>24. CASE ClickStop
    BY <2>24 DEF ClickStop, Calls, CallerGoes, CancelRetry, TypeInv, TypeOK, JobsOK, Callers
  <2>25. CASE Discovered
    BY <2>25, ConnectToTyped DEF Discovered, TypeInv, TypeOK
  <2>26. CASE RetryBegins
    BY <2>26 DEF RetryBegins, TypeInv, TypeOK, JobsOK, Statuses
  <2>27. CASE RetryFires
    BY <2>27, ConnectToTyped DEF RetryFires, TypeInv, TypeOK
  <2>28. CASE NetworkChanges
    BY <2>28 DEF NetworkChanges, TypeInv, TypeOK, JobsOK, Callers
  <2>29. CASE Destroy
    BY <2>29 DEF Destroy, CallerGoes, CancelRetry, TypeInv, TypeOK, JobsOK, Callers
  <2>30. CASE UNCHANGED vars
    BY <2>30 DEF vars, TypeInv, TypeOK, JobsOK
  <2>31. QED
    BY <2>1, <2>2, <2>3, <2>4, <2>5, <2>6, <2>7, <2>8, <2>9, <2>10, <2>11, <2>12, <2>13, <2>14,
       <2>15, <2>16, <2>17, <2>18, <2>19, <2>20, <2>21, <2>22, <2>23, <2>24, <2>25, <2>26, <2>27,
       <2>28, <2>29, <2>30
    DEF Next, Starts, Work, Session, Continue
<1>3. QED
  BY <1>1, <1>2, PTL DEF Spec

\* Fields and jobs keep their types, and no session asks for more codes than it may.
THEOREM TypeCorrect == Spec => []TypeOK
<1>1. TypeInv => TypeOK
  BY DEF TypeInv
<1>2. QED
  BY <1>1, AlwaysTyped, PTL

-----------------------------------------------------------------------------
(* Once off, off.                                                             *)

\* A service that is destroyed has no timer left and starts no session, however the steps of
\* its sessions and callers fall around its end.
THEOREM DestroyedIsOff == Spec => []OffMeansOff
<1> USE DEF TypeInv, TypeOK
<1>1. Init => OffMeansOff
  BY DEF Init, OffMeansOff
<1>2. TypeInv /\ OffMeansOff /\ [Next]_vars => OffMeansOff'
  <2> SUFFICES ASSUME TypeInv, OffMeansOff, [Next]_vars PROVE OffMeansOff'
    OBVIOUS
  <2>1. CASE Destroy
    BY <2>1 DEF Destroy, CancelRetry, OffMeansOff
  <2>2. CASE running /\ ~Destroy
    <3>1. running'
      BY <2>2 DEF Next, Starts, Work, Session, Start, Repair, AskCode, RepairRefused, SubmitCode,
         CodeRefused, Accepted, Store, ConfigureFails, Stream, End, CleanUp, Leave,
         ScheduleReconnect, LoopsEnd, CancelJob, Joined, Abandon, Continue, Reconnect, Dismissed,
         RestartAfterForget, Stopped, RestartOnNetwork, ClickConnect, Forget, CancelPairing,
         ClickStop, Discovered, RetryBegins, RetryFires, NetworkChanges, vars
    <3>2. QED
      BY <3>1 DEF OffMeansOff
  <2>3. ASSUME ~running, NEW j \in Jobs, Session(j) \/ SubmitCode(j) PROVE OffMeansOff'
    <3>1. pc[j] # "free" /\ cancelled[j] /\ retry' = "none"
      BY <2>3 DEF OffMeansOff, Session, Start, Repair, AskCode, RepairRefused, SubmitCode,
         CodeRefused, Accepted, Store, ConfigureFails, Stream, End, CleanUp, Leave,
         ScheduleReconnect, LoopsEnd, Go, Reading
    <3>2. \A k \in Jobs : pc'[k] = "free" \/ (pc[k] # "free" /\ cancelled'[k] = cancelled[k])
      BY <2>3, <3>1 DEF OffMeansOff, Session, Start, Repair, AskCode, RepairRefused, SubmitCode,
         CodeRefused, Accepted, Store, ConfigureFails, Stream, End, CleanUp, Leave,
         ScheduleReconnect, LoopsEnd, Finish, Go, Reading
    <3>3. QED
      BY <2>3, <3>1, <3>2 DEF OffMeansOff
  <2>4. ASSUME ~running, UNCHANGED <<jobs, retry>> PROVE OffMeansOff'
    <3>1. retry' = "none" /\ pc' = pc /\ cancelled' = cancelled
      BY <2>4 DEF OffMeansOff
    <3>2. QED
      BY <2>4, <3>1 DEF OffMeansOff
  <2>5. ASSUME ~running, NEW x \in Callers, CancelJob(x) \/ Joined(x) \/ Abandon(x)
        PROVE  OffMeansOff'
    BY <2>4, <2>5 DEF CancelJob, Joined, Abandon
  <2>6. CASE ~running /\ Continue
    BY <2>4, <2>6 DEF Continue, Reconnect, ConnectTo, Dismissed, RestartAfterForget, Stopped,
       RestartOnNetwork
  <2>7. ASSUME ~running, Starts PROVE FALSE
    BY <2>7 DEF OffMeansOff, Starts, ClickConnect, Forget, CancelPairing, ClickStop, Calls, Discovered,
       RetryFires
  <2>8. CASE ~running /\ (RetryBegins \/ NetworkChanges \/ UNCHANGED vars)
    BY <2>4, <2>8 DEF OffMeansOff, RetryBegins, NetworkChanges, vars
  <2>9. QED
    BY <2>1, <2>2, <2>3, <2>5, <2>6, <2>7, <2>8 DEF Next, Work
<1>3. QED
  BY <1>1, <1>2, AlwaysTyped, PTL DEF Spec

-----------------------------------------------------------------------------
(* One session.  In a calm service, where nothing is started next to a        *)
(* teardown, the session there is is the one in connectJob, so that the job a *)
(* caller joins is the only one, and when the caller goes on there is none.   *)

\* A calm service is the service.
LEMMA CalmIsSpec == CalmSpec => Spec
<1>1. CalmNext => Next
  BY DEF CalmNext, Next, CancelAlone
<1>2. [CalmNext]_vars => [Next]_vars
  BY <1>1
<1>3. QED
  BY <1>2, PTL DEF CalmSpec, Spec

AllFree == \A j \in Jobs : pc[j] = "free"

\* Only one caller at a time is past the wait for its turn.
OneBusy == \A x, y \in Callers : Busy(x) /\ Busy(y) => x = y

JoinsTheJob == \A x \in Callers : caller[x] = "joining" => joins[x] = connectJob

JobIsKnown == running => \A j \in Jobs : pc[j] # "free" => connectJob = j

NoneAfterJoin ==
  running /\ (caller["stop"] = "stopping" \/ \E x \in Callers : caller[x] = "joined") => AllFree

StoppedForGood == status = "STOPPED" => AllFree /\ (~running \/ caller["stop"] = "stopping")

DestroyedAfterStop == ~running => caller["stop"] = "idle"

CalmInv ==
  /\ OneBusy /\ JoinsTheJob /\ JobIsKnown /\ NoneAfterJoin
  /\ OneSession /\ StoppedForGood /\ DestroyedAfterStop

\* A step that starts no session and involves no caller.
Keeps ==
  /\ \A j \in Jobs : pc[j] = "free" => pc'[j] = "free"
  /\ UNCHANGED <<running, connectJob, caller, joins>>
  /\ status' = "STOPPED" => status = "STOPPED"

\* Such a step keeps all of it.
LEMMA KeepsCalm ==
  ASSUME CalmInv, Keeps
  PROVE  CalmInv'
  BY DEF CalmInv, Keeps, OneBusy, Busy, JoinsTheJob, JobIsKnown, NoneAfterJoin, AllFree, OneSession,
         StoppedForGood, DestroyedAfterStop

\* Where there is no session, and no caller is busy but the one whose step it is, one
\* may be started.
LEMMA ConnectKeepsCalm ==
  ASSUME TypeOK, CalmInv, running => AllFree, NEW l, ConnectTo(l),
         \A x \in Callers : ~Busy(x)',
         \A x \in Callers : x # "network" => caller'[x] = "idle",
         caller'["network"] = caller["network"],
         caller["stop"] # "stopping",
         UNCHANGED <<running, joins, status>>
  PROVE  CalmInv'
<1>1. CASE ~running \/ ConnectJobActive
  BY <1>1 DEF ConnectTo, jobs, CalmInv, OneBusy, Busy, JoinsTheJob, JobIsKnown, NoneAfterJoin,
     AllFree, OneSession, StoppedForGood, DestroyedAfterStop, Callers
<1>2. CASE running /\ ~ConnectJobActive
  <2>1. PICK j \in Jobs : Launch(j, l)
    BY <1>2 DEF ConnectTo
  <2>2. \A k \in Jobs : pc'[k] # "free" => k = j
    BY <1>2, <2>1 DEF Launch, AllFree, TypeOK
  <2>3. connectJob' = j
    BY <2>1 DEF Launch
  <2>4. OneBusy' /\ JoinsTheJob' /\ NoneAfterJoin' /\ DestroyedAfterStop'
    BY <1>2 DEF OneBusy, Busy, JoinsTheJob, NoneAfterJoin, DestroyedAfterStop, Callers
  <2>5. JobIsKnown' /\ OneSession'
    BY <2>2, <2>3 DEF JobIsKnown, OneSession
  <2>6. StoppedForGood'
    BY <1>2 DEF CalmInv, StoppedForGood
  <2>7. QED
    BY <2>4, <2>5, <2>6 DEF CalmInv
<1>3. QED
  BY <1>1, <1>2

\* What makes one session of it is inductive.
LEMMA AlwaysCalm == CalmSpec => []CalmInv
<1>1. Init => CalmInv
  BY DEF Init, CalmInv, OneBusy, Busy, JoinsTheJob, JobIsKnown, NoneAfterJoin, AllFree, OneSession,
     StoppedForGood, DestroyedAfterStop, Callers
<1>2. TypeInv /\ CalmInv /\ [CalmNext]_vars => CalmInv'
  <2> SUFFICES ASSUME TypeInv, CalmInv, [CalmNext]_vars PROVE CalmInv'
    OBVIOUS
  <2> USE DEF TypeInv
  <2>1. ASSUME NEW j \in Jobs, Session(j) PROVE CalmInv'
    <3>1. Keeps
      BY <2>1 DEF Session, Keeps, Start, Repair, AskCode, RepairRefused, CodeRefused, Accepted, Store, ConfigureFails, Stream,
         End, CleanUp, Leave, ScheduleReconnect, LoopsEnd, Finish, Go, Prompt, Reading, TypeOK
    <3>2. QED
      BY <3>1, KeepsCalm
  <2>2. ASSUME NEW j \in Jobs, SubmitCode(j) PROVE CalmInv'
    <3>1. Keeps
      BY <2>2 DEF Keeps, SubmitCode, Go, TypeOK
    <3>2. QED
      BY <3>1, KeepsCalm
  <2>3. CASE RetryBegins \/ UNCHANGED vars
    <3>1. Keeps
      BY <2>3 DEF Keeps, RetryBegins, vars
    <3>2. QED
      BY <3>1, KeepsCalm
  <2>4. ASSUME NEW x \in Callers, CancelAlone(x) PROVE CalmInv'
    BY <2>4 DEF CancelAlone, CancelJob, CallerGoes, CalmInv, OneBusy, Busy, JoinsTheJob, JobIsKnown, NoneAfterJoin,
       AllFree, OneSession, StoppedForGood, DestroyedAfterStop, Callers, TypeOK
  <2>5. ASSUME NEW x \in Callers, Joined(x) PROVE CalmInv'
    <3>1. running => AllFree
      BY <2>5 DEF Joined, CallerGoes, CalmInv, JoinsTheJob, JobIsKnown, AllFree
    <3>2. OneBusy' /\ JoinsTheJob'
      BY <2>5 DEF Joined, CallerGoes, CalmInv, OneBusy, Busy, JoinsTheJob, TypeOK
    <3>3. QED
      BY <2>5, <3>1, <3>2 DEF Joined, CallerGoes, CalmInv, JobIsKnown, NoneAfterJoin, AllFree,
         OneSession, StoppedForGood, DestroyedAfterStop, Callers, TypeOK
  <2>6. ASSUME NEW x \in Callers, Abandon(x) PROVE CalmInv'
    BY <2>6 DEF Abandon, CalmInv, OneBusy, Busy, JoinsTheJob, JobIsKnown, NoneAfterJoin, AllFree,
       OneSession, StoppedForGood, DestroyedAfterStop, Callers, TypeOK
  <2>7. CASE Reconnect
    <3>1. running => AllFree
      BY <2>7 DEF Reconnect, CallerGoes, CalmInv, NoneAfterJoin, Callers
    <3>2. \A x \in Callers : x # "connect" => ~Busy(x)
      BY <2>7 DEF Reconnect, CallerGoes, CalmInv, OneBusy, Busy, Callers
    <3>3. caller' = [caller EXCEPT !["connect"] = "idle"]
      BY <2>7 DEF Reconnect, CallerGoes
    <3>4. \A x \in Callers : ~Busy(x)' /\ (x # "network" => caller'[x] = "idle")
      BY <3>2, <3>3 DEF Busy, TypeOK, Callers
    <3>5. caller'["network"] = caller["network"] /\ caller["stop"] # "stopping"
      BY <3>2, <3>3 DEF Busy, TypeOK, Callers
    <3>6. QED
      BY <2>7, <3>1, <3>4, <3>5, ConnectKeepsCalm DEF Reconnect
  <2>8. ASSUME ConnectTo(lastLaptop) \/ ConnectTo(retryTarget), Quiet,
               UNCHANGED <<running, caller, joins, status>>
        PROVE  CalmInv'
    <3>1. running /\ ~ConnectJobActive => AllFree
      BY <2>8 DEF Quiet, ConnectJobActive, CalmInv, JobIsKnown, AllFree, TypeOK
    <3>2. \A x \in Callers : ~Busy(x) /\ ~Busy(x)' /\ (x # "network" => caller'[x] = "idle")
      BY <2>8 DEF Quiet, Busy
    <3>3. caller["stop"] # "stopping"
      BY <3>2 DEF Busy, Callers
    <3>4. CASE running /\ ~ConnectJobActive
      BY <2>8, <3>1, <3>2, <3>3, <3>4, ConnectKeepsCalm
    <3>5. CASE ~(running /\ ~ConnectJobActive)
      <4>1. Keeps
        BY <2>8, <3>5 DEF Keeps, ConnectTo, jobs
      <4>2. QED
        BY <4>1, KeepsCalm
    <3>6. QED
      BY <3>4, <3>5
  <2>9. CASE Quiet /\ (Discovered \/ RetryFires)
    BY <2>8, <2>9 DEF Discovered, RetryFires
  <2>10. CASE Dismissed \/ RestartAfterForget \/ Stopped \/ RestartOnNetwork
    <3>1. PICK x \in Callers, to \in {"idle", "stopping"} :
            CallerGoes(x, "joined", to) /\ (to = "stopping" => x = "stop" /\ Stopped)
      BY <2>10 DEF Dismissed, RestartAfterForget, Stopped, RestartOnNetwork, Callers
    <3>2. UNCHANGED <<running, connectJob, pc, joins>>
      BY <2>10 DEF Dismissed, RestartAfterForget, Stopped, RestartOnNetwork
    <3>3. OneBusy' /\ JoinsTheJob' /\ JobIsKnown' /\ OneSession' /\ NoneAfterJoin'
      BY <3>1, <3>2 DEF CallerGoes, CalmInv, OneBusy, Busy, JoinsTheJob, JobIsKnown, NoneAfterJoin,
         AllFree, OneSession, TypeOK, Callers
    <3>4. DestroyedAfterStop'
      BY <3>1, <3>2 DEF CallerGoes, CalmInv, DestroyedAfterStop, TypeOK, Callers
    <3>5. StoppedForGood'
      BY <2>10, <3>1, <3>2 DEF Dismissed, RestartAfterForget, Stopped, RestartOnNetwork, CallerGoes,
         CalmInv, StoppedForGood, NoneAfterJoin, DestroyedAfterStop, AllFree, TypeOK, Callers
    <3>6. QED
      BY <3>3, <3>4, <3>5 DEF CalmInv
  <2>11. ASSUME Quiet, NEW x \in Callers, Calls(x), UNCHANGED <<running, connectJob, pc, joins>>,
                status' # "STOPPED" \/ UNCHANGED status
         PROVE  CalmInv'
    <3>1. running /\ \A y \in Callers : ~Busy(y)
      BY <2>11 DEF Calls, Quiet
    <3>2. caller["stop"] # "stopping"
      BY <3>1 DEF Busy, Callers
    <3>3. caller' = [caller EXCEPT ![x] = "launched"]
      BY <2>11 DEF Calls, CallerGoes
    <3>4. OneBusy' /\ JoinsTheJob' /\ NoneAfterJoin'
      BY <2>11, <3>1, <3>2, <3>3 DEF OneBusy, Busy, CalmInv, JoinsTheJob, NoneAfterJoin, AllFree, TypeOK,
         Callers
    <3>5. JobIsKnown' /\ OneSession' /\ StoppedForGood' /\ DestroyedAfterStop'
      BY <2>11, <3>1, <3>2 DEF CalmInv, JobIsKnown, OneSession, StoppedForGood, DestroyedAfterStop
    <3>6. QED
      BY <3>4, <3>5 DEF CalmInv
  <2>12. ASSUME Quiet, NEW l \in Laptops, ClickConnect(l) \/ Forget(l) PROVE CalmInv'
    <3>1. CASE ClickConnect(l)
      BY <2>11, <2>12, <3>1 DEF ClickConnect, Callers
    <3>2. CASE Forget(l) /\ lastTarget = l
      BY <2>11, <2>12, <3>2 DEF Forget, Callers
    <3>3. CASE Forget(l) /\ lastTarget # l
      <4>1. Keeps
        BY <3>3 DEF Keeps, Forget
      <4>2. QED
        BY <4>1, KeepsCalm
    <3>4. QED
      BY <2>12, <3>1, <3>2, <3>3
  <2>13. CASE Quiet /\ (CancelPairing \/ ClickStop)
    BY <2>11, <2>13 DEF CancelPairing, ClickStop, Callers
  <2>14. CASE NetworkChanges
    BY <2>14 DEF NetworkChanges, CalmInv, OneBusy, Busy, JoinsTheJob, JobIsKnown, NoneAfterJoin, AllFree,
       OneSession, StoppedForGood, DestroyedAfterStop, Callers, TypeOK
  <2>15. CASE Destroy
    BY <2>15 DEF Destroy, CallerGoes, CalmInv, OneBusy, Busy, JoinsTheJob, JobIsKnown, NoneAfterJoin,
       AllFree, OneSession, StoppedForGood, DestroyedAfterStop, Callers, TypeOK
  <2>16. QED
    BY <2>1, <2>2, <2>3, <2>4, <2>5, <2>6, <2>7, <2>9, <2>10, <2>12, <2>13, <2>14, <2>15
    DEF CalmNext, Starts, Work, Continue
<1>3. QED
  BY <1>1, <1>2, AlwaysTyped, CalmIsSpec, PTL DEF CalmSpec

\* Whatever is clicked and whatever the network does, in a calm service a session begins only
\* when the one before it has gone.
THEOREM OneAtATime == CalmSpec => []OneSession
<1>1. CalmInv => OneSession
  BY DEF CalmInv
<1>2. QED
  BY <1>1, AlwaysCalm, PTL

-----------------------------------------------------------------------------
(* The prompt.  Every session clears it on its way out, whoever put it there, *)
(* so that the session which did is still there.                              *)

\* Where a session has its prompt on the screen, or has yet to take it down.
Asking == {"prompting", "answering", "paired", "ended"}

\* A step that leaves prompt and code alone keeps them attended, as no session goes past the
\* point where it clears them.
LEMMA KeepsAttended ==
  ASSUME PromptAttended, UNCHANGED <<pairingCode, promptFor>>,
         \A j \in Jobs : pc[j] \in Asking => pc'[j] \in Asking /\ laptop'[j] = laptop[j]
  PROVE  PromptAttended'
BY DEF PromptAttended, Asking

LEMMA SessionAttends ==
  ASSUME TypeOK, PromptAttended, NEW j \in Jobs, Session(j) \/ SubmitCode(j)
  PROVE  PromptAttended'
<1> USE DEF TypeOK
<1>1. CASE AskCode(j) \/ RepairRefused(j) \/ (CodeRefused(j) /\ tries[j] < CodeTries)
  <2>1. Prompt(j) /\ pc' = [pc EXCEPT ![j] = "prompting"] /\ UNCHANGED laptop
    BY <1>1 DEF AskCode, RepairRefused, CodeRefused, Prompt, Go
  <2>2. QED
    BY <2>1 DEF Prompt, PromptAttended
<1>2. CASE Store(j) \/ CleanUp(j)
  BY <1>2, RelayAssumption DEF Store, CleanUp, PromptAttended
<1>3. CASE SubmitCode(j) \/ Accepted(j) \/ End(j) \/ (CodeRefused(j) /\ ~(tries[j] < CodeTries))
  <2>1. \E q \in Asking : pc' = [pc EXCEPT ![j] = q]
    BY <1>3 DEF SubmitCode, Accepted, End, CodeRefused, Go, Asking
  <2>2. UNCHANGED <<laptop, pairingCode, promptFor>>
    BY <1>3 DEF SubmitCode, Accepted, End, CodeRefused
  <2>3. QED
    BY <2>1, <2>2, KeepsAttended
<1>4. CASE \/ Start(j) \/ Repair(j) \/ ConfigureFails(j) \/ Stream(j) \/ Leave(j)
           \/ ScheduleReconnect(j) \/ LoopsEnd(j)
  <2>1. pc[j] \notin Asking /\ UNCHANGED <<pairingCode, promptFor>>
        /\ \A k \in Jobs : k # j => pc'[k] = pc[k] /\ laptop'[k] = laptop[k]
    BY <1>4 DEF Start, Repair, ConfigureFails, Stream, Leave, ScheduleReconnect, LoopsEnd, Finish, Go,
       Asking
  <2>2. QED
    BY <2>1, KeepsAttended
<1>5. QED
  BY <1>1, <1>2, <1>3, <1>4 DEF Session, CodeRefused

\* "The prompt would otherwise stay on screen forever with nothing behind it": there is a
\* session for that laptop behind every prompt, also when sessions overlap and take down, put
\* up and leave each other's.
THEOREM PromptIsAttended == Spec => []PromptAttended
<1>1. Init => PromptAttended
  BY RelayAssumption DEF Init, PromptAttended
<1>2. TypeOK /\ PromptAttended /\ [Next]_vars => PromptAttended'
  <2> SUFFICES ASSUME TypeOK, PromptAttended, [Next]_vars PROVE PromptAttended'
    OBVIOUS
  <2>1. ASSUME NEW j \in Jobs, Session(j) \/ SubmitCode(j) PROVE PromptAttended'
    BY <2>1, SessionAttends
  <2>2. ASSUME UNCHANGED <<pc, laptop, pairingCode, promptFor>> PROVE PromptAttended'
    BY <2>2 DEF PromptAttended
  <2>3. ASSUME NEW l, ConnectTo(l), UNCHANGED <<pairingCode, promptFor>> PROVE PromptAttended'
    <3>1. CASE UNCHANGED jobs
      BY <2>2, <2>3, <3>1 DEF jobs
    <3>2. ASSUME NEW j \in Jobs, Launch(j, l) PROVE PromptAttended'
      <4>1. pc[j] = "free" /\ \A k \in Jobs : k # j => pc'[k] = pc[k] /\ laptop'[k] = laptop[k]
        BY <3>2 DEF Launch, Fresh, TypeOK
      <4>2. QED
        BY <2>3, <4>1, KeepsAttended DEF Asking
    <3>3. QED
      BY <2>3, <3>1, <3>2 DEF ConnectTo
  <2>4. CASE Stopped
    BY <2>4, RelayAssumption DEF Stopped, PromptAttended
  <2>5. ASSUME NEW x \in Callers, CancelJob(x) \/ Joined(x) \/ Abandon(x) PROVE PromptAttended'
    BY <2>2, <2>5 DEF CancelJob, Joined, Abandon
  <2>6. CASE Reconnect \/ Discovered \/ RetryFires
    BY <2>3, <2>6 DEF Reconnect, Discovered, RetryFires
  <2>7. CASE Dismissed \/ RestartAfterForget \/ RestartOnNetwork
    BY <2>2, <2>7 DEF Dismissed, RestartAfterForget, RestartOnNetwork
  <2>8. ASSUME NEW l \in Laptops, ClickConnect(l) \/ Forget(l) PROVE PromptAttended'
    BY <2>2, <2>8 DEF ClickConnect, Forget
  <2>9. CASE CancelPairing \/ ClickStop \/ RetryBegins \/ NetworkChanges \/ Destroy
    BY <2>2, <2>9 DEF CancelPairing, ClickStop, RetryBegins, NetworkChanges, Destroy
  <2>10. CASE UNCHANGED vars
    BY <2>2, <2>10 DEF vars
  <2>11. QED
    BY <2>1, <2>4, <2>5, <2>6, <2>7, <2>8, <2>9, <2>10 DEF Next, Starts, Work, Continue
<1>3. QED
  BY <1>1, <1>2, TypeCorrect, PTL DEF Spec

\* A step of the only session there is leaves it the prompt.
LEMMA SessionShown ==
  ASSUME TypeOK, OneSession, PromptShown, NEW j \in Jobs, Session(j)
  PROVE  PromptShown'
<1> USE DEF TypeOK
<1>1. pc[j] # "free" /\ \A k \in Jobs : k # j => pc'[k] = "free"
  BY DEF OneSession, Session, Start, Repair, AskCode, RepairRefused, CodeRefused, Accepted, Store,
         ConfigureFails, Stream, End, CleanUp, Leave, ScheduleReconnect, LoopsEnd, Finish, Go, Reading
<1>2. SUFFICES pc'[j] = "prompting" => pairingCode' = j /\ promptFor' = laptop'[j]
  BY <1>1 DEF PromptShown
<1>3. CASE AskCode(j) \/ RepairRefused(j) \/ CodeRefused(j)
  BY <1>3 DEF AskCode, RepairRefused, CodeRefused, Prompt, Go
<1>4. CASE ~(AskCode(j) \/ RepairRefused(j) \/ CodeRefused(j))
  BY <1>4 DEF Session, Start, Repair, Accepted, Store, ConfigureFails, Stream, End, CleanUp, Leave,
     ScheduleReconnect, LoopsEnd, Finish, Go, Reading
<1>5. QED
  BY <1>3, <1>4

\* In a calm service the session that waits for a code is the one the screen asks for.
THEOREM PromptIsShown == CalmSpec => []PromptShown
<1>1. Init => PromptShown
  BY DEF Init, PromptShown
<1>2. TypeOK /\ CalmInv /\ PromptShown /\ [CalmNext]_vars => PromptShown'
  <2> SUFFICES ASSUME TypeOK, CalmInv, PromptShown, [CalmNext]_vars PROVE PromptShown'
    OBVIOUS
  <2>1. ASSUME NEW j \in Jobs, Session(j) PROVE PromptShown'
    BY <2>1, SessionShown DEF CalmInv
  <2>2. ASSUME NEW j \in Jobs, SubmitCode(j) PROVE PromptShown'
    BY <2>2 DEF SubmitCode, Go, PromptShown, TypeOK
  <2>3. ASSUME UNCHANGED <<pc, laptop, pairingCode, promptFor>> PROVE PromptShown'
    BY <2>3 DEF PromptShown
  <2>4. ASSUME NEW l, ConnectTo(l), UNCHANGED <<pairingCode, promptFor>> PROVE PromptShown'
    <3>1. CASE UNCHANGED jobs
      BY <2>3, <2>4, <3>1 DEF jobs
    <3>2. ASSUME NEW j \in Jobs, Launch(j, l) PROVE PromptShown'
      BY <2>4, <3>2 DEF Launch, TypeOK, PromptShown
    <3>3. QED
      BY <2>4, <3>1, <3>2 DEF ConnectTo
  <2>5. CASE Stopped
    <3>1. AllFree
      BY <2>5 DEF Stopped, CallerGoes, CalmInv, NoneAfterJoin, DestroyedAfterStop, Callers
    <3>2. QED
      BY <2>5, <3>1 DEF Stopped, AllFree, PromptShown
  <2>6. ASSUME NEW x \in Callers, CancelAlone(x) \/ Joined(x) \/ Abandon(x) PROVE PromptShown'
    BY <2>3, <2>6 DEF CancelAlone, CancelJob, Joined, Abandon
  <2>7. CASE Reconnect \/ Discovered \/ RetryFires
    BY <2>4, <2>7 DEF Reconnect, Discovered, RetryFires
  <2>8. CASE Dismissed \/ RestartAfterForget \/ RestartOnNetwork
    BY <2>3, <2>8 DEF Dismissed, RestartAfterForget, RestartOnNetwork
  <2>9. ASSUME NEW l \in Laptops, ClickConnect(l) \/ Forget(l) PROVE PromptShown'
    BY <2>3, <2>9 DEF ClickConnect, Forget
  <2>10. CASE CancelPairing \/ ClickStop \/ RetryBegins \/ NetworkChanges \/ Destroy
    BY <2>3, <2>10 DEF CancelPairing, ClickStop, RetryBegins, NetworkChanges, Destroy
  <2>11. CASE UNCHANGED vars
    BY <2>3, <2>11 DEF vars
  <2>12. QED
    BY <2>1, <2>2, <2>5, <2>6, <2>7, <2>8, <2>9, <2>10, <2>11 DEF CalmNext, Starts, Work, Continue
<1>3. QED
  BY <1>1, <1>2, TypeCorrect, AlwaysCalm, CalmIsSpec, PTL DEF CalmSpec

-----------------------------------------------------------------------------
(* The last laptop.  Only a laptop whose key is stored becomes the last one,  *)
(* and with its key it is taken back.                                         *)

\* Discovery is never sent after a laptop that is forgotten, however the Forget falls
\* between the steps of a session with it.
THEOREM LastLaptopSaved == Spec => []LastIsSaved
<1>1. Init => LastIsSaved
  BY DEF Init, LastIsSaved
<1>2. LastIsSaved /\ [Next]_vars => LastIsSaved'
  <2> SUFFICES ASSUME LastIsSaved, [Next]_vars PROVE LastIsSaved'
    OBVIOUS
  <2>1. ASSUME NEW l, Forgotten(l) PROVE LastIsSaved'
    BY <2>1 DEF Forgotten, LastIsSaved
  <2>2. ASSUME NEW j \in Jobs, Session(j) PROVE LastIsSaved'
    <3>1. CASE RepairRefused(j)
      BY <2>1, <3>1 DEF RepairRefused
    <3>2. CASE Store(j)
      BY <3>2 DEF Store, LastIsSaved
    <3>3. CASE ~RepairRefused(j) /\ ~Store(j)
      BY <2>2, <3>3 DEF Session, Start, Repair, AskCode, CodeRefused, Accepted, ConfigureFails, Stream,
         End, CleanUp, Leave, ScheduleReconnect, LoopsEnd, LastIsSaved
    <3>4. QED
      BY <3>1, <3>2, <3>3
  <2>s. ASSUME UNCHANGED store PROVE LastIsSaved'
    BY <2>s DEF LastIsSaved
  <2>3. ASSUME NEW x \in Callers, CancelJob(x) \/ Joined(x) \/ Abandon(x) PROVE LastIsSaved'
    BY <2>3, <2>s DEF CancelJob, Joined, Abandon
  <2>4. CASE Continue
    BY <2>4 DEF Continue, Reconnect, Dismissed, RestartAfterForget, Stopped, RestartOnNetwork, LastIsSaved
  <2>5. CASE Starts
    <3>1. ASSUME NEW l \in Laptops, Forget(l) PROVE LastIsSaved'
      BY <2>1, <3>1 DEF Forget
    <3>2. ASSUME NEW l \in Laptops, ClickConnect(l) PROVE LastIsSaved'
      BY <3>2 DEF ClickConnect, LastIsSaved
    <3>3. CASE CancelPairing \/ ClickStop \/ Discovered \/ RetryFires
      BY <3>3 DEF CancelPairing, ClickStop, Discovered, RetryFires, LastIsSaved
    <3>4. QED
      BY <2>5, <3>1, <3>2, <3>3 DEF Starts
  <2>6. ASSUME NEW j \in Jobs, SubmitCode(j) PROVE LastIsSaved'
    BY <2>6 DEF SubmitCode, LastIsSaved
  <2>7. CASE RetryBegins \/ NetworkChanges \/ Destroy
    BY <2>7, <2>s DEF RetryBegins, NetworkChanges, Destroy
  <2>8. CASE UNCHANGED vars
    BY <2>8 DEF vars, LastIsSaved
  <2>9. QED
    BY <2>2, <2>3, <2>4, <2>5, <2>6, <2>7, <2>8 DEF Next, Work
<1>3. QED
  BY <1>1, <1>2, PTL DEF Spec

-----------------------------------------------------------------------------
(* No one is stranded.  What ends without a reconnect was ended by a caller,  *)
(* who goes on from there; and the one caller who does not, having dismissed  *)
(* a prompt, leaves no status behind that promises another attempt.           *)

Promises == status \in {"CONNECTING", "DISCONNECTED", "RECONNECTING", "CONNECTION_TROUBLE"}

Called == \E x \in Callers : caller[x] # "idle"

FreeNotCancelled == \A j \in Jobs : pc[j] = "free" => ~cancelled[j]

CancelledByCaller == running => \A j \in Jobs : cancelled[j] => Called

SuppressedByCaller ==
  running /\ suppress => caller["stop"] = "launched" \/ \E x \in Callers : caller[x] = "joining"

TargetUnlessForgotten == running /\ lastTarget = None => AllFree \/ caller["forget"] # "idle"

DismissLeaves ==
  running /\ caller["dismiss"] # "idle" =>
    /\ \A j \in Jobs : pc[j] # "launched"
    /\ Promises => retry # "none" \/ \E j \in Jobs : pc[j] = "scheduling"

\* A session that drains has scheduled a reconnect, or was ended by a caller.
DrainsOnPurpose ==
  running /\ Promises /\ (\E j \in Jobs : pc[j] = "draining") => retry # "none" \/ Called

StrandInv ==
  /\ FreeNotCancelled /\ CancelledByCaller /\ SuppressedByCaller /\ TargetUnlessForgotten
  /\ DismissLeaves /\ DrainsOnPurpose /\ NeverStranded

\* Whoever dismisses a prompt is the only one at work.
LEMMA DismissAlone ==
  ASSUME CalmInv, caller["dismiss"] # "idle", NEW x \in Callers, Busy(x)
  PROVE  x = "dismiss"
BY DEF CalmInv, OneBusy, Busy, Callers

\* A step of the session, the only one there is.
LEMMA SessionStrands ==
  ASSUME TypeInv, CalmInv, StrandInv, NEW j \in Jobs, Session(j)
  PROVE  StrandInv'
<1> USE DEF TypeInv, TypeOK
<1>0. UNCHANGED <<running, lastTarget, suppress, caller>>
  BY DEF Session, Start, Repair, AskCode, RepairRefused, CodeRefused, Accepted, Store, ConfigureFails, Stream, End, CleanUp,
     Leave, ScheduleReconnect, LoopsEnd
<1>1. pc[j] # "free" /\ \A k \in Jobs : k # j => pc[k] = "free" /\ pc'[k] = "free" /\ ~cancelled[k]
  <2>1. pc[j] # "free" /\ \A k \in Jobs : k # j => pc'[k] = pc[k]
    BY DEF Session, Start, Repair, AskCode, RepairRefused, CodeRefused, Accepted, Store,
       ConfigureFails, Stream, End,
       CleanUp, Leave, ScheduleReconnect, LoopsEnd, Finish, Go, Reading
  <2>2. QED
    BY <2>1 DEF CalmInv, OneSession, StrandInv, FreeNotCancelled
<1>2. \/ pc'[j] # "free" /\ UNCHANGED cancelled
      \/ Finish(j)
  BY DEF Session, Start, Repair, AskCode, RepairRefused, CodeRefused, Accepted, Store,
       ConfigureFails, Stream, End,
     CleanUp, Leave, ScheduleReconnect, LoopsEnd, Go, Reading
<1>3. FreeNotCancelled' /\ CancelledByCaller'
  BY <1>0, <1>1, <1>2 DEF StrandInv, FreeNotCancelled, CancelledByCaller, Called, Finish
<1>4. SuppressedByCaller' /\ TargetUnlessForgotten'
  BY <1>0, <1>1 DEF StrandInv, SuppressedByCaller, TargetUnlessForgotten, AllFree
<1>5. ASSUME pc[j] # "launched", pc'[j] # "launched",
             Promises' => Promises \/ pc'[j] = "scheduling",
             UNCHANGED retry \/ retry' # "none",
             pc[j] = "scheduling" /\ Promises => retry' # "none" \/ caller["dismiss"] = "idle"
      PROVE  DismissLeaves'
  BY <1>0, <1>1, <1>5 DEF StrandInv, DismissLeaves, Promises
<1>d. ASSUME pc'[j] # "draining" PROVE DrainsOnPurpose'
  BY <1>1, <1>d DEF DrainsOnPurpose
<1>6. CASE Start(j)
  <2>1. DismissLeaves'
    BY <1>0, <1>6 DEF Start, StrandInv, DismissLeaves
  <2>2. NeverStranded'
    <3>1. CASE cancelled[j]
      BY <1>0, <3>1 DEF StrandInv, CancelledByCaller, Called, NeverStranded
    <3>2. CASE ~cancelled[j]
      BY <1>6, <3>2 DEF Start, NeverStranded
    <3>3. QED
      BY <3>1, <3>2
  <2>3. DrainsOnPurpose'
    BY <1>6, <1>d DEF Start, Finish
  <2>4. QED
    BY <1>3, <1>4, <2>1, <2>2, <2>3 DEF StrandInv
<1>7. CASE Repair(j) \/ AskCode(j) \/ RepairRefused(j) \/ CodeRefused(j) \/ Accepted(j)
           \/ Store(j) \/ ConfigureFails(j) \/ Stream(j) \/ End(j) \/ CleanUp(j)
  <2>1. /\ pc[j] \notin {"launched", "scheduling"} /\ pc'[j] \notin {"free", "launched", "draining"}
        /\ UNCHANGED retry /\ (Promises' => Promises)
    BY <1>7 DEF Repair, AskCode, RepairRefused, CodeRefused, Accepted, Store, ConfigureFails, Stream, End, CleanUp, Prompt,
       Go, Reading, Promises
  <2>2. DismissLeaves'
    BY <1>5, <2>1
  <2>3. NeverStranded'
    BY <2>1 DEF NeverStranded
  <2>4. DrainsOnPurpose'
    BY <1>d, <2>1
  <2>5. QED
    BY <1>3, <1>4, <2>2, <2>3, <2>4 DEF StrandInv
<1>8. CASE Leave(j)
  <2>1. CASE suppress
    <3>1. pc[j] = "leaving" /\ pc'[j] = "draining" /\ UNCHANGED <<status, retry>>
      BY <1>8, <2>1 DEF Leave
    <3>2. DismissLeaves' /\ NeverStranded'
      BY <1>5, <3>1 DEF Promises, NeverStranded
    <3>3. DrainsOnPurpose'
      BY <1>0, <2>1 DEF StrandInv, SuppressedByCaller, DrainsOnPurpose, Called, Callers
    <3>4. QED
      BY <1>3, <1>4, <3>2, <3>3 DEF StrandInv
  <2>2. CASE ~suppress
    <3>1. pc[j] = "leaving" /\ pc'[j] = "scheduling" /\ UNCHANGED retry
      BY <1>8, <2>2 DEF Leave
    <3>2. DismissLeaves' /\ NeverStranded' /\ DrainsOnPurpose'
      BY <1>5, <1>d, <3>1 DEF NeverStranded
    <3>3. QED
      BY <1>3, <1>4, <3>2 DEF StrandInv
  <2>3. QED
    BY <2>1, <2>2
<1>9. CASE ScheduleReconnect(j)
  <2>1. pc[j] = "scheduling" /\ pc'[j] = "draining" /\ UNCHANGED status
    BY <1>9 DEF ScheduleReconnect, Go
  <2>2. NeverStranded'
    BY <2>1 DEF NeverStranded
  <2>3. CASE lastTarget # None /\ running
    <3>1. retry' = "launched"
      BY <1>9, <2>3 DEF ScheduleReconnect
    <3>2. DismissLeaves' /\ DrainsOnPurpose'
      BY <1>5, <2>1, <3>1 DEF Promises, DrainsOnPurpose
    <3>3. QED
      BY <1>3, <1>4, <2>2, <3>2 DEF StrandInv
  <2>4. CASE ~running
    BY <1>0, <1>3, <1>4, <2>2, <2>4 DEF StrandInv, DismissLeaves, DrainsOnPurpose
  <2>5. CASE running /\ lastTarget = None
    <3>1. caller["forget"] # "idle"
      BY <1>1, <2>5 DEF StrandInv, TargetUnlessForgotten, AllFree
    <3>2. caller["dismiss"] = "idle"
      BY <3>1, DismissAlone DEF Busy, Callers
    <3>3. DismissLeaves' /\ DrainsOnPurpose'
      BY <1>0, <3>1, <3>2 DEF DismissLeaves, DrainsOnPurpose, Called, Callers
    <3>4. QED
      BY <1>3, <1>4, <2>2, <3>3 DEF StrandInv
  <2>6. QED
    BY <2>3, <2>4, <2>5
<1>10. CASE LoopsEnd(j)
  <2>1. pc[j] = "draining" /\ pc'[j] = "free" /\ UNCHANGED <<status, retry>>
    BY <1>10 DEF LoopsEnd, Finish
  <2>2. DismissLeaves'
    BY <1>5, <2>1 DEF Promises
  <2>3. NeverStranded' /\ DrainsOnPurpose'
    BY <1>0, <1>d, <2>1 DEF StrandInv, DrainsOnPurpose, NeverStranded, Promises, Called
  <2>4. QED
    BY <1>3, <1>4, <2>2, <2>3 DEF StrandInv
<1>11. QED
  BY <1>6, <1>7, <1>8, <1>9, <1>10 DEF Session

\* A connection is started, or there is a session already.
LEMMA ConnectStrands ==
  ASSUME TypeInv, StrandInv, NEW l \in Laptops, ConnectTo(l), UNCHANGED <<running, suppress, status>>,
         running => caller'["dismiss"] = "idle",
         SuppressedByCaller', CancelledByCaller', DrainsOnPurpose',
         running /\ ConnectJobActive => TargetUnlessForgotten'
  PROVE  StrandInv'
<1> USE DEF TypeInv, TypeOK
<1>1. CASE ~running
  BY <1>1 DEF ConnectTo, StrandInv, FreeNotCancelled, TargetUnlessForgotten, DismissLeaves,
     NeverStranded
<1>2. CASE running /\ ConnectJobActive
  BY <1>2 DEF ConnectTo, ConnectJobActive, StrandInv, FreeNotCancelled, DismissLeaves, NeverStranded
<1>3. CASE running /\ ~ConnectJobActive
  <2>1. PICK j \in Jobs : Launch(j, l)
    BY <1>3 DEF ConnectTo
  <2>2. lastTarget' = l /\ l # None /\ pc'[j] = "launched"
        /\ \A k \in Jobs : k # j => pc'[k] = pc[k] /\ cancelled'[k] = cancelled[k]
    BY <2>1, RelayAssumption DEF Launch
  <2>3. FreeNotCancelled' /\ TargetUnlessForgotten' /\ DismissLeaves' /\ NeverStranded'
    BY <1>3, <2>2 DEF StrandInv, FreeNotCancelled, TargetUnlessForgotten, DismissLeaves, NeverStranded
  <2>4. QED
    BY <2>3 DEF StrandInv
<1>4. QED
  BY <1>1, <1>2, <1>3

\* A caller goes on when the session has ended, and leaves nothing suppressed.
LEMMA CallerGoesOn ==
  ASSUME TypeInv, CalmInv, StrandInv, NEW x \in Callers, caller[x] = "joined", running
  PROVE  /\ AllFree /\ ~suppress
         /\ \A j \in Jobs : ~cancelled[j]
         /\ \A y \in Callers : y # x => ~Busy(y)
<1>1. \A y \in Callers : y # x => ~Busy(y)
  BY DEF CalmInv, OneBusy, Busy, Callers
<1>2. \A y \in Callers : caller[y] # "joining"
  BY <1>1 DEF Busy
<1>3. caller["stop"] # "launched"
  BY <1>1 DEF Busy, Callers
<1>4. ~suppress
  BY <1>2, <1>3 DEF StrandInv, SuppressedByCaller
<1>5. AllFree
  BY DEF CalmInv, NoneAfterJoin
<1>6. QED
  BY <1>1, <1>4, <1>5 DEF StrandInv, FreeNotCancelled, AllFree

\* A caller, once at work, keeps everything in order, whatever else it does.
LEMMA CallerStrands ==
  ASSUME TypeInv, StrandInv, UNCHANGED <<running, pc, status>>,
         NEW x \in Callers, caller'[x] # "idle",
         \A j \in Jobs : cancelled'[j] => pc[j] # "free",
         TargetUnlessForgotten', SuppressedByCaller', DismissLeaves'
  PROVE  StrandInv'
BY DEF StrandInv, FreeNotCancelled, CancelledByCaller, DrainsOnPurpose, Called, NeverStranded, TypeInv,
   TypeOK

\* A screen that promises another attempt always has someone who makes it, in a calm
\* service: whichever step of a session, of a timer or of a
\* change of the network a click falls on.
THEOREM NobodyStranded == CalmSpec => []NeverStranded
<1> USE DEF TypeInv, TypeOK
<1>1. Init => StrandInv
  BY DEF Init, StrandInv, FreeNotCancelled, CancelledByCaller, SuppressedByCaller,
     TargetUnlessForgotten, AllFree, DismissLeaves, DrainsOnPurpose, NeverStranded, Callers
<1>2. TypeInv /\ CalmInv /\ PromptAttended /\ StrandInv /\ [CalmNext]_vars => StrandInv'
  <2> SUFFICES ASSUME TypeInv, CalmInv, PromptAttended, StrandInv, [CalmNext]_vars PROVE StrandInv'
    OBVIOUS
  <2>f. \A j \in Jobs : cancelled[j] => pc[j] # "free"
    BY DEF StrandInv, FreeNotCancelled
  <2>1. ASSUME NEW j \in Jobs, Session(j) PROVE StrandInv'
    BY <2>1, SessionStrands
  <2>2. ASSUME NEW j \in Jobs, SubmitCode(j) PROVE StrandInv'
    BY <2>2 DEF SubmitCode, Go, StrandInv, FreeNotCancelled, CancelledByCaller, Called,
       SuppressedByCaller, TargetUnlessForgotten, AllFree, DismissLeaves, DrainsOnPurpose, Promises,
       NeverStranded
  <2>3. ASSUME NEW x \in Callers, CancelAlone(x) PROVE StrandInv'
    <3>1. /\ caller[x] = "launched" /\ caller' = [caller EXCEPT ![x] = "joining"]
          /\ \A j \in Jobs : cancelled'[j] => cancelled[j] \/ pc[j] # "free"
          /\ UNCHANGED <<running, lastTarget, pc, status>>
          /\ x # "network" => retry' = retry
          /\ \A y \in Callers \ {x} : ~Busy(y)
      BY <2>3 DEF CancelAlone, CancelJob, CallerGoes
    <3>2. TargetUnlessForgotten' /\ SuppressedByCaller'
      BY <3>1 DEF StrandInv, TargetUnlessForgotten, AllFree, SuppressedByCaller, Callers
    <3>3. DismissLeaves'
      <4>1. CASE x = "network"
        BY <3>1, <4>1 DEF DismissLeaves, Busy, Callers
      <4>2. CASE x # "network"
        BY <3>1, <4>2 DEF StrandInv, DismissLeaves, Promises, Callers
      <4>3. QED
        BY <4>1, <4>2
    <3>4. QED
      BY <2>f, <3>1, <3>2, <3>3, CallerStrands
  <2>4. ASSUME NEW x \in Callers, Joined(x) PROVE StrandInv'
    <3>1. /\ caller[x] = "joining" /\ caller' = [caller EXCEPT ![x] = "joined"]
          /\ suppress' = FALSE
          /\ UNCHANGED <<running, lastTarget, jobs, status, retry>>
      BY <2>4 DEF Joined, CallerGoes
    <3>2. TargetUnlessForgotten' /\ SuppressedByCaller' /\ DismissLeaves'
      BY <3>1 DEF StrandInv, TargetUnlessForgotten, AllFree, SuppressedByCaller, DismissLeaves,
         Promises, Callers
    <3>3. QED
      BY <2>f, <3>1, <3>2, CallerStrands
  <2>5. ASSUME ~running, UNCHANGED <<running, jobs>> PROVE StrandInv'
    BY <2>5 DEF StrandInv, FreeNotCancelled, CancelledByCaller, SuppressedByCaller,
       TargetUnlessForgotten, DismissLeaves, DrainsOnPurpose, NeverStranded
  <2>6. ASSUME NEW x \in Callers, Abandon(x) PROVE StrandInv'
    BY <2>5, <2>6 DEF Abandon
  <2>7. CASE Reconnect
    <3>1. /\ caller["connect"] = "joined" /\ caller' = [caller EXCEPT !["connect"] = "idle"]
          /\ ConnectTo(wish) /\ wish \in Laptops /\ UNCHANGED <<running, suppress, status>>
      BY <2>7 DEF Reconnect, CallerGoes
    <3>2. running => AllFree /\ ~suppress /\ caller["dismiss"] = "idle" /\ \A j \in Jobs : ~cancelled[j]
      BY <3>1, CallerGoesOn DEF Busy, Callers
    <3>3. SuppressedByCaller' /\ CancelledByCaller' /\ caller'["dismiss"] = caller["dismiss"]
      <4>1. running => \A j \in Jobs : ~cancelled'[j]
        BY <3>1, <3>2 DEF ConnectTo, Launch
      <4>2. QED
        BY <3>1, <3>2, <4>1 DEF SuppressedByCaller, CancelledByCaller
    <3>d. DrainsOnPurpose'
      BY <3>1, <3>2 DEF ConnectTo, Launch, AllFree, DrainsOnPurpose
    <3>4. ~(running /\ ConnectJobActive)
      BY <3>2 DEF ConnectJobActive, AllFree
    <3>5. QED
      BY <3>1, <3>2, <3>3, <3>4, <3>d, ConnectStrands
  <2>8. ASSUME NEW l \in Laptops, ConnectTo(l), Quiet, UNCHANGED <<running, suppress, caller, status>>,
               retry' = retry \/ \A j \in Jobs : pc[j] # "draining"
        PROVE  StrandInv'
    <3>1. caller["dismiss"] = "idle" /\ \A j \in Jobs : ~cancelled[j]
      BY <2>8 DEF Quiet, Busy, Callers
    <3>2. CancelledByCaller'
      BY <2>8, <3>1 DEF ConnectTo, Launch, CancelledByCaller
    <3>3. SuppressedByCaller'
      BY <2>8 DEF StrandInv, SuppressedByCaller
    <3>4. running /\ ConnectJobActive => TargetUnlessForgotten'
      BY <2>8 DEF ConnectTo, StrandInv, TargetUnlessForgotten, AllFree
    <3>5. DrainsOnPurpose'
      <4>1. CASE \A j \in Jobs : pc[j] # "draining"
        BY <2>8, <4>1 DEF ConnectTo, Launch, DrainsOnPurpose
      <4>2. CASE running /\ \E j \in Jobs : pc[j] = "draining"
        <5>1. ConnectJobActive
          BY <3>1, <4>2 DEF CalmInv, JobIsKnown, ConnectJobActive
        <5>2. QED
          BY <2>8, <4>2, <5>1 DEF ConnectTo, StrandInv, DrainsOnPurpose, Promises, Called
      <4>3. QED
        BY <2>8, <4>1, <4>2 DEF DrainsOnPurpose
    <3>6. QED
      BY <2>8, <3>1, <3>2, <3>3, <3>4, <3>5, ConnectStrands
  <2>9. CASE Quiet /\ (Discovered \/ RetryFires)
    BY <2>8, <2>9 DEF Discovered, RetryFires
  <2>10. CASE Dismissed
    <3>1. /\ caller["dismiss"] = "joined" /\ caller' = [caller EXCEPT !["dismiss"] = "idle"]
          /\ UNCHANGED <<running, fields, jobs, backoff, screen>>
      BY <2>10 DEF Dismissed, CallerGoes
    <3>2. ASSUME running
          PROVE  AllFree /\ ~suppress /\ (\A j \in Jobs : ~cancelled[j])
                 /\ (Promises => retry # "none")
      <4>1. AllFree /\ ~suppress /\ \A j \in Jobs : ~cancelled[j]
        BY <3>1, <3>2, CallerGoesOn DEF Callers
      <4>2. QED
        BY <3>1, <3>2, <4>1 DEF StrandInv, DismissLeaves, AllFree
    <3>3. QED
      BY <3>1, <3>2 DEF StrandInv, FreeNotCancelled, CancelledByCaller, SuppressedByCaller,
         TargetUnlessForgotten, AllFree, DismissLeaves, DrainsOnPurpose, Promises,
       NeverStranded, Callers
  <2>11. CASE RestartAfterForget \/ RestartOnNetwork
    <3>1. PICK x \in {"forget", "network"} :
            caller[x] = "joined" /\ caller' = [caller EXCEPT ![x] = "idle"]
      BY <2>11 DEF RestartAfterForget, RestartOnNetwork, CallerGoes
    <3>2. ~Promises' /\ UNCHANGED <<running, fields, jobs>>
      BY <2>11 DEF RestartAfterForget, RestartOnNetwork, Promises
    <3>3. running => AllFree /\ ~suppress /\ \A j \in Jobs : ~cancelled[j]
      BY <3>1, CallerGoesOn DEF Callers
    <3>4. QED
      BY <3>1, <3>2, <3>3 DEF StrandInv, FreeNotCancelled, CancelledByCaller, SuppressedByCaller,
         TargetUnlessForgotten, AllFree, DismissLeaves, DrainsOnPurpose, NeverStranded, Promises, Callers
  <2>12. CASE Stopped
    <3>1. caller["stop"] = "joined" /\ caller' = [caller EXCEPT !["stop"] = "stopping"]
      BY <2>12 DEF Stopped, CallerGoes
    <3>2. ~Promises' /\ UNCHANGED <<running, fields, jobs>>
      BY <2>12 DEF Stopped, Promises
    <3>3. running => AllFree /\ ~suppress /\ \A j \in Jobs : ~cancelled[j]
      BY <3>1, CallerGoesOn DEF Callers
    <3>4. QED
      BY <3>1, <3>2, <3>3 DEF StrandInv, FreeNotCancelled, CancelledByCaller, SuppressedByCaller,
         TargetUnlessForgotten, AllFree, DismissLeaves, DrainsOnPurpose, NeverStranded, Promises, Callers
  <2>13. ASSUME Quiet, NEW x \in Callers, Calls(x), x # "dismiss", UNCHANGED <<running, jobs, status>>,
                suppress' => suppress \/ x = "stop",
                lastTarget' = lastTarget \/ x = "forget"
         PROVE  StrandInv'
    <3>1. /\ running /\ \A y \in Callers : ~Busy(y)
          /\ caller' = [caller EXCEPT ![x] = "launched"]
      BY <2>13 DEF Calls, Quiet, CallerGoes
    <3>2. DismissLeaves'
      BY <2>13, <3>1 DEF DismissLeaves, Busy, Callers
    <3>3. SuppressedByCaller'
      BY <2>13, <3>1 DEF StrandInv, SuppressedByCaller, Busy, Callers
    <3>4. TargetUnlessForgotten'
      BY <2>13, <3>1 DEF StrandInv, TargetUnlessForgotten, AllFree, Callers
    <3>5. QED
      BY <2>f, <2>13, <3>1, <3>2, <3>3, <3>4, CallerStrands
  <2>14. ASSUME Quiet, NEW l \in Laptops, ClickConnect(l) PROVE StrandInv'
    BY <2>13, <2>14 DEF ClickConnect, Callers
  <2>15. ASSUME Quiet, NEW l \in Laptops, Forget(l) PROVE StrandInv'
    <3>1. CASE lastTarget = l
      BY <2>13, <2>15, <3>1 DEF Forget, Callers
    <3>2. CASE lastTarget # l
      BY <2>15, <3>2 DEF Forget, StrandInv, FreeNotCancelled, CancelledByCaller, Called,
         SuppressedByCaller, TargetUnlessForgotten, AllFree, DismissLeaves, DrainsOnPurpose, Promises,
       NeverStranded
    <3>3. QED
      BY <3>1, <3>2
  <2>16. CASE Quiet /\ ClickStop
    BY <2>13, <2>16 DEF ClickStop, Callers
  <2>17. CASE Quiet /\ CancelPairing
    <3>1. /\ running /\ promptFor # None /\ caller["dismiss"] = "idle"
          /\ caller' = [caller EXCEPT !["dismiss"] = "launched"]
          /\ ~Promises' /\ UNCHANGED <<running, fields, jobs>>
      BY <2>17 DEF CancelPairing, Calls, CallerGoes, Promises
    <3>2. \A j \in Jobs : pc[j] # "launched"
      BY <3>1 DEF PromptAttended, CalmInv, OneSession
    <3>3. SuppressedByCaller' /\ TargetUnlessForgotten'
      BY <3>1 DEF StrandInv, SuppressedByCaller, TargetUnlessForgotten, AllFree, Callers
    <3>4. DismissLeaves'
      BY <3>1, <3>2 DEF DismissLeaves
    <3>5. FreeNotCancelled' /\ CancelledByCaller' /\ NeverStranded' /\ DrainsOnPurpose'
      BY <3>1 DEF StrandInv, FreeNotCancelled, CancelledByCaller, Called, NeverStranded, DrainsOnPurpose,
         Promises,
         Callers
    <3>6. QED
      BY <3>3, <3>4, <3>5 DEF StrandInv
  <2>18. CASE RetryBegins
    <3>1. retry' = "waiting" /\ UNCHANGED <<running, fields, jobs, caller>>
      BY <2>18 DEF RetryBegins
    <3>2. QED
      BY <3>1 DEF StrandInv, FreeNotCancelled, CancelledByCaller, Called, SuppressedByCaller,
         TargetUnlessForgotten, AllFree, DismissLeaves, DrainsOnPurpose, NeverStranded
  <2>19. CASE NetworkChanges
    <3>1. /\ caller' = [caller EXCEPT !["network"] = "launched"]
          /\ suppress' = IF caller["network"] = "joining" THEN FALSE ELSE suppress
          /\ UNCHANGED <<running, lastTarget, jobs, backoff, status>>
      BY <2>19 DEF NetworkChanges
    <3>2. TargetUnlessForgotten' /\ SuppressedByCaller' /\ DismissLeaves'
      BY <3>1 DEF StrandInv, TargetUnlessForgotten, AllFree, SuppressedByCaller, DismissLeaves,
         Promises, Callers
    <3>3. QED
      BY <2>f, <3>1, <3>2, CallerStrands DEF Callers
  <2>20. CASE Destroy
    BY <2>20 DEF Destroy, StrandInv, FreeNotCancelled, CancelledByCaller, SuppressedByCaller,
       TargetUnlessForgotten, DismissLeaves, DrainsOnPurpose, NeverStranded
  <2>21. CASE UNCHANGED vars
    BY <2>21 DEF vars, StrandInv, FreeNotCancelled, CancelledByCaller, Called, SuppressedByCaller,
       TargetUnlessForgotten, AllFree, DismissLeaves, DrainsOnPurpose, Promises,
       NeverStranded
  <2>22. QED
    BY <2>1, <2>2, <2>3, <2>4, <2>6, <2>7, <2>9, <2>10, <2>11, <2>12, <2>14, <2>15, <2>16, <2>17,
       <2>18, <2>19, <2>20, <2>21
    DEF CalmNext, Starts, Work, Continue
<1>3. StrandInv => NeverStranded
  BY DEF StrandInv
<1>4. QED
  BY <1>1, <1>2, <1>3, AlwaysTyped, AlwaysCalm, PromptIsAttended, CalmIsSpec, PTL DEF CalmSpec

\* From Stopped on nothing changes the status but a timer that was set too late to be cancelled.
StopLast ==
  ~running \/ caller["stop"] = "stopping" =>
    /\ AllFree /\ \A x \in Callers : caller[x] # "joined"
    /\ status \in {"STOPPED", "RECONNECTING", "CONNECTION_TROUBLE"}

LEMMA StopIsLast == CalmSpec => []StopLast
<1> USE DEF TypeOK
<1>1. Init => StopLast
  BY DEF Init, StopLast, Callers
<1>2. TypeInv /\ CalmInv /\ OffMeansOff /\ StopLast /\ [CalmNext]_vars => StopLast'
  <2> SUFFICES ASSUME TypeOK, CalmInv, OffMeansOff, StopLast, [CalmNext]_vars PROVE StopLast'
    BY DEF TypeInv
  <2> DEFINE On == running /\ caller["stop"] # "stopping"
  <2>1. ASSUME On' PROVE StopLast'
    BY <2>1 DEF StopLast
  <2> HIDE DEF On
  <2>2. ASSUME NEW j \in Jobs, Session(j) \/ SubmitCode(j) PROVE StopLast'
    <3>1. pc[j] # "free" /\ UNCHANGED <<running, caller>>
      BY <2>2 DEF Session, Start, Repair, AskCode, RepairRefused, SubmitCode, CodeRefused, Accepted,
         Store, ConfigureFails, Stream, End, CleanUp, Leave, ScheduleReconnect, LoopsEnd, Go, Reading
    <3>2. QED
      BY <3>1 DEF StopLast, AllFree
  <2>3. CASE Quiet /\ Starts
    <3>1. CASE RetryFires
      <4>1. On
        BY <2>3, <3>1 DEF On, OffMeansOff, RetryFires, Quiet, Busy, Callers
      <4>2. QED
        BY <2>1, <3>1, <4>1 DEF On, RetryFires
    <3>2. CASE ~RetryFires
      <4>1. running' /\ caller'["stop"] # "stopping"
        BY <2>3, <3>2 DEF Starts, ClickConnect, Forget, CancelPairing, ClickStop, Calls, CallerGoes,
           Discovered, Quiet, Busy, Callers
      <4>2. QED
        BY <2>1, <4>1 DEF On
    <3>3. QED
      BY <3>1, <3>2
  <2>4. ASSUME NEW x \in Callers, CancelAlone(x) \/ Joined(x) PROVE StopLast'
    <3>1. running' /\ caller'["stop"] # "stopping"
      BY <2>4 DEF CancelAlone, CancelJob, Joined, CallerGoes, CalmInv, OneBusy, Busy, Callers
    <3>2. QED
      BY <2>1, <3>1 DEF On
  <2>5. ASSUME NEW x \in Callers, Abandon(x) PROVE StopLast'
    BY <2>5 DEF Abandon, StopLast, AllFree
  <2>6. CASE Reconnect \/ Dismissed \/ RestartAfterForget \/ RestartOnNetwork
    <3>1. PICK x \in Callers \ {"stop"} : CallerGoes(x, "joined", "idle") /\ UNCHANGED running
      BY <2>6 DEF Reconnect, Dismissed, RestartAfterForget, RestartOnNetwork, Callers
    <3>2. QED
      BY <2>1, <3>1 DEF On, CallerGoes, StopLast, Callers
  <2>7. CASE Stopped
    <3>1. caller["stop"] = "joined" /\ caller' = [caller EXCEPT !["stop"] = "stopping"]
          /\ running /\ status' = "STOPPED" /\ UNCHANGED pc
      BY <2>7 DEF Stopped, CallerGoes, CalmInv, DestroyedAfterStop
    <3>2. AllFree /\ \A x \in Callers : x # "stop" => caller[x] # "joined"
      BY <3>1 DEF CalmInv, NoneAfterJoin, OneBusy, Busy, Callers
    <3>3. QED
      BY <3>1, <3>2 DEF StopLast, AllFree
  <2>8. CASE RetryBegins
    BY <2>8 DEF RetryBegins, StopLast, AllFree
  <2>9. CASE NetworkChanges \/ Destroy
    BY <2>9 DEF NetworkChanges, Destroy, CallerGoes, StopLast, AllFree, Callers
  <2>10. CASE UNCHANGED vars
    BY <2>10 DEF vars, StopLast, AllFree
  <2>11. QED
    BY <2>2, <2>3, <2>4, <2>5, <2>6, <2>7, <2>8, <2>9, <2>10 DEF CalmNext, Work, Continue
<1>3. QED
  BY <1>1, <1>2, AlwaysTyped, AlwaysCalm, DestroyedIsOff, CalmIsSpec, PTL DEF CalmSpec

\* In a calm service what the screen says is true: STOPPED, a promise of another attempt while
\* it runs, a prompt, and what is left on the screen when it is destroyed.
THEOREM StatusIsTrue == CalmSpec => []StatusTrue
<1>1. CalmInv => StoppedMeansStopped
  BY DEF CalmInv, StoppedForGood, AllFree, StoppedMeansStopped
<1>2. StopLast => LastStatus
  BY DEF StopLast, LastStatus
<1>3. StoppedMeansStopped /\ NeverStranded /\ PromptShown /\ OffMeansOff /\ LastStatus => StatusTrue
  BY DEF StatusTrue
<1>4. QED
  BY <1>1, <1>2, <1>3, AlwaysCalm, NobodyStranded, PromptIsShown, DestroyedIsOff, StopIsLast, CalmIsSpec,
     PTL

-----------------------------------------------------------------------------
(* PhoneSession.  A job is a session as long as it is there.  A step of the   *)
(* service is one of a session's own, its beginning or its end, or nobody     *)
(* else sees it; and in a calm service a session begins, and the service is   *)
(* destroyed, when there is none.                                             *)

\* A job has a peer as long as it is there.
LEMMA PeerFacts ==
  ASSUME TypeInv
  PROVE  /\ \A j \in Jobs : pc[j] = "free" <=> laptop[j] = None
         /\ AllFree <=> PS!Idle
BY RelayAssumption DEF TypeInv, JobsOK, AllFree, PS!Idle

\* To begin is all that is done about a connection.
LEMMA ConnectSimulates ==
  ASSUME TypeInv, NEW l \in Laptops, ConnectTo(l), UNCHANGED <<running, promptFor, store>>
  PROVE  [Shared!Next]_Shared!vars
<1>1. CASE ~running \/ ConnectJobActive
  BY <1>1 DEF ConnectTo, Shared!vars, Shared!store
<1>2. CASE running /\ ~ConnectJobActive
  <2>1. PICK j \in Jobs : Launch(j, l)
    BY <1>2 DEF ConnectTo
  <2>2. laptop' = [laptop EXCEPT ![j] = l] /\ laptop[j] = None
    BY <2>1, PeerFacts DEF Launch, Fresh
  <2>3. Shared!Begin(j, l)
    BY <1>2, <2>2 DEF Shared!Begin, Shared!store
  <2>4. QED
    BY <2>3 DEF Shared!Next
<1>3. QED
  BY <1>1, <1>2

\* A step of a session.
LEMMA SessionSimulates ==
  ASSUME TypeInv, PromptAttended, NEW j \in Jobs, Session(j)
  PROVE  [Shared!Next]_Shared!vars
<1> USE DEF TypeInv, TypeOK
<1>1. pc[j] # "free" /\ UNCHANGED running
  BY DEF Session, Start, Repair, AskCode, RepairRefused, CodeRefused, Accepted, Store,
     ConfigureFails, Stream, End, CleanUp, Leave, ScheduleReconnect, LoopsEnd, Go, Reading
<1>2. Shared!Serves(j)
  BY <1>1, PeerFacts DEF Shared!Serves
<1>3. CASE UNCHANGED <<laptop, promptFor, store>>
  BY <1>1, <1>3 DEF Shared!vars, Shared!store
<1>4. CASE AskCode(j) \/ RepairRefused(j) \/ (CodeRefused(j) /\ Prompt(j))
  <2>1. promptFor' = laptop[j] /\ UNCHANGED laptop /\ (Forgotten(laptop[j]) \/ UNCHANGED store)
    BY <1>4 DEF AskCode, RepairRefused, CodeRefused, Prompt
  <2>2. Shared!Ask(j)
    BY <1>1, <1>2, <2>1 DEF Shared!Ask, Shared!Drop, Shared!store, Forgotten
  <2>3. QED
    BY <2>2 DEF Shared!Next
<1>5. CASE Store(j)
  <2>1. Shared!Store(j)
    BY <1>1, <1>2, <1>5 DEF Store, Shared!Store
  <2>2. QED
    BY <2>1 DEF Shared!Next
<1>6. CASE CleanUp(j)
  <2>1. Shared!Withdraw
    BY <1>1, <1>6 DEF CleanUp, Shared!Withdraw, Shared!store
  <2>2. QED
    BY <2>1 DEF Shared!Next
<1>7. CASE Finish(j) /\ (Start(j) \/ LoopsEnd(j))
  <2>1. pc[j] \in {"launched", "draining"} /\ UNCHANGED <<promptFor, store>>
        /\ laptop' = [laptop EXCEPT ![j] = None]
    BY <1>7 DEF Start, LoopsEnd, Finish
  <2>2. promptFor # None => \E i \in Jobs \ {j} : laptop[i] = promptFor
    BY <2>1 DEF PromptAttended
  <2>3. Shared!End(j)
    BY <1>1, <1>2, <2>1, <2>2 DEF Shared!End, Shared!store
  <2>4. QED
    BY <2>3 DEF Shared!Next
<1>8. QED
  BY <1>3, <1>4, <1>5, <1>6, <1>7 DEF Session, Start, Repair, CodeRefused, Accepted, ConfigureFails,
     Stream, End, Leave, ScheduleReconnect, LoopsEnd

\* Every step of the service is one of PhoneSession, its sessions being free to overlap.
LEMMA StepSimulates ==
  ASSUME TypeInv, PromptAttended, [Next]_vars
  PROVE  [Shared!Next]_Shared!vars
<1>s. ASSUME UNCHANGED <<running, laptop, promptFor, store>> PROVE [Shared!Next]_Shared!vars
  BY <1>s DEF Shared!vars, Shared!store
<1>1. ASSUME NEW j \in Jobs, Session(j) PROVE [Shared!Next]_Shared!vars
  BY <1>1, SessionSimulates
<1>2. ASSUME NEW j \in Jobs, SubmitCode(j) PROVE [Shared!Next]_Shared!vars
  BY <1>2, <1>s DEF SubmitCode
<1>3. ASSUME NEW x \in Callers, CancelJob(x) \/ Joined(x) \/ Abandon(x)
      PROVE  [Shared!Next]_Shared!vars
  BY <1>3, <1>s DEF CancelJob, Joined, Abandon
<1>4. CASE Dismissed \/ RestartAfterForget \/ RestartOnNetwork
  BY <1>4, <1>s DEF Dismissed, RestartAfterForget, RestartOnNetwork
<1>5. CASE Stopped
  <2>1. Shared!Withdraw
    BY <1>5 DEF Stopped, Shared!Withdraw, Shared!store
  <2>2. QED
    BY <2>1 DEF Shared!Next
<1>6. CASE Reconnect
  <2>1. ConnectTo(wish) /\ wish \in Laptops /\ UNCHANGED <<running, promptFor, store>>
    BY <1>6 DEF Reconnect, CallerGoes, TypeInv
  <2>2. QED
    BY <2>1, ConnectSimulates
<1>7. CASE Discovered
  <2>1. ConnectTo(lastLaptop) /\ lastLaptop \in Laptops /\ UNCHANGED <<running, promptFor, store>>
    BY <1>7 DEF Discovered, TypeInv, TypeOK
  <2>2. QED
    BY <2>1, ConnectSimulates
<1>8. CASE RetryFires
  <2>1. ConnectTo(retryTarget) /\ retryTarget \in Laptops /\ UNCHANGED <<running, promptFor, store>>
    BY <1>8 DEF RetryFires, TypeInv
  <2>2. QED
    BY <2>1, ConnectSimulates
<1>9. CASE CancelPairing \/ ClickStop \/ RetryBegins \/ NetworkChanges \/ UNCHANGED vars
  BY <1>9, <1>s DEF CancelPairing, ClickStop, RetryBegins, NetworkChanges, vars
<1>10. ASSUME NEW l \in Laptops, ClickConnect(l) PROVE [Shared!Next]_Shared!vars
  BY <1>10, <1>s DEF ClickConnect
<1>11. ASSUME NEW l \in Laptops, Forget(l) PROVE [Shared!Next]_Shared!vars
  <2>1. Shared!Forget(l)
    BY <1>11 DEF Forget, Forgotten, Shared!Forget, Shared!Drop
  <2>2. QED
    BY <2>1 DEF Shared!Next
<1>12. CASE Destroy
  <2>1. Shared!SwitchOff
    BY <1>12 DEF Destroy, Shared!SwitchOff, Shared!store
  <2>2. QED
    BY <2>1 DEF Shared!Next
<1>13. QED
  BY <1>1, <1>2, <1>3, <1>4, <1>5, <1>6, <1>7, <1>8, <1>9, <1>10, <1>11, <1>12
  DEF Next, Starts, Work, Continue

\* In a calm service nothing is left to do once it is off; a session begins, and the service
\* is switched off, only between sessions.
LEMMA CalmSteps ==
  ASSUME TypeInv, CalmInv, StopLast, [CalmNext]_vars
  PROVE  /\ ~running => UNCHANGED <<running, laptop, promptFor, store>>
         /\ running /\ ~running' => AllFree
         /\ running /\ (\E j \in Jobs : laptop[j] = None /\ laptop'[j] # None) => AllFree
<1> USE DEF TypeInv, TypeOK
<1> DEFINE Goal == /\ ~running => UNCHANGED <<running, laptop, promptFor, store>>
                   /\ running /\ ~running' => AllFree
                   /\ running /\ (\E j \in Jobs : laptop[j] = None /\ laptop'[j] # None) => AllFree
<1>s. ASSUME UNCHANGED <<running, laptop, promptFor, store>> PROVE Goal
  BY <1>s
<1>1. ASSUME NEW j \in Jobs, Session(j) \/ SubmitCode(j) PROVE Goal
  <2>1. pc[j] # "free" /\ UNCHANGED running /\ (UNCHANGED laptop \/ laptop' = [laptop EXCEPT ![j] = None])
    BY <1>1 DEF Session, Start, Repair, AskCode, RepairRefused, SubmitCode, CodeRefused, Accepted,
       Store, ConfigureFails, Stream, End, CleanUp, Leave, ScheduleReconnect, LoopsEnd, Finish, Go,
       Reading
  <2>2. running
    BY <2>1 DEF StopLast, AllFree
  <2>3. QED
    BY <2>1, <2>2
<1>2. ASSUME NEW x \in Callers, CancelAlone(x) \/ Joined(x) \/ Abandon(x) PROVE Goal
  BY <1>2, <1>s DEF CancelAlone, CancelJob, Joined, Abandon
<1>3. CASE Continue
  <2>1. PICK x \in Callers : caller[x] = "joined"
    BY <1>3 DEF Continue, Reconnect, Dismissed, RestartAfterForget, Stopped, RestartOnNetwork,
       CallerGoes, Callers
  <2>2. running /\ AllFree
    BY <2>1 DEF StopLast, CalmInv, NoneAfterJoin
  <2>3. QED
    BY <2>2
<1>4. CASE Quiet /\ (Discovered \/ RetryFires)
  <2>1. UNCHANGED <<running, promptFor, store>> /\ \E l : ConnectTo(l)
    BY <1>4 DEF Discovered, RetryFires
  <2>2. CASE ~running \/ ConnectJobActive
    BY <1>s, <2>1, <2>2 DEF ConnectTo
  <2>3. CASE running /\ ~ConnectJobActive
    <3>1. AllFree
      BY <1>4, <2>3 DEF Quiet, ConnectJobActive, CalmInv, JobIsKnown, AllFree
    <3>2. QED
      BY <2>1, <2>3, <3>1
  <2>4. QED
    BY <2>2, <2>3
<1>5. ASSUME NEW l \in Laptops, ClickConnect(l) \/ Forget(l) PROVE Goal
  BY <1>5 DEF ClickConnect, Forget, Calls
<1>6. CASE CancelPairing \/ ClickStop \/ RetryBegins \/ NetworkChanges \/ UNCHANGED vars
  BY <1>6, <1>s DEF CancelPairing, ClickStop, RetryBegins, NetworkChanges, vars
<1>7. CASE Destroy
  BY <1>7 DEF Destroy, CallerGoes, StopLast
<1>8. QED
  BY <1>1, <1>2, <1>3, <1>4, <1>5, <1>6, <1>7 DEF CalmNext, Starts, Work

\* Such steps are those of a service whose sessions exclude each other.
LEMMA SharedIsExclusive ==
  ASSUME TypeInv, PromptAttended, [Shared!Next]_Shared!vars,
         ~running => UNCHANGED <<running, laptop, promptFor, store>>,
         running /\ ~running' => AllFree,
         running /\ (\E j \in Jobs : laptop[j] = None /\ laptop'[j] # None) => AllFree
  PROVE  [PS!Next]_PS!vars
<1>1. CASE ~running \/ UNCHANGED Shared!vars
  BY <1>1 DEF Shared!vars, Shared!store, PS!vars, PS!store
<1>2. CASE running /\ Shared!Next
  <2>1. ASSUME NEW j \in Jobs, NEW l \in Laptops, Shared!Begin(j, l) PROVE PS!Next
    <3>1. laptop[j] = None /\ laptop'[j] = l /\ l # None
      BY <2>1, RelayAssumption DEF Shared!Begin, TypeInv, TypeOK
    <3>2. PS!Idle
      BY <1>2, <3>1, PeerFacts
    <3>3. PS!Begin(j, l)
      BY <2>1, <3>2 DEF Shared!Begin, Shared!store, PS!Begin, PS!store
    <3>4. QED
      BY <3>3 DEF PS!Next
  <2>2. ASSUME NEW j \in Jobs, Shared!Ask(j) \/ Shared!Store(j) \/ Shared!End(j) PROVE PS!Next
    <3>1. PS!Ask(j) \/ PS!Store(j) \/ PS!End(j)
      BY <1>2, <2>2 DEF Shared!Ask, Shared!Store, Shared!End, Shared!Serves, Shared!Drop, Shared!store,
         PS!Ask, PS!Store, PS!End, PS!Serves, PS!Drop, PS!store
    <3>2. QED
      BY <3>1 DEF PS!Next
  <2>3. ASSUME NEW l \in Laptops, Shared!Forget(l) PROVE PS!Next
    <3>1. PS!Forget(l)
      BY <2>3 DEF Shared!Forget, Shared!Drop, PS!Forget, PS!Drop
    <3>2. QED
      BY <3>1 DEF PS!Next
  <2>4. CASE Shared!Withdraw
    <3>1. PS!Withdraw
      BY <1>2, <2>4 DEF Shared!Withdraw, Shared!store, PS!Withdraw, PS!store
    <3>2. QED
      BY <3>1 DEF PS!Next
  <2>5. CASE Shared!SwitchOff
    <3>1. AllFree
      BY <1>2, <2>5 DEF Shared!SwitchOff
    <3>2. PS!Idle /\ promptFor = None
      BY <3>1, PeerFacts DEF AllFree, PromptAttended
    <3>3. PS!SwitchOff
      BY <2>5, <3>2 DEF Shared!SwitchOff, Shared!store, PS!SwitchOff, PS!store
    <3>4. QED
      BY <3>3 DEF PS!Next
  <2>6. QED
    BY <1>2, <2>1, <2>2, <2>3, <2>4, <2>5 DEF Shared!Next
<1>3. QED
  BY <1>1, <1>2

\* The service implements PhoneSession, step for step: always with sessions that may overlap,
\* and with one session at a time, which is over before the service is, in a calm service.
THEOREM ImplementsPhoneSession == (Spec => Shared!Spec) /\ (CalmSpec => ImplementsSession)
<1>1. Init => Shared!Init /\ PS!Init
  BY DEF Init, Shared!Init, PS!Init
<1>2. TypeInv /\ PromptAttended /\ [Next]_vars => [Shared!Next]_Shared!vars
  BY StepSimulates
<1>3. Spec => Shared!Spec
  BY <1>1, <1>2, AlwaysTyped, PromptIsAttended, PTL DEF Spec, Shared!Spec
<1>4. TypeInv /\ CalmInv /\ StopLast /\ PromptAttended /\ [CalmNext]_vars /\ [Shared!Next]_Shared!vars
        => [PS!Next]_PS!vars
  BY CalmSteps, SharedIsExclusive
<1>5. CalmSpec => ImplementsSession
  BY <1>1, <1>3, <1>4, AlwaysTyped, AlwaysCalm, StopIsLast, PromptIsAttended, CalmIsSpec, PTL
  DEF CalmSpec, Shared!Spec, ImplementsSession, PS!Spec
<1>6. QED
  BY <1>3, <1>5

\* What PhoneSession promises of any service that implements it: no prompt but for the laptop
\* of a session, no discovery after a laptop without a key; and if sessions are exclusive, one
\* of them, and none once the service is off.
THEOREM SessionOrderly == (Shared!Spec => []Shared!Orderly) /\ (PS!Spec => []PS!Orderly)
<1>1. Shared!Spec => []Shared!Orderly
  <2> DEFINE Inv == Shared!TypeOK /\ Shared!Orderly
  <2> USE RelayAssumption DEF Shared!Orderly, Shared!TypeOK, Shared!Idle, Shared!Serves, Shared!store
  <2>1. Shared!Init => Inv
    BY DEF Shared!Init
  <2>2. Inv /\ [Shared!Next]_Shared!vars => Inv'
    <3> SUFFICES ASSUME Inv, [Shared!Next]_Shared!vars PROVE Inv'
      OBVIOUS
    <3>1. ASSUME NEW j \in Jobs, NEW l \in Laptops, Shared!Begin(j, l) PROVE Inv'
      BY <3>1 DEF Shared!Begin
    <3>2. ASSUME NEW j \in Jobs, Shared!Ask(j) \/ Shared!Store(j) PROVE Inv'
      BY <3>2 DEF Shared!Ask, Shared!Drop, Shared!Store
    <3>3. ASSUME NEW j \in Jobs, Shared!End(j) PROVE Inv'
      BY <3>3 DEF Shared!End
    <3>4. ASSUME NEW l \in Laptops, Shared!Forget(l) PROVE Inv'
      BY <3>4 DEF Shared!Forget, Shared!Drop
    <3>5. CASE Shared!Withdraw \/ Shared!SwitchOff
      BY <3>5 DEF Shared!Withdraw, Shared!SwitchOff
    <3>6. CASE UNCHANGED Shared!vars
      BY <3>6 DEF Shared!vars
    <3>7. QED
      BY <3>1, <3>2, <3>3, <3>4, <3>5, <3>6 DEF Shared!Next
  <2>3. Inv => Shared!Orderly
    OBVIOUS
  <2> HIDE DEF Inv
  <2>4. QED
    BY <2>1, <2>2, <2>3, PTL DEF Shared!Spec
<1>2. PS!Spec => []PS!Orderly
  <2> DEFINE Inv == PS!TypeOK /\ PS!Orderly
  <2> USE RelayAssumption DEF PS!Orderly, PS!TypeOK, PS!Idle, PS!Serves, PS!store
  <2>1. PS!Init => Inv
    BY DEF PS!Init
  <2>2. Inv /\ [PS!Next]_PS!vars => Inv'
    <3> SUFFICES ASSUME Inv, [PS!Next]_PS!vars PROVE Inv'
      OBVIOUS
    <3>1. ASSUME NEW j \in Jobs, NEW l \in Laptops, PS!Begin(j, l) PROVE Inv'
      BY <3>1 DEF PS!Begin
    <3>2. ASSUME NEW j \in Jobs, PS!Ask(j) \/ PS!Store(j) PROVE Inv'
      BY <3>2 DEF PS!Ask, PS!Drop, PS!Store
    <3>3. ASSUME NEW j \in Jobs, PS!End(j) PROVE Inv'
      BY <3>3 DEF PS!End
    <3>4. ASSUME NEW l \in Laptops, PS!Forget(l) PROVE Inv'
      BY <3>4 DEF PS!Forget, PS!Drop
    <3>5. CASE PS!Withdraw \/ PS!SwitchOff
      BY <3>5 DEF PS!Withdraw, PS!SwitchOff
    <3>6. CASE UNCHANGED PS!vars
      BY <3>6 DEF PS!vars
    <3>7. QED
      BY <3>1, <3>2, <3>3, <3>4, <3>5, <3>6 DEF PS!Next
  <2>3. Inv => PS!Orderly
    OBVIOUS
  <2> HIDE DEF Inv
  <2>4. QED
    BY <2>1, <2>2, <2>3, PTL DEF PS!Spec
<1>3. QED
  BY <1>1, <1>2
=============================================================================
