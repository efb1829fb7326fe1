------------------------ MODULE PlaybackTrackProofs ------------------------
(* Theorems about the playback track, for any number of AudioTrack objects    *)
(* and any limit of the watchdog.                                             *)
EXTENDS PlaybackTrack, FiniteSetTheorems, TLAPS

USE DEF head, watch, closing

-----------------------------------------------------------------------------
(* Type correctness *)

\* The state of loops, tracks and closers keeps its type, and the watchdog's count stays
\* below the limit at which the watchdog acts.
THEOREM TypeCorrect == Spec => []TypeOK
<1>1. Init => TypeOK
  <2> SUFFICES ASSUME Init PROVE TypeOK
    OBVIOUS
  <2>1. 0 \in 0..(StalledLimit - 1)
    BY TrackAssumption
  <2>2. QED
    BY <2>1 DEF Init, TypeOK, LoopSteps, CloseSteps
<1>2. TypeOK /\ [Next]_vars => TypeOK'
  <2> SUFFICES ASSUME TypeOK, [Next]_vars PROVE TypeOK'
    OBVIOUS
  <2>1. 0 \in 0..(StalledLimit - 1)
    BY TrackAssumption
  <2>2. ASSUME NEW s \in Live \cup {"released"}, SetState(s)
        PROVE  object' \in [Tracks -> Live \cup {"released"}]
    BY <2>2 DEF SetState, TypeOK
  <2>3. CASE Configure \/ Cancel \/ ReceiveEnds
    <3>1. CASE Configure
      <4>1. track' \in Tracks /\ object' \in [Tracks -> Live \cup {"released"}]
        BY <3>1 DEF Configure, TypeOK, Live
      <4>2. QED
        BY <3>1, <4>1 DEF Configure, TypeOK, LoopSteps
    <3>2. CASE Cancel \/ ReceiveEnds
      BY <3>2, ZenonT(30) DEF Cancel, ReceiveEnds, TypeOK
    <3>3. QED
      BY <2>3, <3>1, <3>2
  <2>4. CASE LoopEnds \/ PopChunk \/ Write
    BY <2>4 DEF LoopEnds, PopChunk, Write, CheckReleased, Accept, AcceptNothing, Dead, Threw,
       WriteFailed, Go, TypeOK, LoopSteps
  <2>5. CASE HeadUnreadable \/ HeadAdvanced \/ HeadFrozen
    <3>1. CASE HeadUnreadable \/ HeadAdvanced
      <4>1. stalledWrites' \in 0..(StalledLimit - 1)
        BY <2>1, <3>1 DEF HeadUnreadable, HeadAdvanced, TypeOK
      <4>2. QED
        BY <3>1, <4>1, ZenonT(30) DEF HeadUnreadable, HeadAdvanced, Go, TypeOK, LoopSteps
    <3>2. CASE HeadFrozen
      <4>1. stalledWrites' \in 0..(StalledLimit - 1)
        BY <2>1, <3>2, TrackAssumption DEF HeadFrozen, TypeOK
      <4>2. QED
        BY <3>2, <4>1 DEF HeadFrozen, Go, TypeOK, LoopSteps
    <3>3. QED
      BY <2>5, <3>1, <3>2
  <2>6. CASE Reactivate
    BY <2>1, <2>2, <2>6 DEF Reactivate, Go, TypeOK, LoopSteps, Live
  <2>7. CASE CheckRebuild \/ ReleaseOld \/ BuildFails \/ PlayNew
    BY <2>2, <2>7 DEF CheckRebuild, ReleaseOld, BuildFails, PlayNew, Go, TypeOK, LoopSteps, Live
  <2>8. CASE Build
    BY <2>1, <2>8 DEF Build, Go, TypeOK, LoopSteps, Live
  <2>9. ASSUME NEW x \in Closers, Close(x) PROVE TypeOK'
    <3>1. object' \in [Tracks -> Live \cup {"released"}]
      <4>1. UNCHANGED object \/ SetState("stopped") \/ SetState("released")
        BY <2>9 DEF Close, CloseFlag, CloseSocket, MarkReleased, StopTrack, ReleaseTrack
      <4>2. QED
        BY <2>2, <4>1 DEF Live, TypeOK
    <3>2. closer' \in [Closers -> CloseSteps]
      <4>1. \E s \in CloseSteps : closer' = [closer EXCEPT ![x] = s]
        BY <2>9 DEF Close, CloseFlag, CloseSocket, MarkReleased, StopTrack, ReleaseTrack, At, CloseSteps
      <4>2. QED
        BY <4>1 DEF TypeOK
    <3>3. UNCHANGED <<head, track, watch, cancelled, loop, receive>>
      BY <2>9 DEF Close, CloseFlag, CloseSocket, MarkReleased, StopTrack, ReleaseTrack
    <3>4. /\ closed' \in BOOLEAN /\ socketOpen' \in BOOLEAN /\ released' \in BOOLEAN
          /\ job' \in {"handshake", "streaming", "over"}
      BY <2>9 DEF Close, CloseFlag, CloseSocket, MarkReleased, StopTrack, ReleaseTrack, TypeOK
    <3>5. QED
      BY <3>1, <3>2, <3>3, <3>4 DEF TypeOK
  <2>10. CASE AudioSystem
    <3>1. object' \in [Tracks -> Live \cup {"released"}]
      <4>1. UNCHANGED object \/ SetState("evicted") \/ SetState("dead")
        BY <2>10 DEF AudioSystem, MixerPulls, Evict, RouteDies
      <4>2. QED
        BY <2>2, <4>1 DEF Live, TypeOK
    <3>2. UNCHANGED <<track, released, watch, cancelled, loop, receive, closing>>
      BY <2>10 DEF AudioSystem, MixerPulls, Evict, RouteDies
    <3>3. pulled' \in BOOLEAN /\ headMoved' \in BOOLEAN
      BY <2>10 DEF AudioSystem, MixerPulls, Evict, RouteDies, TypeOK
    <3>4. QED
      BY <3>1, <3>2, <3>3 DEF TypeOK
  <2>11. CASE UNCHANGED vars
    BY <2>11 DEF vars, TypeOK
  <2>12. QED
    BY <2>3, <2>4, <2>5, <2>6, <2>7, <2>8, <2>9, <2>10, <2>11
    DEF Next, PlaybackLoop, Watchdog, Rebuild
<1>3. QED
  BY <1>1, <1>2, PTL DEF Spec

-----------------------------------------------------------------------------
(* One track.  Only the current track is alive, and at the point where a new  *)
(* one is built it is not: nothing that happens to a released track revives it. *)

OnlyCurrent == \A t \in Tracks : object[t] \in Live => t = track

NoneWhereBuilt == loop = "building" => State = "released"

NoneYet == job = "handshake" => loop = "none" /\ track = NoTrack

OneInv == OnlyCurrent /\ NoneWhereBuilt /\ NoneYet

\* Whatever a step does to the current track, no other one comes to life.
LEMMA CurrentOnly ==
  ASSUME TypeOK, OnlyCurrent, NEW s, SetState(s) \/ UNCHANGED object, UNCHANGED track
  PROVE  OnlyCurrent'
  BY DEF TypeOK, OnlyCurrent, SetState

LEMMA OneInvariant == Spec => []OneInv
<1>1. Init => OneInv
  BY DEF Init, OneInv, OnlyCurrent, NoneWhereBuilt, NoneYet, Live
<1>2. TypeOK /\ OneInv /\ [Next]_vars => OneInv'
  <2> SUFFICES ASSUME TypeOK, OneInv, [Next]_vars PROVE OneInv'
    OBVIOUS
  <2>1. CASE Configure
    <3>1. \A t \in Tracks : object[t] = "released"
      BY <2>1, TrackAssumption DEF Configure, OneInv, OnlyCurrent, NoneYet, TypeOK
    <3>2. OnlyCurrent'
      BY <2>1, <3>1 DEF Configure, OnlyCurrent, Live, TypeOK
    <3>3. QED
      BY <2>1, <3>2 DEF Configure, OneInv, NoneWhereBuilt, NoneYet
  <2>2. CASE Build
    <3>1. \A t \in Tracks : object[t] = "released"
      <4>1. \A t \in Tracks : object[t] \in Live \cup {"released"}
        BY DEF TypeOK
      <4>2. State = "released"
        BY <2>2 DEF Build, Go, OneInv, NoneWhereBuilt
      <4>3. \A t \in Tracks : t # track => object[t] \notin Live
        BY DEF OneInv, OnlyCurrent
      <4>4. \A t \in Tracks : t = track => object[t] = "released"
        BY <4>2, TrackAssumption DEF State
      <4>5. QED
        BY <4>1, <4>3, <4>4
    <3>2. OnlyCurrent'
      BY <2>2, <3>1 DEF Build, OnlyCurrent, Live, TypeOK
    <3>3. QED
      BY <2>2, <3>2 DEF Build, Go, OneInv, NoneWhereBuilt, NoneYet
  <2>3. ASSUME UNCHANGED track, \E s : SetState(s) \/ UNCHANGED object,
               State = "released" => State' = "released",
               loop' = "building" => loop = "building" \/ State' = "released",
               loop' = loop \/ loop # "none", job' = "handshake" => job = "handshake"
        PROVE  OneInv'
    BY <2>3, CurrentOnly DEF OneInv, NoneWhereBuilt, NoneYet
  <2>4. CASE Cancel \/ ReceiveEnds \/ UNCHANGED vars
    BY <2>3, <2>4 DEF Cancel, ReceiveEnds, vars, State
  <2>5. CASE LoopEnds \/ PopChunk \/ Write
    BY <2>3, <2>5 DEF LoopEnds, PopChunk, Write, CheckReleased, Accept, AcceptNothing, Dead, Threw,
       WriteFailed, Go, State
  <2>6. CASE Watchdog
    BY <2>3, <2>6 DEF Watchdog, HeadUnreadable, HeadAdvanced, HeadFrozen, Reactivate, Go, State, SetState,
       TypeOK
  <2>7. CASE CheckRebuild \/ ReleaseOld \/ BuildFails \/ PlayNew
    BY <2>3, <2>7 DEF CheckRebuild, ReleaseOld, BuildFails, PlayNew, Go, State, SetState, TypeOK
  <2>8. ASSUME NEW x \in Closers, Close(x) PROVE OneInv'
    BY <2>3, <2>8 DEF Close, CloseFlag, CloseSocket, MarkReleased, StopTrack, ReleaseTrack, At, State,
       SetState, TypeOK
  <2>9. CASE AudioSystem
    BY <2>3, <2>9 DEF AudioSystem, MixerPulls, Evict, RouteDies, State, SetState, TypeOK
  <2>10. QED
    BY <2>1, <2>2, <2>4, <2>5, <2>6, <2>7, <2>8, <2>9 DEF Next, PlaybackLoop, Rebuild
<1>3. QED
  BY <1>1, <1>2, TypeCorrect, PTL DEF Spec

\* What is left of a track that is replaced is released, so that a session never holds two,
\* however the rebuild falls between the steps of those who close.
THEOREM NeverTwo == Spec => []OneTrack
<1>1. OneInv => OneTrack
  <2> SUFFICES ASSUME OneInv PROVE OneTrack
    OBVIOUS
  <2>1. {t \in Tracks : object[t] \in Live} \subseteq {track}
    BY DEF OneInv, OnlyCurrent
  <2>2. IsFiniteSet({track}) /\ Cardinality({track}) = 1
    BY FS_Singleton
  <2>3. QED
    BY <2>1, <2>2, FS_Subset DEF OneTrack
<1>2. QED
  BY <1>1, OneInvariant, PTL

-----------------------------------------------------------------------------
(* No false alarm.  What the watchdog remembers is true of the current track. *)

Remembers == hasEverAdvanced \/ headMoved => pulled

\* The watchdog never acts on a track that is only filling, not even on the one a rebuild
\* has put in the place of one that had played.
THEOREM AlarmsTrue == Spec => NoFalseAlarm
<1>1. Init => Remembers
  BY DEF Init, Remembers
<1>2. Remembers /\ [Next]_vars => Remembers'
  <2> SUFFICES ASSUME Remembers, [Next]_vars PROVE Remembers'
    OBVIOUS
  <2>1. CASE Configure \/ Cancel \/ ReceiveEnds \/ UNCHANGED vars
    BY <2>1 DEF Configure, Cancel, ReceiveEnds, vars, Remembers
  <2>2. CASE LoopEnds \/ PopChunk \/ Write
    BY <2>2 DEF LoopEnds, PopChunk, Write, CheckReleased, Accept, AcceptNothing, Dead, Threw,
       WriteFailed, Remembers
  <2>3. CASE Watchdog
    BY <2>3 DEF Watchdog, HeadUnreadable, HeadAdvanced, HeadFrozen, Reactivate, Remembers
  <2>4. CASE Rebuild
    BY <2>4 DEF Rebuild, CheckRebuild, ReleaseOld, Build, BuildFails, PlayNew, Remembers
  <2>5. ASSUME NEW x \in Closers, Close(x) PROVE Remembers'
    BY <2>5 DEF Close, CloseFlag, CloseSocket, MarkReleased, StopTrack, ReleaseTrack, Remembers
  <2>6. CASE AudioSystem
    BY <2>6 DEF AudioSystem, MixerPulls, Evict, RouteDies, Remembers
  <2>7. QED
    BY <2>1, <2>2, <2>3, <2>4, <2>5, <2>6 DEF Next, PlaybackLoop
<1>3. Remembers => [Reactivate => pulled]_vars
  BY DEF Remembers, Reactivate
<1>4. QED
  BY <1>1, <1>2, <1>3, PTL DEF Spec, NoFalseAlarm

-----------------------------------------------------------------------------
(* Closing.  Once a call of close has marked the track, the loop cannot get   *)
(* back into a write: it finds `released`, or, if the track was replaced       *)
(* meanwhile, `closed` at its head.  A call that found no track left `closed`  *)
(* behind for a loop that is only started later.                               *)

Marked(x) == closer[x] \in {"marked", "stopped", "done"}

ClosedIfAny == \A x \in Closers : closer[x] # "idle" => closed

NoTrackNoLoop == track = NoTrack => loop = "none" /\ ~released

MarkedMeansReleased ==
  \A x \in Closers : closer[x] \in {"unbound", "marked", "stopped"} =>
    track # NoTrack /\ (closer[x] # "unbound" => released)

Woken ==
  \A x \in Closers : closer[x] = "done" =>
    \/ loop \in {"none", "head", "ended"}
    \/ released /\ (loop = "writing" => State = "released")

WakeInv == ClosedIfAny /\ NoneYet /\ NoTrackNoLoop /\ MarkedMeansReleased /\ Woken

\* A step of the loop that is taken with a track, and does not get into a write after a call
\* of close has returned, disturbs none of this.
LEMMA LoopKeepsWake ==
  ASSUME WakeInv, UNCHANGED <<released, closing>>,
         track' = track \/ track' # NoTrack,
         loop \notin {"none", "head", "ended"} \/ (loop = "head" /\ (closed => loop' = "ended")),
         loop' # "none",
         loop' = "writing" => ~released
  PROVE  WakeInv'
<1> USE DEF closing, WakeInv
<1>1. ClosedIfAny' /\ NoneYet' /\ NoTrackNoLoop' /\ MarkedMeansReleased'
  BY DEF ClosedIfAny, NoneYet, NoTrackNoLoop, MarkedMeansReleased
<1>2. Woken'
  BY DEF Woken, ClosedIfAny
<1>3. QED
  BY <1>1, <1>2

\* A step that leaves the loop where it is, and does not revive a released track.
LEMMA OthersKeepWake ==
  ASSUME WakeInv, UNCHANGED <<released, track, loop, closing>>,
         State = "released" => State' = "released"
  PROVE  WakeInv'
  BY DEF closing, WakeInv, ClosedIfAny, NoneYet, NoTrackNoLoop, MarkedMeansReleased, Woken

LEMMA WakeInvariant == Spec => []WakeInv
<1>1. Init => WakeInv
  BY DEF Init, WakeInv, ClosedIfAny, NoneYet, NoTrackNoLoop, MarkedMeansReleased, Woken
<1>2. TypeOK /\ WakeInv /\ [Next]_vars => WakeInv'
  <2> SUFFICES ASSUME TypeOK, WakeInv, [Next]_vars PROVE WakeInv'
    OBVIOUS
  <2>1. CASE Configure
    <3>1. track' \in Tracks /\ loop' = "head" /\ job' = "streaming"
      BY <2>1 DEF Configure
    <3>2. UNCHANGED <<closer, closed, released>>
      BY <2>1 DEF Configure
    <3>3. track = NoTrack
      BY <2>1 DEF Configure, WakeInv, NoneYet
    <3>4. QED
      BY <3>1, <3>2, <3>3, TrackAssumption
      DEF WakeInv, ClosedIfAny, NoneYet, NoTrackNoLoop, MarkedMeansReleased, Woken
  <2>2. CASE LoopEnds \/ PopChunk
    BY <2>2, LoopKeepsWake DEF LoopEnds, PopChunk, Go
  <2>3. CASE CheckReleased \/ Dead \/ Threw \/ WriteFailed \/ AcceptNothing \/ Accept
    BY <2>3, LoopKeepsWake
    DEF CheckReleased, Dead, Threw, WriteFailed, AcceptNothing, Accept, Go
  <2>4. CASE Watchdog
    BY <2>4, LoopKeepsWake DEF Watchdog, HeadUnreadable, HeadAdvanced, HeadFrozen, Reactivate, Go
  <2>5. CASE Rebuild
    BY <2>5, LoopKeepsWake, TrackAssumption
    DEF Rebuild, CheckRebuild, ReleaseOld, Build, BuildFails, PlayNew, Go
  <2>6. ASSUME NEW x \in Closers, Close(x) PROVE WakeInv'
    <3>1. CASE CloseFlag(x)
      BY <2>6, <3>1 DEF CloseFlag, At, WakeInv, ClosedIfAny, NoneYet, NoTrackNoLoop,
         MarkedMeansReleased, Woken, State, TypeOK
    <3>2. CASE CloseSocket(x)
      BY <2>6, <3>2 DEF CloseSocket, WakeInv, ClosedIfAny, NoneYet, NoTrackNoLoop,
         MarkedMeansReleased, Woken, State, TypeOK
    <3>3. CASE MarkReleased(x)
      BY <2>6, <3>3 DEF MarkReleased, At, WakeInv, ClosedIfAny, NoneYet, NoTrackNoLoop,
         MarkedMeansReleased, Woken, State, TypeOK
    <3>4. CASE StopTrack(x) \/ ReleaseTrack(x)
      <4>1. track \in Tracks /\ released
        BY <2>6, <3>4 DEF StopTrack, ReleaseTrack, At, WakeInv, MarkedMeansReleased, TypeOK
      <4>2. State = "released" => State' = "released"
        BY <3>4, <4>1 DEF StopTrack, ReleaseTrack, SetState, State, TypeOK
      <4>3. ReleaseTrack(x) => State' = "released"
        BY <4>1 DEF ReleaseTrack, SetState, State, TypeOK
      <4>4. QED
        BY <2>6, <3>4, <4>1, <4>2, <4>3 DEF StopTrack, ReleaseTrack, At, WakeInv, ClosedIfAny,
           NoneYet, NoTrackNoLoop, MarkedMeansReleased, Woken, TypeOK
    <3>5. QED
      BY <2>6, <3>1, <3>2, <3>3, <3>4 DEF Close
  <2>7. CASE AudioSystem \/ Cancel \/ ReceiveEnds \/ UNCHANGED vars
    BY <2>7, OthersKeepWake DEF AudioSystem, MixerPulls, Evict, RouteDies, Cancel, ReceiveEnds, vars,
       State, SetState, TypeOK
  <2>8. QED
    BY <2>1, <2>2, <2>3, <2>4, <2>5, <2>6, <2>7 DEF Next, PlaybackLoop, Write
<1>3. QED
  BY <1>1, <1>2, TypeCorrect, PTL DEF Spec

\* Either call of close, once it has returned, has freed the playback loop: it is not left in
\* a write that nothing will wake, wherever the two calls, a rebuild and the start of the
\* session fall, for any number of AudioTrack objects.
THEOREM AlwaysWoken == Spec => []NoLostWakeup
<1>1. WakeInv => NoLostWakeup
  BY DEF WakeInv, Woken, NoLostWakeup, Blocked
<1>2. QED
  BY <1>1, WakeInvariant, PTL

-----------------------------------------------------------------------------
(* The leak.  ReleasedAtEnd is false: a close that marks the track between    *)
(* the check in rebuild and the start of the new track leaves that one alive. *)
(* This is the only way.                                                      *)

Replacing == loop \in {"replacing", "building", "starting"}

\* close never falls into a rebuild.
NoRace == [][\A x \in Closers : MarkReleased(x) => ~Replacing]_vars

NoneReplaced == released => ~Replacing

JobGone == closer["job"] # "idle" => job = "over"

GoneForGood ==
  closer["job"] = "done" => State = "released" /\ (released \/ track = NoTrack)

LeakInv == NoneReplaced /\ JobGone /\ GoneForGood

\* With no close in the middle of a rebuild, however often the track dies and is replaced
\* before, and whoever else closes, nothing is left of it when the session is over.
THEOREM OnlyRaceLeaks == Spec /\ NoRace => []ReleasedAtEnd
<1>1. Init => LeakInv
  BY DEF Init, LeakInv, NoneReplaced, JobGone, GoneForGood, Closers
<1>2. TypeOK /\ OneInv /\ WakeInv /\ LeakInv /\ [Next]_vars
        /\ [\A x \in Closers : MarkReleased(x) => ~Replacing]_vars => LeakInv'
  <2> SUFFICES ASSUME TypeOK, OneInv, WakeInv, LeakInv, [Next]_vars,
                      [\A x \in Closers : MarkReleased(x) => ~Replacing]_vars
               PROVE  LeakInv'
    OBVIOUS
  <2>1. CASE Configure
    <3>1. job = "handshake" /\ job' = "streaming" /\ ~released /\ ~released'
      BY <2>1 DEF Configure, WakeInv, NoneYet, NoTrackNoLoop
    <3>2. closer["job"] = "idle" /\ closer'["job"] = "idle"
      BY <2>1, <3>1 DEF Configure, LeakInv, JobGone
    <3>3. QED
      BY <3>1, <3>2 DEF LeakInv, NoneReplaced, JobGone, GoneForGood
  <2>2. ASSUME Replacing, track # NoTrack, UNCHANGED <<released, closing>> PROVE LeakInv'
    <3>1. ~released
      BY <2>2 DEF LeakInv, NoneReplaced
    <3>2. closer["job"] # "done"
      BY <2>2, <3>1 DEF LeakInv, GoneForGood
    <3>3. QED
      BY <2>2, <3>1, <3>2 DEF closing, LeakInv, NoneReplaced, JobGone, GoneForGood
  <2>3. CASE ReleaseOld \/ Build \/ BuildFails \/ PlayNew
    <3>1. Replacing /\ loop # "none"
      BY <2>3 DEF ReleaseOld, Build, BuildFails, PlayNew, Replacing, Go
    <3>2. track # NoTrack
      BY <3>1 DEF WakeInv, NoTrackNoLoop
    <3>3. UNCHANGED <<released, closing>>
      BY <2>3 DEF ReleaseOld, Build, BuildFails, PlayNew
    <3>4. QED
      BY <2>2, <3>1, <3>2, <3>3
  <2>4. ASSUME UNCHANGED <<track, released, closing>>, State = "released" => State' = "released",
               released => ~Replacing'
        PROVE  LeakInv'
    BY <2>4 DEF closing, LeakInv, NoneReplaced, JobGone, GoneForGood
  <2>5. CASE LoopEnds \/ PopChunk \/ Write \/ CheckRebuild
    <3>1. UNCHANGED <<object, track, released, closing>> /\ (released => ~Replacing')
      BY <2>5 DEF LoopEnds, PopChunk, Write, CheckReleased, Accept, AcceptNothing, Dead, Threw,
         WriteFailed, CheckRebuild, Go, Replacing
    <3>2. QED
      BY <2>4, <3>1 DEF State
  <2>6. CASE Watchdog
    <3>1. UNCHANGED <<track, released, closing>> /\ ~Replacing'
      BY <2>6 DEF Watchdog, HeadUnreadable, HeadAdvanced, HeadFrozen, Reactivate, Go, Replacing
    <3>2. State = "released" => State' = "released"
      BY <2>6 DEF Watchdog, HeadUnreadable, HeadAdvanced, HeadFrozen, Reactivate, State, SetState
    <3>3. QED
      BY <2>4, <3>1, <3>2
  <2>7. CASE AudioSystem \/ Cancel \/ ReceiveEnds \/ UNCHANGED vars
    <3>1. UNCHANGED <<track, released, loop, closing>>
      BY <2>7 DEF AudioSystem, MixerPulls, Evict, RouteDies, Cancel, ReceiveEnds, vars
    <3>2. State = "released" => State' = "released"
      BY <2>7 DEF AudioSystem, MixerPulls, Evict, RouteDies, Cancel, ReceiveEnds, vars, State, SetState
    <3>3. released => ~Replacing'
      BY <3>1 DEF LeakInv, NoneReplaced, Replacing
    <3>4. QED
      BY <2>4, <3>1, <3>2, <3>3
  <2>8. ASSUME NEW x \in Closers, Close(x) PROVE LeakInv'
    <3>1. CASE CloseFlag(x)
      BY <2>8, <3>1 DEF CloseFlag, At, LeakInv, NoneReplaced, Replacing, JobGone, GoneForGood, State,
         TypeOK
    <3>2. CASE CloseSocket(x)
      BY <2>8, <3>2 DEF CloseSocket, LeakInv, NoneReplaced, Replacing, JobGone, GoneForGood, State,
         TypeOK
    <3>3. CASE MarkReleased(x)
      <4>1. vars' # vars
        BY <2>8, <3>3 DEF MarkReleased, At, vars, closing, TypeOK
      <4>2. ~Replacing
        BY <2>8, <3>3, <4>1
      <4>3. QED
        BY <2>8, <3>3, <4>2 DEF MarkReleased, At, LeakInv, NoneReplaced, Replacing, JobGone,
           GoneForGood, State, TypeOK
    <3>4. CASE StopTrack(x) \/ ReleaseTrack(x)
      <4>1. track \in Tracks /\ released
        BY <2>8, <3>4 DEF StopTrack, ReleaseTrack, At, WakeInv, MarkedMeansReleased, TypeOK
      <4>2. State = "released" => State' = "released"
        BY <3>4, <4>1 DEF StopTrack, ReleaseTrack, SetState, State, TypeOK
      <4>3. ReleaseTrack(x) => State' = "released"
        BY <4>1 DEF ReleaseTrack, SetState, State, TypeOK
      <4>4. UNCHANGED <<track, released, loop, job>>
        BY <3>4 DEF StopTrack, ReleaseTrack
      <4>5. \/ closer[x] = "marked" /\ closer' = [closer EXCEPT ![x] = "stopped"]
            \/ closer[x] = "stopped" /\ closer' = [closer EXCEPT ![x] = "done"] /\ ReleaseTrack(x)
        BY <3>4 DEF StopTrack, ReleaseTrack, At
      <4>6. /\ closer'["job"] = "done" => closer["job"] = "done" \/ ReleaseTrack(x)
            /\ closer'["job"] # "idle" => closer["job"] # "idle"
        <5>1. closer \in [Closers -> CloseSteps] /\ "job" \in Closers
          BY DEF TypeOK, Closers
        <5>2. QED
          BY <4>5, <5>1
      <4>7. NoneReplaced' /\ JobGone'
        BY <4>4, <4>6 DEF LeakInv, NoneReplaced, Replacing, JobGone
      <4>8. GoneForGood'
        BY <4>1, <4>2, <4>3, <4>4, <4>6 DEF LeakInv, GoneForGood
      <4>9. QED
        BY <4>7, <4>8 DEF LeakInv
    <3>5. QED
      BY <2>8, <3>1, <3>2, <3>3, <3>4 DEF Close
  <2>9. QED
    BY <2>1, <2>3, <2>5, <2>6, <2>7, <2>8 DEF Next, PlaybackLoop, Rebuild
<1>3. TypeOK /\ OneInv /\ LeakInv => ReleasedAtEnd
  BY TrackAssumption DEF TypeOK, OneInv, OnlyCurrent, LeakInv, GoneForGood, ReleasedAtEnd, Closers,
     State, Live
<1>4. QED
  BY <1>1, <1>2, <1>3, TypeCorrect, OneInvariant, WakeInvariant, PTL DEF Spec, NoRace
=============================================================================
