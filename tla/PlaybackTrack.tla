--------------------------- MODULE PlaybackTrack ---------------------------
(***************************************************************************)
(* The end of the phone's audio path: the playback loop and the receive    *)
(* loop (network/AudioReceiver.kt), the AudioTrack they feed               *)
(* (audio/PlaybackTrack.kt) with its watchdog, and whoever closes them.    *)
(*                                                                         *)
(* The loop is normally blocked inside AudioTrack.write, which cannot be   *)
(* cancelled; releasing the track from another thread is what wakes it.    *)
(* The same exception means a track that died under a live session, which  *)
(* the loop replaces.  Two threads may close: the service, when it cancels *)
(* a session, and the session's own job when it ends.                      *)
(*                                                                         *)
(* The jitter buffer is another module: a pop that returns null changes    *)
(* nothing here.  Output routes and levels are left out.                   *)
(***************************************************************************)
EXTENDS Integers, FiniteSets

CONSTANTS
  Tracks,       \* AudioTrack objects
  NoTrack,
  StalledLimit  \* STALLED_WRITES_BEFORE_RESTART

ASSUME TrackAssumption ==
  /\ NoTrack \notin Tracks
  /\ StalledLimit \in Nat \ {0}

Closers == {"service", "job"}

VARIABLES
  \* the system's side of each AudioTrack: "released" also stands for one not built yet
  object,
  pulled,           \* the mixer has pulled audio from the current track
  headMoved,        \* its playback head differs from lastHeadPosition
  \* PlaybackTrack
  track,            \* the current track, NoTrack before configureSession
  released,
  stalledWrites,
  hasEverAdvanced,
  \* AudioReceiver and its session's job
  closed,
  socketOpen,
  cancelled,        \* the job is cancelled: isActive is false
  loop,             \* where the playback loop is
  receive,          \* where the receive loop is
  job,              \* "handshake", "streaming" or "over"
  closer            \* where each caller of close() is

head    == <<pulled, headMoved>>
watch   == <<stalledWrites, hasEverAdvanced>>
closing == <<closed, socketOpen, closer, job>>
vars    == <<object, head, track, released, watch, cancelled, loop, receive, closing>>

Live == {"stopped", "playing", "evicted", "dead"}

LoopSteps == {"none", "head", "checking", "writing", "accepted", "rebuilding", "replacing",
              "building", "starting", "failed", "ended"}

CloseSteps == {"idle", "flagged", "unbound", "marked", "stopped", "done"}

Init ==
  /\ object = [t \in Tracks |-> "released"]
  /\ pulled = FALSE /\ headMoved = FALSE
  /\ track = NoTrack
  /\ released = FALSE
  /\ stalledWrites = 0 /\ hasEverAdvanced = FALSE
  /\ closed = FALSE /\ socketOpen = TRUE /\ cancelled = FALSE
  /\ loop = "none" /\ receive = "none"
  /\ job = "handshake"
  /\ closer = [x \in Closers |-> "idle"]

State == IF track = NoTrack THEN "released" ELSE object[track]

SetState(s) == object' = [object EXCEPT ![track] = s]

Go(from, to) == loop = from /\ loop' = to

-----------------------------------------------------------------------------
(* The session's job *)

\* configureSession builds the track and plays it, or fails to; then both loops start.
Configure ==
  /\ job = "handshake"
  /\ job' = "streaming"
  /\ \E t \in Tracks, s \in {"playing", "stopped"} :
       track' = t /\ object' = [object EXCEPT ![t] = s]
  /\ loop' = "head" /\ receive' = "receiving"
  /\ UNCHANGED <<head, released, watch, cancelled, closed, socketOpen, closer>>

Cancel ==
  /\ ~cancelled
  /\ cancelled' = TRUE
  /\ UNCHANGED <<object, head, track, released, watch, loop, receive, closing>>

-----------------------------------------------------------------------------
(* The playback loop and write *)

LoopEnds ==
  /\ Go("head", "ended")
  /\ cancelled \/ closed
  /\ UNCHANGED <<object, head, track, released, watch, cancelled, receive, closing>>

\* Mutant: the head of the loop only looks whether the job is cancelled.
PopUnlessCancelled ==
  /\ Go("head", "checking")
  /\ ~cancelled
  /\ UNCHANGED <<object, head, track, released, watch, cancelled, receive, closing>>

PopChunk ==
  /\ Go("head", "checking")
  /\ ~cancelled /\ ~closed
  /\ UNCHANGED <<object, head, track, released, watch, cancelled, receive, closing>>

CheckReleased ==
  /\ loop = "checking"
  /\ loop' = IF released THEN "failed" ELSE "writing"
  /\ UNCHANGED <<object, head, track, released, watch, cancelled, receive, closing>>

\* written > 0.  An evicted track may go on accepting audio that nobody hears.
Accept ==
  /\ Go("writing", "accepted")
  /\ State \in {"stopped", "playing", "evicted"}
  /\ UNCHANGED <<object, head, track, released, watch, cancelled, receive, closing>>

\* written = 0 from a track that is not playing, or an error that is not "dead".
AcceptNothing ==
  /\ Go("writing", "failed")
  /\ State \in {"stopped", "playing", "evicted"}
  /\ UNCHANGED <<object, head, track, released, watch, cancelled, receive, closing>>

Dead ==
  /\ Go("writing", "rebuilding")
  /\ State = "dead"
  /\ UNCHANGED <<object, head, track, released, watch, cancelled, receive, closing>>

\* IllegalStateException: the track was released under the call.
Threw ==
  /\ loop = "writing"
  /\ State = "released"
  /\ loop' = IF released THEN "failed" ELSE "rebuilding"
  /\ UNCHANGED <<object, head, track, released, watch, cancelled, receive, closing>>

\* Mutant: no exit here, the loop's head will see it.
RetryAlways ==
  /\ Go("failed", "checking")
  /\ UNCHANGED <<object, head, track, released, watch, cancelled, receive, closing>>

\* FAILED: leave if closed, back off otherwise (the delay ends a cancelled loop).
WriteFailed ==
  /\ loop = "failed"
  /\ loop' \in IF closed THEN {"ended"} ELSE {"head"}
  /\ UNCHANGED <<object, head, track, released, watch, cancelled, receive, closing>>

-----------------------------------------------------------------------------
(* playbackHasStalled *)

HeadUnreadable ==
  /\ Go("accepted", "head")
  /\ State \in {"released", "dead"}
  /\ UNCHANGED <<object, head, track, released, watch, cancelled, receive, closing>>

HeadAdvanced ==
  /\ Go("accepted", "head")
  /\ headMoved
  /\ headMoved' = FALSE
  /\ hasEverAdvanced' = TRUE
  /\ stalledWrites' = 0
  /\ UNCHANGED <<object, pulled, track, released, cancelled, receive, closing>>

\* Mutant: the limit is tested before the write is counted.
HeadFrozenOneMore ==
  /\ Go("accepted", "head")
  /\ ~headMoved
  /\ hasEverAdvanced => stalledWrites < StalledLimit
  /\ stalledWrites' = IF hasEverAdvanced THEN stalledWrites + 1 ELSE 0
  /\ UNCHANGED <<object, head, track, released, hasEverAdvanced, cancelled, receive, closing>>

\* A head that never moved is not counted: the track is filling.
HeadFrozen ==
  /\ Go("accepted", "head")
  /\ ~headMoved
  /\ hasEverAdvanced => stalledWrites + 1 < StalledLimit
  /\ stalledWrites' = IF hasEverAdvanced THEN stalledWrites + 1 ELSE 0
  /\ UNCHANGED <<object, head, track, released, hasEverAdvanced, cancelled, receive, closing>>

\* Mutant: the count starts again, but the track is not played.
ReportOnly ==
  /\ Go("accepted", "head")
  /\ ~headMoved /\ hasEverAdvanced /\ stalledWrites + 1 >= StalledLimit
  /\ stalledWrites' = 0
  /\ UNCHANGED <<object, head, track, released, hasEverAdvanced, cancelled, receive, closing>>

\* play() puts an evicted track back into the mix; on a released one it throws.
Reactivate ==
  /\ Go("accepted", "head")
  /\ ~headMoved /\ hasEverAdvanced /\ stalledWrites + 1 >= StalledLimit
  /\ stalledWrites' = 0
  /\ IF State \in {"stopped", "evicted"} THEN SetState("playing") ELSE UNCHANGED object
  /\ UNCHANGED <<head, track, released, hasEverAdvanced, cancelled, receive, closing>>

-----------------------------------------------------------------------------
(* rebuild *)

CheckRebuild ==
  /\ loop = "rebuilding"
  /\ loop' = IF released THEN "failed" ELSE "replacing"
  /\ UNCHANGED <<object, head, track, released, watch, cancelled, receive, closing>>

\* Mutant: the dead track is only dropped.
DropOld ==
  /\ Go("replacing", "building")
  /\ UNCHANGED <<object, head, track, released, watch, cancelled, receive, closing>>

ReleaseOld ==
  /\ Go("replacing", "building")
  /\ SetState("released")
  /\ UNCHANGED <<head, track, released, watch, cancelled, receive, closing>>

\* Mutant: the new track is taken for one that has played.
BuildRemembering ==
  /\ Go("building", "starting")
  /\ \E t \in Tracks \ {track} :
       object[t] = "released" /\ track' = t /\ object' = [object EXCEPT ![t] = "stopped"]
  /\ pulled' = FALSE /\ headMoved' = FALSE
  /\ stalledWrites' = 0
  /\ UNCHANGED <<hasEverAdvanced, released, cancelled, receive, closing>>

Build ==
  /\ Go("building", "starting")
  /\ \E t \in Tracks \ {track} :
       object[t] = "released" /\ track' = t /\ object' = [object EXCEPT ![t] = "stopped"]
  /\ pulled' = FALSE /\ headMoved' = FALSE
  /\ stalledWrites' = 0 /\ hasEverAdvanced' = FALSE
  /\ UNCHANGED <<released, cancelled, receive, closing>>

BuildFails ==
  /\ Go("building", "failed")
  /\ UNCHANGED <<object, head, track, released, watch, cancelled, receive, closing>>

\* play() on the new track, which throws if shutdown was faster.
PlayNew ==
  /\ loop = "starting"
  /\ \/ State \in {"stopped", "playing"} /\ SetState("playing") /\ loop' = "head"
     \/ State \in {"dead", "released"} /\ UNCHANGED object /\ loop' = "failed"
  /\ UNCHANGED <<head, track, released, watch, cancelled, receive, closing>>

-----------------------------------------------------------------------------
(* The receive loop, and close *)

\* A packet, or an error that is not the end: round again, with nothing changed here.
ReceiveEnds ==
  /\ receive = "receiving"
  /\ closed \/ cancelled \/ ~socketOpen
  /\ receive' = "ended"
  /\ UNCHANGED <<object, head, track, released, watch, cancelled, loop, closing>>

At(x, from, to) == closer[x] = from /\ closer' = [closer EXCEPT ![x] = to]

\* The job closes in its finally, however the session ended.
CloseFlag(x) ==
  /\ At(x, "idle", "flagged")
  /\ closed' = TRUE
  /\ job' = IF x = "job" THEN "over" ELSE job
  /\ UNCHANGED <<object, head, track, released, watch, cancelled, loop, receive, socketOpen>>

\* Without a track there is nothing to shut down.
CloseSocket(x) ==
  /\ closer[x] = "flagged"
  /\ closer' = [closer EXCEPT ![x] = IF track = NoTrack THEN "done" ELSE "unbound"]
  /\ socketOpen' = FALSE
  /\ UNCHANGED <<object, head, track, released, watch, cancelled, loop, receive, closed, job>>

MarkReleased(x) ==
  /\ At(x, "unbound", "marked")
  /\ released' = TRUE
  /\ UNCHANGED <<object, head, track, watch, cancelled, loop, receive, closed, socketOpen, job>>

StopTrack(x) ==
  /\ At(x, "marked", "stopped")
  /\ IF State \in {"playing", "evicted"} THEN SetState("stopped") ELSE UNCHANGED object
  /\ UNCHANGED <<head, track, released, watch, cancelled, loop, receive, closed, socketOpen, job>>

ReleaseTrack(x) ==
  /\ At(x, "stopped", "done")
  /\ SetState("released")
  /\ UNCHANGED <<head, track, released, watch, cancelled, loop, receive, closed, socketOpen, job>>

-----------------------------------------------------------------------------
(* The audio system *)

MixerPulls ==
  /\ State = "playing" /\ ~headMoved
  /\ pulled' = TRUE /\ headMoved' = TRUE
  /\ UNCHANGED <<object, track, released, watch, cancelled, loop, receive, closing>>

\* Underrun: the mixer drops the track from its list.
Evict ==
  /\ State = "playing"
  /\ SetState("evicted")
  /\ UNCHANGED <<head, track, released, watch, cancelled, loop, receive, closing>>

\* The audio route changes under the track.
RouteDies ==
  /\ State \in {"stopped", "playing", "evicted"}
  /\ SetState("dead")
  /\ UNCHANGED <<head, track, released, watch, cancelled, loop, receive, closing>>

-----------------------------------------------------------------------------
Write == CheckReleased \/ Accept \/ AcceptNothing \/ Dead \/ Threw \/ WriteFailed

Watchdog == HeadUnreadable \/ HeadAdvanced \/ HeadFrozen \/ Reactivate

Rebuild == CheckRebuild \/ ReleaseOld \/ Build \/ BuildFails \/ PlayNew

PlaybackLoop == LoopEnds \/ PopChunk \/ Write \/ Watchdog \/ Rebuild

Close(x) == CloseFlag(x) \/ CloseSocket(x) \/ MarkReleased(x) \/ StopTrack(x) \/ ReleaseTrack(x)

AudioSystem == MixerPulls \/ Evict \/ RouteDies

Next ==
  \/ Configure \/ Cancel \/ PlaybackLoop \/ ReceiveEnds
  \/ \E x \in Closers : Close(x)
  \/ AudioSystem

Spec == Init /\ [][Next]_vars

\* A write that may wait for ever: it is not certain that the mixer makes room.
Blocked == loop = "writing" /\ State \in {"playing", "evicted"}

(***************************************************************************)
(* Fairness.  Threads run and a call of close, once made, runs to its end; *)
(* but a write into a track of the mixer may never return, and a receive   *)
(* returns for certain only when its socket is closed.                     *)
(***************************************************************************)
FairSpec ==
  /\ Spec
  /\ WF_vars(PlaybackLoop /\ ~Blocked)
  /\ WF_vars(~socketOpen /\ ReceiveEnds)
  /\ \A x \in Closers :
       WF_vars(CloseSocket(x) \/ MarkReleased(x) \/ StopTrack(x) \/ ReleaseTrack(x))

-----------------------------------------------------------------------------
(* Properties *)

\* Every variable holds a value of its type, and the count stays below the limit.
TypeOK ==
  /\ object \in [Tracks -> Live \cup {"released"}]
  /\ pulled \in BOOLEAN /\ headMoved \in BOOLEAN
  /\ track \in Tracks \cup {NoTrack}
  /\ released \in BOOLEAN
  /\ stalledWrites \in 0..(StalledLimit - 1) /\ hasEverAdvanced \in BOOLEAN
  /\ closed \in BOOLEAN /\ socketOpen \in BOOLEAN /\ cancelled \in BOOLEAN
  /\ loop \in LoopSteps
  /\ receive \in {"none", "receiving", "ended"}
  /\ job \in {"handshake", "streaming", "over"}
  /\ closer \in [Closers -> CloseSteps]

\* "Every reconnect leaked another AudioTrack": a session never holds more than one
\* track, whatever dies, is rebuilt or is shut down at the same time.
OneTrack == Cardinality({t \in Tracks : object[t] \in Live}) <= 1

\* "The watchdog fired during normal startup": it only fires on a track the mixer has
\* pulled from, the rebuilt one included.
NoFalseAlarm == [][Reactivate => pulled]_vars

\* Whoever closes, and wherever the loops are then, blocked in a write for ever or
\* half-way through a rebuild: both of them end.
LoopsEnd == closed ~> (loop \in {"none", "ended"} /\ receive \in {"none", "ended"})

\* "Releasing the track is what actually wakes them": when either call of close has returned, the loop
\* is not, and will not be, in a write that may wait for ever, though it could not be cancelled
\* and may have been replacing the track, or not yet have had one.
NoLostWakeup == (\E x \in Closers : closer[x] = "done") => ~Blocked

\* As long as writes are accepted, an eviction of a track that has played is noticed
\* and undone, although every single write looks like a success.
EvictionNoticed ==
  []<><<Accept>>_vars => (State = "evicted" /\ pulled ~> State # "evicted")

\* "A playback loop still unwinding cannot rebuild what was just released": once close
\* is over and the loop has ended, no track is left.
ReleasedAtEnd ==
  (\A x \in Closers : closer[x] = "done") /\ loop = "ended"
     => \A t \in Tracks : object[t] = "released"
=============================================================================
