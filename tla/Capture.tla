------------------------------ MODULE Capture ------------------------------
(***************************************************************************)
(* The laptop's capture thread (capture/mod.rs): it opens the output       *)
(* device the user selected, or the system default, and passes what that   *)
(* device plays to the sender through a bounded queue.  It is also the     *)
(* only one that mutes a device ("Also play locally while relaying" off).  *)
(*                                                                         *)
(* The window writes the selection, then bumps a generation counter; the   *)
(* thread reads the counter, then the selection, and starts over when the  *)
(* counter moves.  Devices come and go, the system's calls fail, and the   *)
(* process ends with its window, wherever the thread is at that moment.    *)
(*                                                                         *)
(* The PulseAudio and the WASAPI loop have the same steps; the latter also *)
(* wakes up without audio (eventDriven).  The user's own mutes, outside    *)
(* the program, are left out.                                              *)
(***************************************************************************)
EXTENDS Integers, FiniteSets

CONSTANTS
  Devices,        \* output devices that may be plugged in
  SystemDefault,  \* the selection None
  QueueLimit,     \* CAPTURE_QUEUE_CHUNKS
  MaxGeneration,  \* bound: clicks on the device list and on Refresh
  Builds          \* builds of the program: does the loop wait for events?

ASSUME CaptureAssumption ==
  /\ SystemDefault \notin Devices
  /\ QueueLimit \in Nat \ {0}
  /\ MaxGeneration \in Nat
  /\ Builds \subseteq BOOLEAN

VARIABLES
  \* AppState
  selected,      \* selected_capture_device_id
  generation,    \* capture_generation
  shouldMute,    \* what should_mute_local_playback makes of the settings and the status
  \* the window
  clicked,       \* the selection is written, the generation not bumped yet
  \* the system
  eventDriven,   \* WASAPI, which waits for events and times out in silence
  present,       \* devices plugged in
  muted,         \* devices whose output is muted
  \* the capture thread
  pc,
  startedAt,     \* started_at_generation
  wanted,        \* the selection it read
  device,        \* the device it opens or captures
  alive,         \* the stream can still be read
  canMute,       \* the device's mute control was found
  desired,       \* desired_mute, while it is being applied
  lastMute,      \* last_applied_mute
  unheard,       \* observation: the server carried out the last call that failed
  \* the queue to the sender
  queue,
  closed         \* the receiver is gone

settings == <<selected, generation, shouldMute, clicked>>
system   == <<eventDriven, present, muted>>
stream   == <<startedAt, wanted, device, alive, canMute>>
mute     == <<desired, lastMute, unheard>>
channel  == <<queue, closed>>
vars     == <<settings, system, pc, stream, mute, channel>>

Opening   == {"idle", "selecting", "resolving", "opening"}
Capturing == {"check", "deciding", "applying", "reading", "sending"}
Steps     == Opening \cup Capturing \cup {"ended", "exited", "killed"}

Init ==
  /\ selected = SystemDefault
  /\ generation = 0
  /\ shouldMute = FALSE
  /\ clicked = FALSE
  /\ eventDriven \in Builds
  /\ present \in SUBSET Devices
  /\ muted = {}
  /\ pc = "idle"
  /\ startedAt = 0
  /\ wanted = SystemDefault
  /\ device = SystemDefault
  /\ alive = FALSE
  /\ canMute = FALSE
  /\ desired = FALSE
  /\ lastMute = "unknown"
  /\ unheard = FALSE
  /\ queue = 0
  /\ closed = FALSE

Step(from, to) == pc = from /\ pc' = to

-----------------------------------------------------------------------------
(* start, and the head of capture_until_restart *)

SampleGeneration ==
  /\ Step("idle", "selecting")
  /\ startedAt' = generation
  /\ UNCHANGED <<settings, system, wanted, device, alive, canMute, mute, channel>>

ReadSelection ==
  /\ Step("selecting", "resolving")
  /\ wanted' = selected
  /\ UNCHANGED <<settings, system, startedAt, device, alive, canMute, mute, channel>>

\* enumerate_devices, where it succeeds; the list goes to the window as well.
EnumerateDevices == present

\* The monitor of the default sink; get_default_device.
Default == device' \in present

\* PulseAudio's enumeration fails: the selection is tried as it is.
ResolveBlind ==
  /\ ~eventDriven
  /\ Step("resolving", "opening")
  /\ IF wanted = SystemDefault THEN Default ELSE device' = wanted
  /\ UNCHANGED <<settings, system, startedAt, wanted, alive, canMute, mute, channel>>

\* Mutant: a selected device that is gone is waited for.
ResolveWanted ==
  /\ Step("resolving", "opening")
  /\ IF wanted = SystemDefault THEN Default ELSE device' = wanted
  /\ UNCHANGED <<settings, system, startedAt, wanted, alive, canMute, mute, channel>>

\* The selected device if it is there, otherwise whichever is the default now.
Resolve ==
  /\ Step("resolving", "opening")
  /\ IF wanted \in EnumerateDevices THEN device' = wanted ELSE Default
  /\ UNCHANGED <<settings, system, startedAt, wanted, alive, canMute, mute, channel>>

\* find_sink_name_for_monitor, get_id: without it, capture goes on and nothing is muted.
FindMuteControl == canMute' \in BOOLEAN

Open ==
  /\ Step("opening", "check")
  /\ device \in present
  /\ alive' = TRUE
  /\ FindMuteControl
  /\ lastMute' = "unknown"
  /\ UNCHANGED <<settings, system, startedAt, wanted, device, desired, unheard, channel>>

\* What capture_until_restart knew is gone when it returns.
Return ==
  /\ wanted' = SystemDefault /\ device' = SystemDefault
  /\ alive' = FALSE /\ canMute' = FALSE /\ desired' = FALSE
  /\ lastMute' = "unknown" /\ unheard' = FALSE
  /\ startedAt' = 0

\* Any of the calls on the way fails: no default device, the device just went, ...
OpenFails ==
  /\ pc \in {"resolving", "opening"}
  /\ pc' = "ended" /\ Return
  /\ UNCHANGED <<settings, system, channel>>

\* The loop in start: the channel is looked at only between two streams.
Restart ==
  /\ pc = "ended"
  /\ pc' = IF closed THEN "exited" ELSE "idle"
  /\ UNCHANGED <<settings, system, stream, mute, channel>>

-----------------------------------------------------------------------------
(* The loop of capture_until_restart *)

CheckGeneration ==
  /\ pc = "check"
  /\ \/ generation # startedAt /\ pc' = "ended" /\ Return
     \/ generation = startedAt /\ pc' = "deciding" /\ UNCHANGED <<stream, mute>>
  /\ UNCHANGED <<settings, system, channel>>

\* Some(b), of last_applied_mute
Applied(b) == IF b THEN "muted" ELSE "unmuted"

DecideMute ==
  /\ pc = "deciding"
  /\ LET mutes == canMute /\ shouldMute IN
     \/ lastMute = Applied(mutes) /\ pc' = "reading" /\ UNCHANGED desired
     \/ lastMute # Applied(mutes) /\ pc' = "applying" /\ desired' = mutes
  /\ UNCHANGED <<settings, system, stream, lastMute, unheard, channel>>

\* set_endpoint_mute, set_sink_mute: works as long as the device is there.
SetMute(mutes) ==
  /\ device \in present
  /\ muted' = IF mutes THEN muted \cup {device} ELSE muted \ {device}

ApplyMute ==
  /\ Step("applying", "reading")
  /\ IF canMute THEN SetMute(desired) ELSE UNCHANGED muted
  /\ lastMute' = Applied(desired)
  /\ desired' = FALSE /\ unheard' = FALSE
  /\ UNCHANGED <<settings, eventDriven, present, stream, channel>>

\* PulseAudio reports the operation done, whether the sink was still there or not.
ApplyUnnoticed ==
  /\ ~eventDriven /\ canMute /\ device \notin present
  /\ Step("applying", "reading")
  /\ lastMute' = Applied(desired)
  /\ desired' = FALSE /\ unheard' = FALSE
  /\ UNCHANGED <<settings, system, stream, channel>>

\* Mutant: a call that failed is recorded like one that worked.
ApplyFailsBelieved ==
  /\ canMute
  /\ Step("applying", "reading")
  /\ lastMute' = Applied(desired)
  /\ desired' = FALSE /\ unheard' = FALSE
  /\ UNCHANGED <<settings, system, stream, channel>>

\* A call that fails.  PulseAudio's may fail after the server has carried it out: the
\* connection ends before the answer, and wait_for_operation has only the error.
ApplyFails ==
  /\ canMute
  /\ Step("applying", "reading")
  /\ desired' = FALSE
  /\ \/ UNCHANGED <<muted, unheard>>
     \/ ~eventDriven /\ SetMute(desired) /\ unheard' = TRUE
  /\ UNCHANGED <<settings, eventDriven, present, stream, lastMute, channel>>

Read ==
  /\ alive
  /\ Step("reading", "sending")
  /\ UNCHANGED <<settings, system, stream, mute, channel>>

ReadFails ==
  /\ Step("reading", "ended") /\ Return
  /\ UNCHANGED <<settings, system, channel>>

\* WASAPI: less than a chunk so far.
ReadShort ==
  /\ eventDriven /\ alive
  /\ Step("reading", "check")
  /\ UNCHANGED <<settings, system, stream, mute, channel>>

\* WASAPI: no event within EVENT_WAIT_TIMEOUT_MS.
WaitTimesOut ==
  /\ eventDriven
  /\ pc = "reading"
  /\ \/ closed /\ pc' = "ended" /\ Return
     \/ ~closed /\ pc' = "check" /\ UNCHANGED <<stream, mute>>
  /\ UNCHANGED <<settings, system, channel>>

\* After a chunk: the loop again, or (WASAPI) the next chunk already read.
AfterChunk == {"check"} \cup (IF eventDriven THEN {"sending"} ELSE {})

\* Mutant: the queue takes one chunk more than it holds.
EnqueueOneMore ==
  /\ pc = "sending" /\ pc' \in AfterChunk
  /\ ~closed /\ queue <= QueueLimit
  /\ queue' = queue + 1
  /\ UNCHANGED <<settings, system, stream, mute, closed>>

Enqueue ==
  /\ pc = "sending" /\ pc' \in AfterChunk
  /\ ~closed /\ queue < QueueLimit
  /\ queue' = queue + 1
  /\ UNCHANGED <<settings, system, stream, mute, closed>>

\* Mutant: a blocking send, which waits for room.
DropNever == FALSE /\ UNCHANGED vars

\* try_send on a full queue: the newest chunk is dropped.
DropChunk ==
  /\ pc = "sending" /\ pc' \in AfterChunk
  /\ ~closed /\ queue = QueueLimit
  /\ UNCHANGED <<settings, system, stream, mute, channel>>

\* try_send without a receiver: undo the mute (which may fail) and leave.
ReceiverGone ==
  /\ Step("sending", "ended") /\ Return
  /\ closed
  /\ \/ lastMute = "muted" /\ SetMute(FALSE)
     \/ UNCHANGED muted
  /\ UNCHANGED <<settings, eventDriven, present, channel>>

-----------------------------------------------------------------------------
(* The window and the other threads *)

Running == pc # "killed"

\* set_selected_capture_device: the selection first ...
Select(d) ==
  /\ Running /\ ~clicked /\ generation < MaxGeneration
  /\ selected' = d
  /\ clicked' = TRUE
  /\ UNCHANGED <<generation, shouldMute, system, pc, stream, mute, channel>>

\* Mutant: the counter is left alone.
SelectUnannounced ==
  /\ Running /\ clicked
  /\ clicked' = FALSE
  /\ UNCHANGED <<selected, generation, shouldMute, system, pc, stream, mute, channel>>

\* ... then the counter.
Announce ==
  /\ Running /\ clicked
  /\ generation' = generation + 1
  /\ clicked' = FALSE
  /\ UNCHANGED <<selected, shouldMute, system, pc, stream, mute, channel>>

Refresh ==
  /\ Running /\ ~clicked /\ generation < MaxGeneration
  /\ generation' = generation + 1
  /\ UNCHANGED <<selected, shouldMute, clicked, system, pc, stream, mute, channel>>

\* should_mute_local_playback: "Also play locally" is switched, Start or Stop clicked, or
\* a session starts or ends.
SetShouldMute ==
  /\ Running
  /\ shouldMute' = ~shouldMute
  /\ UNCHANGED <<selected, generation, clicked, system, pc, stream, mute, channel>>

\* The sender's task takes a chunk.
Receive ==
  /\ Running /\ queue > 0
  /\ queue' = queue - 1
  /\ UNCHANGED <<settings, system, pc, stream, mute, closed>>

\* The sender's task is over: no UDP socket, or the control port was taken.
Close ==
  /\ Running /\ ~closed
  /\ closed' = TRUE
  /\ queue' = 0
  /\ UNCHANGED <<settings, system, pc, stream, mute>>

\* The window is closed: main returns and the process ends with all its threads.
Quit ==
  /\ Running
  /\ pc' = "killed" /\ Return
  /\ UNCHANGED <<settings, system, channel>>

-----------------------------------------------------------------------------
(* The system *)

Plug(d) ==
  /\ d \notin present
  /\ present' = present \cup {d}
  /\ UNCHANGED <<settings, eventDriven, muted, pc, stream, mute, channel>>

\* A stream on the device is over, even if the device comes back; its mute setting
\* is remembered.
Unplug(d) ==
  /\ d \in present
  /\ present' = present \ {d}
  /\ alive' = (alive /\ d # device)
  /\ UNCHANGED <<settings, eventDriven, muted, pc, startedAt, wanted, device, canMute, mute, channel>>

-----------------------------------------------------------------------------
CaptureThread ==
  \/ SampleGeneration \/ ReadSelection \/ ResolveBlind \/ Resolve \/ Open \/ OpenFails \/ Restart
  \/ CheckGeneration \/ DecideMute \/ ApplyMute \/ ApplyUnnoticed \/ ApplyFails
  \/ Read \/ ReadFails \/ ReadShort \/ WaitTimesOut
  \/ Enqueue \/ DropChunk \/ ReceiverGone

Others ==
  \/ \E d \in Devices \cup {SystemDefault} : Select(d)
  \/ Announce \/ Refresh \/ SetShouldMute
  \/ Receive \/ Close \/ Quit

System == \E d \in Devices : Plug(d) \/ Unplug(d)

Next == CaptureThread \/ Others \/ System

Spec == Init /\ [][Next]_vars

\* The program where no call fails and no device comes or goes: it starts over only
\* because of a click.
SteadyNext == Next /\ UNCHANGED present /\ ~OpenFails /\ ~ApplyFails /\ ~ReadFails

SteadySpec == Init /\ [][SteadyNext]_vars

(***************************************************************************)
(* Fairness.  The thread runs, no call of the system fails every time, and *)
(* a read brings finitely many chunks.  Nothing is assumed of the sender:  *)
(* its task may never take a chunk.                                        *)
(***************************************************************************)
LastOfRead == (Enqueue \/ DropChunk) /\ pc' = "check"

FairSpec ==
  /\ Spec
  /\ WF_vars(CaptureThread) /\ SF_vars(LastOfRead)
  /\ SF_vars(Resolve) /\ SF_vars(Open) /\ SF_vars(ApplyMute)

-----------------------------------------------------------------------------
(* Properties *)

\* Every variable holds a value of its type; the queue never exceeds its limit.
TypeOK ==
  /\ selected \in Devices \cup {SystemDefault}
  /\ generation \in 0..MaxGeneration
  /\ shouldMute \in BOOLEAN /\ clicked \in BOOLEAN
  /\ clicked => generation < MaxGeneration
  /\ eventDriven \in BOOLEAN
  /\ present \subseteq Devices /\ muted \subseteq Devices
  /\ pc \in Steps
  /\ startedAt \in 0..MaxGeneration
  /\ wanted \in Devices \cup {SystemDefault}
  /\ device \in Devices \cup {SystemDefault}
  /\ alive \in BOOLEAN /\ canMute \in BOOLEAN /\ desired \in BOOLEAN
  /\ lastMute \in {"unknown", "muted", "unmuted"} /\ unheard \in BOOLEAN
  /\ queue \in 0..QueueLimit
  /\ closed \in BOOLEAN

\* A stream that sees no reason to restart was opened for the device that is
\* selected now, however the clicks fell between the reads of the thread.
SelectionNotStale ==
  pc \in {"opening"} \cup Capturing /\ startedAt = generation /\ ~clicked
    => wanted = selected

\* As long as a stream lives, what the thread believes it has applied is what its device
\* is set to, across restarts, calls that failed or were not seen to fail, and devices
\* that went away: skipping the call when nothing changed is right.  Excused is one thing
\* the thread cannot know: a call that failed and was carried out all the same.
LastMuteTrue ==
  alive /\ canMute /\ lastMute # "unknown" /\ ~unheard
    => (lastMute = "muted" <=> device \in muted)

\* While a stream stays up and the wish stays the same, the device follows it, even
\* if the sender has stalled and the queue is full.  A call that failed and was carried
\* out does no harm while it is tried again; it does if the wish has gone back to what
\* the last confirmed call had set.
MuteTakesEffect ==
  /\ <>[](pc \in Capturing /\ device \in present)
  /\ <>[][shouldMute' = shouldMute]_vars
  => <>[]\/ canMute => (device \in muted <=> shouldMute)
         \/ unheard /\ lastMute = Applied(shouldMute)

\* "Falls back to the default automatically if the selected device disappears":
\* while there is any device, capture is on one again and again.  (Of PulseAudio; whether
\* WASAPI still signals an endpoint that is gone is not the program's to say.)
CaptureRecovers ==
  ~eventDriven /\ <>[](present # {}) => []<>(alive \/ closed \/ ~Running)

\* "Unlike a generation-change restart, nothing will run again to notice and fix a
\* sink left muted": once the stream on the device the user selected is running, no other
\* device is left muted.
RestartFixesMute == pc = "reading" /\ device = wanted => muted \subseteq {device}
=============================================================================
