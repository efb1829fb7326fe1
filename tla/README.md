# Audio Relay in TLA+

Audio Relay plays a laptop's sound on an Android phone. A Rust program on the laptop captures
what an output device plays and sends it as authenticated UDP packets; a Kotlin app receives,
buffers and plays them. Pairing, reconnecting and heartbeats go over a TCP control channel, and
the phone finds laptops by mDNS. This directory holds TLA+ models of the parts whose control is
hard, the configurations that check them with TLC, and theorems about them checked by TLAPS.

Paths below are relative to `src/`; `…/app/` stands for
`android-app/app/src/main/java/com/audiorelay/app/` and `desktop/` for `desktop-app/src/`.

## 1. The system

| Component | State | Operations | Talks to |
| --- | --- | --- | --- |
| Capture thread, `desktop/capture/mod.rs` | open stream, generation it started at, `desired_mute`, `last_applied_mute` | open the selected device or the default, loop (check generation, apply mute, read, enqueue), restart, leave | reads `AppState`, mutes the device, bounded queue to the sender |
| Audio sender, `desktop/network/audio_sender.rs` | `sequence` | `send_frame`: split a chunk, seal and send each packet | queue from capture, `AppState.session`, UDP |
| Packet format, `desktop/protocol/packet.rs` | none | `max_payload_bytes`, `even_split_bytes`, encode, decode | sender, receiver |
| Shared state, `desktop/state.rs` | `session`, `status`, `config` (paired keys), `pairing_code`, selection and its generation, flags; one mutex each | small critical sections | handlers, window, sender, capture |
| Control channel, laptop, `desktop/network/control_channel.rs` | per connection: nonce, attempts, last pong | HELLO, pairing rounds, open the session, heartbeats, tear down | `AppState`, the phone |
| Window, `desktop/ui/*` | egui state | show the code, Forget, select a device, settings, Start/Stop, close | `AppState` |
| Configuration, `desktop/config.rs` | TOML file: device id, paired keys, settings | load (or make anew), save in place | main, handlers, window |
| Control channel, phone, `…/app/network/ControlChannel.kt` | socket, last pong | connect, pair by code, repair by key, heartbeats | laptop, relay service |
| Relay service, `…/app/service/RelayService.kt` | `connectJob`, `reconnectJob`, `networkChangeJob`, `lastTarget`, `suppressReconnect`, attempt count, pending code | intents, discovery and network callbacks, back-off, `connectTo`, `cancelActiveSession` | everything on the phone |
| Audio receiver, `…/app/network/AudioReceiver.kt` | socket, closed flag | `receiveLoop` (push), `playbackLoop` (pop, write), close | jitter buffer, playback track |
| Jitter buffer, `…/app/audio/JitterBuffer.kt` | `chunks` (TreeMap), play position, learned packet size, adaptive depth, concealment run | `push`, `pop` | the two loops |
| Playback track, `…/app/audio/PlaybackTrack.kt` | AudioTrack, watchdog | write, detect a stall, rebuild, shut down | playback loop, service |
| Discovery, both ends | mDNS registration, list of laptops | start, stop, callbacks | relay service |
| Stores, screens, settings on the phone | key-value | get, set | relay service |
| Cryptography, `desktop/protocol/crypto.rs`, `…/app/network/Crypto.kt` | none | derive key, proofs, seal, open | both control channels, audio |

How they interact. On the laptop the tokio tasks (one per control connection, one for audio), the
capture thread and the window's thread share `AppState` under separate mutexes, each held for one
statement. Capture reaches the sender through a queue of `CAPTURE_QUEUE_CHUNKS` with `try_send`.
On the phone, coroutines on a thread pool share the service's fields without locks; the receive
and the playback loop share the jitter buffer. Between the two machines, UDP may lose, delay,
duplicate and reorder, TCP ends at any time, and either user may click anything meanwhile.

What is hard, and what makes each part correct:

* **Jitter buffer.** Packets in any order against a play position that moves by itself, with
  refills, concealment, resync, trimming and an adaptive depth. It must play forward, never
  overtake the sender, drop what is late and nothing else, bound its depth, and never wedge.
* **Packets.** No datagram over the budget, no frame cut, equal packets, a phone that learns the size
  from a lossy stream while the user changes the latency mode and sessions come and go, and no two
  packets sealed under one key and nonce.
* **Sessions.** Overlapping connections of one phone, a second phone taking over, and a Forget in
  the middle. A session must have a handler that ends it, nobody else may end it, the status must
  tell the truth, and a forgotten phone must not get a session.
* **Capture.** Clicks racing the thread's reads, devices that come and go, calls that fail, a
  sender that stalls. The stream must be on the selected device, capture must come back, the mute
  must be applied, and undone.
* **Playback track.** A loop blocked in a call that cannot be cancelled and may never return, a track
  that dies or is silently evicted, a rebuild racing two threads that close. A session must not hold
  two tracks, the watchdog must notice an eviction but not take a start for one, and close must end
  both loops and leave no track.
* **Relay service.** Jobs cancelled and joined while discovery, timers and clicks start others, with
  fields shared without a lock. There must be one session, a prompt must reach it, Stop must stop,
  and a dropped session must be tried again.
* **Handshake.** Two budgets of attempts against each other, two memories of one pairing that may each be
  lost, edited or not written, a connection that breaks at any message. Both ends must use the
  same key, nobody may be asked for a code without need, and no disagreement may keep the phone
  reconnecting in vain.
* **Configuration.** A file written in place by three callers, with a crash or a failure between any two
  calls. A restart must bring back what was saved.

`PROJECT.json` lists the hazards of this code one by one, each at its line.

## 2. Modules

| Module | Models | Checked by | Theorems in |
| --- | --- | --- | --- |
| `Playout` | what a jitter buffer promises (abstract) | `MCJitterBuffer`, as a property | `JitterBufferProofs` |
| `JitterBuffer` | `JitterBuffer.kt` push and pop, the loops of `AudioReceiver.kt`, sender's numbering, network | `MCJitterBuffer` | `JitterBufferProofs` |
| `Crypto` | `crypto.rs`, `Crypto.kt`: keys, proofs, sealed packets as terms | with those that extend it | |
| `Packetiser` | the sizes of `packet.rs` | with `AudioPath` | `AudioPathProofs` |
| `AudioPath` | `audio_sender.rs`, packet header and sealing, `receiveLoop`'s opening, `observeChunkSize`; extends `Packetiser`, `Crypto` | `MCAudioPath` | `AudioPathProofs` |
| `Pairing` | what a handshake promises (abstract) | `MCHandshake`, as a property | `HandshakeProofs` |
| `ConfigStore` | `config.rs`, `main.rs`'s load and save; extends `Crypto` | with `Handshake` | `HandshakeProofs` |
| `Handshake` | `control_channel.rs` up to the session, `connectTo` and `ControlChannel.kt`, keys of `PairedDeviceStore.kt`, the window's Forget and code; extends `ConfigStore` | `MCHandshake` | `HandshakeProofs` |
| `LaptopSession` | `control_channel.rs` handlers, `state.rs` session and status, the window's Forget and code | `MCLaptopSession` | `LaptopSessionProofs` |
| `Capture` | `capture/mod.rs` of both systems, selection and generation in `state.rs`, end of `main` | `MCCapture` | `CaptureProofs` |
| `PlaybackTrack` | `PlaybackTrack.kt`, the loops and `close` of `AudioReceiver.kt`, the mixer | `MCPlaybackTrack` | `PlaybackTrackProofs` |
| `PhoneSession` | what the phone's service promises (abstract) | `MCRelayService`, as a property | `RelayProofs` |
| `RelayService` | `RelayService.kt`, the status of `RelayState.kt`, the keys of `PairedDeviceStore.kt` | `MCRelayService` | `RelayProofs` |

How they fit together. `Handshake` and `LaptopSession` look at the same handler from two sides:
`Handshake` has one phone, with every message and both memories, `LaptopSession` any number of phones
and of connections at once, with proofs that succeed or fail. `RelayService` has the phone's sessions
and who starts and ends them, `Handshake` what one of them does. `AudioPath` ends where
`JitterBuffer` begins, with a packet that opened; a packet there is a sequence number here.

Definitions that are alternatives to others ("Mutant: …") are single plausible mistakes in the
code; replacing the definition that follows one by it makes the property named for it in
`PROJECT.json` fail. They show what each property is sensitive to and are no part of the models.

### JitterBuffer

A chunk is represented by its sequence number; payloads do not matter. `chunks` is the set of keys
of the TreeMap, `nextSequence` the play position, the other variables are the fields of the same
names. `Distance` is the code's `(a - b).toInt()`, on a space of `2 * HalfSpace` numbers;
`FirstKey` is the TreeMap's unsigned order. There is one action per way through `push` (late, too
far, buffered) and through `pop` (prebuffering, refill, audio, concealment, starvation). The trim
and the start at the top of `pop` and the `adaptDepth` at its ways out are part of each of these
actions. The network is `InFlight`: any packet at most `Reorder` behind the newest may arrive now, any
number of times, or never.

`push` and `pop` are atomic. The class has no lock, so this is an abstraction (section 8). The
frame-level drift correction reads the depth and changes
nothing the properties talk about, and is left out with the diagnostic counters. `windowLate`
stops counting at `AdaptWindow`, where the comparison that reads it is decided.

`Playout` is what that amounts to. A packet that arrives is kept if its turn is still to come and
refused if not (`arrived` says which one came, so that losing an early one is no stutter); a full
buffer gives up its oldest. Chunks are played in order, older ones are skipped only if too many wait,
and silence takes the place of one only if it is missing while a later one waits. Playback may
restart, after silence (`GiveUp`) or for a packet from far away (`Jump`), and a restart forgets what was
played: a late copy of a played chunk may then be played again, in the code as in the model. `Once` says
what holds in between. `JitterBuffer` implements `Playout`, with `position <- nextSequence` and
`pending <- chunks`, as long as the sequence number does not wrap.

### Packetiser and AudioPath

Real numbers: bytes, milliseconds and rates are the program's. One state is one packet of one chunk;
`SendOne` is an iteration of the loop over `pcm.chunks(per_packet)` with `send_one`, `SendFails` the
return on a socket error. `held` is the session that `send_frame` cloned for the chunk: the session
may be closed or replaced meanwhile, and its packets still go out under the old id. `SendDelivered`
contains the phone's part: opening under its own session id, and `observeChunkSize`. `OpenSession`
also has the phone's receiver configured before or after (`PhoneConfigures`), which are two machines.
`recent` is a ghost: the nonces of the last `SeqSpace - 1` packets, by age, as far as their session may
still send.
A restart of the laptop begins the counter at 0 again. Timestamps are left out.

### Crypto

Perfect cryptography, by terms: equal only if made from the same parts. A primitive that fails to be
that is outside these models.

### ConfigStore and Handshake

`config` is in memory, `file` on the disk: missing, whole or cut short. A save is `BeginSave`,
`Truncate`, `Saved`, any of whose calls may fail (`SaveFails`) and after any of which the process
may end (`Crash`), and holds the mutex (`LockFree`) throughout, as `save` under the lock does. A
file cut short does not parse, or parses without the tables that come last (`PartsOf`).
`StartUnreadable` is a file that exists and cannot be read: the code replaces it by a default.
`unsaved` is a ghost: whether what is in memory is in the file, is to be saved, or was lost with a
failed save.

`lpc` and `ppc` say where `handle_connection` and `connectTo` are; `toLaptop` and `toPhone` are the two
directions of one TCP connection. Every message has its fields where they are read; `PAIR_OK` also
carries, for the properties only, the key it was granted for. The pairing code expires or is replaced
at any time. Forgetting is at both ends, at any moment; on the laptop it is two steps (the save, then
`clear_session_if`). `LaptopDrops` is a failing read or write, three missed beats, or a task that
ends, and may take what was under way with it; `LaptopCrashes` and `LaptopStarts` are the process,
`PhoneLeaves` is everything that ends the phone's side. The challenge is one constant: it is made for a
connection, and nothing sent on one is ever read on another.

### LaptopSession

`pc[c]` says where the handler of connection `c` is in `handle_connection`; each step is one
critical section or one await, which is the granularity of the mutexes. `session` carries, besides
the phone, the connection that minted its session id (`by`), which is data the code has (the id)
and does not compare. Pairing proofs are abstract: a proof of the code succeeds when there is a
valid code, a proof of the key when the phone is in `paired`, and any proof may fail. The window's
Forget is three steps (keys, session, status), "forget all" repeats the latter two per phone.
`Overlap` tells whether a phone may connect while the laptop still serves its old connection, which
happens whenever the phone notices a broken link first.

### Capture

The thread's `pc` follows `start` and `capture_until_restart`; the PulseAudio and the WASAPI
loop have the same steps but for two ways round the WASAPI loop, taken when `eventDriven`, which
is fixed from the start by the build. Every call of the system may fail, and two of them unnoticed:
PulseAudio tries the selection as it is when it cannot list the devices (`ResolveBlind`), and its mute
calls are not awaited for their outcome, so that a device that went away counts as muted
(`ApplyUnnoticed`). A call of PulseAudio's may also fail after the server has carried it out
(`ApplyFails`; `wait_for_operation` has only the error): `unheard` is a ghost that remembers it. `Unplug` kills the stream for good (`alive`) and leaves the mute setting of the
device as it was, as the systems do. Setting a selection and announcing it are two steps (`Select`,
`Announce`). `shouldMute` is what `should_mute_local_playback` makes of the settings and the
status, toggled at any moment. `Quit` is the end of `main` with every thread wherever it is. The
user's own mutes outside the program, sample data and level meters are left out.

### PlaybackTrack

Three threads step through single statements: the playback loop (`loop` says where it is in
`playbackLoop`, `write`, `playbackHasStalled` and `rebuild`), and two that may call `close()`, the
service when it cancels a session and the session's own job in its `finally`. `object` is the
system's view of every AudioTrack; "released" also stands for one that is not built yet, so that
objects may be used again. `track` is the field of the same name, `released` the flag that
`shutdown` sets, `stalledWrites` and `hasEverAdvanced` the watchdog's memory; `headMoved` abstracts
the comparison of the playback head with `lastHeadPosition`, and `pulled` is a fact about the mixer
the code cannot see. A write into a track of the mixer may wait for ever (`Blocked`). A pop without
a chunk changes nothing here and is part of `PopChunk`; output routes are left out. The mixer
(`MixerPulls`, `Evict`, `RouteDies`) is external and does as it likes.

### RelayService

`pc[j]` is where the coroutine of job `j` is in `connectTo`; `caller[x]` where one of the coroutines
is that call `cancelActiveSession`: one per intent (connect, dismiss the prompt, forget, stop) and the
one of a network change. `joins[x]` is the job it read from `connectJob` and waits for. A second click
of the same kind while its coroutine runs is left out, and a finished job's id is used again when
nobody waits for it. A caller's code before `cancelAndJoin` is one step (`CancelJob`), what follows
the join another (`Joined`), what the caller does then a third. `connectTo` is one step: `Jobs`
bounds how many sessions exist at once. A session stores its key (`Store`), then sets up its player,
which may fail (`ConfigureFails`), and streams (`Stream`); it stays active after its `finally` until its
two loops have ended ("draining", `LoopsEnd`). Status, target and code of a prompt are set in one step,
and cleared in one. `attempt` stops counting where its comparison with `ATTEMPTS_BEFORE_HELP` is
decided; the length of the back-off is not modelled, except that it, a second or more, is taken to
outlast the end of the loops (`RetryFires`): otherwise the retry would find the old job active and
return. The laptop answers, refuses or fails, or is silent. A cancelled session notices when the read it
is in returns, and a wait for a code at once. `activeReceiver`, settings, output devices, notification,
lists for the screens and locks are left out.

`Spec` is the service as it is. `CalmSpec` is the same under an assumption on its users and its network
that nothing in the code ensures: no session and no teardown is started while another teardown is
going on (`Quiet`, `CancelAlone`). `relay_sessions` shows what happens without it; the properties that
need it are those of the run `relay`, but for the ones that are proved of `Spec` (section 5). With it the
remaining interleavings (sessions that fail, are accepted, prompt, retry and are cancelled at any step,
with network changes that cut into a teardown) are those `relay` explores.

`PhoneSession` is what that amounts to for the user: no session begins once the service is off; a prompt
is for the laptop of a session, which takes it along; a key is stored only of that laptop, and discovery
looks for none whose key is gone. If sessions are `Exclusive`, there is one at a time and none when the
service goes off. It has no callers, timers, cancellations or flags. With `peer <- laptop` (a job has a
session from its launch to its end, the cancelled ones included) `Spec` implements it with sessions that
may overlap (`Shared`), `CalmSpec` with exclusive ones (`PS`).

## 3. Runs

Passing runs:

| Run | Bounds | What it shows |
| --- | --- | --- |
| `jitter` | 8 packets from 0, any of the 5 newest may arrive; size 1 with a first guess of 2; target 2 chunks, cap 5 or more, resync beyond 4, 3 concealments, windows of 2 pops | `ImplementsPlayout`, `PopBoundsLatency`, `ExtraUnderCeiling`, types |
| `jitter_live` | endless stream on a space of 8 numbers, packets of 2 bytes, smaller constants | `AudioAgain`: never wedged, across the wrap; `BoundedBuffer` |
| `packets` | 7 formats (44.1, 48, 96 kHz; 1 to 6 channels; 16 and 32 bits), both latency modes, a counter that wraps at 3, session ids as needed | `SizesHold`: datagrams fit, carry whole frames and are equal where chunks divide, and the phone learns no size that is none; `NonceFresh`, `LearnsPacketSize` |
| `handshake` | 1 phone, 2 codes, 2 device ids of the laptop, 2 code tries on the phone against 3 on the laptop | `KeysAgree`, `LoopsMeet` (neither end waits for the other that waits for it, and the last code is answered), `NoNeedlessPrompt`, `PairingsSurvive`, `ImplementsPairing`, `HealsOrAsks` |
| `laptop` | 2 phones, 2 connections that overlap, 2 pairing rounds | `SessionHasHandler`, `StreamingMeansSession`, `OnlyOwnPhoneEnds`, `ScreenRecovers` |
| `capture` | 2 devices, 1 click, queue of 1, both builds (PulseAudio, WASAPI), the wish to mute changes at any time | `SelectionNotStale`, `LastMuteTrue`, the queue's bound, `MuteTakesEffect`, `CaptureRecovers` |
| `track` | 2 AudioTrack objects, alarm after 2 frozen writes | `OneTrack`, `NoLostWakeup`, `NoFalseAlarm`, `LoopsEnd`, `EvictionNoticed` |
| `relay` | `CalmSpec`; 2 laptops, 2 sessions at once, help after 1 attempt, 2 codes | `PromptAttended`, `StatusTrue` (STOPPED, every promise of another attempt, the prompt of a session that waits, and the last word of a service that is off), `StopWorks`, `DroppedRetried`, `NetworkRetried`, `ImplementsSession` |

Runs whose property is a sentence of the documentation or of a comment, and fails:

| Run | Found |
| --- | --- |
| `laptop_overlap` | A phone reconnects early; its old handler, timing out, clears the new session, because `clear_session_if` compares device ids. |
| `capture_switch` | Where nothing fails and no device comes or goes (`SteadySpec`): the user selects another device while the captured one is muted, the loop starts over for the new generation (`mod.rs:846`), and the former device stays muted. |
| `track_leak` | `rebuild` tests `released` once, before it builds: a shutdown that falls between leaves a new, playing track that nobody releases. |
| `relay_sessions` | While a tap on Connect joins the cancelled session, discovery starts another (a cancelled job is not active); `connectJob = null` then forgets that one, and the tap starts a third. Two sessions are active. |

Why the bounds are enough. `jitter`: eight packets allow a start, a refill, a trim, a full
concealment run, a resync in both directions and a window that grows the depth, in any combination
of two; every constant is above the smallest value at which its branch is distinguishable, and the
theorems cover all values. `packets` scales nothing but the counter: a nonce is required to be
unique among the last `SeqSpace - 1` packets and the one being sent, which stands for 2^32 packets
(some 248 days at 5 ms a packet) and is what a counter can give; a space of 3 has the wrap within
one chunk, between two, and between two sessions. `handshake`: the budgets keep the code's relation
(the laptop's is the greater, by enough for a refused REPAIR and every code), two codes are the
right and a wrong one, two ids are a laptop that loses its file once and mints a new one. `laptop`:
each hazard involves two parties (two phones, or two connections of one phone, or a handler and the
window); again the theorems cover any number. Two pairing rounds distinguish "one left" from "used
up". `capture`: "the captured device" and "another" are two; one click falls at every step of the
thread, and the theorems cover any number of clicks. Queue limits above 1 only delay the same steps.
`track`: there is the current object and the one that replaces it, and a limit of 2 distinguishes
the last write before the alarm. `relay`: two laptops distinguish the last target from another one,
two jobs the session that ends from the next; one attempt below help and two codes have both
branches. A third job adds nothing while there is one session at a time, which is what the run shows
and the theorem proves for any number.

Ghosts, which the code does not have and no step reads: `recent` (`AudioPath`), `unsaved` and
the key that `PAIR_OK` carries (`ConfigStore`, `Handshake`), `arrived` and `output` (`JitterBuffer`, the
last call and its result), `unheard` (`Capture`).

Deadlock is checked in all runs but those of the track and of the relay service, where a session, and
the service, come to an end, and `capture_switch`, where no device can come after the process has ended.

## 4. Fairness

* `JitterBuffer!FairSpec`: the playback loop keeps popping (weak; it is a loop that blocks only in
  the track's write), the sender keeps sending (weak), and again and again a packet arrives before
  its successor is sent (strong): the link is not dead. Without the last no audio can be expected.
* `AudioPath!FairSpec`: capture goes on and a packet that is cut is sent, lost or fails (weak), and the
  link delivers again and again (strong). Nothing is assumed of the user.
* `Handshake!FairSpec`: the phone's side, a save under way and the clearing of a forgotten session
  take their next step (weak). So does the laptop's handler (strong: every step of it that needs the
  mutex of the configuration competes with the window, which takes it at a user's pace). Nothing is
  assumed of the users, and nothing says that the laptop is started or that connections hold: that
  is the premise of `HealsOrAsks`, which says that then the phone ends up streaming or asking for a
  code, again and again, whatever the two remember.
* `LaptopSession!FairSpec`: weak fairness of the steps a running handler takes by itself (set the
  status, notice a revoked session on the next tick, clear, set the status) and of the window's
  steps inside a click. Nothing is assumed of the phone or of the user.
* `Capture!FairSpec`: the thread runs (weak), a read brings finitely many chunks and the calls that
  resolve, open and mute a device do not fail every time (strong). Nothing is assumed of the sender:
  `MuteTakesEffect` holds with a sender that never takes a chunk. `CaptureRecovers` is claimed for
  PulseAudio: WASAPI's loop waits for an event, and whether a lost endpoint signals one is up to
  Windows. `MuteTakesEffect` holds for both, under the premise that the stream stays up.
* `PlaybackTrack!FairSpec`: the playback loop runs, except in a write into a track the mixer still
  has, which may never return (weak); so do the receive loop once its socket is closed, which is
  what wakes it, and a call of `close` once made. Nothing is assumed of the mixer, nor that anybody
  closes; `LoopsEnd` begins with a close, and `EvictionNoticed` is under the premise that writes go
  on being accepted.
* `RelayService!CalmFairSpec`: coroutines run (weak), but not the reads of a handshake (`Unanswered`),
  which have no timeout: a laptop that has accepted the connection may be silent for ever. Nor need a
  session that streams ever end unless it is cancelled (then its receiver is closed, and the beats have a
  timeout), nor a prompt be answered. Timers go off: strong, because `CalmSpec` holds them back during a
  teardown, which the code does not. `onDestroy` follows `stopSelf` (weak). Nothing is assumed of the
  user. What is assumed of others is named:
  `DiscoveryFinds`, in the specification, that discovery reports the laptop it looks for
  (`NsdDiscovery.kt:47-50` and `69-71` drop failures to start and to resolve without a word; where they
  happen, `NetworkRetried` fails);
  `LaptopsAnswer`, premise of `StopWorks`, `DroppedRetried` and `NetworkRetried`, that no laptop leaves a
  read of the handshake unanswered for ever. Without it Stop hangs: the caller joins a coroutine in a
  read that cancellation does not interrupt, and `cancelActiveSession` closes the receiver, not the
  channel (section 7);
  `NetworkSettles`, premise of `DroppedRetried` and `NetworkRetried`: every change of the network would
  start the debounce again.

## 5. What is proved

For all values of the constants allowed by the modules' assumptions:

| Theorem | Statement |
| --- | --- |
| `JitterBufferProofs!TypeCorrect` | `Spec => []TypeOK`; with it, a started buffer has a position and a concealment run stays short |
| `…!BufferAhead`, `…!PlaybackBehindSender`, `…!PlaybackForward` | nothing buffered lies behind the play position, the position not past the sender, playback moves forward, assuming `NoWrap` |
| `…!BufferImplementsPlayout` | `ImplementsPlayout`: `JitterBuffer` implements `Playout`, assuming `NoWrap` |
| `…!PlayoutOnce`, `…!BufferPlaysOnce` | `Playout`, and so the buffer under `NoWrap`, keeps nothing unsent, stays behind the sender (`Honest`) and between two restarts plays nothing twice (`Once`) |
| `…!BufferBounded` | `BoundedBuffer`: the cap, in chunks, at the adaptive ceiling, for any packet sizes and reordering, across wraps |
| `…!PopsBoundLatency` | `PopBoundsLatency`, across wraps |
| `…!ExtraBounded` | `ExtraUnderCeiling`, assuming `OneSize` |
| `AudioPathProofs!TypeCorrect` | types; no packet is empty and no learned size is 0 |
| `…!NoncesFresh` | `NonceFresh`, for any size of the sequence space, formats, sessions and failures |
| `…!RealSizesLearned` | `LearnsRealSizes`, whatever is lost |
| `…!CutWell` | `WellCut` for any formats, latency modes and interleaving of clicks and sessions, assuming `FramesFit` and `WholeChunks` |
| `…!SizesKept` | `SizesHold`, the two together |
| `HandshakeProofs!TypeCorrect` | types and the two budgets |
| `…!KeysAgreed`, `…!NoNeedless` | `KeysAgree`, `NoNeedlessPrompt` |
| `…!NeverBothWait`, `…!LastCode`, `…!LoopsFit` | `NoMutualWait`, `LastCodeAnswered`, and both as `LoopsMeet` |
| `…!PairingsKept` | `PairingsSurvive` |
| `…!ImplementsPairingSpec`, `…!PairingAgrees` | `Handshake` implements `Pairing`, and `Pairing` has the agreement it is there for |
| `LaptopSessionProofs!TypeCorrect` | types, rounds of pairing |
| `…!SessionServed`, `…!StreamingAttended`, `…!StreamingTrue` | `SessionHasHandler`; a status of Streaming has a handler that will change it; `StreamingMeansSession` |
| `…!StrangersKeepOut` | `OnlyOwnPhoneEnds` |
| `…!SessionEnds` | `SessionEndsForCause`, assuming `~Overlap` |
| `CaptureProofs!TypeCorrect`, `…!SelectionFollowed`, `…!MuteKnown` | types and queue bound, `SelectionNotStale`, `LastMuteTrue` |
| `PlaybackTrackProofs!TypeCorrect`, `…!NeverTwo`, `…!AlarmsTrue` | types and the watchdog's limit, `OneTrack`, `NoFalseAlarm` |
| `…!AlwaysWoken` | `NoLostWakeup` |
| `…!OnlyRaceLeaks` | `ReleasedAtEnd`, assuming `NoRace` |
| `RelayProofs!TypeCorrect` | `Spec => []TypeOK`: types and the number of codes |
| `…!PromptIsAttended` | `Spec => []PromptAttended`: sessions may overlap |
| `…!DestroyedIsOff`, `…!LastLaptopSaved` | `Spec => []OffMeansOff`, `Spec => []LastIsSaved` |
| `…!ImplementsPhoneSession` | `Spec => Shared!Spec` and `CalmSpec => ImplementsSession` |
| `…!SessionOrderly` | `PhoneSession` is orderly, for sessions that may overlap and for exclusive ones: a prompt only of a session's laptop, no last laptop without a key; one session, none when off |
| `…!OneAtATime`, `…!PromptIsShown`, `…!NobodyStranded` | `CalmSpec => []OneSession`, `[]PromptShown`, `[]NeverStranded` |
| `…!StatusIsTrue` | `CalmSpec => []StatusTrue` |

Assumptions. `BufferAssumption`, `AudioAssumption`, `ConfigAssumption`, `HandshakeAssumption`,
`SessionAssumption`, `CaptureAssumption`, `TrackAssumption` and `RelayAssumption` give the constants
their types, `HandshakeAssumption` also the relation of the two budgets, `AudioAssumption` that a new
session finds an id besides the three that may be in use (ids are drawn at random from 8 bytes; that two
of them meet is left out). The others are premises of
the theorems that need them:

* `NoWrap`: the sequence number stays in the lower half of its space; at 5 ms a packet that is about four
  months. It is needed: `firstKey()` orders keys as unsigned numbers, `push` by signed distance, and
  around the wrap a trim can resume from the newest chunk with older ones left behind the position.
* `OneSize`: the packets of a stream have one size, not above the first guess. The ceiling is a time
  divided by the size last learned, so a larger packet after smaller ones finds the depth above it.
* `FramesFit`: a frame fits into a datagram; more than 585 channels do not, and the code sends them
  all the same. `WholeChunks`: the captured chunk is a whole number of the wire's frames, which are
  of 16-bit samples whatever the device's are. It is, at 48 kHz and its multiples, and at 44.1 kHz
  with 32-bit samples (the formats of `packets`); 16 bits at 44.1 kHz in the low-latency mode would
  give 220.5 frames.
* `NoRace`: no call of `close` marks the track while `rebuild` is between its check and the start of the
  new one. `track_leak` is the counterexample without it, and the theorem says that it is the only
  kind there is.
* `~Overlap`: `laptop_overlap` is the counterexample without it.
* `CalmSpec` instead of `Spec`: `relay_sessions` is the counterexample. It is an assumption on users and
  network, not a fact about the code; the theorems of `Spec` are those that do without.

Arguments.

* *Order of playback.* None of the three properties is inductive alone. `OrderInv` joins them:
  packets come from behind `head`, so the buffer is behind `head`; the position moves to a
  buffered key, or past a position with a later key still buffered, so it stays behind `head` too;
  and `push` refuses what lies before the position. `Distance` is plain subtraction under `NoWrap`.
* *Playout.* The refinement maps `nextSequence` and `chunks` themselves; `OrderInv` is what makes every
  pop that skips a number skip it for a later one that waits. `Once` is proved of `Playout`: what is behind
  the position is refused, and the position moves only forward until a restart forgets it.
* *Latency.* A pop that trims keeps the newest chunks, whose number is counted through the
  smallest of them (`Kept`); every other pop removes or leaves.
* *Ceiling.* With one size the extra depth grows only below the ceiling and by steps that stop at it, and
  otherwise shrinks.
* *Cut.* `CutInv`: what remains of a chunk is a multiple of what its packets have so far been, but for the
  last. It rests on three lemmas on division: the payload limit is within the budget
  (`MaxPayload`), the even split is within the limit and whole frames, and a chunk that the
  number of packets divides is cut into equal ones.
* *Nonces.* `NonceFresh` compares the packet being sent with all before it and does not carry over a
  step. `NumberInv` says more: the packet sent k packets ago has the number that lies k back on the
  circle of `SeqSpace`, so that the number due now is none of theirs, wrap or not. Where the counter
  starts anew (`Restart`) the sessions do, too.
* *Sizes.* `LearnInv`: where chunks divide, what is being cut is cut into one of `PacketSize`, so that
  what the phone has learned, or is about to, is one of these; `PathInv` joins it with `CutInv` and
  `NonceInv`.
* *Keys.* `PhaseInv`: while both ends are on the connection they are in one of five phases (`AtHello`,
  `AtRepair`, `AtPrompt`, `AtCode`, `AtGrant`), with at most one message under way, each naming what the
  ends know of each other; when one end has left, only what the other may still read matters.
  Rounds and tries are tied together in it, which is what `LastCodeAnswered` is about. `StoreInv` ties
  memory, disk and save under way. `LineInv` and `OfferInv` say which `PAIR_OK` may be on the line and
  give the refinement its offer. `NoMutualWait` is read off the phases.
* *Bound.* `push` evicts when the map has reached the cap of the present sizes. The cap moves, but it
  is at most that of one of the sizes at the greatest extra depth, and every other step shrinks the set.
* *Sessions.* `SessionHasHandler` is inductive by itself with the types: the step that sets
  `session` puts its own handler at "opened", a connection's phone does not change while it is served, and
  the only ways out lead through `ClearSession` of that same phone, which clears the session
  or finds another phone's. `StreamingHasHandler` likewise, for the status; `StreamingMeansSession`
  follows from it by the definition of `Settled`. `SessionEnds` needs `OneConnectionEach`, proved
  from `~Overlap`.
* *Selection.* `SelectionInv` adds that the thread's counter never runs ahead and covers the step
  between reading the selection and opening. The order of the two reads (counter first) and of the two
  writes (counter last) is what the proof uses.
* *Mute.* `MuteInv` adds that a live stream's device is plugged in and that the thread is in its
  loop: a call that went unnoticed met a device that is gone, so the stream it belongs to is dead. A
  new stream begins with "unknown", a failed call is not recorded. `unheard` excuses one case only: the
  last call that failed had been carried out, and none since was confirmed.
* *One track.* `OneTrack` counts and is not inductive; `OneInv` says that only the current track is alive,
  that it is released by the time `rebuild` builds the next, and that there is none before
  `configureSession`. No step of the loop, of a closer or of the mixer revives a released track.
* *Closing.* `WakeInv`: once a call of `close` is over, either the track is marked, so that every way
  back into a write leads past `released` and a write under way has its track released, or the call
  found no track, and then `closed` was set before the loop began. A track built in a race is alive,
  but the loop goes from it to its head, and ends.
* *The leak.* `LeakInv`: under `NoRace` a marked track is not being replaced, and since the session's own
  job closes too, the track it finds is the last one. With `OnlyCurrent` none is left.
* *Alarms.* `Remembers`: whatever the watchdog remembers of the head, the mixer has pulled from the
  current track. It rests on the rebuild forgetting the old track's advance.
* *One session.* `CalmInv`: one caller is busy at a time, the job it joins is the one in
  `connectJob`, every session there is is that one, and after the join there is none. `Quiet` then
  makes the refusal of `connectTo` ("one is active") the right test. `ConnectKeepsCalm` is the lemma
  for the three ways to start a session, `KeepsCalm` for all steps that start none.
* *Not stranded.* `StrandInv`, on top of `CalmInv`: whoever suppresses the reconnect or cancels a session
  is still there to go on from it, `lastTarget` is only dropped by a Forget under way, and who dismisses
  a prompt, and does not go on, leaves no status that promises an attempt.
* *One session after the other.* The step of a job that finishes is `End`, and `ConnectTo` is `Begin`
  since by `Quiet` all jobs are free then; a prompt is the peer's by `PromptAttended`, and a job has a
  peer exactly while it is there by the types; `OverWhenOff` says that nothing runs any more when the service
  is off. Where sessions overlap none of this is needed: `Begin` only wants a free job and a service that
  is on, and `End` a prompt that is gone or another's, which `PromptAttended` gives.
* *Prompts.* `PromptAttended` is inductive with the types: a job sets the prompt only as it starts to
  wait, and leaves the steps in which it may stand behind one only through `Store` or `CleanUp`, which
  clear the prompt, whoever's it is.
* *Off.* `Destroy` cancels every job and the timer, and nothing is launched in a cancelled scope.
* *Last laptop.* Inductive: `saveLaptop` writes key and last laptop, `forgetLaptop` takes both back.

## 6. What is only model-checked

Liveness (`AudioAgain`, `LearnsPacketSize`, `ScreenRecovers`, `MuteTakesEffect`, `CaptureRecovers`,
`LoopsEnd`, `EvictionNoticed`, `StopWorks`, `DroppedRetried`, `NetworkRetried`, `HealsOrAsks`): the
prover handles neither fairness nor ENABLED. Their safety halves are proved where they have one:
`NoLostWakeup` for `LoopsEnd`, `NoMutualWait` for `HealsOrAsks`, `NeverStranded` for `DroppedRetried` and
`NetworkRetried`, `LearnsRealSizes` for `LearnsPacketSize`, `StreamingMeansSession` for `ScreenRecovers`.
Every invariant and every action property of a passing run, and each of the three refinements, has
its theorem. No module uses recursion of its own, and nothing is
proved by induction over data, which the installed provers cannot instantiate.

## 7. Disagreements between code and documentation

Section 3's failing runs are listed in `PROJECT.json` with quotes. Others noticed while modelling:

* `JitterBuffer.kt:452` "Resume from the oldest chunk we kept": not around the wrap, see `NoWrap`.
* `JitterBuffer.kt:322-324` says that `pop`, once started, always returns a chunk; it returns null when
  it pauses to refill (the caller copes).
* `JitterBuffer.kt:279-280` says a packet already released is dropped; after a resync the position is
  forgotten, and a delayed copy can be played again (`Playout!Jump`, `GiveUp`; `Once` has what remains).
* `packet.rs:47-48` promises packets of the same size; a chunk that does not divide ends in a
  shorter one (44.1 kHz).
* `architecture.md:148-150`: with local playback on, the program "doesn't touch local playback at
  all"; a fresh stream sends an unmute once, whatever the user had set.
* `packet.rs:39` speaks of "the 16-bit PCM this protocol carries"; WASAPI is opened in the mix
  format of the endpoint (`capture/mod.rs:329`), whose samples are usually of 32 bits, and its bytes
  are sent as they are.
* `control_channel.rs:129` always announces 48 kHz stereo, whatever is captured.
* `protocol-spec.md:70` has sequence numbers start at 0 in a session; the sender's counter is never
  reset. BYE is specified, but the phone never sends it.
* `config.rs:97` writes the file in place; a crash in between loses the pairings.
* `JitterBuffer.kt:93-95` learns the size that is sent; with 44.1 kHz stereo at 32 bits the packets of a
  chunk alternate between two sizes, and `observeChunkSize`, which wants a repetition, keeps its first
  guess for ever, even without loss.
* `architecture.md:143-144`: a second phone takes over. The first one's handler then sets Disconnected
  (`control_channel.rs:164`) while audio goes to the second.
* A phone forgotten between the proof of its key and its CAPABILITIES gets its session all the same
  (`control_channel.rs:147`, against the comment at `settings.rs:237`).
* `architecture.md:150-151`: closing the window while streaming with local playback off leaves the laptop
  muted, since `main.rs:66` ends the process without waiting for the capture thread.
* `protocol-spec.md` (section 6) has either side reject a version it does not support;
  `protocol_version` is sent and logged, and neither end compares it.
* The reads of the handshake have no timeout at either end: one that says nothing holds the other's
  task or coroutine until the socket fails. On the phone Stop, too, waits for it: `soTimeout` is set only
  for the beats (`ControlChannel.kt:135`), and `cancelActiveSession` (`RelayService.kt:353-370`) closes
  the receiver but not the channel before it joins. "Stopping the relay sometimes did nothing", which its
  comment speaks of, is cured for a blocked write, not for a silent laptop (`StopWorks` without
  `LaptopsAnswer` fails).
* The phone configures its receiver from CAPABILITIES once and does not look at the rate in a
  packet's header, which the comment at `ControlChannel.kt:113-115` calls authoritative.
* `set_sink_mute`'s result is ignored (PulseAudio): a call the server refuses counts as applied
  until the wish changes.
* The other way round, a call that reports an error although the server carried it out
  (`capture/mod.rs:605-630`) leaves `last_applied_mute` at the old value: if the wish then goes back to that
  value, no call is made, and the device stays as the failed call left it (`unheard`).
* `RelayService.kt:228-230` has a Forget drop the key so that "the next connect starts a clean handshake
  and asks for a code". The intent erases the key and then has the session cancelled; a session that
  the laptop accepts in between, or that is past its last suspension point (`Store`), stores the key
  again (line 558), and the laptop lets the phone in without a code. `CalmSpec` does not help.
* CANCEL_PAIRING shows DISCOVERING before the session is cancelled; a code accepted in between shows
  STREAMING, and the cancelled session leaves it there, against the comment in `RelayService.kt` at
  ACTION_STOP ("A stale status is exactly what made this feel broken").
* A stopped service may leave RECONNECTING on the screen, for the same comment (`RelayService.kt:247-252`):
  a session ends by itself and shows DISCONNECTED (line 603); Stop cancels the timer there is, none yet;
  the session schedules its reconnect (line 604); Stop's coroutine tears down, shows STOPPED and calls
  `stopSelf`; the reconnect's coroutine begins and shows RECONNECTING (line 339); `onDestroy` cancels it
  in its delay. This needs no overlap of teardowns. `LastStatus` says that it is the only kind of word
  besides STOPPED that can be left.
* Of `Spec`, without the calm, all parts of `StatusTrue` but `OffMeansOff` may fail. Discovery may start a
  session between Stop's teardown and `onDestroy`, which then runs under the status STOPPED for a while;
  the `finally` of one session takes the prompt of another (`PromptShown`).

## 8. What is not modelled, and why

* The two threads inside `JitterBuffer.kt`. `push` and `pop` run without a lock on fields that are
  not volatile and on a `TreeMap`, which is not made for it. What can come out is not bounded by the
  code, and a model with finer steps would have to invent its outcomes. The hazard is in the list.
* A line that `select!` drops half read (`control_channel.rs:286`). A lost half makes the next line
  unreadable, which ends the connection (`LaptopDrops`), or loses a beat (`LaptopSession`).
* Routes: a choice of output device made while `rebuild` builds a track (`PlaybackTrack.kt:149`),
  and the `activeReceiver` that an older session's `finally` clears (`RelayService.kt:589`). Nothing
  but the route of the sound depends on the first, and with one session at a time the second cannot
  happen.
* Several phones in `Handshake`: its handler serves one, `LaptopSession` has any number.
* Packet timestamps, which only the drift correction and its diagnostics read; settings, which are saved with the pairings
  and behave as they do; the back-off's length; the drift correction of the jitter buffer, which
  changes samples and no chunk.
* Cryptographic primitives, hex, JSON (messages) and TOML (configuration), the binary header field by field (round-trip tests of
  both apps), sample formats, level meters, lists of output devices, drawing, icons, texts, and the mDNS
  libraries, whose callback is the action `Discovered` of `RelayService`.

What would come next: the drift correction as a bounded controller, and `Handshake` as an
implementation of a handler of `LaptopSession`.
