--------------------------- MODULE CaptureProofs ---------------------------
(* What holds of the capture thread for any number of devices and clicks.   *)
EXTENDS Capture, TLAPS

\* Whatever ends a stream leaves the thread's own variables well typed.
LEMMA ReturnType ==
  ASSUME Return
  PROVE  /\ startedAt' \in 0..MaxGeneration
         /\ wanted' \in Devices \cup {SystemDefault} /\ device' \in Devices \cup {SystemDefault}
         /\ alive' \in BOOLEAN /\ canMute' \in BOOLEAN /\ desired' \in BOOLEAN
         /\ lastMute' \in {"unknown", "muted", "unmuted"} /\ unheard' \in BOOLEAN
<1>1. startedAt' \in 0..MaxGeneration
  BY CaptureAssumption DEF Return
<1>2. QED
  BY <1>1, Zenon DEF Return

\* Every variable keeps its type, and the queue to the sender its limit: a chunk is
\* dropped rather than queued when capture is ahead of the sender (try_send).
THEOREM TypeCorrect == Spec => []TypeOK
<1>1. Init => TypeOK
  <2> SUFFICES ASSUME Init PROVE TypeOK
    OBVIOUS
  <2>1. pc \in Steps /\ lastMute \in {"unknown", "muted", "unmuted"}
    BY DEF Init, Steps, Opening
  <2>2. eventDriven \in BOOLEAN
    BY CaptureAssumption DEF Init
  <2>3. queue \in 0..QueueLimit /\ generation \in 0..MaxGeneration /\ startedAt \in 0..MaxGeneration
    BY CaptureAssumption DEF Init
  <2>4. QED
    BY <2>1, <2>2, <2>3 DEF Init, TypeOK
<1>2. TypeOK /\ [Next]_vars => TypeOK'
  <2> SUFFICES ASSUME TypeOK, [Next]_vars PROVE TypeOK'
    OBVIOUS
  <2> USE CaptureAssumption DEF TypeOK, Steps, Opening, Capturing, settings, system, stream, mute, channel
  <2>1. CASE SampleGeneration
    BY <2>1 DEF SampleGeneration, Step
  <2>2. CASE ReadSelection
    BY <2>2 DEF ReadSelection, Step
  <2>3. CASE Resolve
    BY <2>3 DEF Resolve, EnumerateDevices, Default, Step
  <2>21. CASE ResolveBlind
    BY <2>21 DEF ResolveBlind, Default, Step
  <2>4. CASE Open
    BY <2>4 DEF Open, FindMuteControl, Step
  <2>5. CASE OpenFails
    BY <2>5, ReturnType DEF OpenFails
  <2>6. CASE Restart
    BY <2>6, ZenonT(30) DEF Restart
  <2>7. CASE CheckGeneration
    BY <2>7, ReturnType DEF CheckGeneration
  <2>8. CASE DecideMute
    BY <2>8 DEF DecideMute
  <2>9. CASE ApplyMute
    BY <2>9 DEF ApplyMute, SetMute, Step, Applied
  <2>30. CASE ApplyUnnoticed
    BY <2>30 DEF ApplyUnnoticed, Step, Applied
  <2>10. CASE ApplyFails
    BY <2>10 DEF ApplyFails, SetMute, Step
  <2>11. CASE Read
    BY <2>11 DEF Read, Step
  <2>12. CASE ReadFails
    BY <2>12, ReturnType DEF ReadFails, Step
  <2>13. CASE ReadShort
    BY <2>13 DEF ReadShort, Step
  <2>14. CASE WaitTimesOut
    BY <2>14, ReturnType DEF WaitTimesOut
  <2>15. CASE Enqueue
    BY <2>15 DEF Enqueue, AfterChunk
  <2>16. CASE DropChunk
    BY <2>16 DEF DropChunk, AfterChunk
  <2>17. CASE ReceiverGone
    BY <2>17, ReturnType DEF ReceiverGone, SetMute, Step
  <2>18. CASE Announce
    <3>1. generation' \in 0..MaxGeneration
      BY <2>18 DEF Announce
    <3>2. ~clicked' /\ clicked' \in BOOLEAN
      BY <2>18, Zenon DEF Announce
    <3>3. UNCHANGED <<selected, shouldMute, system, pc, stream, mute, channel>>
      BY <2>18, Zenon DEF Announce
    <3>4. QED
      BY <3>1, <3>2, <3>3
  <2>19. CASE Refresh
    BY <2>19 DEF Refresh
  <2>20. CASE SetShouldMute
    BY <2>20 DEF SetShouldMute
  <2>22. CASE Receive
    BY <2>22 DEF Receive
  <2>23. CASE Close
    BY <2>23 DEF Close
  <2>24. CASE Quit
    BY <2>24, ReturnType DEF Quit, Running
  <2>25. ASSUME NEW d \in Devices \cup {SystemDefault}, Select(d) PROVE TypeOK'
    BY <2>25 DEF Select
  <2>26. ASSUME NEW d \in Devices, Plug(d) PROVE TypeOK'
    BY <2>26 DEF Plug
  <2>27. ASSUME NEW d \in Devices, Unplug(d) PROVE TypeOK'
    BY <2>27 DEF Unplug
  <2>28. CASE UNCHANGED vars
    BY <2>28 DEF vars
  <2>29. QED
    BY <2>1, <2>2, <2>3, <2>4, <2>5, <2>6, <2>7, <2>8, <2>9, <2>10, <2>11, <2>12, <2>13, <2>14, <2>15,
       <2>16, <2>17, <2>18, <2>19, <2>20, <2>21, <2>22, <2>23, <2>24, <2>25, <2>26, <2>27, <2>28, <2>30 DEF Next, CaptureThread, Others, System
<1>3. QED
  BY <1>1, <1>2, PTL DEF Spec

\* The counter never runs behind a reader, and from the moment the selection is read
\* an unmoved counter means an unmoved selection.
SelectionInv ==
  /\ startedAt <= generation
  /\ pc \in {"resolving", "opening"} \cup Capturing /\ startedAt = generation /\ ~clicked
       => wanted = selected

\* A stream that does not restart captures the device selected now: the counter is
\* read before the selection (start), and written after it
\* (set_selected_capture_device), so a click in between is always noticed.
THEOREM SelectionFollowed == Spec => []SelectionNotStale
<1>1. Init => SelectionInv
  BY DEF Init, SelectionInv, Capturing
<1>2. TypeOK /\ SelectionInv /\ [Next]_vars => SelectionInv'
  <2> SUFFICES ASSUME TypeOK, SelectionInv, [Next]_vars PROVE SelectionInv'
    OBVIOUS
  <2>0. startedAt \in Nat /\ generation \in Nat
    BY CaptureAssumption DEF TypeOK
  <2> USE DEF SelectionInv, Capturing, settings, system, stream, mute, channel
  <2>1. CASE SampleGeneration
    BY <2>1, <2>0 DEF SampleGeneration, Step
  <2>2. CASE ReadSelection
    BY <2>2, <2>0 DEF ReadSelection, Step
  <2>3. CASE Resolve
    BY <2>3, <2>0 DEF Resolve, EnumerateDevices, Default, Step
  <2>21. CASE ResolveBlind
    BY <2>21, <2>0 DEF ResolveBlind, Default, Step
  <2>4. CASE Open
    BY <2>4, <2>0 DEF Open, FindMuteControl, Step
  <2>5. CASE OpenFails
    BY <2>5, <2>0 DEF OpenFails, Return
  <2>6. CASE Restart
    BY <2>6, <2>0 DEF Restart
  <2>7. CASE CheckGeneration
    BY <2>7, <2>0 DEF CheckGeneration, Return
  <2>8. CASE DecideMute
    BY <2>8, <2>0 DEF DecideMute
  <2>9. CASE ApplyMute
    BY <2>9, <2>0 DEF ApplyMute, SetMute, Step, Applied
  <2>30. CASE ApplyUnnoticed
    BY <2>30, <2>0 DEF ApplyUnnoticed, Step, Applied
  <2>10. CASE ApplyFails
    BY <2>10, <2>0 DEF ApplyFails, SetMute, Step
  <2>11. CASE Read
    BY <2>11, <2>0 DEF Read, Step
  <2>12. CASE ReadFails
    BY <2>12, <2>0 DEF ReadFails, Step, Return
  <2>13. CASE ReadShort
    BY <2>13, <2>0 DEF ReadShort, Step
  <2>14. CASE WaitTimesOut
    BY <2>14, <2>0 DEF WaitTimesOut, Return
  <2>15. CASE Enqueue
    BY <2>15, <2>0 DEF Enqueue, AfterChunk
  <2>16. CASE DropChunk
    BY <2>16, <2>0 DEF DropChunk, AfterChunk
  <2>17. CASE ReceiverGone
    BY <2>17, <2>0 DEF ReceiverGone, SetMute, Step, Return
  <2>18. CASE Announce
    BY <2>18, <2>0 DEF Announce
  <2>19. CASE Refresh
    BY <2>19, <2>0 DEF Refresh
  <2>20. CASE SetShouldMute
    BY <2>20, <2>0 DEF SetShouldMute
  <2>22. CASE Receive
    BY <2>22, <2>0 DEF Receive
  <2>23. CASE Close
    BY <2>23, <2>0 DEF Close
  <2>24. CASE Quit
    BY <2>24, <2>0 DEF Quit, Running, Return
  <2>25. ASSUME NEW d \in Devices \cup {SystemDefault}, Select(d) PROVE SelectionInv'
    BY <2>25, <2>0 DEF Select
  <2>26. ASSUME NEW d \in Devices, Plug(d) PROVE SelectionInv'
    BY <2>26, <2>0 DEF Plug
  <2>27. ASSUME NEW d \in Devices, Unplug(d) PROVE SelectionInv'
    BY <2>27, <2>0 DEF Unplug
  <2>28. CASE UNCHANGED vars
    BY <2>28 DEF vars
  <2>29. QED
    BY <2>1, <2>2, <2>3, <2>4, <2>5, <2>6, <2>7, <2>8, <2>9, <2>10, <2>11, <2>12, <2>13, <2>14, <2>15,
       <2>16, <2>17, <2>18, <2>19, <2>20, <2>21, <2>22, <2>23, <2>24, <2>25, <2>26, <2>27, <2>28, <2>30 DEF Next, CaptureThread, Others, System
<1>3. SelectionInv => SelectionNotStale
  BY DEF SelectionInv, SelectionNotStale
<1>4. QED
  BY <1>1, <1>2, <1>3, TypeCorrect, PTL DEF Spec

\* A stream lives only while its device is there, and only inside the loop.
MuteInv ==
  /\ LastMuteTrue
  /\ alive => device \in present
  /\ alive => pc \in Capturing

\* last_applied_mute is the truth about the captured device as long as nobody else
\* mutes it: a new stream starts from "unknown", and a call that failed is not
\* recorded.  Skipping the call when nothing changed is therefore safe, unless the call
\* that failed had been carried out.
THEOREM MuteKnown == Spec => []LastMuteTrue
<1>1. Init => MuteInv
  BY DEF Init, MuteInv, LastMuteTrue
<1>2. TypeOK /\ MuteInv /\ [Next]_vars => MuteInv'
  <2> SUFFICES ASSUME TypeOK, MuteInv, [Next]_vars PROVE MuteInv'
    OBVIOUS
  <2>0. desired \in BOOLEAN
    BY DEF TypeOK
  <2> USE DEF MuteInv, LastMuteTrue, Capturing, settings, system, stream, mute, channel
  <2>1. CASE SampleGeneration
    BY <2>1, <2>0 DEF SampleGeneration, Step
  <2>2. CASE ReadSelection
    BY <2>2, <2>0 DEF ReadSelection, Step
  <2>3. CASE Resolve
    BY <2>3, <2>0 DEF Resolve, EnumerateDevices, Default, Step
  <2>21. CASE ResolveBlind
    BY <2>21, <2>0 DEF ResolveBlind, Default, Step
  <2>4. CASE Open
    BY <2>4, <2>0 DEF Open, FindMuteControl, Step
  <2>5. CASE OpenFails
    BY <2>5, <2>0 DEF OpenFails, Return
  <2>6. CASE Restart
    BY <2>6, <2>0 DEF Restart
  <2>7. CASE CheckGeneration
    BY <2>7, <2>0 DEF CheckGeneration, Return
  <2>8. CASE DecideMute
    BY <2>8, <2>0 DEF DecideMute
  <2>9. CASE ApplyMute
    BY <2>9, <2>0 DEF ApplyMute, SetMute, Step, Applied
  <2>30. CASE ApplyUnnoticed
    BY <2>30, <2>0 DEF ApplyUnnoticed, Step, Applied
  <2>10. CASE ApplyFails
    BY <2>10, <2>0 DEF ApplyFails, SetMute, Step
  <2>11. CASE Read
    BY <2>11, <2>0 DEF Read, Step
  <2>12. CASE ReadFails
    BY <2>12, <2>0 DEF ReadFails, Step, Return
  <2>13. CASE ReadShort
    BY <2>13, <2>0 DEF ReadShort, Step
  <2>14. CASE WaitTimesOut
    BY <2>14, <2>0 DEF WaitTimesOut, Return
  <2>15. CASE Enqueue
    BY <2>15, <2>0 DEF Enqueue, AfterChunk
  <2>16. CASE DropChunk
    BY <2>16, <2>0 DEF DropChunk, AfterChunk
  <2>17. CASE ReceiverGone
    BY <2>17, <2>0 DEF ReceiverGone, SetMute, Step, Return
  <2>18. CASE Announce
    BY <2>18, <2>0 DEF Announce
  <2>19. CASE Refresh
    BY <2>19, <2>0 DEF Refresh
  <2>20. CASE SetShouldMute
    BY <2>20, <2>0 DEF SetShouldMute
  <2>22. CASE Receive
    BY <2>22, <2>0 DEF Receive
  <2>23. CASE Close
    BY <2>23, <2>0 DEF Close
  <2>24. CASE Quit
    BY <2>24, <2>0 DEF Quit, Running, Return
  <2>25. ASSUME NEW d \in Devices \cup {SystemDefault}, Select(d) PROVE MuteInv'
    BY <2>25, <2>0 DEF Select
  <2>26. ASSUME NEW d \in Devices, Plug(d) PROVE MuteInv'
    BY <2>26, <2>0 DEF Plug
  <2>27. ASSUME NEW d \in Devices, Unplug(d) PROVE MuteInv'
    BY <2>27, <2>0 DEF Unplug
  <2>28. CASE UNCHANGED vars
    BY <2>28 DEF vars
  <2>29. QED
    BY <2>1, <2>2, <2>3, <2>4, <2>5, <2>6, <2>7, <2>8, <2>9, <2>10, <2>11, <2>12, <2>13, <2>14, <2>15,
       <2>16, <2>17, <2>18, <2>19, <2>20, <2>21, <2>22, <2>23, <2>24, <2>25, <2>26, <2>27, <2>28, <2>30 DEF Next, CaptureThread, Others, System
<1>3. MuteInv => LastMuteTrue
  BY DEF MuteInv
<1>4. QED
  BY <1>1, <1>2, <1>3, TypeCorrect, PTL DEF Spec
=============================================================================
