-------------------------- MODULE MCPlaybackTrack --------------------------
(* The playback track for TLC: the current AudioTrack and the one that is to *)
(* replace it.                                                               *)
EXTENDS PlaybackTrack

CONSTANTS t1, t2

MCTracks == {t1, t2}
=============================================================================
