---------------------------- MODULE MCAudioPath ----------------------------
(* The capture formats met in practice: Linux asks for 16-bit samples at      *)
(* 48 kHz, Windows takes the mix format of the endpoint.                      *)
EXTENDS AudioPath

MCModes == {5, 10}
MCIds == 1..4

Mix(rate, channels) == [rate |-> rate, channels |-> channels, sampleBytes |-> 4]

MCLinux   == [rate : {48000}, channels : {1, 2}, sampleBytes : {2}]
MCWindows == {Mix(44100, 1), Mix(44100, 2), Mix(48000, 2), Mix(48000, 6), Mix(96000, 2)}

MCFormats == MCLinux \cup MCWindows
=============================================================================
