---------------------------- MODULE MCVoicePool ----------------------------
(* A pool of three voices, two keys, and notes of one and of two layers. *)
EXTENDS VoicePool

CONSTANTS h1, h2, h3

plain == [class |-> 0, offBy |-> 0]
hat == [class |-> 1, offBy |-> 0]
mute == [class |-> 0, offBy |-> 1]

MCLaunches ==
    {[note |-> 60, layers |-> <<plain>>, mult |-> 2],
     [note |-> 60, layers |-> <<mute>>, mult |-> 1],
     [note |-> 61, layers |-> <<hat, plain>>, mult |-> 1]}
MCChannels == {1}
MCNotes == {60, 61}
MCHandles == {h1, h2, h3}
HandleSymmetry == Permutations(MCHandles)
=============================================================================
