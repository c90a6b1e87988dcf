--------------------------- MODULE MCSoundFontSwap ---------------------------
(* The control thread queues requests, makes telemetry passes and changes   *)
(* the rotation mode; a host loads SoundFonts itself, another takes         *)
(* telemetry through the native interface.                                   *)
EXTENDS SoundFontSwap, TLC

CONSTANTS link, host, api

MCThreads == {link, host, api}
MCCalls == link :> {"queue", "telemetry", "rotation"} @@ host :> {"load"}
           @@ api :> {"telemetry"}

\* Two requests and one store with one telemetry caller; one request and two
\* stores with two.
MCStarts == {[request |-> 1, builds |-> 1, callers |-> {link, host}],
             [request |-> 2, builds |-> 0, callers |-> {link, host, api}]}
=============================================================================
