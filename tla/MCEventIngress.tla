--------------------------- MODULE MCEventIngress ---------------------------
(* Instances of EventIngress for TLC. *)
EXTENDS EventIngress
CONSTANTS t1, t2
OneThread == {t1}
TwoThreads == {t1, t2}
Singles == {<<kind>> : kind \in Kinds}
Calls == {<<"loud">>, <<"panic">>, <<"loud", "loud">>, <<"quiet", "loud">>}
=============================================================================
