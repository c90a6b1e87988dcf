--------------------------- MODULE MCIngressQueue ---------------------------
(* Two producers and the consumer on a ring of two cells, so that every push *)
(* after the second laps the ring.                                           *)
EXTENDS IngressQueue, TLC

CONSTANTS p1, p2, noteOn, noteOff

MCProducers == {p1, p2}
MCEvents == {noteOn, noteOff}
\* Single events, a batch that fills the ring and one that cannot fit.
MCBatches == {<<noteOn>>, <<noteOff>>, <<noteOn, noteOff>>,
              <<noteOn, noteOff, noteOn>>}
=============================================================================
