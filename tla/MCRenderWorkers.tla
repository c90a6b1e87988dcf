--------------------------- MODULE MCRenderWorkers ---------------------------
(* Three render threads and spans of two, three and four jobs: a span that   *)
(* leaves a helper out, one job each, and a job for whoever is first.        *)
EXTENDS RenderWorkers

MCJobCounts == {2, 3, 4}
=============================================================================
