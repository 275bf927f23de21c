--------------------------- MODULE MCResumePipeline ---------------------------
(***************************************************************************)
(* Values of the constants of ResumePipeline for TLC.                      *)
(***************************************************************************)
EXTENDS ResumePipeline, TLC

\* Runs, requests and workers are interchangeable.
Symmetry == Permutations(Runs) \cup Permutations(Requests)
                \cup Permutations(Workers)
=============================================================================
