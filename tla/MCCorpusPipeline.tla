--------------------------- MODULE MCCorpusPipeline ---------------------------
(***************************************************************************)
(* CorpusPipeline for TLC.  Source ids are numbers, because a refresh      *)
(* sorts them; every other value is a model value of the cfg.  Contents    *)
(* and version labels are only ever compared for equality, so permuting    *)
(* them changes nothing.  The symmetry is for the safety runs only.        *)
(***************************************************************************)
EXTENDS CorpusPipeline, TLC

Alike == Permutations(Checksums) \cup Permutations(Versions)
===============================================================================
