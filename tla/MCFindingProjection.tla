-------------------------- MODULE MCFindingProjection --------------------------
(***************************************************************************)
(* An instance of FindingProjection: one finding, and pages of one record, *)
(* so that a cycle takes two batches.                                      *)
(***************************************************************************)
EXTENDS FindingProjectionProps

MCFindings == 1 .. 1
==============================================================================
