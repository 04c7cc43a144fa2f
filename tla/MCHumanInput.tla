----------------------------- MODULE MCHumanInput -----------------------------
(***************************************************************************)
(* Instances of HumanInput.  The ids of requests are numbers; gates with a *)
(* timeout differ from gates without.                                      *)
(***************************************************************************)
EXTENDS HumanInputProps

TwoRequests == 1 .. 2
==============================================================================
