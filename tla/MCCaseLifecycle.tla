-------------------------- MODULE MCCaseLifecycle --------------------------
(***************************************************************************)
(* Small instances of CaseLifecycle: a set of kinds of handlers for each    *)
(* question, and which of them may be in flight together.                   *)
(***************************************************************************)
EXTENDS CaseLifecycle, TLC

CONSTANTS h1, h2

HandlerSymmetry == Permutations(Handler)

\* every kind, resolutions pressed by two moderators at once
AllKinds == Kind
Resolutions == {"verify", "close", "kick"}

OneByOne == {}
Openings == {"open"}
============================================================================
