------------------------ MODULE MCActionRequestQueue ------------------------
(* The request queue on small instances for TLC. *)
EXTENDS ActionRequestQueue, TLC

CONSTANTS c1, verify, reopen, preview, execute, detached

MCCaseOf == [k \in Request |-> IF k = detached THEN NoCase ELSE c1]

MCKindOf ==
  [k \in Request |->
     CASE k = verify   -> "resolve"
       [] k = reopen   -> "reopen"
       [] k = preview  -> "preview"
       [] k = execute  -> "execute"
       [] k = detached -> "detached"]
=============================================================================
