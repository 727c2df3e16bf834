--------------------------- MODULE EvidenceLedger ---------------------------
(***************************************************************************)
(* What message cleanup promises, without jobs, items or workers: a        *)
(* message is destroyed by the bot only after a copy of it has been        *)
(* preserved, and the copies are never given up.                           *)
(***************************************************************************)
CONSTANT Message

VARIABLES
  preserved,  \* messages with a copy in the private evidence thread
  destroyed   \* messages the bot deleted

vars == <<preserved, destroyed>>

Init == preserved = {} /\ destroyed = {}

Preserve(m) ==
  /\ preserved' = preserved \cup {m}
  /\ UNCHANGED destroyed

Destroy(D) ==
  /\ D \subseteq preserved
  /\ destroyed' = destroyed \cup D
  /\ UNCHANGED preserved

Next ==
  \/ \E m \in Message : Preserve(m)
  \/ \E D \in SUBSET Message : Destroy(D)

Spec == Init /\ [][Next]_vars
=============================================================================
