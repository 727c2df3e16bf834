------------------------------ MODULE RoleIntake ------------------------------
(***************************************************************************)
(* The intake of a role: an administrator takes in everybody who has it, one *)
(* member after the other, each within a time limit that does not stop the    *)
(* work it gives up.  Cases are opened and resolved by others as well.        *)
(* How a case is opened is in CaseLifecycle: here it is one step.             *)
(***************************************************************************)
EXTENDS Integers, FiniteSets

CONSTANTS
  Member,      \* who has the role, and is no bot
  Nobody,
  Limit,       \* members that one intake takes in (250)
  MaxMoves,    \* bound: cases opened and resolved by others
  MaxIntakes,  \* bound: intakes
  MaxFaults    \* bound: failed calls and restarts

\* what the constants are assumed to be
RoleIntakeAssumption ==
  /\ IsFiniteSet(Member) /\ Nobody \notin Member
  /\ Limit \in Nat \ {0}
  /\ MaxMoves \in Nat /\ MaxIntakes \in Nat /\ MaxFaults \in Nat

VARIABLES
  active,   \* who has an active case
  batch,    \* the intake, or the last one
  op,       \* its operations, the ones given up included
  taken,    \* whom the intake opened a case for (history)
  moves, intakes, faults

vars == <<active, batch, op, taken, moves, intakes, faults>>

NoBatch == [at |-> "idle", execute |-> FALSE, todo |-> {}, current |-> Nobody, done |-> 0,
            opened |-> {}, skipped |-> {}, failed |-> {}, seen |-> {}]

Init ==
  /\ active \in SUBSET Member
  /\ batch = NoBatch /\ op = {} /\ taken = {}
  /\ moves = 0 /\ intakes = 0 /\ faults = 0

Fault == faults < MaxFaults /\ faults' = faults + 1

---------------------------------------------------------------------------

\* selectRoleMembersForIntake: the first of those who have the role
Selections ==
  {s \in SUBSET Member :
     Cardinality(s) = IF Cardinality(Member) < Limit THEN Cardinality(Member) ELSE Limit}

StartIntake ==
  /\ batch.at = "idle" /\ intakes < MaxIntakes /\ intakes' = intakes + 1
  /\ \E s \in Selections, execute \in BOOLEAN :
       batch' = [NoBatch EXCEPT !.at = "next", !.execute = execute, !.todo = s]
  /\ op' = {[o EXCEPT !.late = TRUE] : o \in op} /\ taken' = {}
  /\ UNCHANGED <<active, moves, faults>>

NextMember ==
  /\ batch.at = "next"
  /\ \E m \in batch.todo :
       /\ batch' = [batch EXCEPT !.at = "wait", !.todo = @ \ {m}, !.current = m]
       /\ op' = op \cup {[member |-> m, at |-> "find", execute |-> batch.execute, late |-> FALSE]}
  /\ UNCHANGED <<active, taken, moves, intakes, faults>>

EndIntake ==
  /\ batch.at = "next" /\ batch.todo = {}
  /\ batch' = [batch EXCEPT !.at = "idle"]
  /\ UNCHANGED <<active, op, taken, moves, intakes, faults>>

\* Somebody waits for the result of the operation.
Awaited(o) == ~o.late /\ batch.at = "wait" /\ batch.current = o.member
Counted(b) == [b EXCEPT !.at = "next", !.current = Nobody, !.done = @ + 1]
\* the result of an operation, if it still is awaited
Results(o, result) == batch' = IF Awaited(o) THEN Counted(result) ELSE batch

\* processSelectedMember, as far as its look for an active case
FindActive(o) ==
  /\ o.at = "find"
  /\ IF o.member \in active
     THEN op' = op \ {o} /\ Results(o, [batch EXCEPT !.skipped = @ \cup {o.member}])
     ELSE IF ~o.execute
     THEN op' = op \ {o} /\ Results(o, [batch EXCEPT !.seen = @ \cup {o.member}])
     ELSE op' = (op \ {o}) \cup {[o EXCEPT !.at = "open"]} /\ batch' = batch
  /\ UNCHANGED <<active, taken, moves, intakes, faults>>

Failed(o) == [batch EXCEPT !.failed = @ \cup {o.member}]
Opened(o) == [batch EXCEPT !.opened = @ \cup {o.member}]
\* the case is there, and its role was not given: it is counted twice
OpenedWithoutRole(o) == [Opened(o) EXCEPT !.failed = @ \cup {o.member}]

OpenCase(o) ==
  /\ o.at = "open" /\ op' = op \ {o}
  /\ active' = active \cup {o.member}
  /\ taken' = IF o.late THEN taken ELSE taken \cup {o.member}
  /\ Results(o, Opened(o)) \/ Results(o, OpenedWithoutRole(o))
  /\ UNCHANGED <<moves, intakes, faults>>

\* The look fails; the case is not opened, or something fails after it was.
OperationFails(o) ==
  /\ Fault /\ op' = op \ {o} /\ Results(o, Failed(o))
  /\ \/ UNCHANGED <<active, taken>>
     \/ /\ o.at = "open" /\ active' = active \cup {o.member}
        /\ taken' = IF o.late THEN taken ELSE taken \cup {o.member}
  /\ UNCHANGED <<moves, intakes>>

\* Mutant: a member that takes too long is left out of the result.
GivenUpSilently == Counted(batch)
GivenUp == Counted([batch EXCEPT !.failed = @ \cup {batch.current}])

\* withTimeout: the operation goes on
Timeout ==
  /\ batch.at = "wait" /\ batch' = GivenUp
  /\ UNCHANGED <<active, op, taken, moves, intakes, faults>>

---------------------------------------------------------------------------
Others ==
  /\ moves < MaxMoves /\ moves' = moves + 1
  /\ \E m \in Member : active' = IF m \in active THEN active \ {m} ELSE active \cup {m}
  /\ UNCHANGED <<batch, op, taken, intakes, faults>>

\* The intake is nowhere but in the memory of the process.
Restart ==
  /\ Fault /\ batch' = NoBatch /\ op' = {} /\ taken' = {}
  /\ UNCHANGED <<active, moves, intakes>>

Next ==
  \/ StartIntake \/ NextMember \/ EndIntake \/ Timeout
  \/ \E o \in op : FindActive(o) \/ OpenCase(o) \/ OperationFails(o)
  \/ Others \/ Restart

Spec == Init /\ [][Next]_vars

---------------------------------------------------------------------------
(* Properties *)

\* Types of the variables.
TypeOK ==
  /\ active \subseteq Member /\ taken \subseteq Member
  /\ batch \in [at : {"idle", "next", "wait"}, execute : BOOLEAN, todo : SUBSET Member,
                current : Member \cup {Nobody}, done : 0..Limit, opened : SUBSET Member,
                skipped : SUBSET Member, failed : SUBSET Member, seen : SUBSET Member]
  /\ op \subseteq [member : Member, at : {"find", "open"}, execute : BOOLEAN, late : BOOLEAN]
  /\ moves \in 0..MaxMoves /\ intakes \in 0..MaxIntakes /\ faults \in 0..MaxFaults

\* Whoever an intake opened a case for, is in its result as opened or failed, even if
\* the case came after the intake had given up on it; nobody is counted as opened
\* without; and every member is counted in one way, or as opened and failed.
IntakeIsCounted ==
  /\ taken \subseteq batch.opened \cup batch.failed \cup {batch.current}
  /\ batch.opened \subseteq taken
  /\ batch.done = Cardinality(batch.opened \cup batch.failed)
                    + Cardinality(batch.skipped) + Cardinality(batch.seen)
=============================================================================
