-------------------------- MODULE RoleQuarantine --------------------------
(***************************************************************************)
(* The role quarantine of one member: when the case role is applied the     *)
(* member's other roles are snapshotted and removed one by one, when the    *)
(* case is verified or closed they are given back from the snapshot, and    *)
(* while the case is active newly gained roles are removed again.  Roles    *)
(* are changed by moderators and by the member at any time, Discord calls   *)
(* fail or lose their answer, and the process may die between two steps.    *)
(*                                                                          *)
(* One application or restoration is in flight at a time; the enforcement   *)
(* of a role update runs beside it.  The mode is "on".                      *)
(***************************************************************************)
EXTENDS Integers

CONSTANTS
  Role,         \* roles of the guild, the case role excepted
  Exempt,       \* settings.exemptRoleIds and the manual intake role
  Policy,       \* roles the role gate or manual intake own: never given back
  MaxSnaps,     \* bound: snapshots
  MaxSwitches,  \* bound: cases opened or resolved, departures and returns
  MaxRoleMoves, \* bound: roles granted, taken or moved by others
  MaxFaults     \* bound: failed calls, lost answers and crashes

\* what the constants are assumed to be
RoleQuarantineAssumption ==
  /\ Exempt \subseteq Role /\ Policy \subseteq Role
  /\ MaxSnaps \in Nat /\ MaxSwitches \in Nat /\ MaxRoleMoves \in Nat /\ MaxFaults \in Nat

Snap == 1..MaxSnaps
Snapshot == [status : {"none", "active", "restored", "abandoned"},
             original : SUBSET Role, removed : SUBSET Role]
NoSnapshot == [status |-> "none", original |-> {}, removed |-> {}]

VARIABLES
  held,      \* roles of the member
  caseRole,  \* the member has the case role
  pending,   \* the member has an active case
  present,   \* the member is in the guild
  high,      \* roles at or above the bot's own role
  snaps,     \* role_quarantine_snapshots of the member
  flow,      \* the application, restoration or abandonment in flight
  watch,     \* the role update being enforced
  taken,     \* roles a quarantine took and nothing has settled (history)
  lost,      \* roles whose removal reached Discord although its call failed (history)
  late,      \* roles first gained under the case role (history)
  switches, roleMoves, faults

guild == <<present, pending, high>>
history == <<taken, lost, late>>
counters == <<switches, roleMoves, faults>>
vars == <<held, caseRole, pending, present, high, snaps, flow, watch, taken, lost, late,
          switches, roleMoves, faults>>

NoFlow == [at |-> "idle", snap |-> 0, original |-> {}, todo |-> {}, done |-> {}, missed |-> FALSE]
NoWatch == [at |-> "idle", gained |-> {}]
Flow == [at : {"idle", "find", "create", "remove", "record", "assign", "restoreFind",
               "restore", "restoreRecord", "abandonFind", "abandon"},
         snap : Snap \cup {0}, original : SUBSET Role,
         todo : SUBSET Role, done : SUBSET Role, missed : BOOLEAN]
Watch == [at : {"idle", "look", "remove"}, gained : SUBSET Role]

Active == {s \in Snap : snaps[s].status = "active"}
Newest(S) == CHOOSE s \in S : \A t \in S : t <= s
Removable(r) == r \notin Exempt /\ r \notin high
Fault == faults < MaxFaults /\ faults' = faults + 1

Init ==
  /\ held \in SUBSET Role
  /\ caseRole = FALSE /\ pending = FALSE /\ present = TRUE /\ high = {}
  /\ snaps = [s \in Snap |-> NoSnapshot]
  /\ flow = NoFlow /\ watch = NoWatch
  /\ taken = {} /\ lost = {} /\ late = {}
  /\ switches = 0 /\ roleMoves = 0 /\ faults = 0

---------------------------------------------------------------------------
(* Applying: applyCaseRole with quarantineMember *)

Open ==
  /\ flow.at = "idle" /\ present /\ switches < MaxSwitches
  /\ pending' = TRUE
  /\ flow' = [NoFlow EXCEPT !.at = "find"]
  /\ switches' = switches + 1
  /\ UNCHANGED <<held, caseRole, present, high, snaps, watch, history, roleMoves, faults>>

\* With an active snapshot nothing is removed (already_active).
FindActive ==
  /\ flow.at = "find"
  /\ flow' = IF Active # {} THEN [flow EXCEPT !.at = "assign"]
             ELSE [flow EXCEPT !.at = "create", !.original = held,
                               !.todo = {r \in held : Removable(r)}]
  /\ UNCHANGED <<held, caseRole, guild, snaps, watch, history, counters>>

\* Mutant: the removed roles are only recorded after the removals.
CreateEmptySnapshot ==
  /\ flow.at = "create"
  /\ \E s \in Snap :
       /\ \A t \in Snap : snaps[t].status = "none" <=> t >= s
       /\ snaps' = [snaps EXCEPT ![s] =
            [status |-> "active", original |-> flow.original, removed |-> {}]]
       /\ late' = late \ flow.original
       /\ flow' = [flow EXCEPT !.snap = s, !.at = IF flow.todo = {} THEN "record" ELSE "remove"]
  /\ UNCHANGED <<held, caseRole, guild, watch, taken, lost, counters>>

\* The planned roles are recorded as removed before the first one is.
CreateSnapshot ==
  /\ flow.at = "create"
  /\ \E s \in Snap :
       /\ \A t \in Snap : snaps[t].status = "none" <=> t >= s
       /\ snaps' = [snaps EXCEPT ![s] =
            [status |-> "active", original |-> flow.original, removed |-> flow.todo]]
       /\ late' = late \ flow.original
       /\ flow' = [flow EXCEPT !.snap = s, !.at = IF flow.todo = {} THEN "record" ELSE "remove"]
  /\ UNCHANGED <<held, caseRole, guild, watch, taken, lost, counters>>

NextRole(r, done, missed, after) ==
  flow' = [flow EXCEPT !.todo = @ \ {r}, !.done = done, !.missed = missed,
                       !.at = IF flow.todo = {r} THEN after ELSE @]

\* A call succeeds, fails, or fails although Discord carried it out.
RemoveRole(r) ==
  /\ flow.at = "remove" /\ r \in flow.todo /\ present
  /\ \/ /\ held' = held \ {r} /\ taken' = taken \cup (held \cap {r}) /\ lost' = lost \ {r}
        /\ NextRole(r, flow.done \cup {r}, FALSE, "record") /\ faults' = faults
     \/ /\ held' = held /\ taken' = taken /\ lost' = lost
        /\ NextRole(r, flow.done, FALSE, "record") /\ Fault
     \/ /\ held' = held \ {r} /\ taken' = taken \cup (held \cap {r}) /\ lost' = lost \cup {r}
        /\ NextRole(r, flow.done, FALSE, "record") /\ Fault
  /\ UNCHANGED <<caseRole, guild, snaps, watch, late, switches, roleMoves>>

RecordRemoved ==
  /\ flow.at = "record"
  /\ snaps' = [snaps EXCEPT ![flow.snap].removed = flow.done]
  /\ flow' = [flow EXCEPT !.at = "assign"]
  /\ UNCHANGED <<held, caseRole, guild, watch, history, counters>>

AssignCaseRole ==
  /\ flow.at = "assign" /\ present
  /\ caseRole' = TRUE
  /\ flow' = NoFlow
  /\ UNCHANGED <<held, guild, snaps, watch, history, counters>>

\* Without the case role the new quarantine is rolled back.
FailAssign ==
  /\ flow.at = "assign" /\ Fault
  /\ flow' = IF flow.snap = 0 THEN NoFlow ELSE [NoFlow EXCEPT !.at = "restoreFind"]
  /\ UNCHANGED <<held, caseRole, guild, snaps, watch, history, switches, roleMoves>>

---------------------------------------------------------------------------
(* Resolving: verifyUser and closeCaseNoAction with restoreMemberRoles *)

\* The row is written and the case role removed before any role comes back.
Resolve ==
  /\ flow.at = "idle" /\ present /\ pending /\ switches < MaxSwitches
  /\ pending' = FALSE /\ caseRole' = FALSE
  /\ flow' = [NoFlow EXCEPT !.at = "restoreFind"]
  /\ switches' = switches + 1
  /\ UNCHANGED <<held, present, high, snaps, watch, history, roleMoves, faults>>

FindRestorable ==
  /\ flow.at = "restoreFind"
  /\ flow' = IF Active = {} THEN NoFlow
             ELSE LET s == Newest(Active) IN
               [NoFlow EXCEPT !.snap = s, !.todo = snaps[s].removed,
                 !.at = IF snaps[s].removed = {} THEN "restoreRecord" ELSE "restore"]
  /\ UNCHANGED <<held, caseRole, guild, snaps, watch, history, counters>>

\* A policy role is skipped for good; one above the bot, and one that Discord
\* does not add, keep the snapshot active.
Skipped(r) == r \in Policy
Unreachable(r) == r \notin Policy /\ r \in high
Restorable(r) == r \notin Policy /\ r \notin high

RestoreRole(r) ==
  /\ flow.at = "restore" /\ r \in flow.todo
  /\ \/ /\ Skipped(r)
        /\ held' = held /\ taken' = taken \ {r}
        /\ NextRole(r, flow.done, flow.missed, "restoreRecord") /\ faults' = faults
     \/ /\ Unreachable(r)
        /\ UNCHANGED <<held, taken, faults>>
        /\ NextRole(r, flow.done, TRUE, "restoreRecord")
     \/ /\ Restorable(r) /\ (present \/ r \in held)
        /\ held' = held \cup {r} /\ taken' = taken \ {r}
        /\ NextRole(r, flow.done \cup {r}, flow.missed, "restoreRecord") /\ faults' = faults
     \/ /\ Restorable(r) /\ r \notin held
        /\ UNCHANGED <<held, taken>>
        /\ NextRole(r, flow.done, TRUE, "restoreRecord")
        /\ IF present THEN Fault ELSE faults' = faults
  /\ UNCHANGED <<caseRole, guild, snaps, watch, lost, late, switches, roleMoves>>

RecordRestored ==
  /\ flow.at = "restoreRecord"
  /\ snaps' = [snaps EXCEPT ![flow.snap].status = IF flow.missed THEN "active" ELSE "restored"]
  /\ flow' = NoFlow
  /\ UNCHANGED <<held, caseRole, guild, watch, history, counters>>

---------------------------------------------------------------------------
(* Leaving: abandonActiveSnapshot after a ban, a kick or a departure *)

Leave ==
  /\ present /\ switches < MaxSwitches
  /\ flow.at = "idle"
  /\ present' = FALSE /\ held' = {} /\ caseRole' = FALSE
  /\ pending' \in {pending, FALSE}
  /\ flow' = [NoFlow EXCEPT !.at = "abandonFind"]
  /\ switches' = switches + 1
  /\ UNCHANGED <<high, snaps, watch, history, roleMoves, faults>>

FindAbandoned ==
  /\ flow.at = "abandonFind"
  /\ flow' = IF Active = {} THEN NoFlow
             ELSE [NoFlow EXCEPT !.at = "abandon", !.snap = Newest(Active)]
  /\ UNCHANGED <<held, caseRole, guild, snaps, watch, history, counters>>

Abandon ==
  /\ flow.at = "abandon"
  /\ snaps' = [snaps EXCEPT ![flow.snap].status = "abandoned"]
  /\ taken' = {} /\ flow' = NoFlow
  /\ UNCHANGED <<held, caseRole, guild, watch, lost, late, counters>>

Return ==
  /\ ~present /\ switches < MaxSwitches
  /\ present' = TRUE /\ switches' = switches + 1
  /\ UNCHANGED <<held, caseRole, pending, high, snaps, flow, watch, history, roleMoves, faults>>

---------------------------------------------------------------------------
(* Enforcing: enforceActiveCaseRoleQuarantine of guildMemberUpdate *)

RoleMove == roleMoves < MaxRoleMoves /\ roleMoves' = roleMoves + 1

\* The member gains a role; the event is handled if no other one is.
Gain(r) ==
  /\ present /\ r \notin held /\ RoleMove
  /\ held' = held \cup {r}
  /\ late' = IF caseRole /\ pending /\ \A s \in Active : r \notin snaps[s].original
             THEN late \cup {r} ELSE late \ {r}
  /\ watch' = IF watch = NoWatch THEN [at |-> "look", gained |-> {r}] ELSE watch
  /\ UNCHANGED <<caseRole, guild, snaps, flow, taken, lost, switches, faults>>

\* Only a member with the case role and an active case is held to the quarantine.
Look ==
  /\ watch.at = "look"
  /\ watch' = IF caseRole /\ pending THEN [watch EXCEPT !.at = "remove"] ELSE NoWatch
  /\ UNCHANGED <<held, caseRole, guild, snaps, flow, history, counters>>

\* Mutant: the enforced roles are added to those the snapshot gives back.
EnforceIntoSnapshot ==
  /\ watch.at = "remove"
  /\ LET gone == {r \in watch.gained : Removable(r)} IN
     /\ held' = held \ gone
     /\ snaps' = [s \in Snap |-> IF s \in Active
                   THEN [snaps[s] EXCEPT !.removed = @ \cup gone] ELSE snaps[s]]
  /\ watch' = NoWatch
  /\ UNCHANGED <<caseRole, guild, flow, history, counters>>

\* What is removed here is recorded in the metadata, not among the snapshot's
\* removed roles.
Enforce ==
  /\ watch.at = "remove"
  /\ \E gone \in {{r \in watch.gained : Removable(r)}, {}} :
       /\ held' = held \ gone
       /\ IF gone = {} /\ \E r \in watch.gained : Removable(r) THEN Fault
          ELSE faults' = faults
  /\ watch' = NoWatch
  /\ UNCHANGED <<caseRole, guild, snaps, flow, history, switches, roleMoves>>

---------------------------------------------------------------------------
(* Others *)

Drop(r) ==
  /\ r \in held /\ RoleMove
  /\ held' = held \ {r}
  /\ UNCHANGED <<caseRole, guild, snaps, flow, watch, history, switches, faults>>

Reorder(r) ==
  /\ RoleMove
  /\ high' = IF r \in high THEN high \ {r} ELSE high \cup {r}
  /\ UNCHANGED <<held, caseRole, pending, present, snaps, flow, watch, history,
                 switches, faults>>

\* The process dies, or a statement fails and the flow is given up.
Crash ==
  /\ flow.at # "idle" /\ Fault
  /\ flow' = NoFlow /\ watch' = NoWatch
  /\ UNCHANGED <<held, caseRole, guild, snaps, history, switches, roleMoves>>

Next ==
  \/ Open \/ FindActive \/ CreateSnapshot \/ RecordRemoved \/ AssignCaseRole \/ FailAssign
  \/ Resolve \/ FindRestorable \/ RecordRestored
  \/ Leave \/ FindAbandoned \/ Abandon \/ Return
  \/ Look \/ Enforce \/ Crash
  \/ \E r \in Role : RemoveRole(r) \/ RestoreRole(r) \/ Gain(r) \/ Drop(r) \/ Reorder(r)

Spec == Init /\ [][Next]_vars

---------------------------------------------------------------------------
(* Properties *)

\* Types of the variables: snapshots, the flow in flight and the history.
TypeOK ==
  /\ held \subseteq Role /\ high \subseteq Role
  /\ caseRole \in BOOLEAN /\ pending \in BOOLEAN /\ present \in BOOLEAN
  /\ snaps \in [Snap -> Snapshot]
  /\ flow \in Flow /\ watch \in Watch
  /\ taken \subseteq Role /\ lost \subseteq Role /\ late \subseteq Role
  /\ switches \in 0..MaxSwitches /\ roleMoves \in 0..MaxRoleMoves /\ faults \in 0..MaxFaults

\* A role the quarantine took from a member is never forgotten: until it is
\* given back, or settled for good, an active snapshot lists it, whatever fails
\* or crashes in the middle of the removals or of the restoration.  The one
\* exception is a removal whose answer was lost.
NoRoleForgotten ==
  \A r \in taken \ (lost \cup held) : \E s \in Active : r \in snaps[s].removed

\* A role the member gained only after the restriction began is not given back
\* when the case is resolved.
GainedIsNotRestored ==
  [][flow.at = "restore" /\ watch' = watch /\ roleMoves' = roleMoves
       => (held' \ held) \cap late = {}]_vars
============================================================================
