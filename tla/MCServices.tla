----------------------------- MODULE MCServices -----------------------------
(***************************************************************************)
(* Small instances of the services that share no state with each other:     *)
(* every behaviour is one of one of them, chosen at its beginning, while    *)
(* the variables of the others keep their initial values.                   *)
(***************************************************************************)
EXTENDS Integers, FiniteSets

CONSTANTS
  Part,  \* the services of a run
  \* the quarantine of roles
  Role, Exempt, Policy, MaxSnaps, MaxSwitches, MaxRoleMoves, QuarantineFaults,
  \* the observed alert
  Mod, Nobody, DetectionStarts, DetectionFaults,
  \* the report intake
  Cand, NoCand, IntakeHandler, IntakeStarts, IntakeFaults,
  \* the reminders
  Stale, VeryStale, Repeat, Interval, Window, LongPending, ReminderFaults,
  \* the frequency of messages
  Threshold, Timeframe, CleanupEvery, LastMoment, MaxChecks, FrequencyChanges,
  \* the scans
  MaxScans, Profile, AlertWindow, ObservedMin, ActionMin, LastScanMoment,
  \* the lockdown of channels
  Category, Channel, NoCategory, Others, MaxEdits, LockdownFaults,
  \* the prompts of the moderators
  ActionHandler, Grants, ConfirmTtl, MaxRecords, MorePresses, ActionTurns, ActionFaults

VARIABLES
  part,
  held, caseRole, pending, present, high, snaps, flow, watch, taken, lost, late,
  switches, roleMoves, faults,
  meta, latest, moderator, writes, carried, stuck, clobbered, starts, odFaults,
  row, asked, alert, intake, filed, riWrites, raced, said, riStarts, riFaults,
  event, screened, stamps, tick, reply, batch, review, sent, reminder,
  answered, unstamped, unmarked, overwritten, ticked, rmFaults,
  settings, now, times, cleanedAt, checks, mfChanges,
  profile, clock, scan, detected, alerts, unrecorded,
  parent, access, allowed, enabled, run, granting, disturbed, edits, lkFaults,
  kind, granted, on, strict, screen, live, acAge, press, kept, closed, overlapped,
  presses, records, turns, upsets

Quarantine == INSTANCE RoleQuarantine WITH MaxFaults <- QuarantineFaults
Detection == INSTANCE ObservedDetection WITH
  MaxStarts <- DetectionStarts, MaxFaults <- DetectionFaults,
  handler <- moderator, faults <- odFaults
Intake == INSTANCE ReportIntake WITH
  Handler <- IntakeHandler, MaxStarts <- IntakeStarts, MaxFaults <- IntakeFaults,
  handler <- intake, writes <- riWrites, starts <- riStarts, faults <- riFaults
Reminder == INSTANCE ReviewReminder WITH
  MaxFaults <- ReminderFaults, clobbered <- overwritten, faults <- rmFaults
Frequency == INSTANCE MessageFrequency WITH
  MaxNow <- LastMoment, MaxChanges <- FrequencyChanges, changes <- mfChanges
Pipeline == INSTANCE DetectionPipeline WITH
  MaxNow <- LastScanMoment, now <- clock, event <- detected, unstamped <- unrecorded
Lockdown == INSTANCE RoleLockdown WITH MaxFaults <- LockdownFaults, faults <- lkFaults
Actions == INSTANCE ModeratorActions WITH
  Handler <- ActionHandler, Ttl <- ConfirmTtl, MaxChanges <- ActionTurns,
  MaxFaults <- ActionFaults, age <- acAge

ASSUME ServicesAssumption ==
  /\ Quarantine!RoleQuarantineAssumption /\ Detection!ObservedDetectionAssumption
  /\ Intake!ReportIntakeAssumption /\ Reminder!ReviewReminderAssumption
  /\ Frequency!MessageFrequencyAssumption /\ Pipeline!DetectionPipelineAssumption
  /\ Lockdown!RoleLockdownAssumption /\ Actions!ModeratorActionsAssumption

quarantineVars ==
  <<held, caseRole, pending, present, high, snaps, flow, watch, taken, lost, late,
    switches, roleMoves, faults>>
detectionVars ==
  <<meta, latest, moderator, writes, carried, stuck, clobbered, starts, odFaults>>
intakeVars ==
  <<row, asked, alert, intake, filed, riWrites, raced, said, riStarts, riFaults>>
reminderVars ==
  <<event, screened, stamps, tick, reply, batch, review, sent, reminder,
    answered, unstamped, unmarked, overwritten, ticked, rmFaults>>
frequencyVars == <<settings, now, times, cleanedAt, checks, mfChanges>>
pipelineVars == <<profile, clock, scan, detected, alerts, unrecorded>>
scanVars == <<frequencyVars, pipelineVars>>
lockdownVars == <<parent, access, allowed, enabled, run, granting, disturbed, edits, lkFaults>>
actionVars ==
  <<kind, granted, on, strict, screen, live, acAge, press, kept, closed, overlapped,
    presses, records, turns, upsets>>
\* few behaviours have steps of these two
actionable == <<lockdownVars, actionVars>>
vars ==
  <<part, quarantineVars, detectionVars, intakeVars, reminderVars,
    scanVars, actionable>>

Init ==
  /\ part \in Part
  \* the initial states of the services at rest
  /\ part # "quarantine" => held = {}
  /\ part # "frequency" => settings = CHOOSE x \in Frequency!Settings : TRUE
  /\ part # "pipeline" => profile = CHOOSE x \in Profile : TRUE
  /\ part # "lockdown" =>
       /\ parent = [c \in Channel |-> NoCategory] /\ allowed = {}
       /\ access = [p \in Category \cup Channel |->
                     [others |-> CHOOSE x \in Others : TRUE, caseRole |-> "none"]]
       /\ run = Lockdown!NoRun
  /\ part # "actions" =>
       /\ kind = CHOOSE x \in Actions!Kinds : TRUE
       /\ granted = CHOOSE x \in Grants : TRUE
       /\ on = {} /\ strict = FALSE
  /\ Lockdown!Init
  \* The overwrites of the others of a category are one value up to renaming, and
  \* two channels are alike: the first is the one that is allowed, or has a category.
  /\ \A k \in Category : access[k].others = CHOOSE x \in Others : TRUE
  /\ LET first == CHOOSE c \in Channel : TRUE IN
       \A c \in Channel :
         /\ c \in allowed => first \in allowed
         /\ (first \in allowed => c \in allowed) /\ parent[first] = NoCategory
              => parent[c] = NoCategory
  /\ Quarantine!Init /\ Detection!Init /\ Intake!Init
  /\ Reminder!Init /\ Frequency!Init /\ Pipeline!Init /\ Actions!Init

QuarantineNext ==
  /\ part = "quarantine" /\ Quarantine!Next
  /\ UNCHANGED <<part, detectionVars, intakeVars, reminderVars, scanVars, actionable>>
DetectionNext ==
  /\ part = "detection" /\ Detection!Next
  /\ UNCHANGED <<part, quarantineVars, intakeVars, reminderVars, scanVars, actionable>>
IntakeNext ==
  /\ part = "intake" /\ Intake!Next
  /\ UNCHANGED <<part, quarantineVars, detectionVars, reminderVars, scanVars, actionable>>
ReminderNext ==
  /\ part = "reminder" /\ Reminder!Next
  /\ UNCHANGED <<part, quarantineVars, detectionVars, intakeVars, scanVars, actionable>>
FrequencyNext ==
  /\ part = "frequency" /\ Frequency!Next
  /\ UNCHANGED <<part, quarantineVars, detectionVars, intakeVars, reminderVars, pipelineVars, actionable>>
PipelineNext ==
  /\ part = "pipeline" /\ Pipeline!Next
  /\ UNCHANGED <<part, quarantineVars, detectionVars, intakeVars, reminderVars, frequencyVars, actionable>>
LockdownNext ==
  /\ part = "lockdown" /\ Lockdown!Next
  /\ UNCHANGED <<part, quarantineVars, detectionVars, intakeVars, reminderVars, scanVars, actionVars>>
ActionsNext ==
  /\ part = "actions" /\ Actions!Next
  /\ UNCHANGED <<part, quarantineVars, detectionVars, intakeVars, reminderVars, scanVars, lockdownVars>>

Next ==
  \/ QuarantineNext \/ DetectionNext \/ IntakeNext \/ ReminderNext
  \/ FrequencyNext \/ PipelineNext \/ LockdownNext \/ ActionsNext

Spec == Init /\ [][Next]_vars

---------------------------------------------------------------------------
(* The properties of the modules, by their names there *)

\* Types of the variables of the service at work.
TypeOK ==
  /\ part \in Part
  /\ part = "quarantine" => Quarantine!TypeOK
  /\ part = "detection" => Detection!TypeOK
  /\ part = "intake" => Intake!TypeOK
  /\ part = "reminder" => Reminder!TypeOK
  /\ part = "frequency" => Frequency!TypeOK
  /\ part = "pipeline" => Pipeline!TypeOK
  /\ part = "lockdown" => Lockdown!TypeOK
  /\ part = "actions" => Actions!TypeOK

\* RoleQuarantine: an active snapshot lists every role taken and not settled, and what was
\* gained under the restriction is not given back.
RolesAreKept ==
  [](part = "quarantine" => Quarantine!NoRoleForgotten) /\ Quarantine!GainedIsNotRestored
\* ObservedDetection: the claim of an alert stands for what was done, or is under way.
ClaimIsTrue == Detection!ClaimIsTrue
\* ReportIntake: reports are filed about the confirmed target, submitted ones are filed,
\* and a rejected member does not become the target.
ReportIsOfTarget ==
  [](part = "intake" => Intake!OneReport) /\ Intake!RejectedStaysRejected
\* ReviewReminder: batches and reminders keep their distances and limits, and a silent
\* member is reminded before the case is very stale.
RemindersInTime ==
  Reminder!RemindersInTime /\ [](part = "reminder" => Reminder!SilentIsReminded)
\* MessageFrequency: dropping timestamps changes no verdict.
FrequencyIsExact == Frequency!FrequencyIsExact
\* DetectionPipeline: the row of an alert's detection names the alert.
AlertIsTracked == Pipeline!AlertIsTracked
\* RoleLockdown: an application closes what is not allowed, and nothing else.
LockdownIsExact == Lockdown!LockdownIsExact
\* ModeratorActions: who is not let does not act, an offer is not withdrawn, and a recorded
\* confirmation is acted on once, in time, if at all.
ActsWithLeave ==
  Actions!LeaveDecides /\ [](part = "actions" => Actions!ConfirmedOnce)
=============================================================================
