------------------------------- MODULE MCGuild -------------------------------
(***************************************************************************)
(* Small instances of what is kept for a guild rather than for one case:     *)
(* its live queue, its configuration and the commands that change it, its     *)
(* setup, its trigger and gate roles, the intake of a role, and what its      *)
(* dashboard may ask for.  As in MCServices, every behaviour is one of one of *)
(* them.                                                                      *)
(***************************************************************************)
EXTENDS Integers, FiniteSets

CONSTANTS
  Part,  \* the modules of a run
  MaxFaults, Nobody,  \* of all of them
  \* the live queue
  Task, Timer, MaxRows, MaxMessages, LiveChanges,
  \* the configuration, and its commands
  Name, Id, NoConfig, ConfigHandler, Ttl, MaxUpdates, MaxCommands,
  \* the setup
  SetupHandler, MaxRoles, MaxChannels, MaxSetups, MaxOutside,
  \* the roles
  Holder, TriggerHandler, TriggerMoves, MaxSwitches,
  Crowd, Limit, CrowdMoves, MaxIntakes,
  GateHandler, MaxPresses, GateMoves,
  \* the dashboard
  Person, Session, MaxKeys, MaxSubmits, WebChanges

VARIABLES
  part, faults,
  pending, item, messages, task, lost, changes,
  server, cache, age, caller, web, updates,
  stored, shown, command, want, owned, astray, commands,
  row, roles, channels, newest, admits, handler, created, saved, told, dropped, deleted,
  loose, doubt, starts, outside,
  inside, holds, on, timer, runner, excused, triggerMoves, switches,
  active, batch, op, taken, crowdMoves, intakes,
  has, seen, gate, exists, mighty, open, snapshot, update, resolver, disturbed, presses,
  gateMoves,
  kind, leave, setting, known, recent, able, session, request, newestKey, asked, worker,
  submits, turns

Live == INSTANCE LiveQueue WITH MaxChanges <- LiveChanges, handler <- task
Config == INSTANCE ConfigStore WITH
  Setting <- Name, NoRow <- NoConfig, Handler <- ConfigHandler, row <- server, handler <- caller
Settings == INSTANCE ConfigCommands WITH
  Handler <- ConfigHandler, row <- stored, cache <- shown, handler <- command
Setup == INSTANCE GuildSetup WITH Handler <- SetupHandler, MaxStarts <- MaxSetups
Trigger == INSTANCE RoleTrigger WITH
  Member <- Holder, Handler <- TriggerHandler, MaxMoves <- TriggerMoves,
  handler <- runner, moves <- triggerMoves
Intake == INSTANCE RoleIntake WITH Member <- Crowd, MaxMoves <- CrowdMoves, moves <- crowdMoves
Gate == INSTANCE RoleGate WITH
  Handler <- GateHandler, MaxMoves <- GateMoves, able <- mighty, handler <- resolver,
  moves <- gateMoves
Actions == INSTANCE WebActions WITH
  MaxChanges <- WebChanges, newest <- newestKey, changes <- turns

ASSUME GuildAssumption ==
  /\ Live!LiveQueueAssumption /\ Config!ConfigStoreAssumption
  /\ Settings!ConfigCommandsAssumption /\ Setup!GuildSetupAssumption
  /\ Trigger!RoleTriggerAssumption /\ Intake!RoleIntakeAssumption /\ Gate!RoleGateAssumption
  /\ Actions!WebActionsAssumption

liveVars == <<pending, item, messages, task, lost, changes>>
configVars == <<server, cache, age, caller, web, updates>>
commandVars == <<stored, shown, command, want, owned, astray, commands>>
setupVars ==
  <<row, roles, channels, newest, admits, handler, created, saved, told, dropped, deleted,
    loose, doubt, starts, outside>>
triggerVars == <<inside, holds, on, timer, runner, excused, triggerMoves, switches>>
intakeVars == <<active, batch, op, taken, crowdMoves, intakes>>
gateVars ==
  <<has, seen, gate, exists, mighty, open, snapshot, update, resolver, disturbed, presses,
    gateMoves>>
webVars ==
  <<kind, leave, setting, known, recent, able, session, request, newestKey, asked, worker,
    submits, turns>>
\* the frames of the steps
mirrors == <<liveVars, configVars>>
admin == <<commandVars, setupVars, webVars>>
byRole == <<triggerVars, intakeVars, gateVars>>
vars == <<part, faults, mirrors, admin, byRole>>

Init ==
  /\ part \in Part
  \* the initial states of the modules at rest
  /\ part # "live" => pending = FALSE
  /\ part # "config" => server = NoConfig
  /\ part # "commands" => stored = [f \in Settings!Field |-> {}]
  /\ part # "trigger" => on = FALSE
  /\ part # "intake" => active = {}
  /\ part # "gate" =>
       /\ has = {} /\ gate = {} /\ exists = Gate!Role /\ mighty = TRUE
       /\ open = FALSE /\ snapshot = {}
  /\ part # "web" =>
       /\ kind = CHOOSE x \in Actions!Kinds : TRUE
       /\ leave = {} /\ setting = [on |-> TRUE, strict |-> FALSE] /\ able = TRUE
  /\ Live!Init /\ Config!Init /\ Settings!Init /\ Setup!Init
  /\ Trigger!Init /\ Intake!Init /\ Gate!Init /\ Actions!Init
  \* persons are alike
  /\ leave # {} => (CHOOSE x \in Person : TRUE) \in leave

InLive(A) == part = "live" /\ A /\ UNCHANGED <<part, configVars, admin, byRole>>
InConfig(A) == part = "config" /\ A /\ UNCHANGED <<part, liveVars, admin, byRole>>
CommandNext ==
  part = "commands" /\ Settings!Next /\ UNCHANGED <<part, mirrors, setupVars, webVars, byRole>>
SetupNext ==
  part = "setup" /\ Setup!Next /\ UNCHANGED <<part, mirrors, commandVars, webVars, byRole>>
WebNext ==
  part = "web" /\ Actions!Next /\ UNCHANGED <<part, mirrors, commandVars, setupVars, byRole>>
TriggerNext ==
  part = "trigger" /\ Trigger!Next /\ UNCHANGED <<part, mirrors, admin, intakeVars, gateVars>>
IntakeNext ==
  part = "intake" /\ Intake!Next /\ UNCHANGED <<part, mirrors, admin, triggerVars, gateVars>>
GateNext ==
  part = "gate" /\ Gate!Next /\ UNCHANGED <<part, mirrors, admin, triggerVars, intakeVars>>

Next ==
  \/ InLive(Live!Next) \/ InConfig(Config!Next) \/ CommandNext \/ SetupNext \/ WebNext
  \/ TriggerNext \/ IntakeNext \/ GateNext

\* the fairness of LiveQueue and of ConfigStore, in their behaviours
Fairness ==
  /\ WF_vars(InLive(Live!Tick))
  /\ \A h \in Task \cup {Timer} : WF_vars(InLive(Live!Work(h)))
  /\ WF_vars(InConfig(Config!Tick)) /\ WF_vars(InConfig(Config!WebWrite))
  /\ \A h \in ConfigHandler :
       WF_vars(InConfig(Config!Work(h))) /\ WF_vars(InConfig(Config!Use(h)))

FairSpec == Init /\ [][Next]_vars /\ Fairness

---------------------------------------------------------------------------
(* The properties of the modules, by their names there *)

\* Types of the variables of the module at work.
TypeOK ==
  /\ part \in Part
  /\ part = "live" => Live!TypeOK
  /\ part = "config" => Config!TypeOK
  /\ part = "commands" => Settings!TypeOK
  /\ part = "setup" => Setup!TypeOK
  /\ part = "trigger" => Trigger!TypeOK
  /\ part = "intake" => Intake!TypeOK
  /\ part = "gate" => Gate!TypeOK
  /\ part = "web" => Actions!TypeOK

\* LiveQueue: every message of the queue has its row, or a handler at work; a case that
\* stays as it is, is mirrored or cleared in the end.
QueueFollowsCase ==
  /\ []Live!MessageIsKnown
  /\ <>[](part = "live" /\ pending) => <>[](item.message \in messages)
  /\ <>[](part = "live" /\ ~pending) => <>[](item = Live!NoItem)
\* ConfigStore: when nobody updates any more, the bot uses what the row says.
SettingsSettle == <>[](part = "config" => cache = server)
\* ConfigCommands: the settings are what the commands asked for.
CommandsAreKept == Settings!CommandsAreKept
\* GuildSetup: a setup leaves nothing behind, and breaks nothing that is configured.
SetupIsSettled == Setup!SetupIsSettled
\* RoleTrigger: who has the trigger role has a timer, and nobody else.  RoleIntake: whoever
\* got a case is in the result.
RoleIsTakenIn == Trigger!TimerFollowsRole /\ Intake!IntakeIsCounted
\* RoleGate: what the moderator is told of the roles is so.
GateIsAsTold == Gate!GateIsAsTold
\* WebActions: who asks, and the bot that acts, are let, with the reason that is needed.
GatesHold == Actions!GatesHold
=============================================================================
