----------------------------- MODULE GuildSetup -----------------------------
(***************************************************************************)
(* Setting up a guild: the case role and the verification channel are        *)
(* chosen, found or created in Discord, checked, and written to the row of   *)
(* the guild; what a setup created and cannot use it takes back, or it tells *)
(* the administrator what it leaves behind.  Setups are started by two       *)
(* commands, a form, the web's request and the bot's joining, and            *)
(* administrators go on creating and deleting roles and channels.            *)
(*                                                                          *)
(* Roles and channels are numbered in the order of their creation; they      *)
(* have the names the setup looks for.  The admin channel is not told apart  *)
(* from the other things a validation may find wrong.                        *)
(***************************************************************************)
EXTENDS Integers, FiniteSets

CONSTANTS
  Handler,      \* setups that can be in flight at one time
  MaxRoles, MaxChannels,  \* bounds: roles and channels ever created
  MaxStarts,    \* bound: setups
  MaxOutside,   \* bound: acts of administrators
  MaxFaults     \* bound: failed calls, lost answers and crashes

\* what the constants are assumed to be
GuildSetupAssumption ==
  /\ MaxRoles \in Nat /\ MaxChannels \in Nat
  /\ MaxStarts \in Nat /\ MaxOutside \in Nat /\ MaxFaults \in Nat

Role == 1..MaxRoles
Channel == 1..MaxChannels
Thing == {"role"} \X Role \cup {"channel"} \X Channel
Surface == {"config", "command", "form", "web", "join"}

VARIABLES
  row,      \* servers: case_role_id and verification_channel_id, 0 for none
  roles, channels,  \* what exists in the guild
  newest,   \* the last role and the last channel created
  admits,   \* the role that the overwrites of a channel let in
  handler,  \* the setups: surface, next step and local variables
  created,  \* what setups created (history)
  saved,    \* what the row has named (history)
  told,     \* leftovers an administrator was told of (history)
  dropped,  \* left by a crash, by a lost answer or by the bot's joining (history)
  deleted,  \* deleted by administrators (history)
  loose,    \* channels whose overwrites were not set for the row's role (history)
  doubt,    \* two setups overlapped, or the answer of a save was lost (history)
  starts, outside, faults

world == <<roles, channels, newest, admits>>
history == <<created, saved, told, dropped, deleted, loose, doubt>>
counters == <<starts, outside, faults>>
vars == <<row, roles, channels, newest, admits, handler, created, saved, told, dropped, deleted,
          loose, doubt, starts, outside, faults>>

\* chosen: the verification channel the administrator named; candidate: the one
\* found; made: what this setup created
Local == [surface : Surface, role : Role \cup {0}, chosen : Channel \cup {0},
          candidate : Channel \cup {0}, channel : Channel \cup {0}, made : SUBSET Thing,
          at : {"idle", "find", "role", "validate", "channel", "final", "save", "undo"}]
Idle == [surface |-> "join", role |-> 0, chosen |-> 0, candidate |-> 0, channel |-> 0,
         made |-> {}, at |-> "idle"]

Init ==
  /\ row = [role |-> 0, channel |-> 0]
  /\ roles = {} /\ channels = {} /\ newest = [role |-> 0, channel |-> 0]
  /\ admits = [c \in Channel |-> 0]
  /\ handler = [h \in Handler |-> Idle]
  /\ created = {} /\ saved = {} /\ told = {} /\ dropped = {} /\ deleted = {}
  /\ loose = {} /\ doubt = FALSE
  /\ starts = 0 /\ outside = 0 /\ faults = 0

At(h, step) == handler[h].at = step
Is(h, surfaces) == handler[h].surface \in surfaces
On(h, local) == handler' = [handler EXCEPT ![h] = local]
Goto(h, step) == handler' = [handler EXCEPT ![h].at = step]
Return(h) == On(h, Idle)
Fault == faults < MaxFaults /\ faults' = faults + 1
Busy == {h \in Handler : ~At(h, "idle")}

---------------------------------------------------------------------------
(* The surfaces *)

Begin(h, local) ==
  /\ At(h, "idle") /\ starts < MaxStarts /\ starts' = starts + 1
  /\ On(h, local)
  /\ doubt' = (doubt \/ Busy # {})
  /\ UNCHANGED <<row, world, created, saved, told, dropped, deleted, loose, outside, faults>>

\* /config setup: role and channel may both be left open
ConfigSetup(h) ==
  \E role \in roles \cup {0}, channel \in channels \cup {0} :
    Begin(h, [Idle EXCEPT !.surface = "config", !.role = role, !.chosen = channel, !.at = "find"])

\* /setupverification: the role is an option that must be given
VerificationCommand(h) ==
  \E role \in roles, channel \in channels \cup {0} :
    Begin(h, [Idle EXCEPT !.surface = "command", !.role = role, !.chosen = channel, !.at = "find"])

\* the form: ids, typed in, that are fetched; no channel is looked for
SetupForm(h) ==
  \E role \in roles, channel \in channels \cup {0} :
    Begin(h, [Idle EXCEPT !.surface = "form", !.role = role, !.chosen = channel,
                !.candidate = channel, !.at = "validate"])

\* the web's request, some time after it was queued
WebRequest(h) ==
  \E role \in roles, channel \in channels \cup {0} :
    Begin(h, [Idle EXCEPT !.surface = "web", !.role = role, !.chosen = channel,
                !.candidate = channel, !.at = "validate"])

\* the bot joins, or joins again, a guild whose case role is known
GuildCreate(h) ==
  /\ row.role # 0
  /\ Begin(h, [Idle EXCEPT !.surface = "join", !.role = row.role, !.at = "channel"])

---------------------------------------------------------------------------
(* Finding and creating *)

Exists(thing) ==
  IF thing[1] = "role" THEN thing[2] \in roles ELSE thing[2] \in channels
\* the configured one if it is there, or else the only one of the name
Candidate(configured, existing) ==
  IF configured \in existing THEN {configured}
  ELSE IF Cardinality(existing) = 1 THEN existing ELSE {0}
Ambiguous(configured, existing) ==
  configured \notin existing /\ Cardinality(existing) > 1

\* resolveVerificationChannelCandidate
FindChannel(h) ==
  /\ At(h, "find")
  /\ IF handler[h].chosen = 0 /\ Ambiguous(row.channel, channels) THEN Return(h)
     ELSE \E c \in IF handler[h].chosen # 0 THEN {handler[h].chosen}
                   ELSE Candidate(row.channel, channels) :
            On(h, [handler[h] EXCEPT !.candidate = c,
                     !.at = IF Is(h, {"config"}) THEN "role" ELSE "validate"])
  /\ UNCHANGED <<row, world, history, counters>>

\* checkCaseRoleId, checkConfiguredTextChannel: nothing is said of 0, which is
\* still to be created
RoleMissing(role) == role # 0 /\ role \notin roles
ChannelMissing(channel) == channel # 0 /\ channel \notin channels

\* resolveCaseRoleCandidate and validateSetupCandidate; anything else may be wrong too.
\* Of several roles of the name none is taken.
FindRole(h) ==
  /\ At(h, "role")
  /\ \E role \in IF handler[h].role # 0 THEN {handler[h].role} ELSE Candidate(row.role, roles) :
       \/ Return(h)
       \/ /\ ~RoleMissing(role) /\ ~ChannelMissing(handler[h].candidate)
          /\ handler[h].role = 0 => ~Ambiguous(row.role, roles)
          /\ role # 0
          /\ On(h, [handler[h] EXCEPT !.role = role, !.at = "channel"])
  /\ UNCHANGED <<row, world, history, counters>>

\* The role is created only after everything else was found in order.
CreateRole(h) ==
  /\ At(h, "role") /\ handler[h].role = 0 /\ newest.role < MaxRoles
  /\ Candidate(row.role, roles) = {0} /\ ~Ambiguous(row.role, roles)
  /\ ~ChannelMissing(handler[h].candidate)
  /\ LET role == newest.role + 1 IN
     /\ newest' = [newest EXCEPT !.role = role] /\ roles' = roles \cup {role}
     /\ created' = created \cup {<<"role", role>>}
     /\ \/ /\ On(h, [handler[h] EXCEPT !.role = role, !.made = {<<"role", role>>},
                       !.at = "channel"])
           /\ UNCHANGED <<dropped, faults>>
        \/ Fault /\ Return(h) /\ dropped' = dropped \cup {<<"role", role>>}
  /\ UNCHANGED <<row, channels, admits, saved, told, deleted, loose, doubt, starts, outside>>

\* completeSetup's own first validation, when it is not handed a report
Validate(h) ==
  /\ At(h, "validate")
  /\ \/ Return(h)
     \/ /\ ~RoleMissing(handler[h].role) /\ ~ChannelMissing(handler[h].candidate)
        /\ Goto(h, "channel")
  /\ UNCHANGED <<row, world, history, counters>>

\* findConfiguredVerificationChannel
Configured(h) ==
  LET known == IF handler[h].candidate # 0 THEN handler[h].candidate ELSE row.channel IN
  IF known # 0 THEN {known} \cap channels
  ELSE IF Cardinality(channels) = 1 THEN channels ELSE {}

\* A chosen channel is taken as it is.
UseChosen(h) ==
  /\ At(h, "channel") /\ handler[h].chosen # 0
  /\ On(h, [handler[h] EXCEPT !.channel = handler[h].chosen, !.at = "final"])
  /\ UNCHANGED <<row, world, history, counters>>

AfterChannel(h) == IF Is(h, {"join"}) THEN "save" ELSE "final"

\* setupVerificationChannel with a channel it found
SyncChannel(h) ==
  /\ At(h, "channel") /\ handler[h].chosen = 0
  /\ \E c \in Configured(h) :
       /\ admits' = [admits EXCEPT ![c] = handler[h].role] /\ loose' = loose \cup {c}
       /\ \/ On(h, [handler[h] EXCEPT !.channel = c, !.at = AfterChannel(h)]) /\ faults' = faults
          \/ Goto(h, "undo") /\ Fault
  /\ UNCHANGED <<row, roles, channels, newest, created, saved, told, dropped, deleted, doubt,
                 starts, outside>>

\* setupVerificationChannel without one
CreateChannel(h) ==
  /\ At(h, "channel") /\ handler[h].chosen = 0 /\ Configured(h) = {}
  /\ newest.channel < MaxChannels
  /\ LET c == newest.channel + 1 IN
     /\ newest' = [newest EXCEPT !.channel = c] /\ channels' = channels \cup {c}
     /\ admits' = [admits EXCEPT ![c] = handler[h].role]
     /\ created' = created \cup {<<"channel", c>>}
     /\ \/ /\ On(h, [handler[h] EXCEPT !.channel = c, !.made = @ \cup {<<"channel", c>>},
                       !.at = AfterChannel(h)])
           /\ UNCHANGED <<dropped, faults>>
        \/ Fault /\ Goto(h, "undo") /\ dropped' = dropped \cup {<<"channel", c>>}
  /\ UNCHANGED <<row, roles, saved, told, deleted, loose, doubt, starts, outside>>

\* The overwrites are not set, or no channel is created.
ChannelFails(h) ==
  /\ At(h, "channel") /\ handler[h].chosen = 0
  /\ Fault /\ Goto(h, "undo")
  /\ UNCHANGED <<row, world, history, starts, outside>>

---------------------------------------------------------------------------
(* Saving and taking back *)

\* the last validation, of what is now to be saved
Ready(h) == ~RoleMissing(handler[h].role) /\ ~ChannelMissing(handler[h].channel)

FinalValidation(h) ==
  /\ At(h, "final")
  /\ \/ Goto(h, "undo")
     \/ Ready(h) /\ Goto(h, "save")
  /\ UNCHANGED <<row, world, history, counters>>

Config(h) ==
  [role |-> IF Is(h, {"join"}) THEN row.role ELSE handler[h].role, channel |-> handler[h].channel]
Things(config) == {<<"role", config.role>>, <<"channel", config.channel>>} \cap Thing

\* the row is written
Write(h) ==
  /\ row' = Config(h) /\ saved' = saved \cup Things(row')
  /\ loose' = IF handler[h].chosen = 0 THEN loose \ {handler[h].channel}
              ELSE loose \cup {handler[h].channel}

\* updateServerConfig
Save(h) ==
  /\ At(h, "save") /\ Return(h) /\ Write(h)
  /\ UNCHANGED <<world, created, told, dropped, deleted, doubt, counters>>

\* The update is rejected, or its answer lost.  After joining nothing is taken back.
SaveFails(h) ==
  /\ At(h, "save") /\ Fault
  /\ \/ UNCHANGED <<row, saved, loose, doubt>>
     \/ Write(h) /\ doubt' = TRUE
  /\ IF Is(h, {"join"}) THEN Return(h) /\ dropped' = dropped \cup handler[h].made
     ELSE Goto(h, "undo") /\ dropped' = dropped
  /\ UNCHANGED <<world, created, told, deleted, starts, outside>>

Without(thing) ==
  /\ roles' = IF thing[1] = "role" THEN roles \ {thing[2]} ELSE roles
  /\ channels' = IF thing[1] = "channel" THEN channels \ {thing[2]} ELSE channels

\* the channel first, then the role
FirstOf(made) ==
  CHOOSE thing \in made : thing[1] = "channel" \/ \A other \in made : other[1] = "role"

\* Mutant: the rollback stops at the first artifact.
AfterUndoFirst(h) == Idle
AfterUndo(h) == [handler[h] EXCEPT !.made = @ \ {FirstOf(@)}]

\* rollbackCreatedArtifacts: whatever could not be deleted is told
Undo(h) ==
  /\ At(h, "undo") /\ handler[h].made # {}
  /\ LET thing == FirstOf(handler[h].made) IN
     \/ Exists(thing) /\ Without(thing) /\ UNCHANGED <<told, faults>>
     \/ /\ Fault \/ (~Exists(thing) /\ faults' = faults)
        /\ told' = told \cup {thing}
        /\ Without(thing) \/ UNCHANGED <<roles, channels>>
  /\ On(h, AfterUndo(h))
  /\ UNCHANGED <<row, newest, admits, created, saved, dropped, deleted, loose, doubt, starts,
                 outside>>

Undone(h) ==
  /\ At(h, "undo") /\ handler[h].made = {} /\ Return(h)
  /\ UNCHANGED <<row, world, history, counters>>

---------------------------------------------------------------------------
Crash ==
  /\ Busy # {} /\ Fault
  /\ handler' = [h \in Handler |-> Idle]
  /\ dropped' = dropped \cup UNION {handler[h].made : h \in Handler}
  /\ UNCHANGED <<row, world, created, saved, told, deleted, loose, doubt, starts, outside>>

Outside == outside < MaxOutside /\ outside' = outside + 1
DeleteThing ==
  \E thing \in Thing :
    /\ Exists(thing) /\ Outside /\ Without(thing)
    /\ deleted' = deleted \cup {thing}
    /\ UNCHANGED <<row, newest, admits, handler, created, saved, told, dropped, loose, doubt,
                   starts, faults>>

\* An administrator creates a role or a channel of the name; its overwrites let nobody in.
CreateThing ==
  /\ Outside
  /\ \/ /\ newest.role < MaxRoles /\ newest' = [newest EXCEPT !.role = @ + 1]
        /\ roles' = roles \cup {newest'.role} /\ channels' = channels
     \/ /\ newest.channel < MaxChannels /\ newest' = [newest EXCEPT !.channel = @ + 1]
        /\ channels' = channels \cup {newest'.channel} /\ roles' = roles
  /\ UNCHANGED <<row, admits, handler, history, starts, faults>>

Next ==
  \/ Crash \/ DeleteThing \/ CreateThing
  \/ \E h \in Handler :
       \/ ConfigSetup(h) \/ VerificationCommand(h) \/ SetupForm(h) \/ WebRequest(h)
       \/ GuildCreate(h)
       \/ FindChannel(h) \/ FindRole(h) \/ CreateRole(h) \/ Validate(h)
       \/ UseChosen(h) \/ SyncChannel(h) \/ CreateChannel(h) \/ ChannelFails(h)
       \/ FinalValidation(h) \/ Save(h) \/ SaveFails(h) \/ Undo(h) \/ Undone(h)

Spec == Init /\ [][Next]_vars

---------------------------------------------------------------------------
(* Properties *)

\* Types of the variables.
TypeOK ==
  /\ row \in [role : Role \cup {0}, channel : Channel \cup {0}]
  /\ roles \subseteq Role /\ channels \subseteq Channel
  /\ newest \in [role : Role \cup {0}, channel : Channel \cup {0}]
  /\ admits \in [Channel -> Role \cup {0}]
  /\ handler \in [Handler -> Local]
  /\ UNION {created, saved, told, dropped, deleted} \subseteq Thing
  /\ loose \subseteq Channel /\ doubt \in BOOLEAN
  /\ starts \in 0..MaxStarts /\ outside \in 0..MaxOutside /\ faults \in 0..MaxFaults

\* A role or channel that a setup created and that is still there is configured, is
\* still in the hands of the setup, or was named to the administrator, unless a crash
\* or a lost answer, or the end of the bot's joining, came between.
NothingIsLeft ==
  \A thing \in created :
    Exists(thing) =>
      thing \in saved \cup told \cup dropped \cup UNION {handler[h].made : h \in Handler}

\* What the row names is there, and its channel lets its role in, as long as setups do
\* not overlap: only administrators delete it, or leave a channel without the role.
RowIsUsable ==
  ~doubt =>
    /\ \A thing \in Things(row) : Exists(thing) \/ thing \in deleted
    /\ row.channel \in channels \ loose => admits[row.channel] = row.role

\* No setup leaves behind what it created, and none breaks what is configured.
SetupIsSettled == NothingIsLeft /\ RowIsUsable
============================================================================
