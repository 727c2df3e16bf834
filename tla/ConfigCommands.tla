---------------------------- MODULE ConfigCommands ----------------------------
(***************************************************************************)
(* What the subcommands of /config do to the settings of a guild.  A command *)
(* looks at the configuration that the bot has cached, may refuse, and has   *)
(* the settings written back as a whole: as patched, with a key left out, or  *)
(* with a list that was edited.  How the cache comes to be, and what the web *)
(* writes, is in ConfigStore.                                                 *)
(*                                                                          *)
(* A setting is a set: {} is the default, {v} a value, more is a list.       *)
(* Settings that are alike are one here.                                     *)
(***************************************************************************)
EXTENDS Integers, FiniteSets

CONSTANTS
  Handler,      \* commands in flight at one time
  MaxCommands, MaxFaults  \* bounds: commands; failed writes and lost answers

\* what the constants are assumed to be
ConfigCommandsAssumption == MaxCommands \in Nat /\ MaxFaults \in Nat

On == {1}
Off == {2}
Value == {On, Off}
Cleared == {{}}

\* columns of servers; everything else is in the JSON of the settings
Column == {"caseRole", "threshold", "keywords"}
Settings ==
  {"gate", "honeypot", "quarantine", "exempt", "queue", "manual", "manualRole", "grace",
   "mode", "policy", "autoKick", "responders", "staff", "review", "report", "ai", "consent",
   "prompt", "context", "topics", "analysis"}
Field == Column \cup Settings
Full == Off  \* the highest level of consent

VARIABLES
  row,      \* servers
  cache,    \* what the bot knows of it
  handler,
  want,     \* what the commands that were carried out asked for (history)
  owned,    \* the full consent was given by the owner (history)
  astray,   \* commands overlapped, or the answer of a write was lost (history)
  commands, faults

vars == <<row, cache, handler, want, owned, astray, commands, faults>>

---------------------------------------------------------------------------
(* The commands *)

Command(how, set) ==
  [how |-> how, set |-> set, needs |-> {}, apart |-> {}, owner |-> FALSE]
Put(field, values) == {Command("patch", [f \in {field} |-> v]) : v \in values}
Puts(fields, values) == UNION {Put(f, values) : f \in fields}
Edit(field) ==
  {Command(how, [f \in {field} |-> v]) : how \in {"add", "remove"}, v \in Value}
\* the keys are deleted
Reset(fields) == {Command("reset", [f \in fields |-> {}])}

RoleGateCommand == Put("gate", Value) \cup Put("honeypot", Value \cup Cleared)
RoleQuarantineCommand == Put("quarantine", Value) \cup Edit("exempt")
CaseQueueCommand == Put("queue", {On} \cup Cleared)
ManualIntakeCommand ==
  {[Command("patch", [manualRole |-> v, manual |-> On]) EXCEPT !.apart = {"caseRole"}] : v \in Value}
    \cup {Command("patch", [manualRole |-> {}, manual |-> Off])}
    \cup {[Command("patch", [manual |-> On]) EXCEPT !.needs = {"manualRole"}]}
    \cup Put("manual", {Off}) \cup Put("grace", {On})
DetectionModeCommand == Put("mode", Value \cup Cleared)
DetectionPolicyCommand == Put("policy", Value)
AutoKickCommand == Put("autoKick", Value)
CaseStaffCommand == Edit("responders") \cup Put("staff", {On})
CaseReviewCommand == Put("review", Value)
ReportCommand == Put("report", Value)
ReportAiCommand == Put("ai", Value)
AnalyticsCommand ==
  Put("consent", {On}) \cup {[Command("patch", [consent |-> Full]) EXCEPT !.owner = TRUE]}
PromptCommand == Put("prompt", {On}) \cup Reset({"prompt"})
ContextCommand ==
  Puts({"context", "topics"}, {On}) \cup Reset({"context", "topics"})
    \cup {Command("patch", [context |-> On, topics |-> Off])}
AnalysisCommand == Put("analysis", Value)
\* the keywords that are there, are written with the threshold
HeuristicCommand == Put("threshold", Value) \cup Edit("keywords") \cup Reset({"threshold", "keywords"})
\* /config setup, as far as it matters here
SetupCommand == Put("caseRole", {On})

Commands ==
  RoleGateCommand \cup RoleQuarantineCommand \cup CaseQueueCommand \cup ManualIntakeCommand
    \cup DetectionModeCommand \cup DetectionPolicyCommand \cup AutoKickCommand
    \cup CaseStaffCommand \cup CaseReviewCommand \cup ReportCommand \cup ReportAiCommand
    \cup AnalyticsCommand \cup PromptCommand \cup ContextCommand \cup AnalysisCommand
    \cup HeuristicCommand \cup SetupCommand

\* what a command makes of a configuration
Applied(command, config) ==
  [f \in Field |->
     IF f \notin DOMAIN command.set THEN config[f]
     ELSE CASE command.how = "add" -> config[f] \cup command.set[f]
            [] command.how = "remove" -> config[f] \ command.set[f]
            [] OTHER -> command.set[f]]

---------------------------------------------------------------------------
Idle == [at |-> "idle", command |-> Command("none", <<>>), config |-> <<>>, by |-> "none"]

Init ==
  /\ row \in {[f \in Field |-> {}], [f \in Field |-> IF f = "caseRole" THEN {} ELSE On]}
  /\ cache = row /\ want = row /\ owned = FALSE
  /\ handler = [h \in Handler |-> Idle]
  /\ astray = FALSE
  /\ commands = 0 /\ faults = 0

At(h, step) == handler[h].at = step
Fault == faults < MaxFaults /\ faults' = faults + 1
Busy == {h \in Handler : ~At(h, "idle")}

\* The command arrives.  Others than administrators are refused at once.
Start(h) ==
  /\ At(h, "idle") /\ commands < MaxCommands /\ commands' = commands + 1
  /\ \E command \in Commands, by \in {"owner", "administrator"} :
       /\ command.owner \/ by = "administrator"
       /\ handler' = [handler EXCEPT ![h] =
            [at |-> "look", command |-> command, config |-> <<>>, by |-> by]]
  /\ astray' = (astray \/ Busy # {})
  /\ UNCHANGED <<row, cache, want, owned, faults>>

Admitted(h) ==
  LET command == handler[h].command IN
  /\ command.owner => handler[h].by = "owner"
  /\ \A f \in command.needs : cache[f] # {}
  /\ \A f \in command.apart : cache[f] # command.set["manualRole"]

\* Refusal is answered; so is the removal of a keyword that is not there.
Refuse(h) ==
  /\ At(h, "look")
  /\ ~Admitted(h) \/ (handler[h].command.how = "remove" /\ Applied(handler[h].command, cache) = cache)
  /\ handler' = [handler EXCEPT ![h] = Idle]
  /\ UNCHANGED <<row, cache, want, owned, astray, commands, faults>>

\* Mutant: a reset is merged into the settings as they are, like a patch.
MergedReset(h) ==
  IF handler[h].command.how = "reset" THEN cache ELSE Applied(handler[h].command, cache)
\* updateServerSettings merges its patch into what is cached; a reset passes the whole on
Merged(h) == Applied(handler[h].command, cache)

Look(h) ==
  /\ At(h, "look") /\ Admitted(h)
  /\ handler' = [handler EXCEPT ![h].at = "write", ![h].config = Merged(h)]
  /\ UNCHANGED <<row, cache, want, owned, astray, commands, faults>>

\* the settings as a whole, or the columns of the heuristics, or one column
Written(h) ==
  LET about == DOMAIN handler[h].command.set
      group == IF about \subseteq Settings THEN Settings
               ELSE IF "caseRole" \in about THEN {"caseRole"} ELSE {"threshold", "keywords"}
  IN [f \in Field |-> IF f \in group THEN handler[h].config[f] ELSE row[f]]

Carried(h) ==
  /\ row' = Written(h) /\ want' = Applied(handler[h].command, want)
  /\ owned' = IF "consent" \in DOMAIN handler[h].command.set THEN handler[h].by = "owner" ELSE owned
  /\ handler' = [handler EXCEPT ![h] = Idle]

\* updateServerConfig: the row that is returned is cached
Write(h) ==
  /\ At(h, "write") /\ Carried(h) /\ cache' = row'
  /\ UNCHANGED <<astray, commands, faults>>

\* The write fails, or its answer is lost.
WriteFails(h) ==
  /\ At(h, "write") /\ Fault
  /\ \/ /\ handler' = [handler EXCEPT ![h] = Idle]
        /\ UNCHANGED <<row, want, owned, astray>>
     \/ Carried(h) /\ astray' = TRUE
  /\ UNCHANGED <<cache, commands>>

\* the cache is too old, or the process is restarted
Reload ==
  /\ cache # row /\ cache' = row
  /\ UNCHANGED <<row, handler, want, owned, astray, commands, faults>>

Next ==
  \/ \E h \in Handler : Start(h) \/ Refuse(h) \/ Look(h) \/ Write(h) \/ WriteFails(h)
  \/ Reload

Spec == Init /\ [][Next]_vars

---------------------------------------------------------------------------
(* Properties *)

Configs == [Field -> SUBSET {1, 2}]

\* Types of the variables.
TypeOK ==
  /\ row \in Configs /\ cache \in Configs /\ want \in Configs
  /\ \A h \in Handler : handler[h].at \in {"idle", "look", "write"}
  /\ owned \in BOOLEAN /\ astray \in BOOLEAN
  /\ commands \in 0..MaxCommands /\ faults \in 0..MaxFaults

\* As long as commands do not overlap and answers are not lost, the settings are what the
\* commands asked for, one after the other; the manual intake is enabled with a role only;
\* and the full consent is the owner's.
CommandsAreKept ==
  ~astray =>
    /\ row = want
    /\ row["manual"] = On => row["manualRole"] # {}
    /\ row["consent"] = Full => owned
=============================================================================
