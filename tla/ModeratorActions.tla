--------------------------- MODULE ModeratorActions ---------------------------
(***************************************************************************)
(* The ways a moderator comes to an action: the menu of a card or of an     *)
(* alert, its old buttons, context menus, slash commands.  Each is a chain  *)
(* of prompts; every press is handled by checks that await answers, while   *)
(* the moderator's permissions and the settings change and other presses    *)
(* are handled.  What the called services do is modelled elsewhere.         *)
(*                                                                          *)
(* A behaviour is about one kind of action and one moderator; prompts are   *)
(* ephemeral, so that nobody else can press them.  An interaction must be   *)
(* answered within seconds: no tick (of ten minutes' parts) falls into one. *)
(***************************************************************************)
EXTENDS Integers, Sequences, FiniteSets

CONSTANTS
  Handler,    \* presses handled at the same time
  Grants,     \* sets of permissions a moderator may have
  Ttl,        \* ticks a recorded confirmation lasts
  MaxRecords, \* bound: recorded confirmations
  MorePresses,\* bound: presses beyond the number a chain takes
  MaxChanges, \* bound: changes of permissions and settings
  MaxFaults   \* bound: failed replies and restarts

Moderation == {"manage", "moderate"}
Permission == Moderation \cup {"kick", "ban", "admin"}

\* what the constants are assumed to be
ModeratorActionsAssumption ==
  /\ Grants \subseteq SUBSET Permission
  /\ Ttl \in Nat /\ MaxRecords \in Nat /\ MorePresses \in Nat
  /\ MaxChanges \in Nat /\ MaxFaults \in Nat

VARIABLES
  kind,       \* the kind of action of this behaviour
  granted,    \* the moderator's permissions
  on,         \* actions the settings enable, where the bot may carry them out
  strict,     \* the settings require a reason
  screen,     \* prompts the moderator can press
  live,       \* recorded confirmations in the memory of the process
  age,        \* ticks since a confirmation was recorded (0 before)
  press,      \* by handler: its place in the chain and local variables
  kept,       \* what had been seen when a confirmation was recorded (history)
  closed,     \* confirmations cancelled or acted on (history)
  overlapped, \* confirmations submitted, or cancelled, during a submission (history)
  presses, records, turns, upsets

vars == <<kind, granted, on, strict, screen, live, age, press, kept, closed, overlapped,
          presses, records, turns, upsets>>
server == <<granted, on, strict>>
memory == <<live, age, kept, records>>

---------------------------------------------------------------------------
(* The chains: for each press in turn, the checks of its handler *)

Ask(leave) == <<"leave", leave>>     \* hasAnyPermission: as sent with the press, or as of now
AskSent(leave) == <<"sent", leave>>  \* as sent with the command
AskNow(leave) == <<"now", leave>>    \* of the member, as of now
Enabled(action) == <<"on", action>>
Reason == <<"reason", "">>
Record == <<"record", "">>
Consume == <<"consume", "">>

Menu(leave) == <<Ask(Moderation \cup {"ban", "kick"}), Ask(leave)>>
Submit(leave, action) == <<Ask(leave), Enabled(action), Reason>>
Native(leave, action) ==
  <<<<AskSent(leave), Enabled(action)>>, Submit(leave, action) \o <<Record>>, <<>>,
    <<Ask(leave), Enabled(action), Consume>>>>

Kinds ==
  {"case", "caseButton", "syncBan", "kick", "observedKick", "ban", "banButton",
   "nativeBan", "nativeKick", "openCase", "slashBan", "slashOpen", "slashAudit",
   "slashIntake", "slashFlag", "slashRepair", "acknowledge"}

\* Mutant: the confirmed action is carried out on the word of the menu.
ConfirmUnasked(leave) == <<>>

ConfirmAsked(leave) == <<Ask(leave)>>

CaseAction == <<Menu(Moderation), <<>>, ConfirmAsked(Moderation)>>
CaseButton == <<<<Ask(Moderation)>>, ConfirmAsked(Moderation)>>
SyncBan == <<Menu({"ban"}), <<>>, ConfirmAsked({"ban"})>>
KickMenu(action) == Menu({"kick"}) \o <<Enabled(action)>>
KickAction(action) ==
  <<KickMenu(action), <<>>, <<Ask({"kick"}), Enabled(action)>>, Submit({"kick"}, action)>>
BanAction ==
  <<Menu({"ban"}) \o <<Enabled("ban")>>, <<Ask({"ban"}), Enabled("ban")>>,
    Submit({"ban"}, "ban")>>
BanButton == <<<<Ask({"ban"}), Enabled("ban")>>, Submit({"ban"}, "ban")>>
OpenCase == <<<<AskSent({"moderate"})>>, <<Ask({"moderate"}), Reason>>>>
BanCommand == <<<<AskSent({"ban"}), Enabled("ban"), Reason, Record>>, <<>>>>
CaseCommand == <<<<AskSent({"moderate"}), Reason, Record>>, <<>>>>
AuditCommand == <<<<AskSent({"manage"}), Record>>, <<>>>>
RoleIntakeCommand == <<<<AskSent({}), Reason, Record>>, <<>>>>
FlagUserCommand == <<<<AskNow({}), Record>>, <<>>>>
RepairCommand == <<<<AskSent({})>>>>
Acknowledge == <<<<Ask(Moderation)>>>>

Chain ==
  CASE kind = "case" -> CaseAction
    [] kind = "caseButton" -> CaseButton
    [] kind = "syncBan" -> SyncBan
    [] kind \in {"kick", "observedKick"} -> KickAction(kind)
    [] kind = "ban" -> BanAction
    [] kind = "banButton" -> BanButton
    [] kind = "nativeBan" -> Native({"ban"}, "ban")
    [] kind = "nativeKick" -> Native({"kick"}, "kick")
    [] kind = "openCase" -> OpenCase
    [] kind = "slashBan" -> BanCommand
    [] kind = "slashOpen" -> CaseCommand
    [] kind = "slashAudit" -> AuditCommand
    [] kind = "slashIntake" -> RoleIntakeCommand
    [] kind = "slashFlag" -> FlagUserCommand
    [] kind = "slashRepair" -> RepairCommand
    [] kind = "acknowledge" -> Acknowledge

Slash == kind \in {"slashBan", "slashOpen", "slashAudit", "slashIntake", "slashFlag"}
HasReason(place) == \E i \in DOMAIN Chain[place] : Chain[place][i] = Reason
\* Submitted forms and answered slash confirmations leave the screen.
Leaves(place) ==
  \/ Slash \/ HasReason(place)
  \/ kind \in {"nativeBan", "nativeKick"} /\ place = 4

---------------------------------------------------------------------------
(* What docs/moderation-permissions.md asks for *)

Needs ==
  CASE kind \in {"syncBan", "ban", "banButton", "nativeBan", "slashBan"} -> {"ban"}
    [] kind \in {"kick", "observedKick", "nativeKick"} -> {"kick"}
    [] kind \in {"openCase", "slashOpen"} -> {"moderate"}
    [] kind = "slashAudit" -> {"manage"}
    [] kind \in {"slashIntake", "slashFlag", "slashRepair"} -> {}
    [] OTHER -> Moderation
Switch ==
  CASE kind \in {"ban", "banButton", "nativeBan", "slashBan"} -> {"ban"}
    [] kind \in {"kick", "nativeKick"} -> {"kick"}
    [] kind = "observedKick" -> {"observedKick"}
    [] OTHER -> {}
Reasoned == {"ban", "banButton", "nativeBan", "slashBan", "kick", "observedKick",
             "nativeKick", "openCase", "slashOpen", "slashIntake"}

Holds(permissions, leave) == permissions \cap (leave \cup {"admin"}) # {}
\* what a moderator has at this moment that the action needs
Has(permissions, enabled, required, given) ==
  (IF Holds(permissions, Needs) THEN {"leave"} ELSE {})
  \cup (IF Switch \subseteq enabled THEN {"switch"} ELSE {})
  \cup (IF given \/ ~required \/ kind \notin Reasoned THEN {"reason"} ELSE {})

---------------------------------------------------------------------------
Idle == [place |-> 0, step |-> 1, id |-> 0, sent |-> {}, given |-> FALSE,
         fresh |-> FALSE, seen |-> {}]
Needed == {"leave", "switch", "reason"}
Press == [place : 0..4, step : 1..5, id : 0..MaxRecords, sent : SUBSET Permission,
          given : BOOLEAN, fresh : BOOLEAN, seen : SUBSET Needed]
Prompt == [place : 2..4, id : 0..MaxRecords, fresh : BOOLEAN]

Steps(h) == Chain[press[h].place]
Busy(h) == press[h].place > 0
Through(h) == Busy(h) /\ press[h].step > Len(Steps(h))
Ahead(h) == Steps(h)[press[h].step]
At(h, check) == Busy(h) /\ ~Through(h) /\ Ahead(h)[1] = check
Advance(h) == press' = [press EXCEPT ![h].step = @ + 1]
Finish(h) == press' = [press EXCEPT ![h] = Idle]
\* Idle handlers are alike: it does not matter which of them begins.
Spare == CHOOSE h \in Handler : press[h] = Idle
\* Presses share nothing but a recorded confirmation: others are handled one by one.
Free(h, id) ==
  /\ ~Busy(h) /\ h = Spare
  /\ \A g \in Handler : Busy(g) => id # 0 /\ press[g].id = id
MayPress == presses < Len(Chain) + MorePresses /\ presses' = presses + 1
Upset == upsets < MaxFaults /\ upsets' = upsets + 1

Init ==
  /\ kind \in Kinds /\ granted \in Grants
  /\ on \in {{}, Switch} /\ strict \in IF kind \in Reasoned THEN BOOLEAN ELSE {FALSE}
  /\ screen = {} /\ live = {} /\ age = [i \in 1..MaxRecords |-> 0]
  /\ press = [h \in Handler |-> Idle]
  /\ kept = [i \in 1..MaxRecords |-> {}] /\ closed = {} /\ overlapped = {}
  /\ presses = 0 /\ records = 0 /\ turns = 0 /\ upsets = 0

---------------------------------------------------------------------------
(* Recorded confirmations *)

Pruned == {i \in live : age[i] <= Ttl}

\* A last press of the same confirmation is in flight (history).
Overlapping(id) ==
  overlapped' = overlapped \cup
    {i \in {id} \ {0} : \E h \in Handler : press[h].id = i /\ press[h].place = Len(Chain)}

\* Mutant: a slash confirmation is looked up and left in place.
AfterLookupKeeping(id) == Pruned

\* pruning and lookup, at the moment of the press; a slash command's is taken
AfterLookup(id) == IF Slash THEN Pruned \ {id} ELSE Pruned

Save(h) ==
  /\ At(h, "record") /\ records < MaxRecords
  /\ LET id == records + 1 IN
     /\ records' = id /\ live' = Pruned \cup {id}
     /\ kept' = [kept EXCEPT ![id] = press[h].seen]
     /\ press' = [press EXCEPT ![h].step = @ + 1, ![h].id = id]
  /\ UNCHANGED <<kind, server, screen, age, closed, overlapped, presses, turns, upsets>>

Take(h) ==
  /\ At(h, "consume") /\ Advance(h)
  /\ live' = live \ {press[h].id}
  /\ UNCHANGED <<kind, server, screen, age, kept, records, closed, overlapped, presses,
                 turns, upsets>>

Cancel(prompt) ==
  /\ MayPress
  /\ IF prompt.id = 0
     THEN screen' = screen \ {prompt} /\ UNCHANGED <<live, closed, overlapped>>
     ELSE /\ prompt.place = (IF Slash THEN 2 ELSE 3)
          /\ live' = Pruned \ {prompt.id} /\ Overlapping(prompt.id)
          /\ IF prompt.id \in Pruned
             THEN closed' = closed \cup {prompt.id} /\ screen' = screen \ {prompt}
             ELSE UNCHANGED <<closed, screen>>
  /\ UNCHANGED <<kind, server, age, kept, records, press, turns, upsets>>

---------------------------------------------------------------------------
(* Presses and their checks *)

\* With a command or a form comes a reason, or none.
Begin(h, place, id, fresh) ==
  \E given \in IF HasReason(place) THEN BOOLEAN ELSE {FALSE} :
    press' = [press EXCEPT ![h] =
      [place |-> place, step |-> 1, id |-> id, sent |-> granted, given |-> given,
       fresh |-> fresh,
       seen |-> IF id # 0 /\ Slash THEN kept[id]
                ELSE Has(granted, on, strict, given)
                     \cup (IF id = 0 THEN {} ELSE kept[id] \cap {"reason"})]]

Start(h) ==
  /\ Free(h, 0) /\ MayPress
  /\ Begin(h, 1, 0, TRUE)
  /\ UNCHANGED <<kind, server, screen, memory, closed, overlapped, turns, upsets>>

\* A confirmation that is not recorded any more is answered as expired.
PressPrompt(h, prompt) ==
  /\ Free(h, prompt.id) /\ MayPress
  /\ screen' = IF Leaves(prompt.place) THEN screen \ {prompt} ELSE screen
  /\ IF prompt.id # 0 /\ prompt.id \notin Pruned
     THEN live' = Pruned /\ UNCHANGED <<press, overlapped>>
     ELSE /\ Begin(h, prompt.place, prompt.id, prompt.fresh)
          /\ live' = IF prompt.id = 0 THEN live ELSE AfterLookup(prompt.id)
          /\ IF prompt.place = Len(Chain) THEN Overlapping(prompt.id) ELSE overlapped' = overlapped
  /\ UNCHANGED <<kind, server, age, kept, records, closed, turns, upsets>>

Passes(h) ==
  LET check == Ahead(h) IN
  CASE check[1] = "leave" -> Holds(press[h].sent, check[2]) \/ Holds(granted, check[2])
    [] check[1] = "sent" -> Holds(press[h].sent, check[2])
    [] check[1] = "now" -> Holds(granted, check[2])
    [] check[1] = "on" -> check[2] \in on
    [] check[1] = "reason" -> press[h].given \/ ~strict

Check(h) ==
  /\ \E check \in {"leave", "sent", "now", "on", "reason"} : At(h, check)
  /\ IF Passes(h) THEN Advance(h) ELSE Finish(h)
  /\ UNCHANGED <<kind, server, screen, memory, closed, overlapped, presses, turns, upsets>>

\* The menu offers only what fits the case, which is up to the case.
ShowNext(h) ==
  /\ Through(h) /\ press[h].place < Len(Chain)
  /\ \/ screen' = screen \cup
          {[place |-> press[h].place + 1, id |-> press[h].id, fresh |-> press[h].fresh]}
     \/ press[h].place = 1 /\ screen' = screen
  /\ Finish(h)
  /\ UNCHANGED <<kind, server, memory, closed, overlapped, presses, turns, upsets>>

\* the service is called
Acting(h) == Through(h) /\ press[h].place = Len(Chain)
Act(h) ==
  /\ Acting(h) /\ Finish(h)
  /\ closed' = IF press[h].id = 0 THEN closed ELSE closed \cup {press[h].id}
  /\ UNCHANGED <<kind, server, screen, memory, overlapped, presses, turns, upsets>>

\* A call fails.  A slash confirmation that could not be shown is forgotten.
FailPress(h) ==
  /\ Busy(h) /\ Upset /\ Finish(h)
  /\ live' = IF Slash /\ press[h].place = 1 THEN live \ {press[h].id} ELSE live
  /\ UNCHANGED <<kind, server, screen, age, kept, records, closed, overlapped, presses, turns>>

Restart ==
  /\ Upset
  /\ live' = {} /\ press' = [h \in Handler |-> Idle]
  /\ UNCHANGED <<kind, server, screen, age, kept, records, closed, overlapped, presses, turns>>

---------------------------------------------------------------------------
(* The moderator's standing, the settings, time *)

Turn ==
  /\ turns < MaxChanges /\ turns' = turns + 1
  /\ \/ granted' \in Grants \ {granted} /\ UNCHANGED <<on, strict>>
     \/ Switch # {} /\ on' = Switch \ on /\ UNCHANGED <<granted, strict>>
     \/ kind \in Reasoned /\ strict' = ~strict /\ UNCHANGED <<granted, on>>
  /\ press' = [h \in Handler |->
       IF ~Busy(h) THEN Idle
       ELSE [press[h] EXCEPT !.fresh = FALSE,
               !.seen = @ \cup Has(granted', on', strict', press[h].given)]]
  /\ screen' = {[prompt EXCEPT !.fresh = FALSE] : prompt \in screen}
  /\ UNCHANGED <<kind, memory, closed, overlapped, presses, upsets>>

Tick ==
  /\ live # {} /\ \A h \in Handler : ~Busy(h)
  /\ \E i \in live : age[i] <= Ttl
  /\ age' = [i \in 1..MaxRecords |-> IF i \in live /\ age[i] <= Ttl THEN age[i] + 1 ELSE age[i]]
  /\ UNCHANGED <<kind, server, screen, live, kept, records, press, closed, overlapped,
                 presses, turns, upsets>>

Next ==
  \/ Restart \/ Turn \/ Tick
  \/ \E prompt \in screen : Cancel(prompt) \/ \E h \in Handler : PressPrompt(h, prompt)
  \/ \E h \in Handler : Start(h) \/ Check(h) \/ Save(h) \/ Take(h) \/ ShowNext(h)
                        \/ Act(h) \/ FailPress(h)

Spec == Init /\ [][Next]_vars

---------------------------------------------------------------------------
TypeOK ==
  /\ kind \in Kinds /\ granted \in Grants /\ on \subseteq Switch /\ strict \in BOOLEAN
  /\ screen \subseteq Prompt /\ live \subseteq 1..MaxRecords /\ closed \subseteq 1..MaxRecords
  /\ press \in [Handler -> Press] /\ age \in [1..MaxRecords -> 0..Ttl + 1]
  /\ kept \in [1..MaxRecords -> SUBSET Needed] /\ overlapped \subseteq 1..MaxRecords

\* Whoever the documented table does not let, does not: an action is carried out
\* only if its permission was held, its switch on and its reason given or not
\* required, at some moment since the last press (for a slash command, since the
\* command itself).  And what was offered is not refused for want of them, as
\* long as nothing has changed since: the checks of a chain agree.
LeaveDecides ==
  [][\A h \in Handler :
       /\ Acting(h) => press[h].seen = Needed
       /\ (\E check \in {"leave", "sent", "now", "on"} : At(h, check))
            /\ ~Passes(h) /\ press'[h] = Idle /\ upsets' = upsets
          => ~(press[h].fresh /\ press[h].place > 1)]_vars

\* A recorded confirmation is acted on at most once, in its time, and not after
\* it was cancelled.  Only native actions that the moderator submits twice at
\* the same time, or cancels while they are checked, can do worse.
ConfirmedOnce ==
  \A h \in Handler : Acting(h) /\ press[h].id # 0 =>
    /\ age[press[h].id] <= Ttl
    /\ press[h].id \notin live
    /\ \/ ~Slash /\ press[h].id \in overlapped
       \/ /\ press[h].id \notin closed
          /\ \A g \in Handler \ {h} :
               press[g].id = press[h].id => press[g].place < Len(Chain)
=============================================================================
