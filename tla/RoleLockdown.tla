---------------------------- MODULE RoleLockdown ----------------------------
(***************************************************************************)
(* CaseRoleLockdownService: closing the channels of a guild to the case     *)
(* role.  An application plans from what it reads, may give allowed         *)
(* channels overwrites of their own, plans again, and edits the planned     *)
(* channels one call at a time, while administrators go on changing the     *)
(* guild.  A behaviour is one application: the next one begins in another   *)
(* initial state.                                                           *)
(*                                                                          *)
(* Of the overwrites of a channel only the one of the case role is told     *)
(* apart (all lockdown permissions denied, all allowed, anything else); the *)
(* others are one value.  A channel is synced when its overwrites are those *)
(* of its category, and Discord then changes it along with its category.    *)
(***************************************************************************)
EXTENDS Integers, FiniteSets

CONSTANTS
  Category, Channel,
  NoCategory,
  Others,     \* values of the overwrites of everybody else
  MaxEdits,   \* bound: changes by administrators
  MaxFaults   \* bound: rejected calls and interrupted applications

\* what the constants are assumed to be
RoleLockdownAssumption ==
  /\ NoCategory \notin Category /\ Category \cap Channel = {}
  /\ MaxEdits \in Nat /\ MaxFaults \in Nat

VARIABLES
  parent,   \* the category of a channel
  access,   \* overwrites of categories and channels
  allowed,  \* the allow-list of the settings, with the channels allowed anyway
  enabled,  \* case_role_lockdown_enabled
  run,      \* the application in flight: next step and local variables
  granting, \* the categories that allowed the case role when it began (history)
  disturbed,\* places administrators changed since (history)
  edits, faults

vars == <<parent, access, allowed, enabled, run, granting, disturbed, edits, faults>>
guild == <<parent, access, allowed>>
history == <<granting, disturbed>>

Place == Category \cup Channel
Access == [others : Others, caseRole : {"none", "deny", "allow"}]
NoRun == [at |-> "plan", unsync |-> FALSE, todo |-> {}, own |-> {}, applied |-> FALSE,
          failed |-> FALSE]
Run == [at : {"plan", "unsync", "replan", "apply", "enable", "refresh", "done"},
        unsync : BOOLEAN, todo : SUBSET Place, own : SUBSET Channel,
        applied : BOOLEAN, failed : BOOLEAN]

Synced(c) == parent[c] # NoCategory /\ access[c] = access[parent[c]]
Open(c) == allowed \cap {c, parent[c]} # {}
Denied(place) == access[place].caseRole = "deny"
Fault == faults < MaxFaults /\ faults' = faults + 1

Init ==
  /\ parent \in [Channel -> Category \cup {NoCategory}]
  /\ access \in [Place -> Access]
  /\ allowed \in SUBSET Place
  /\ enabled = FALSE
  /\ \E unsync \in BOOLEAN : run = [NoRun EXCEPT !.unsync = unsync]
  /\ granting = {k \in Category : access[k].caseRole = "allow"} /\ disturbed = {}
  /\ edits = 0 /\ faults = 0

---------------------------------------------------------------------------
(* buildReport *)

\* Mutant: a category with a channel that is not synced is left to its channels.
PlannedUnsyncedOnly ==
  {k \in Category \ allowed : ~Denied(k) /\ \A c \in Channel : parent[c] = k => Synced(c)}
  \cup {c \in Channel : ~Open(c) /\ ~Synced(c) /\ ~Denied(c)}

\* A synced channel is closed with its category.
Planned ==
  {k \in Category \ allowed : ~Denied(k)}
  \cup {c \in Channel : ~Open(c) /\ ~Synced(c) /\ ~Denied(c)}

\* allowed channels that would be closed with their category
SyncedAllowed ==
  {c \in Channel \cap allowed : Synced(c) /\ parent[c] \notin allowed /\ c \notin run.own}

---------------------------------------------------------------------------
(* applyGuild *)

Goto(step) == run' = [run EXCEPT !.at = step]
\* the last report, of an application that stops where it is
Return == Goto("done")
Applying == IF Planned = {} THEN [run EXCEPT !.at = "enable", !.applied = TRUE]
            ELSE [run EXCEPT !.at = "apply", !.todo = Planned]

\* Without permissions, a usable case role, or the leave to unsync nothing is done.
Plan ==
  /\ run.at = "plan"
  /\ \E broken \in BOOLEAN :
       IF broken \/ (SyncedAllowed # {} /\ ~run.unsync) THEN Return
       ELSE IF SyncedAllowed = {} THEN run' = Applying
       ELSE run' = [run EXCEPT !.at = "unsync", !.todo = SyncedAllowed]
  /\ UNCHANGED <<guild, enabled, history, edits, faults>>

NextChannel(place, after) ==
  run' = [after EXCEPT !.todo = @ \ {place},
            !.at = IF run.todo # {place} THEN @
                   ELSE IF @ = "unsync" THEN "replan"
                   ELSE IF after.applied THEN "enable" ELSE "refresh"]

\* Mutant: the parent's overwrite of the case role is copied too.
UnsyncByCopy(c) ==
  /\ run.at = "unsync" /\ c \in run.todo
  /\ parent[c] # NoCategory
  /\ access' = [access EXCEPT ![c] = access[parent[c]]]
  /\ NextChannel(c, [run EXCEPT !.own = @ \cup {c}])
  /\ UNCHANGED <<parent, allowed, enabled, history, edits, faults>>

\* the parent's overwrites, but the case role is allowed
Unsync(c) ==
  /\ run.at = "unsync" /\ c \in run.todo
  /\ parent[c] # NoCategory
  /\ access' = [access EXCEPT ![c] = [access[parent[c]] EXCEPT !.caseRole = "allow"]]
  /\ NextChannel(c, [run EXCEPT !.own = @ \cup {c}])
  /\ UNCHANGED <<parent, allowed, enabled, history, edits, faults>>

FailUnsync(c) ==
  /\ run.at = "unsync" /\ c \in run.todo
  /\ (parent[c] = NoCategory /\ faults' = faults) \/ Fault
  /\ NextChannel(c, [run EXCEPT !.failed = TRUE])
  /\ UNCHANGED <<guild, enabled, history, edits>>

\* One channel that could not be unsynced stops the application.
Replan ==
  /\ run.at = "replan"
  /\ IF run.failed \/ SyncedAllowed # {} THEN Return ELSE run' = Applying
  /\ UNCHANGED <<guild, enabled, history, edits, faults>>

\* Discord's part: synced channels follow their category.
Closed(place) == [access[place] EXCEPT !.caseRole = "deny"]
AfterDeny(place) ==
  [p \in Place |-> IF p = place THEN Closed(place)
                   ELSE IF p \in Channel /\ parent[p] = place /\ Synced(p) THEN Closed(place)
                   ELSE access[p]]

Apply(place) ==
  /\ run.at = "apply" /\ place \in run.todo
  /\ place \in Category \/ run.todo \cap Category = {}
  /\ access' = AfterDeny(place)
  /\ NextChannel(place, [run EXCEPT !.applied = TRUE])
  /\ UNCHANGED <<parent, allowed, enabled, history, edits, faults>>

FailApply(place) ==
  /\ run.at = "apply" /\ place \in run.todo
  /\ place \in Category \/ run.todo \cap Category = {}
  /\ Fault
  /\ NextChannel(place, [run EXCEPT !.failed = TRUE])
  /\ UNCHANGED <<guild, enabled, history, edits>>

\* Something was applied, or there was nothing to apply.
Enable ==
  /\ run.at = "enable"
  /\ enabled' = TRUE /\ Goto("refresh")
  /\ UNCHANGED <<guild, history, edits, faults>>

Refresh ==
  /\ run.at = "refresh" /\ Return
  /\ UNCHANGED <<guild, enabled, history, edits, faults>>

\* A read or a statement fails, or the process stops.
Interrupt ==
  /\ run.at # "done" /\ Fault
  /\ Return
  /\ UNCHANGED <<guild, enabled, history, edits>>

---------------------------------------------------------------------------
(* Administrators *)

\* An edit before the first report is another initial state.
Edit(place) ==
  /\ run.at \notin {"plan", "done"}
  /\ edits < MaxEdits /\ edits' = edits + 1 /\ disturbed' = disturbed \cup {place}
  /\ UNCHANGED <<run, granting, faults>>

Move(c) ==
  /\ Edit(c)
  /\ \E k \in (Category \cup {NoCategory}) \ {parent[c]} : parent' = [parent EXCEPT ![c] = k]
  /\ UNCHANGED <<access, allowed, enabled>>
Overwrite(c) ==
  /\ Edit(c)
  /\ \E value \in Access \ {access[c]} : access' = [access EXCEPT ![c] = value]
  /\ UNCHANGED <<parent, allowed, enabled>>
Allow(place) ==
  /\ Edit(place)
  /\ allowed' = (allowed \ {place}) \cup ({place} \ allowed)
  /\ UNCHANGED <<parent, access, enabled>>

Next ==
  \/ Plan \/ Replan \/ Enable \/ Refresh \/ Interrupt
  \/ \E c \in Channel : Unsync(c) \/ FailUnsync(c) \/ Move(c) \/ Overwrite(c)
  \/ \E place \in Place : Apply(place) \/ FailApply(place) \/ Allow(place)

Spec == Init /\ [][Next]_vars

---------------------------------------------------------------------------
TypeOK ==
  /\ parent \in [Channel -> Category \cup {NoCategory}]
  /\ access \in [Place -> Access] /\ granting \subseteq Category
  /\ allowed \subseteq Place /\ enabled \in BOOLEAN /\ disturbed \subseteq Place
  /\ run \in Run /\ edits \in 0..MaxEdits /\ faults \in 0..MaxFaults

\* An application closes what is not allowed and nothing else: in the end the
\* case role is denied in every channel that is not allowed, unless a call
\* failed, and, failures or not, never newly in one that is allowed.  Both are
\* said of the channels that administrators left alone with their categories
\* since the application began.  An allowed channel whose category allows the
\* case role itself is the exception: unsyncing leaves it as it was, and it is
\* closed along.
LockdownIsExact ==
  [][run.at # "done" /\ edits' = edits =>
       \A c \in Channel : {c, parent[c]} \cap disturbed = {} =>
         /\ Open(c) /\ ~Denied(c)
              => access'[c].caseRole # "deny" \/ parent[c] \in granting
         /\ run.at = "refresh" /\ ~run.failed /\ run'.at = "done" => Open(c) \/ Denied(c)]_vars
=============================================================================
