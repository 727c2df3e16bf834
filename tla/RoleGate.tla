------------------------------- MODULE RoleGate -------------------------------
(***************************************************************************)
(* The role gate of one member.  Being given the honeypot role opens a case,  *)
(* whose quarantine takes roles away; when the case is verified or closed,    *)
(* roles are given back, the honeypot role is removed and the member access   *)
(* role added, as was previewed before the resolution, and the moderator is   *)
(* told what became of both.                                                  *)
(*                                                                          *)
(* The bot's cache of the member's roles follows Discord with the updates     *)
(* that come in; its own calls do not change it.                              *)
(***************************************************************************)
EXTENDS Integers

CONSTANTS
  Handler,   \* resolutions in flight at one time
  MaxPresses, MaxMoves,  \* bounds: resolutions; roles given and taken by others
  MaxFaults  \* bound: failed calls

\* what the constants are assumed to be
RoleGateAssumption == MaxPresses \in Nat /\ MaxMoves \in Nat /\ MaxFaults \in Nat

VARIABLES
  has, seen,    \* the roles of the member, and the bot's cache of them
  gate,         \* the settings: which roles are configured, {} when it is not enabled
  exists, able, \* the roles there are, and whether the bot may change them
  open,         \* there is an active case
  snapshot,     \* the roles that the active snapshot says were removed
  update,       \* an update that waits for its handler: was the honeypot role new?
  handler,
  disturbed,    \* resolutions during which others changed what they report on (history)
  presses, moves, faults

vars == <<has, seen, gate, exists, able, open, snapshot, update, handler, disturbed, presses,
          moves, faults>>

Role == {"honeypot", "access"}
NoPreview == [enabled |-> FALSE, remove |-> FALSE, add |-> FALSE, quarantined |-> FALSE]
Idle == [at |-> "idle", close |-> FALSE, preview |-> NoPreview, honeypot |-> "untold",
         access |-> "untold"]

Init ==
  /\ has \in SUBSET Role /\ seen = has /\ gate \in SUBSET Role
  /\ exists \in {Role, {"honeypot"}, {"access"}} /\ has \subseteq exists
  /\ able \in BOOLEAN
  /\ open \in BOOLEAN /\ snapshot \in {{}, Role \ has} /\ (~open => snapshot = {})
  /\ update = FALSE
  /\ handler = [h \in Handler |-> Idle] /\ disturbed = {}
  /\ presses = 0 /\ moves = 0 /\ faults = 0

At(h, step) == handler[h].at = step
Fault == faults < MaxFaults /\ faults' = faults + 1
Disturb == disturbed' = {h \in Handler : ~At(h, "idle")}

---------------------------------------------------------------------------
(* The guild *)

Move == moves < MaxMoves /\ moves' = moves + 1

Give(role) ==
  /\ role \in exists \ has /\ Move /\ has' = has \cup {role} /\ Disturb
  /\ UNCHANGED <<seen, gate, exists, able, open, snapshot, update, handler, presses, faults>>

Take(role) ==
  /\ role \in has /\ Move /\ has' = has \ {role} /\ Disturb
  /\ UNCHANGED <<seen, gate, exists, able, open, snapshot, update, handler, presses, faults>>

Configure ==
  /\ Move /\ gate' \in SUBSET Role \ {gate} /\ Disturb
  /\ UNCHANGED <<has, seen, exists, able, open, snapshot, update, handler, presses, faults>>

\* guildMemberUpdate
Deliver ==
  /\ seen # has /\ seen' = has
  /\ update' = (update \/ ("honeypot" \in has \ seen))
  /\ UNCHANGED <<has, gate, exists, able, open, snapshot, handler, disturbed, presses, moves, faults>>

\* handleHoneypotRoleAssignment: recorded only, or told only, or a case that takes roles
\* away.  A case that is active already keeps its snapshot.
Honeypot ==
  /\ update /\ update' = FALSE
  /\ \/ UNCHANGED <<has, open, snapshot, disturbed>>
     \/ /\ "honeypot" \in gate \cap seen
        /\ open' = TRUE /\ Disturb
        /\ \/ UNCHANGED <<has, snapshot>>
           \/ /\ snapshot = {} /\ able
              /\ snapshot' = seen /\ has' = has \ seen
  /\ UNCHANGED <<seen, gate, exists, able, handler, presses, moves, faults>>

---------------------------------------------------------------------------
(* The resolution *)

\* previewResolution
Preview ==
  LET remove == "honeypot" \in gate \cap (seen \cup snapshot) IN
  [enabled |-> gate # {}, remove |-> remove, add |-> "access" \in (gate \cap exists) \ seen,
   quarantined |-> "honeypot" \in gate \cap snapshot]

\* The preview comes first.  When it fails, the case is resolved without the gate.
Press(h) ==
  /\ At(h, "idle") /\ presses < MaxPresses /\ presses' = presses + 1
  /\ \E close \in BOOLEAN :
       \/ /\ handler' = [handler EXCEPT ![h] =
               [Idle EXCEPT !.at = "resolve", !.close = close, !.preview = Preview]]
          /\ faults' = faults
       \/ /\ Fault
          /\ handler' = [handler EXCEPT ![h] = [Idle EXCEPT !.at = "resolve", !.close = close]]
  /\ disturbed' = IF seen = has THEN disturbed \ {h} ELSE disturbed \cup {h}
  /\ UNCHANGED <<has, seen, gate, exists, able, open, snapshot, update, moves>>

\* Mutant: a role that was deleted meanwhile is given back as well.
GivenBackUnchecked == IF able THEN snapshot \ (gate \cap {"honeypot"}) ELSE {}
\* what the quarantine gives back: not the honeypot role of an enabled gate
GivenBack == IF able THEN (snapshot \cap exists) \ (gate \cap {"honeypot"}) ELSE {}

\* verifyUser, closeCaseNoAction: the latter may find nothing to close
Resolve(h) ==
  /\ At(h, "resolve")
  /\ IF handler[h].close /\ ~open
     THEN /\ handler' = [handler EXCEPT ![h] = Idle]
          /\ UNCHANGED <<has, open, snapshot>>
     ELSE /\ handler' = [handler EXCEPT ![h] =
               IF @.preview.enabled THEN [@ EXCEPT !.at = "remove"] ELSE Idle]
          /\ open' = FALSE /\ snapshot' = {} /\ has' = has \cup GivenBack
  /\ UNCHANGED <<seen, gate, exists, able, update, disturbed, presses, moves, faults>>

\* It throws, with roles given back or not: nothing is said of the gate.
ResolveFails(h) ==
  /\ At(h, "resolve") /\ Fault
  /\ handler' = [handler EXCEPT ![h] = Idle]
  /\ \/ UNCHANGED <<has, open>>
     \/ has' = has \cup GivenBack /\ open' \in {open, FALSE}
  /\ UNCHANGED <<seen, gate, exists, able, snapshot, update, disturbed, presses, moves>>

Tell(h, role, result, next) ==
  handler' = [handler EXCEPT ![h] =
    IF role = "honeypot" THEN [@ EXCEPT !.honeypot = result, !.at = next]
    ELSE [@ EXCEPT !.access = result, !.at = next]]

\* Mutant: what the quarantine took away is not looked at again.
AbsentAsPreviewed(h) == handler[h].preview.quarantined \/ "honeypot" \notin seen
Absent(h) == "honeypot" \notin seen

\* removeHoneypotRole
RemoveHoneypot(h) ==
  /\ At(h, "remove")
  /\ \/ /\ ~handler[h].preview.remove /\ Tell(h, "honeypot", "untold", "add")
        /\ UNCHANGED <<has, faults>>
     \/ /\ handler[h].preview.remove
        /\ IF "honeypot" \notin exists
           THEN /\ Tell(h, "honeypot", IF handler[h].preview.quarantined THEN "gone" ELSE "failed", "add")
                /\ UNCHANGED <<has, faults>>
           ELSE IF ~able
           THEN Tell(h, "honeypot", "failed", "add") /\ UNCHANGED <<has, faults>>
           ELSE IF Absent(h)
           THEN Tell(h, "honeypot", "gone", "add") /\ UNCHANGED <<has, faults>>
           ELSE \/ /\ Tell(h, "honeypot", "gone", "add")
                   /\ has' = has \ {"honeypot"} /\ faults' = faults
                \/ /\ Tell(h, "honeypot", "failed", "add") /\ Fault
                   /\ has' \in {has, has \ {"honeypot"}}
  /\ UNCHANGED <<seen, gate, exists, able, open, snapshot, update, disturbed, presses, moves>>

\* addMemberAccessRole
AddAccess(h) ==
  /\ At(h, "add")
  /\ \/ /\ ~handler[h].preview.add /\ Tell(h, "access", "untold", "told")
        /\ UNCHANGED <<has, faults>>
     \/ /\ handler[h].preview.add
        /\ IF "access" \notin exists \/ ~able
           THEN Tell(h, "access", "failed", "told") /\ UNCHANGED <<has, faults>>
           ELSE IF "access" \in seen
           THEN Tell(h, "access", "there", "told") /\ UNCHANGED <<has, faults>>
           ELSE \/ /\ Tell(h, "access", "there", "told")
                   /\ has' = has \cup {"access"} /\ faults' = faults
                \/ /\ Tell(h, "access", "failed", "told") /\ Fault
                   /\ has' \in {has, has \cup {"access"}}
  /\ UNCHANGED <<seen, gate, exists, able, open, snapshot, update, disturbed, presses, moves>>

\* recorded, whether or not that fails, and told
Answer(h) ==
  /\ At(h, "told") /\ handler' = [handler EXCEPT ![h] = Idle]
  /\ UNCHANGED <<has, seen, gate, exists, able, open, snapshot, update, disturbed, presses, moves,
                 faults>>

Next ==
  \/ \E role \in Role : Give(role) \/ Take(role)
  \/ Configure \/ Deliver \/ Honeypot
  \/ \E h \in Handler :
       Press(h) \/ Resolve(h) \/ ResolveFails(h) \/ RemoveHoneypot(h) \/ AddAccess(h) \/ Answer(h)

Spec == Init /\ [][Next]_vars

---------------------------------------------------------------------------
(* Properties *)

\* Types of the variables.
TypeOK ==
  /\ has \subseteq exists /\ seen \subseteq exists /\ gate \subseteq Role /\ exists \subseteq Role
  /\ able \in BOOLEAN /\ open \in BOOLEAN /\ update \in BOOLEAN /\ snapshot \subseteq Role
  /\ handler \in [Handler -> [at : {"idle", "resolve", "remove", "add", "told"}, close : BOOLEAN,
                              preview : [enabled : BOOLEAN, remove : BOOLEAN, add : BOOLEAN,
                                         quarantined : BOOLEAN],
                              honeypot : {"untold", "gone", "failed"},
                              access : {"untold", "there", "failed"}]]
  /\ disturbed \subseteq Handler

\* What the moderator is told of the roles is so, although the cache is behind and the
\* quarantine gave roles back after the preview, unless others changed roles, settings
\* or the case while the case was being resolved, or had not been noticed when it began.
GateIsAsTold ==
  \A h \in Handler \ disturbed :
    At(h, "told") =>
      /\ handler[h].honeypot = "gone" => "honeypot" \notin has
      /\ handler[h].access = "there" => "access" \in has
=============================================================================
