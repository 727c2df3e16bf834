------------------------- MODULE ObservedDetection -------------------------
(***************************************************************************)
(* One observed alert and the moderators who act on it, from Discord or     *)
(* through the dashboard: they open a case, ban, kick, dismiss it, mark it  *)
(* a false positive, undo a dismissal, or change whether the detection      *)
(* counts in the member's accounting.  An action claims the alert in the    *)
(* metadata of its detection_events row by a conditional update, is carried *)
(* out, and is released by the same moderator when it fails.                *)
(*                                                                          *)
(* A moderator has one handler in flight: the buttons of one person answer  *)
(* before the next one is pressed.                                          *)
(***************************************************************************)
EXTENDS Integers

CONSTANTS
  Mod,        \* moderators
  Nobody,     \* not a moderator
  MaxStarts,  \* bound: handlers started
  MaxFaults   \* bound: failed statements, failed Discord calls and crashes

\* what the constants are assumed to be
ObservedDetectionAssumption ==
  Nobody \notin Mod /\ MaxStarts \in Nat /\ MaxFaults \in Nat

Lasting == {"open_case", "ban", "kick"}
Dismissal == {"dismiss", "false_positive"}
Claim == Lasting \cup Dismissal
Accounting == {"exclude", "restore"}
Kind == Claim \cup {"undo"} \cup Accounting
Metadata == [action : Claim \cup {"none"}, by : Mod \cup {Nobody}, excluded : BOOLEAN]
Unclaimed == [action |-> "none", by |-> Nobody, excluded |-> FALSE]

VARIABLES
  meta,      \* metadata of the detection: observed_action, _by, excluded_from_accounting
  latest,    \* the latest admin action the accounting looks at
  handler,   \* kind, next step and the metadata read, by moderator
  writes,    \* updates of meta so far (history)
  carried,   \* <<moderator, action>> whose success a handler knows of (history)
  stuck,     \* claims whose handler stopped before its end (history)
  clobbered, \* metadata was put back over what others had written (history)
  starts, faults

counters == <<starts, faults>>
vars == <<meta, latest, handler, writes, carried, stuck, clobbered, starts, faults>>

\* old: the metadata read, when so many updates had been made
Idle == [kind |-> "undo", at |-> "idle", old |-> Unclaimed, seen |-> 0]
Handler == [kind : Kind, old : Metadata, seen : Nat,
            at : {"idle", "read", "claim", "act", "record", "release", "clear", "update", "rollback"}]

Init ==
  /\ meta = Unclaimed /\ latest = "none"
  /\ handler = [m \in Mod |-> Idle]
  /\ writes = 0 /\ carried = {} /\ stuck = {} /\ clobbered = FALSE
  /\ starts = 0 /\ faults = 0

At(m, step) == handler[m].at = step
Goto(m, step) == handler' = [handler EXCEPT ![m].at = step]
Return(m) == handler' = [handler EXCEPT ![m] = Idle]
Fault == faults < MaxFaults /\ faults' = faults + 1
Write(data) == meta' = data /\ writes' = writes + 1
Keep == UNCHANGED <<meta, writes>>
\* what is left of metadata whose action is taken back
Cleared(data) ==
  [Unclaimed EXCEPT !.excluded = data.excluded /\ data.action # "false_positive"]

---------------------------------------------------------------------------
Start(m, kind) ==
  /\ At(m, "idle") /\ starts < MaxStarts /\ starts' = starts + 1
  /\ handler' = [handler EXCEPT ![m] = [Idle EXCEPT !.kind = kind, !.at = "read"]]
  /\ UNCHANGED <<meta, latest, writes, carried, stuck, clobbered, faults>>

\* on with the metadata as it is now
Hold(m, step) ==
  handler' = [handler EXCEPT ![m].old = meta, ![m].seen = writes, ![m].at = step]

\* An alert that has an action is not acted on again.
ReadToClaim(m) ==
  /\ At(m, "read") /\ handler[m].kind \in Claim
  /\ IF meta.action = "none" THEN Hold(m, "claim") ELSE Return(m)
  /\ UNCHANGED <<meta, latest, writes, carried, stuck, clobbered, counters>>

\* Only a dismissal is undone.
ReadToUndo(m) ==
  /\ At(m, "read") /\ handler[m].kind = "undo"
  /\ IF meta.action \in Dismissal THEN Hold(m, "clear") ELSE Return(m)
  /\ UNCHANGED <<meta, latest, writes, carried, stuck, clobbered, counters>>

ReadToAccount(m) ==
  /\ At(m, "read") /\ handler[m].kind \in Accounting
  /\ Hold(m, "update")
  /\ UNCHANGED <<meta, latest, writes, carried, stuck, clobbered, counters>>

\* Mutant: the claim is unconditional.
ClaimAnyway(m) ==
  LET kind == handler[m].kind IN
  /\ At(m, "claim")
  /\ Write([action |-> kind, by |-> m, excluded |-> meta.excluded \/ kind = "false_positive"])
  /\ Goto(m, IF kind \in Lasting THEN "act" ELSE "record")
  /\ UNCHANGED <<latest, carried, stuck, clobbered, counters>>

\* claimObservedAction: only where no action is
ClaimAction(m) ==
  LET kind == handler[m].kind IN
  /\ At(m, "claim")
  /\ IF meta.action # "none" THEN Keep /\ Return(m)
     ELSE /\ Write([action |-> kind, by |-> m,
                   excluded |-> meta.excluded \/ kind = "false_positive"])
          /\ Goto(m, IF kind \in Lasting THEN "act" ELSE "record")
  /\ UNCHANGED <<latest, carried, stuck, clobbered, counters>>

\* An opened case, like a dismissal, is done with the entry of the audit log.
OpenCase(m) ==
  /\ At(m, "act") /\ handler[m].kind = "open_case"
  /\ Goto(m, "record")
  /\ UNCHANGED <<meta, latest, writes, carried, stuck, clobbered, counters>>

\* A ban or a kick is done with the Discord call.
BanOrKick(m) ==
  /\ At(m, "act") /\ handler[m].kind \in {"ban", "kick"}
  /\ carried' = carried \cup {<<m, handler[m].kind>>}
  /\ Goto(m, "record")
  /\ UNCHANGED <<meta, latest, writes, stuck, clobbered, counters>>

\* Mutant: the claim of a failed action is not released.
FailActClaimed(m) ==
  /\ At(m, "act") /\ Fault
  /\ Return(m)
  /\ UNCHANGED <<meta, latest, writes, carried, stuck, clobbered, starts>>

FailAct(m) ==
  /\ At(m, "act") /\ Fault
  /\ Goto(m, "release")
  /\ UNCHANGED <<meta, latest, writes, carried, stuck, clobbered, starts>>

\* The audit log, of which the accounting looks at two kinds of entries.  From
\* here on a failure takes nothing back.
Record(m) ==
  LET kind == handler[m].kind IN
  /\ At(m, "record")
  /\ latest' = CASE kind \in {"false_positive", "exclude"} -> "false_positive"
                 [] kind \in {"undo", "restore"} -> "undo"
                 [] OTHER -> latest
  /\ carried' = IF kind \in Claim THEN carried \cup {<<m, kind>>} ELSE carried
  /\ Return(m)
  /\ UNCHANGED <<meta, writes, stuck, clobbered, counters>>

\* A ban or a kick stays claimed, an opened case or a dismissal is released,
\* an undo or a change of the accounting is rolled back.
FailRecord(m) ==
  LET kind == handler[m].kind IN
  /\ At(m, "record") /\ Fault
  /\ IF kind \in {"ban", "kick"} THEN Return(m)
     ELSE Goto(m, IF kind \in Claim THEN "release" ELSE "rollback")
  /\ UNCHANGED <<meta, latest, writes, carried, stuck, clobbered, starts>>

\* releaseObservedAction: only the moderator's own claim
Release(m) ==
  /\ At(m, "release")
  /\ IF meta.action = handler[m].kind /\ meta.by = m THEN Write(Cleared(meta)) ELSE Keep
  /\ Return(m)
  /\ UNCHANGED <<latest, carried, stuck, clobbered, counters>>

\* clearObservedAction: whichever dismissal is there now
ClearAction(m) ==
  /\ At(m, "clear")
  /\ IF meta.action \in Dismissal THEN Write(Cleared(meta)) /\ Goto(m, "record")
     ELSE Keep /\ Return(m)
  /\ UNCHANGED <<latest, carried, stuck, clobbered, counters>>

\* markExcludedFromAccounting and clearAccountingExclusion
UpdateAccounting(m) ==
  /\ At(m, "update")
  /\ Write(IF handler[m].kind = "exclude" THEN [meta EXCEPT !.excluded = TRUE]
           ELSE IF meta.action = "false_positive" THEN Unclaimed
           ELSE [meta EXCEPT !.excluded = FALSE])
  /\ Goto(m, "record")
  /\ UNCHANGED <<latest, carried, stuck, clobbered, counters>>

\* A failed undo claims the action it read again, where no action is; a failed
\* change of the accounting writes back the whole metadata it read.
Rollback(m) ==
  LET old == handler[m].old IN
  /\ At(m, "rollback")
  /\ IF handler[m].kind # "undo"
     THEN Write(old) /\ clobbered' = (clobbered \/ writes # handler[m].seen + 1)
     ELSE /\ IF meta.action = "none"
             THEN Write([meta EXCEPT !.action = old.action, !.by = old.by]) ELSE Keep
          /\ UNCHANGED clobbered
  /\ Return(m)
  /\ UNCHANGED <<latest, carried, stuck, counters>>

\* The process dies, or a statement fails where nothing catches it.
Crash(m) ==
  /\ ~At(m, "idle") /\ Fault
  /\ stuck' = stuck \cup {<<m, handler[m].kind>>}
  /\ Return(m)
  /\ UNCHANGED <<meta, latest, writes, carried, clobbered, starts>>

Next == \E m \in Mod :
  \/ \E kind \in Kind : Start(m, kind)
  \/ ReadToClaim(m) \/ ReadToUndo(m) \/ ReadToAccount(m) \/ ClaimAction(m)
  \/ OpenCase(m) \/ BanOrKick(m) \/ FailAct(m) \/ Record(m) \/ FailRecord(m) \/ Release(m)
  \/ ClearAction(m) \/ UpdateAccounting(m) \/ Rollback(m) \/ Crash(m)

Spec == Init /\ [][Next]_vars

---------------------------------------------------------------------------
(* Properties *)

\* Types of the variables: the metadata, the handlers and the history.
TypeOK ==
  /\ meta \in Metadata /\ latest \in {"none", "false_positive", "undo"}
  /\ handler \in [Mod -> Handler]
  /\ writes \in Nat
  /\ carried \subseteq Mod \X Claim /\ stuck \subseteq Mod \X Kind
  /\ clobbered \in BOOLEAN
  /\ starts \in 0..MaxStarts /\ faults \in 0..MaxFaults

\* The claim of an alert is true.  Two moderators never both open a case for, ban
\* or kick its member: what was carried out is what the alert says.  And what it
\* says was carried out, or its moderator is still at it: a claim whose action
\* failed is released, and only a handler that stopped on the way leaves one for
\* good.  A rollback of the accounting that overwrote what others had written in
\* between is the one way to lose this.
ClaimIsTrue ==
  \/ clobbered
  \/ /\ \A pair \in carried : pair[2] \in Lasting => pair = <<meta.by, meta.action>>
     /\ meta.action \in Lasting =>
          LET claim == <<meta.by, meta.action>> IN
          \/ claim \in carried \cup stuck
          \/ \E m \in Mod : ~At(m, "idle") /\ claim = <<m, handler[m].kind>>
============================================================================
