----------------------------- MODULE RoleTrigger -----------------------------
(***************************************************************************)
(* The trigger role: a member who is given it gets a case when the role is   *)
(* still there after a grace period.  The timers are kept in memory.         *)
(*                                                                          *)
(* An update hands its handler a copy of the member as it was, and the       *)
(* member itself, which later updates change.  How a case is opened is in    *)
(* CaseLifecycle: here nothing is left of it but that it takes a while.       *)
(***************************************************************************)
EXTENDS Integers, FiniteSets

CONSTANTS
  Member,      \* members of the guild, none of them a bot
  Nobody,
  Handler,     \* handlers of updates and of timers in flight at one time
  MaxMoves,    \* bound: roles given and taken, departures and returns
  MaxSwitches, \* bound: changes of the setting
  MaxFaults    \* bound: failed calls and restarts

\* what the constants are assumed to be
RoleTriggerAssumption ==
  /\ Nobody \notin Member
  /\ MaxMoves \in Nat /\ MaxSwitches \in Nat /\ MaxFaults \in Nat

VARIABLES
  inside,   \* who is in the guild
  holds,    \* who has the role
  on,       \* the role is the trigger of the manual intake, which is enabled
  timer,    \* manualIntakeTimers
  handler,  \* handlers of updates and runs of the manual intake
  excused,  \* whom no timer is owed, or whose timer is not taken away (history)
  moves, switches, faults

counters == <<moves, switches, faults>>
guild == <<inside, holds, on>>
vars == <<inside, holds, on, timer, handler, excused, moves, switches, faults>>

Idle == [at |-> "idle", member |-> Nobody, had |-> FALSE, on |-> FALSE, left |-> FALSE,
         has |-> FALSE]

Init ==
  /\ inside = Member /\ holds = {} /\ on \in BOOLEAN
  /\ timer = {} /\ handler = [h \in Handler |-> Idle]
  /\ excused = {}
  /\ moves = 0 /\ switches = 0 /\ faults = 0

At(h, step) == handler[h].at = step
Goto(h, step) == handler' = [handler EXCEPT ![h].at = step]
Return(h) == handler' = [handler EXCEPT ![h] = Idle]
Excuse(members) == excused' = excused \cup members
Fault == faults < MaxFaults /\ faults' = faults + 1
Free == {h \in Handler : At(h, "idle")}

---------------------------------------------------------------------------
(* The guild *)

Move == moves < MaxMoves /\ moves' = moves + 1

\* guildMemberUpdate: the handler starts.  Its member is the object of the cache.
Update(h, m, had) == [handler EXCEPT ![h] = [Idle EXCEPT !.at = "config", !.member = m, !.had = had]]

Give(m) ==
  /\ m \in inside \ holds /\ Move /\ holds' = holds \cup {m}
  /\ \E h \in Free : handler' = Update(h, m, FALSE)
  /\ excused' = excused \ {m}
  /\ UNCHANGED <<inside, on, timer, switches, faults>>

Take(m) ==
  /\ m \in holds /\ Move /\ holds' = holds \ {m}
  /\ \E h \in Free : handler' = Update(h, m, TRUE)
  /\ UNCHANGED <<inside, on, timer, excused, switches, faults>>

\* handleGuildMemberRemove; the handlers keep the object of the member as it was.
Leave(m) ==
  /\ m \in inside /\ Move
  /\ inside' = inside \ {m} /\ holds' = holds \ {m}
  /\ timer' = timer \ {m} /\ Excuse({m})
  /\ handler' = [h \in Handler |->
       IF handler[h].member = m /\ ~handler[h].left
       THEN [handler[h] EXCEPT !.left = TRUE, !.has = m \in holds] ELSE handler[h]]
  /\ UNCHANGED <<on, switches, faults>>

ComeBack(m) ==
  /\ m \in Member \ inside /\ Move /\ inside' = inside \cup {m}
  /\ UNCHANGED <<holds, on, timer, handler, excused, switches, faults>>

\* The setting is changed: timers stay as they are.
Switch ==
  /\ switches < MaxSwitches /\ switches' = switches + 1
  /\ on' = ~on /\ Excuse(Member)
  /\ UNCHANGED <<inside, holds, timer, handler, moves, faults>>

---------------------------------------------------------------------------
(* The manual intake *)

ReadSettings(h) ==
  /\ At(h, "config")
  /\ handler' = [handler EXCEPT ![h].at = "decide", ![h].on = on]
  /\ UNCHANGED <<guild, timer, excused, counters>>

\* the member of a handler has the role, as its object says now
Has(h) == IF handler[h].left THEN handler[h].has ELSE handler[h].member \in holds

\* Mutant: the role is looked up as the update brought it.
ScheduleStale(h) == ~handler[h].had
Schedule(h) == ~handler[h].had /\ Has(h)
Cancel(h) == handler[h].had /\ ~Has(h)

\* scheduleManualIntake, cancelManualIntake: nothing is awaited in between.  A late
\* handler of a member who left goes by what the member had then.
Decide(h) ==
  /\ At(h, "decide")
  /\ timer' = IF ~handler[h].on THEN timer
              ELSE IF Schedule(h) THEN timer \cup {handler[h].member}
              ELSE IF Cancel(h) THEN timer \ {handler[h].member} ELSE timer
  /\ Return(h)
  /\ excused' = IF handler[h].left THEN excused \cup {handler[h].member} ELSE excused
  /\ UNCHANGED <<guild, counters>>

\* The settings, or the quarantine that comes first, throw.
UpdateFails(h) ==
  /\ At(h, "config") \/ At(h, "decide")
  /\ Fault /\ Return(h) /\ Excuse({handler[h].member})
  /\ UNCHANGED <<guild, timer, moves, switches>>

\* the grace period is over
Fire(m) ==
  /\ m \in timer /\ timer' = timer \ {m}
  /\ \E h \in Free : handler' = [handler EXCEPT ![h] = [Idle EXCEPT !.at = "again", !.member = m]]
  /\ UNCHANGED <<guild, excused, counters>>

\* The run ends without a case, or without taking the role away.
GiveUp(h) == Return(h) /\ Excuse({handler[h].member})

\* runManualIntake: the settings once more
RunSettings(h) ==
  /\ At(h, "again")
  /\ IF on THEN Goto(h, "member") /\ excused' = excused ELSE GiveUp(h)
  /\ UNCHANGED <<guild, timer, counters>>

\* the member as it is now
RunMember(h) ==
  /\ At(h, "member")
  /\ \/ /\ handler[h].member \in inside \cap holds
        /\ handler' = [handler EXCEPT ![h].at = "open", ![h].left = FALSE]
        /\ excused' = excused
     \/ handler[h].member \notin inside \cap holds /\ GiveUp(h)
  /\ UNCHANGED <<guild, timer, counters>>

\* openAdminCase: a case, or the active one
RunOpen(h) ==
  /\ At(h, "open") /\ Goto(h, "remove")
  /\ UNCHANGED <<guild, timer, excused, counters>>

\* The role is taken away, which is an update.
RunRemove(h) ==
  /\ At(h, "remove")
  /\ IF Has(h) /\ handler[h].member \in holds
     THEN /\ holds' = holds \ {handler[h].member}
          /\ handler' = Update(h, handler[h].member, TRUE)
     ELSE Return(h) /\ holds' = holds
  /\ UNCHANGED <<inside, on, timer, excused, counters>>

RunFails(h) ==
  /\ handler[h].at \in {"again", "member", "open", "remove"}
  /\ Fault /\ GiveUp(h)
  /\ UNCHANGED <<guild, timer, moves, switches>>

---------------------------------------------------------------------------
\* The timers are nowhere but in the memory of the process.
Restart ==
  /\ Fault
  /\ timer' = {} /\ handler' = [h \in Handler |-> Idle] /\ Excuse(Member)
  /\ UNCHANGED <<guild, moves, switches>>

Next ==
  \/ \E m \in Member : Give(m) \/ Take(m) \/ Leave(m) \/ ComeBack(m) \/ Fire(m)
  \/ Switch \/ Restart
  \/ \E h \in Handler :
       \/ ReadSettings(h) \/ Decide(h) \/ UpdateFails(h)
       \/ RunSettings(h) \/ RunMember(h) \/ RunOpen(h) \/ RunRemove(h) \/ RunFails(h)

Spec == Init /\ [][Next]_vars

---------------------------------------------------------------------------
(* Properties *)

\* Types of the variables.
TypeOK ==
  /\ inside \subseteq Member /\ holds \subseteq inside /\ on \in BOOLEAN
  /\ timer \subseteq Member /\ excused \subseteq Member
  /\ handler \in [Handler -> [at : {"idle", "config", "decide", "again", "member", "open", "remove"},
                              member : Member \cup {Nobody}, had : BOOLEAN, on : BOOLEAN,
                              left : BOOLEAN, has : BOOLEAN]]

AtWork(m) == \E h \in Handler : handler[h].member = m
\* However the handlers of its updates pass each other, a member has a timer when it has
\* the trigger role, and none when it has lost it, unless the setting was changed, an
\* update or a run failed, the member left, or the process was restarted since then.
TimerFollowsRole ==
  \A m \in Member \ excused : ~AtWork(m) /\ on => (m \in timer <=> m \in holds)
=============================================================================
