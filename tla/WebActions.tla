----------------------------- MODULE WebActions -----------------------------
(***************************************************************************)
(* What the dashboard lets a moderator ask for, and what the bot then does:   *)
(* a server action checks permission, settings, reason and state one read    *)
(* after the other, and queues a request under a key; the bot claims it, and  *)
(* checks some of that again, by its own reading of the settings, before it    *)
(* acts in the name of the request's actor.                                   *)
(*                                                                          *)
(* A behaviour is about one kind of request.  What a kind does is left to the *)
(* other modules, and so is the order of the queue.                           *)
(***************************************************************************)
EXTENDS Integers, Sequences

CONSTANTS
  Person,     \* who may use the dashboard
  Nobody,     \* whose reason an empty reason is
  Session,    \* submissions that can be under way at one time
  MaxKeys,    \* bound: requests
  MaxSubmits, \* bound: submissions
  MaxChanges, \* bound: changes of permissions and settings
  MaxFaults   \* bound: failed calls and crashes

\* what the constants are assumed to be
WebActionsAssumption ==
  /\ Nobody \notin Person
  /\ MaxKeys \in Nat \ {0} /\ MaxSubmits \in Nat /\ MaxChanges \in Nat /\ MaxFaults \in Nat

VARIABLES
  kind,
  leave,    \* who holds, in Discord, the permission that the kind asks for
  setting,  \* the row of the guild: is the kind enabled, and must a reason be given
  known,    \* the same in the bot's cache
  recent,   \* what the row has been since the cache was filled (history)
  able,     \* the bot's own permission
  session,
  request,  \* moderation_action_requests, by their keys
  newest,   \* the last key that was used
  asked,    \* the submissions that reached the table (history)
  worker,   \* the bot
  submits, changes, faults

counters == <<submits, changes, faults>>
vars == <<kind, leave, setting, known, recent, able, session, request, newest, asked, worker,
          submits, changes, faults>>

Key == 1..MaxKeys
Reason == Person \cup {Nobody}
Setting == [on : BOOLEAN, strict : BOOLEAN]

---------------------------------------------------------------------------
(* The gates of the dashboard, in the order of the code: leave, the member's *)
(* permission; policy, the setting and the reason; reason, the reason alone; *)
(* able, the bot's permission; state, of what is acted upon.                 *)

ObservedDecision == <<"leave">>
ObservedRemoval == <<"leave", "policy", "able">>
CaseDecision == <<"leave", "state">>
CaseRemoval == <<"leave", "policy", "able", "state">>
UndoDecision == <<"leave", "state">>
Accounting == <<"leave", "state">>
OpenCase == <<"leave", "state", "reason", "state">>
FlagMember == <<"leave", "state">>
ReportCase == <<"leave", "state">>
Operation == <<"leave">>
RoleIntake == <<"leave">>
SetupRequest == <<"leave">>
UserReport == <<"leave", "reason">>
GuidedReport == <<"leave", "state">>
CloseIntake == <<"leave", "state">>
Cleanup == <<"leave", "state">>
CloseReport == <<"leave">>
Acknowledge == <<"leave">>

Gates ==
  [observedDecision |-> ObservedDecision, observedRemoval |-> ObservedRemoval,
   caseDecision |-> CaseDecision, caseRemoval |-> CaseRemoval, undo |-> UndoDecision,
   accounting |-> Accounting, openCase |-> OpenCase, flag |-> FlagMember,
   reportCase |-> ReportCase, operation |-> Operation, roleIntake |-> RoleIntake,
   setup |-> SetupRequest, userReport |-> UserReport, guided |-> GuidedReport,
   closeIntake |-> CloseIntake, preview |-> Cleanup, cleanup |-> Cleanup,
   closeReport |-> CloseReport, acknowledge |-> Acknowledge]
Kinds == DOMAIN Gates

\* what the bot looks at again; actor: the actor's permission, as it is now
DecideObserved == <<>>
\* Mutant: the bot trusts the dashboard's reading of the settings.
RemoveObservedTrusting == <<"able">>
RemoveObserved == <<"policy", "able">>
DecideCase == <<>>
RemoveFromCase == <<"policy", "able">>
Exclude == <<>>
OpenAdminCase == <<"reason">>
Flag == <<>>
Operate == <<>>
TakeInRole == <<"reason">>
SetUp == <<>>
FileReport == <<"actor", "reason">>
StartIntake == <<"actor">>
EndIntake == <<>>
PreviewCleanup == <<"actor">>
ExecuteCleanup == <<"actor", "able">>

BotGates ==
  [observedDecision |-> DecideObserved, observedRemoval |-> RemoveObserved,
   caseDecision |-> DecideCase, caseRemoval |-> RemoveFromCase, undo |-> DecideObserved,
   accounting |-> Exclude, openCase |-> OpenAdminCase, flag |-> Flag,
   reportCase |-> DecideObserved, operation |-> Operate, roleIntake |-> TakeInRole,
   setup |-> SetUp, userReport |-> FileReport, guided |-> StartIntake,
   closeIntake |-> EndIntake, preview |-> PreviewCleanup, cleanup |-> ExecuteCleanup,
   closeReport |-> <<>>, acknowledge |-> <<>>]

\* what is looked at anywhere
Looked == LET gates == Gates[kind] \o BotGates[kind] IN {gates[i] : i \in DOMAIN gates}

\* written by the dashboard itself, without a request
Direct == {"closeReport", "acknowledge"}
\* one key for ever, for each case, alert or report
FixedKey == {"observedDecision", "observedRemoval", "caseDecision", "caseRemoval", "undo",
             "accounting", "reportCase"} \cup Direct
\* the key that came with the form
FormKey == {"openCase", "flag", "preview", "cleanup"}
\* a new key with every submission
FreshKey == Kinds \ (FixedKey \cup FormKey)
\* what an interrupted handler leaves: failed by the sweep, or claimed again
Swept == {"caseDecision", "caseRemoval"}
Retaken == {"preview", "cleanup"}

---------------------------------------------------------------------------
NoRequest == [status |-> "none", actor |-> Nobody, reason |-> Nobody]
NoSession == [at |-> "idle", by |-> Nobody, reason |-> Nobody, key |-> 0, todo |-> <<>>,
              had |-> FALSE]
NoWork == [key |-> 0, actor |-> Nobody, reason |-> Nobody, todo |-> <<>>, under |-> {},
           had |-> FALSE, could |-> FALSE]

\* settings that nobody looks at are left as they are
Matters(new) ==
  /\ "policy" \notin Looked => new.on
  /\ Looked \cap {"policy", "reason"} = {} => ~new.strict

Init ==
  /\ kind \in Kinds /\ leave \in SUBSET Person
  /\ setting \in Setting /\ known = setting /\ recent = {setting} /\ able \in BOOLEAN
  /\ Matters(setting) /\ ("able" \notin Looked => able)
  /\ session = [s \in Session |-> NoSession]
  /\ request = [k \in Key |-> NoRequest] /\ newest = 0
  /\ asked = {}
  /\ worker = NoWork
  /\ submits = 0 /\ changes = 0 /\ faults = 0

Fault == faults < MaxFaults /\ faults' = faults + 1
world == <<kind, leave, setting, known, recent, able>>

---------------------------------------------------------------------------
(* The dashboard *)

OwnKeys(person) == {k \in Key : request[k].actor = person}
KeysOf(person) ==
  IF kind \in FixedKey THEN {1}
  ELSE IF kind \in FormKey THEN OwnKeys(person) \cup ({newest + 1} \cap Key)
  ELSE {newest + 1} \cap Key

Submit(s) ==
  /\ session[s].at = "idle" /\ submits < MaxSubmits /\ submits' = submits + 1
  /\ \E by \in Person : \E reason \in {by, Nobody}, key \in KeysOf(by) :
       /\ session' = [session EXCEPT ![s] =
            [at |-> "gates", by |-> by, reason |-> reason, key |-> key, todo |-> Gates[kind],
             had |-> by \in leave]]
       /\ newest' = IF key > newest THEN key ELSE newest
  /\ UNCHANGED <<world, request, asked, worker, changes, faults>>

Given(policy, reason) == policy.strict => reason # Nobody
Allows(policy, reason) == policy.on /\ Given(policy, reason)

Passes(s, gate) ==
  /\ gate = "leave" => session[s].by \in leave
  /\ gate = "policy" => Allows(setting, session[s].reason)
  /\ gate = "reason" => Given(setting, session[s].reason)
  /\ gate = "able" => able

Pass(s) ==
  /\ session[s].at = "gates" /\ session[s].todo # <<>> /\ Passes(s, Head(session[s].todo))
  /\ session' = [session EXCEPT ![s].todo = Tail(@)]
  /\ UNCHANGED <<world, request, newest, asked, worker, counters>>

\* A gate is closed, a state is another one, or a read fails.
Refuse(s) ==
  /\ session[s].at = "gates" /\ session[s].todo # <<>>
  /\ \/ /\ ~Passes(s, Head(session[s].todo)) \/ Head(session[s].todo) = "state"
        /\ faults' = faults
     \/ Fault
  /\ session' = [session EXCEPT ![s] = NoSession]
  /\ UNCHANGED <<world, request, newest, asked, worker, submits, changes>>

\* The metadata are merged: an empty reason is left out of those of a case action.  A
\* preview keeps its reason, which is not in the metadata.
Merged(old, s) ==
  IF kind = "preview" \/ (kind = "caseRemoval" /\ session[s].reason = Nobody) THEN old.reason
  ELSE session[s].reason

\* on conflict (idempotency_key) do update; executions are not queued again
Upserted(old, s) ==
  IF old.status = "none"
  THEN [status |-> "queued", actor |-> session[s].by, reason |-> session[s].reason]
  ELSE IF kind = "cleanup" THEN old
  ELSE [status |-> IF old.status \in {"processing", "completed"} THEN old.status ELSE "queued",
        actor |-> old.actor, reason |-> Merged(old, s)]

Passed(s) == session[s].at = "gates" /\ session[s].todo = <<>>
Submission(s) ==
  [key |-> session[s].key, by |-> session[s].by, reason |-> session[s].reason,
   had |-> session[s].had]

Upsert(s) ==
  /\ Passed(s) /\ kind \notin Direct
  /\ request' = [request EXCEPT ![session[s].key] = Upserted(@, s)]
  /\ asked' = asked \cup {Submission(s)}
  /\ session' = [session EXCEPT ![s] = NoSession]
  /\ UNCHANGED <<world, newest, worker, counters>>

\* closeSubmittedReport, acknowledgeAttentionItem: who comes second is told so
WriteDirectly(s) ==
  /\ Passed(s) /\ kind \in Direct
  /\ request' = [request EXCEPT ![1] =
       IF @.status = "completed" THEN @
       ELSE [status |-> "completed", actor |-> session[s].by, reason |-> Nobody]]
  /\ asked' = asked \cup {Submission(s)}
  /\ session' = [session EXCEPT ![s] = NoSession]
  /\ UNCHANGED <<world, newest, worker, counters>>

\* The statement fails.  (That it fails for the dashboard alone, is Upsert.)
SubmitFails(s) ==
  /\ Passed(s) /\ Fault
  /\ session' = [session EXCEPT ![s] = NoSession]
  /\ UNCHANGED <<world, request, newest, asked, worker, submits, changes>>

---------------------------------------------------------------------------
(* The bot *)

Idle == worker.key = 0

Claim ==
  /\ Idle
  /\ \E k \in Key :
       /\ request[k].status = "queued" \/ (request[k].status = "processing" /\ kind \in Retaken)
       /\ request' = [request EXCEPT ![k].status = "processing"]
       /\ worker' = [key |-> k, actor |-> request[k].actor, reason |-> request[k].reason,
                     todo |-> BotGates[kind], under |-> recent,
                     had |-> request[k].actor \in leave, could |-> able]
  /\ UNCHANGED <<world, session, newest, asked, counters>>

WorkerPasses(gate) ==
  /\ gate = "actor" => worker.actor \in leave
  /\ gate = "policy" => Allows(known, worker.reason)
  /\ gate = "reason" => Given(known, worker.reason)
  /\ gate = "able" => able

WorkerPass ==
  /\ ~Idle /\ worker.todo # <<>> /\ WorkerPasses(Head(worker.todo))
  /\ worker' = [worker EXCEPT !.todo = Tail(@)]
  /\ UNCHANGED <<world, session, request, newest, asked, counters>>

Answer(status) ==
  /\ request' = [request EXCEPT ![worker.key].status = status] /\ worker' = NoWork

\* The handler throws: at a gate, in the service, or at a call to Discord.
WorkerFails ==
  /\ ~Idle
  /\ \/ worker.todo # <<>> /\ ~WorkerPasses(Head(worker.todo)) /\ faults' = faults
     \/ Fault
  /\ Answer("failed")
  /\ UNCHANGED <<world, session, newest, asked, submits, changes>>

Acting == ~Idle /\ worker.todo = <<>> /\ worker'.key = 0
\* the service acts, and the request is completed
ActAndComplete ==
  /\ ~Idle /\ worker.todo = <<>> /\ Answer("completed")
  /\ UNCHANGED <<world, session, newest, asked, counters>>

Crash ==
  /\ ~Idle /\ Fault /\ worker' = NoWork
  /\ UNCHANGED <<world, session, request, newest, asked, submits, changes>>

Sweep ==
  /\ Idle /\ kind \in Swept
  /\ \E k \in Key :
       /\ request[k].status = "processing"
       /\ request' = [request EXCEPT ![k].status = "failed"]
  /\ UNCHANGED <<world, session, newest, asked, worker, counters>>

---------------------------------------------------------------------------
(* Permissions and settings *)

\* Every submission and the handler at work see the new state from here on.
Seen ==
  /\ session' = [s \in Session |->
       IF session[s].by \in leave' THEN [session[s] EXCEPT !.had = TRUE] ELSE session[s]]
  /\ worker' = IF Idle THEN worker
               ELSE [worker EXCEPT !.had = @ \/ worker.actor \in leave',
                                   !.could = @ \/ able', !.under = @ \cup recent']

Change ==
  /\ changes < MaxChanges /\ changes' = changes + 1
  /\ \/ /\ \E p \in Person : leave' = IF p \in leave THEN leave \ {p} ELSE leave \cup {p}
        /\ UNCHANGED <<setting, recent, able>>
     \/ /\ "able" \in Looked /\ able' = ~able /\ UNCHANGED <<leave, setting, recent>>
     \/ /\ \E new \in Setting \ {setting} : Matters(new) /\ setting' = new /\ recent' = recent \cup {new}
        /\ UNCHANGED <<leave, able>>
  /\ Seen
  /\ UNCHANGED <<kind, known, request, newest, asked, submits, faults>>

\* the cache of the bot is filled again
Refresh ==
  /\ known # setting \/ recent # {setting}
  /\ known' = setting /\ recent' = {setting}
  /\ UNCHANGED <<kind, leave, setting, able, session, request, newest, asked, worker, counters>>

Next ==
  \/ \E s \in Session :
       \/ Submit(s) \/ Pass(s) \/ Refuse(s) \/ Upsert(s) \/ WriteDirectly(s) \/ SubmitFails(s)
  \/ Claim \/ WorkerPass \/ WorkerFails \/ ActAndComplete \/ Crash \/ Sweep
  \/ Change \/ Refresh

Spec == Init /\ [][Next]_vars

---------------------------------------------------------------------------
(* Properties *)

\* Types of the variables.
TypeOK ==
  /\ kind \in Kinds /\ leave \subseteq Person
  /\ setting \in Setting /\ known \in Setting /\ recent \subseteq Setting /\ able \in BOOLEAN
  /\ request \in [Key -> [status : {"none", "queued", "processing", "completed", "failed"},
                          actor : Reason, reason : Reason]]
  /\ newest \in 0..MaxKeys
  /\ asked \subseteq [key : Key, by : Person, reason : Reason, had : BOOLEAN]
  /\ worker.key \in 0..MaxKeys /\ worker.actor \in Reason /\ worker.reason \in Reason
  /\ submits \in 0..MaxSubmits /\ changes \in 0..MaxChanges /\ faults \in 0..MaxFaults

\* the submissions under a key by those who had the permission while they asked
Rightful(k) == {a \in asked : a.key = k /\ a.had}

\* The bot acts in the name of somebody who asked for it, for a reason given by somebody
\* who asked for it, each with the permission.  What may be switched off, or needs a reason,
\* is on, and has one, as the row was at some time since the bot's cache was filled; what
\* needs the bot's permission, or once more the actor's, had it at some time since the claim.
GatesHold ==
  [][Acting /\ request'[worker.key].status = "completed" =>
       /\ \E a \in Rightful(worker.key) : a.by = worker.actor
       /\ worker.reason # Nobody => \E a \in Rightful(worker.key) : a.reason = worker.reason
       /\ kind \in {"observedRemoval", "caseRemoval"} =>
            \E p \in worker.under : Allows(p, worker.reason)
       /\ kind \in {"openCase", "roleIntake", "userReport"} =>
            \E p \in worker.under : Given(p, worker.reason)
       /\ kind \in {"observedRemoval", "caseRemoval", "cleanup"} => worker.could
       /\ kind \in {"preview", "cleanup", "userReport", "guided"} => worker.had]_vars
=============================================================================
