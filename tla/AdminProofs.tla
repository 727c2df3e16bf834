---------------------------- MODULE AdminProofs ----------------------------
(***************************************************************************)
(* Proofs about what administrators and moderators see and ask for: the      *)
(* dashboard, the commands of the configuration, the live queue and the      *)
(* configuration itself; and that with the parts of GuildProofs all that is   *)
(* kept for a guild is typed, for every value of the constants.              *)
(***************************************************************************)
EXTENDS GuildProofs, Sequences

---------------------------------------------------------------------------
(* The dashboard *)

GateName == {"leave", "policy", "reason", "able", "state", "actor"}
Has(gates, g) == \E i \in 1..Len(gates) : gates[i] = g

WebSession ==
  [at : {"idle", "gates"}, by : Actions!Reason, reason : Actions!Reason, key : 0..MaxKeys,
   todo : Seq(GateName), had : BOOLEAN]
WebRequest ==
  [status : {"none", "queued", "processing", "completed", "failed"}, actor : Actions!Reason,
   reason : Actions!Reason]
WebWork ==
  [key : 0..MaxKeys, actor : Actions!Reason, reason : Actions!Reason, todo : Seq(GateName),
   under : SUBSET Actions!Setting, had : BOOLEAN, could : BOOLEAN]

WebTypes ==
  /\ kind \in Actions!Kinds /\ leave \subseteq Person /\ able \in BOOLEAN
  /\ setting \in recent /\ known \in recent /\ recent \subseteq Actions!Setting
  /\ session \in [Session -> WebSession]
  /\ request \in [Actions!Key -> WebRequest]
  /\ worker \in WebWork
  /\ newestKey \in 0..MaxKeys

\* Whoever has passed the first gate had the permission while the submission was under way.
SessionSure(l) ==
  l.at = "gates" =>
    /\ l.key \in Actions!Key /\ l.by \in Person
    /\ l.by \in leave => l.had
    /\ l.had \/ l.todo = Actions!Gates[kind]
    /\ kind \in Actions!Direct => l.key = 1

\* Somebody with the permission asked for it, and somebody with the permission gave the reason.
AskedFor(key, who, why) ==
  /\ \E a \in Actions!Rightful(key) : a.by = who
  /\ why # Nobody => \E a \in Actions!Rightful(key) : a.reason = why

\* what the handler at work knows by having passed a gate
Vouched(g) ==
  /\ g = "policy" => \E p \in worker.under : Actions!Allows(p, worker.reason)
  /\ g = "reason" => \E p \in worker.under : Actions!Given(p, worker.reason)
  /\ g = "able" => worker.could
  /\ g = "actor" => worker.had

WorkerSure ==
  worker.key # 0 =>
    /\ request[worker.key].status # "none"
    /\ AskedFor(worker.key, worker.actor, worker.reason)
    /\ recent \subseteq worker.under
    /\ able => worker.could
    /\ worker.actor \in leave => worker.had
    /\ \A g \in {"policy", "reason", "able", "actor"} :
         Has(Actions!BotGates[kind], g) => Has(worker.todo, g) \/ Vouched(g)

WebInv ==
  /\ WebTypes
  /\ \A s \in Session : SessionSure(session[s])
  /\ \A k \in Actions!Key :
       request[k].status # "none" => AskedFor(k, request[k].actor, request[k].reason)
  /\ WorkerSure

\* The kinds of requests.
LEMMA KindsOfRequests ==
  Actions!Kinds =
    {"observedDecision", "observedRemoval", "caseDecision", "caseRemoval", "undo", "accounting",
     "openCase", "flag", "reportCase", "operation", "roleIntake", "setup", "userReport",
     "guided", "closeIntake", "preview", "cleanup", "closeReport", "acknowledge"}
BY DEF Actions!Kinds, Actions!Gates

\* Lists of gates.
LEMMA ListsOfGates ==
  ASSUME NEW S, NEW a \in S, NEW b \in S, NEW c \in S, NEW d \in S
  PROVE  /\ <<>> \in Seq(S)
         /\ <<a>> \in Seq(S) /\ <<a>> # <<>> /\ Head(<<a>>) = a /\ Has(<<a>>, a)
         /\ <<a, b>> \in Seq(S) /\ <<a, b>> # <<>> /\ Head(<<a, b>>) = a
         /\ Has(<<a, b>>, a) /\ Has(<<a, b>>, b)
         /\ <<a, b, c>> \in Seq(S) /\ <<a, b, c>> # <<>> /\ Head(<<a, b, c>>) = a
         /\ <<a, b, c, d>> \in Seq(S) /\ <<a, b, c, d>> # <<>> /\ Head(<<a, b, c, d>>) = a
<1>1. <<>> \in Seq(S)
  OBVIOUS
<1>2. <<a>> \in Seq(S) /\ <<a>> # <<>> /\ Head(<<a>>) = a
  OBVIOUS
<1>3. Has(<<a>>, a)
  <2>1. Len(<<a>>) = 1 /\ <<a>>[1] = a
    OBVIOUS
  <2> QED
    BY <2>1 DEF Has
<1>4. <<a, b>> \in Seq(S) /\ <<a, b>> # <<>> /\ Head(<<a, b>>) = a
  OBVIOUS
<1>5. Has(<<a, b>>, a) /\ Has(<<a, b>>, b)
  <2>1. Len(<<a, b>>) = 2 /\ <<a, b>>[1] = a /\ <<a, b>>[2] = b
    OBVIOUS
  <2> QED
    BY <2>1 DEF Has
<1>6. <<a, b, c>> \in Seq(S) /\ <<a, b, c>> # <<>> /\ Head(<<a, b, c>>) = a
  OBVIOUS
<1>7. <<a, b, c, d>> \in Seq(S) /\ <<a, b, c, d>> # <<>> /\ Head(<<a, b, c, d>>) = a
  OBVIOUS
<1> QED
  BY <1>1, <1>2, <1>3, <1>4, <1>5, <1>6, <1>7

\* The dashboard asks for the permission first, whatever the kind.
LEMMA LeaveIsFirst ==
  ASSUME NEW k \in Actions!Kinds
  PROVE  /\ Actions!Gates[k] \in Seq(GateName) /\ Actions!Gates[k] # <<>>
         /\ Head(Actions!Gates[k]) = "leave"
<1>1. \A a, b, c \in GateName :
        /\ <<"leave">> \in Seq(GateName) /\ <<"leave">> # <<>> /\ Head(<<"leave">>) = "leave"
        /\ <<"leave", a>> \in Seq(GateName) /\ <<"leave", a>> # <<>>
        /\ Head(<<"leave", a>>) = "leave"
        /\ <<"leave", a, b>> \in Seq(GateName) /\ <<"leave", a, b>> # <<>>
        /\ Head(<<"leave", a, b>>) = "leave"
        /\ <<"leave", a, b, c>> \in Seq(GateName) /\ <<"leave", a, b, c>> # <<>>
        /\ Head(<<"leave", a, b, c>>) = "leave"
  <2>1. "leave" \in GateName
    BY DEF GateName
  <2> QED
    BY <2>1, ListsOfGates
<1>2. CASE k \in {"observedDecision", "operation", "roleIntake", "setup", "closeReport",
                  "acknowledge"}
  <2>1. Actions!Gates[k] = <<"leave">>
    BY <1>2 DEF Actions!Gates, Actions!ObservedDecision, Actions!Operation, Actions!RoleIntake,
       Actions!SetupRequest, Actions!CloseReport, Actions!Acknowledge
  <2> QED
    BY <1>1, <2>1 DEF GateName
<1>3. CASE k \in {"caseDecision", "undo", "accounting", "flag", "reportCase", "guided",
                  "closeIntake", "preview", "cleanup"}
  <2>1. Actions!Gates[k] = <<"leave", "state">>
    BY <1>3 DEF Actions!Gates, Actions!CaseDecision, Actions!UndoDecision, Actions!Accounting,
       Actions!FlagMember, Actions!ReportCase, Actions!GuidedReport, Actions!CloseIntake,
       Actions!Cleanup
  <2> QED
    BY <1>1, <2>1 DEF GateName
<1>4. CASE k = "userReport"
  <2>1. Actions!Gates[k] = <<"leave", "reason">>
    BY <1>4 DEF Actions!Gates, Actions!UserReport
  <2> QED
    BY <1>1, <2>1 DEF GateName
<1>5. CASE k = "observedRemoval"
  <2>1. Actions!Gates[k] = <<"leave", "policy", "able">>
    BY <1>5 DEF Actions!Gates, Actions!ObservedRemoval
  <2> QED
    BY <1>1, <2>1 DEF GateName
<1>6. CASE k = "caseRemoval"
  <2>1. Actions!Gates[k] = <<"leave", "policy", "able", "state">>
    BY <1>6 DEF Actions!Gates, Actions!CaseRemoval
  <2> QED
    BY <1>1, <2>1 DEF GateName
<1>7. CASE k = "openCase"
  <2>1. Actions!Gates[k] = <<"leave", "state", "reason", "state">>
    BY <1>7 DEF Actions!Gates, Actions!OpenCase
  <2> QED
    BY <1>1, <2>1 DEF GateName
<1> QED
  BY <1>2, <1>3, <1>4, <1>5, <1>6, <1>7, KindsOfRequests

\* What the bot looks at again.
LEMMA BotGatesOfKinds ==
  ASSUME NEW k \in Actions!Kinds
  PROVE  /\ Actions!BotGates[k] \in Seq(GateName)
         /\ k \in {"observedRemoval", "caseRemoval"} =>
              Has(Actions!BotGates[k], "policy") /\ Has(Actions!BotGates[k], "able")
         /\ k \in {"openCase", "roleIntake", "userReport"} => Has(Actions!BotGates[k], "reason")
         /\ k = "cleanup" => Has(Actions!BotGates[k], "able")
         /\ k \in {"preview", "cleanup", "userReport", "guided"} =>
              Has(Actions!BotGates[k], "actor")
<1>0. \A a, b \in GateName :
        /\ <<>> \in Seq(GateName)
        /\ <<a>> \in Seq(GateName) /\ Has(<<a>>, a)
        /\ <<a, b>> \in Seq(GateName) /\ Has(<<a, b>>, a) /\ Has(<<a, b>>, b)
  BY ListsOfGates
<1>1. CASE k \in {"observedDecision", "caseDecision", "undo", "accounting", "flag", "reportCase",
                  "operation", "setup", "closeIntake", "closeReport", "acknowledge"}
  <2>1. Actions!BotGates[k] = <<>>
    BY <1>1 DEF Actions!BotGates, Actions!DecideObserved, Actions!DecideCase, Actions!Exclude,
       Actions!Flag, Actions!Operate, Actions!SetUp, Actions!EndIntake
  <2>2. k \notin {"observedRemoval", "caseRemoval", "openCase", "roleIntake", "userReport",
                  "cleanup", "preview", "guided"}
    BY <1>1
  <2> QED
    BY <2>1, <2>2
<1>2. CASE k \in {"observedRemoval", "caseRemoval"}
  <2>1. Actions!BotGates[k] = <<"policy", "able">>
    BY <1>2 DEF Actions!BotGates, Actions!RemoveObserved, Actions!RemoveFromCase
  <2> QED
    BY <1>0, <1>2, <2>1 DEF GateName
<1>3. CASE k \in {"openCase", "roleIntake"}
  <2>1. Actions!BotGates[k] = <<"reason">>
    BY <1>3 DEF Actions!BotGates, Actions!OpenAdminCase, Actions!TakeInRole
  <2> QED
    BY <1>0, <1>3, <2>1 DEF GateName
<1>4. CASE k \in {"guided", "preview"}
  <2>1. Actions!BotGates[k] = <<"actor">>
    BY <1>4 DEF Actions!BotGates, Actions!StartIntake, Actions!PreviewCleanup
  <2> QED
    BY <1>0, <1>4, <2>1 DEF GateName
<1>5. CASE k = "userReport"
  <2>1. Actions!BotGates[k] = <<"actor", "reason">>
    BY <1>5 DEF Actions!BotGates, Actions!FileReport
  <2> QED
    BY <1>0, <1>5, <2>1 DEF GateName
<1>6. CASE k = "cleanup"
  <2>1. Actions!BotGates[k] = <<"actor", "able">>
    BY <1>6 DEF Actions!BotGates, Actions!ExecuteCleanup
  <2> QED
    BY <1>0, <1>6, <2>1 DEF GateName
<1> QED
  BY <1>1, <1>2, <1>3, <1>4, <1>5, <1>6, KindsOfRequests

\* A gate is passed when it is the first and the rest is left.
LEMMA GatePassed ==
  ASSUME NEW todo \in Seq(GateName), todo # <<>>, NEW g, Has(todo, g), g # Head(todo)
  PROVE  Tail(todo) \in Seq(GateName) /\ Has(Tail(todo), g)
<1>1. PICK i \in 1..Len(todo) : todo[i] = g
  BY DEF Has
<1>2. i # 1
  BY <1>1
<1>3. PICK j \in 1..Len(Tail(todo)) : j = i - 1 /\ Tail(todo)[j] = g
  BY <1>1, <1>2
<1> QED
  BY <1>3 DEF Has

\* What the invariant gives.
LEMMA WebFacts ==
  ASSUME WebInv
  PROVE  /\ kind \in Actions!Kinds /\ leave \subseteq Person /\ able \in BOOLEAN
         /\ setting \in recent /\ known \in recent /\ recent \subseteq Actions!Setting
         /\ session \in [Session -> WebSession] /\ request \in [Actions!Key -> WebRequest]
         /\ worker \in WebWork /\ newestKey \in 0..MaxKeys
         /\ \A s \in Session : session[s] \in WebSession /\ SessionSure(session[s])
         /\ WorkerSure
         /\ MaxKeys \in Nat \ {0} /\ Nobody \notin Person
<1>1. /\ kind \in Actions!Kinds /\ leave \subseteq Person /\ able \in BOOLEAN
      /\ setting \in recent /\ known \in recent /\ recent \subseteq Actions!Setting
      /\ session \in [Session -> WebSession] /\ request \in [Actions!Key -> WebRequest]
      /\ worker \in WebWork /\ newestKey \in 0..MaxKeys
  BY Zenon DEF WebInv, WebTypes
<1>2. (\A s \in Session : SessionSure(session[s])) /\ WorkerSure
  BY Zenon DEF WebInv
<1>3. MaxKeys \in Nat \ {0} /\ Nobody \notin Person
  BY GuildAssumption DEF Actions!WebActionsAssumption
<1>4. \A s \in Session : session[s] \in WebSession
  BY <1>1
<1> QED
  BY <1>1, <1>2, <1>3, <1>4, Zenon

\* The requests were asked for.
RequestsSure ==
  \A k \in Actions!Key :
    request[k].status # "none" => AskedFor(k, request[k].actor, request[k].reason)

\* What was asked for stays so.
LEMMA AskedStays ==
  ASSUME NEW k, NEW who, NEW why, AskedFor(k, who, why), asked \subseteq asked'
  PROVE  AskedFor(k, who, why)'
BY DEF AskedFor, Actions!Rightful

\* A step of one submission keeps the invariant.
LEMMA WebSessionMove ==
  ASSUME WebInv, NEW s \in Session, NEW new \in WebSession,
         session' = [session EXCEPT ![s] = new],
         UNCHANGED <<kind, leave, setting, known, recent, able, worker>>,
         request' \in [Actions!Key -> WebRequest], newestKey' \in 0..MaxKeys,
         asked \subseteq asked', SessionSure(new), RequestsSure',
         \A x \in Actions!Key : request[x].status # "none" => request'[x].status # "none"
  PROVE  WebInv'
<1>1. /\ kind' = kind /\ leave' = leave /\ setting' = setting /\ known' = known
      /\ recent' = recent /\ able' = able /\ worker' = worker
  OBVIOUS
<1>2. session' \in [Session -> WebSession]
  BY WebFacts
<1>3. WebTypes'
  BY <1>1, <1>2, WebFacts, Zenon DEF WebTypes
<1>4. ASSUME NEW t \in Session
      PROVE  SessionSure(session[t])'
  <2>1. SessionSure(session'[t])
    BY WebFacts
  <2> QED
    BY <1>1, <2>1, Zenon DEF SessionSure
<1>5. WorkerSure'
  <2>1. CASE worker.key # 0
    <3>0. worker.key \in Actions!Key
      BY <2>1, WebFacts DEF WebWork, Actions!Key
    <3>1. AskedFor(worker.key, worker.actor, worker.reason) /\ request[worker.key].status # "none"
      BY <2>1, WebFacts DEF WorkerSure
    <3>5. request'[worker'.key].status # "none"
      BY <1>1, <3>0, <3>1
    <3>2. AskedFor(worker.key, worker.actor, worker.reason)'
      BY <1>1, <3>1 DEF AskedFor, Actions!Rightful
    <3>3. /\ recent' \subseteq worker'.under
          /\ able' => worker'.could
          /\ worker'.actor \in leave' => worker'.had
          /\ \A g \in {"policy", "reason", "able", "actor"} :
               Has(Actions!BotGates[kind'], g) => Has(worker'.todo, g) \/ Vouched(g)
      <4>1. WorkerSure
        BY WebFacts
      <4>2. /\ recent \subseteq worker.under
            /\ able => worker.could
            /\ worker.actor \in leave => worker.had
            /\ \A g \in {"policy", "reason", "able", "actor"} :
                 Has(Actions!BotGates[kind], g) => Has(worker.todo, g) \/ Vouched(g)
        BY <2>1, <4>1 DEF WorkerSure
      <4> QED
        BY <1>1, <4>2
    <3>4. \A g : Vouched(g) => Vouched(g)'
      BY <1>1, Zenon DEF Vouched
    <3> QED
      BY <3>2, <3>3, <3>4, <3>5, Zenon DEF WorkerSure
  <2>2. CASE worker.key = 0
    BY <1>1, <2>2, Zenon DEF WorkerSure
  <2> QED
    BY <2>1, <2>2
<1> QED
  BY <1>3, <1>4, <1>5, Zenon DEF WebInv, RequestsSure

\* One that changes nothing but itself.
LEMMA WebSessionOnly ==
  ASSUME WebInv, NEW s \in Session, NEW new \in WebSession,
         session' = [session EXCEPT ![s] = new],
         UNCHANGED <<kind, leave, setting, known, recent, able, worker, request, asked>>,
         newestKey' \in 0..MaxKeys, SessionSure(new)
  PROVE  WebInv'
<1>1. /\ request' \in [Actions!Key -> WebRequest] /\ asked \subseteq asked'
      /\ \A x \in Actions!Key : request[x].status # "none" => request'[x].status # "none"
  BY WebFacts
<1>2. request' = request /\ asked' = asked
  OBVIOUS
<1>3. RequestsSure'
  <2>1. RequestsSure
    BY Zenon DEF WebInv, RequestsSure
  <2> SUFFICES ASSUME NEW k \in Actions!Key, request'[k].status # "none"
               PROVE  AskedFor(k, request[k].actor, request[k].reason)'
    BY DEF RequestsSure
  <2>2. AskedFor(k, request[k].actor, request[k].reason)
    BY <1>2, <2>1 DEF RequestsSure
  <2> QED
    BY <1>2, <2>2 DEF AskedFor, Actions!Rightful
<1> QED
  BY <1>1, <1>3, WebSessionMove

\* No submission.
LEMMA NoWebSession ==
  /\ Actions!NoSession \in WebSession /\ Actions!NoSession.at = "idle"
  /\ SessionSure(Actions!NoSession)
<1>1. Actions!NoSession \in WebSession /\ Actions!NoSession.at = "idle"
  <2>1. <<>> \in Seq(GateName)
    OBVIOUS
  <2>2. Nobody \in Actions!Reason /\ 0 \in 0..MaxKeys
    BY GuildAssumption DEF Actions!Reason, Actions!WebActionsAssumption
  <2> QED
    BY <2>1, <2>2 DEF Actions!NoSession, WebSession
<1> QED
  BY <1>1 DEF SessionSure

\* A submission ends.
LEMMA WebSessionEnds ==
  ASSUME WebInv, NEW s \in Session,
         session' = [session EXCEPT ![s] = Actions!NoSession],
         UNCHANGED <<kind, leave, setting, known, recent, able, worker, request, asked,
                     newestKey>>
  PROVE  WebInv'
<1>1. PICK new \in WebSession : new = Actions!NoSession /\ SessionSure(new)
  BY NoWebSession
<1>2. newestKey' \in 0..MaxKeys
  BY WebFacts
<1> QED
  BY <1>1, <1>2, WebSessionOnly

\* A moderator submits a form.
LEMMA WebSubmits ==
  ASSUME WebInv, NEW s \in Session, Actions!Submit(s)
  PROVE  WebInv'
<1>1. PICK by \in Person, why \in Actions!Reason :
        \E k \in Actions!KeysOf(by) :
          /\ session' = [session EXCEPT ![s] =
               [at |-> "gates", by |-> by, reason |-> why, key |-> k,
                todo |-> Actions!Gates[kind], had |-> by \in leave]]
          /\ newestKey' = IF k > newestKey THEN k ELSE newestKey
  BY DEF Actions!Submit, Actions!Reason
<1>2. PICK k \in Actions!KeysOf(by) :
        /\ session' = [session EXCEPT ![s] =
             [at |-> "gates", by |-> by, reason |-> why, key |-> k,
              todo |-> Actions!Gates[kind], had |-> by \in leave]]
        /\ newestKey' = IF k > newestKey THEN k ELSE newestKey
  BY <1>1
<1>3. UNCHANGED <<kind, leave, setting, known, recent, able, worker, request, asked>>
  BY DEF Actions!Submit, Actions!world
<1>4. k \in Actions!Key /\ (kind \in Actions!Direct => k = 1)
  <2>1. 1 \in Actions!Key
    BY WebFacts DEF Actions!Key
  <2>2. Actions!Direct \subseteq Actions!FixedKey
    BY DEF Actions!FixedKey
  <2> QED
    BY <2>1, <2>2 DEF Actions!KeysOf, Actions!OwnKeys
<1>5. k \in 0..MaxKeys /\ newestKey' \in 0..MaxKeys
  BY <1>2, <1>4, WebFacts DEF Actions!Key
<1>6. PICK had \in BOOLEAN : had <=> by \in leave
  OBVIOUS
<1>7. (by \in leave) = had
  BY <1>6
<1>8. PICK gates \in Seq(GateName) : gates = Actions!Gates[kind]
  BY LeaveIsFirst, WebFacts
<1> DEFINE new == [at |-> "gates", by |-> by, reason |-> why, key |-> k, todo |-> gates,
                   had |-> had]
<1>9. session' = [session EXCEPT ![s] = new]
  BY <1>2, <1>7, <1>8
<1>20. new \in WebSession
  <2>1. by \in Actions!Reason
    BY DEF Actions!Reason
  <2> QED
    BY <1>5, <2>1 DEF WebSession
<1>21. SessionSure(new)
  BY <1>4, <1>6, <1>8 DEF SessionSure
<1> HIDE DEF new
<1> QED
  BY <1>3, <1>5, <1>9, <1>20, <1>21, WebSessionOnly

\* A gate is passed.
LEMMA WebPasses ==
  ASSUME WebInv, NEW s \in Session, Actions!Pass(s)
  PROVE  WebInv'
<1> DEFINE l == session[s]
<1>1. /\ l \in WebSession /\ SessionSure(l) /\ l.at = "gates" /\ l.todo # <<>>
      /\ Actions!Passes(s, Head(l.todo))
      /\ UNCHANGED <<kind, leave, setting, known, recent, able, worker, request, asked, newestKey>>
  BY WebFacts DEF Actions!Pass, Actions!world
<1>2. session' = [session EXCEPT ![s] = [l EXCEPT !.todo = Tail(l.todo)]]
  BY WebFacts DEF Actions!Pass
<1>3. l.todo \in Seq(GateName)
  BY <1>1 DEF WebSession
<1>4. Tail(l.todo) \in Seq(GateName)
  BY <1>1, <1>3
<1>5. PICK new \in WebSession :
        /\ new = [l EXCEPT !.todo = Tail(l.todo)]
        /\ new.at = l.at /\ new.by = l.by /\ new.key = l.key
        /\ new.had = l.had
  <2> DEFINE one == [l EXCEPT !.todo = Tail(l.todo)]
  <2>1. one \in WebSession
    BY <1>1, <1>4 DEF WebSession
  <2>2. one.at = l.at /\ one.by = l.by /\ one.key = l.key
    BY <1>1 DEF WebSession
  <2>3. one.had = l.had
    BY <1>1 DEF WebSession
  <2>4. one = [l EXCEPT !.todo = Tail(l.todo)]
    OBVIOUS
  <2> HIDE DEF one
  <2> QED
    BY <2>1, <2>2, <2>3, <2>4
<1>6. l.had
  <2>1. /\ l.by \in leave => l.had
        /\ l.had \/ l.todo = Actions!Gates[kind]
    BY <1>1, Zenon DEF SessionSure
  <2>2. ASSUME l.todo = Actions!Gates[kind]
        PROVE  l.by \in leave
    <3>1. Head(l.todo) = "leave"
      BY <2>2, LeaveIsFirst, WebFacts
    <3> QED
      BY <1>1, <3>1 DEF Actions!Passes
  <2> QED
    BY <2>1, <2>2, Zenon
<1>7. SessionSure(new)
  <2>1. /\ l.key \in Actions!Key /\ l.by \in Person
        /\ kind \in Actions!Direct => l.key = 1
    BY <1>1, Zenon DEF SessionSure
  <2>2. new.had
    BY <1>5, <1>6, Zenon
  <2> QED
    BY <1>5, <2>1, <2>2, Zenon DEF SessionSure
<1>8. newestKey' \in 0..MaxKeys
  BY <1>1, WebFacts
<1> QED
  BY <1>1, <1>2, <1>5, <1>7, <1>8, WebSessionOnly

\* A submission is turned down, or fails.
LEMMA WebRefuses ==
  ASSUME WebInv, NEW s \in Session, Actions!Refuse(s) \/ Actions!SubmitFails(s)
  PROVE  WebInv'
<1>1. /\ session' = [session EXCEPT ![s] = Actions!NoSession]
      /\ UNCHANGED <<kind, leave, setting, known, recent, able, worker, request, asked,
                     newestKey>>
  BY DEF Actions!Refuse, Actions!SubmitFails, Actions!world
<1> QED
  BY <1>1, WebSessionEnds

\* Whoever has passed all gates had the permission.
LEMMA WebPassed ==
  ASSUME WebInv, NEW s \in Session, Actions!Passed(s)
  PROVE  /\ session[s].key \in Actions!Key /\ session[s].by \in Person /\ session[s].had
         /\ session[s].reason \in Actions!Reason
         /\ kind \in Actions!Direct => session[s].key = 1
<1>1. session[s].at = "gates" /\ session[s].todo = <<>>
  BY DEF Actions!Passed
<1>2. /\ session[s].key \in Actions!Key /\ session[s].by \in Person
      /\ session[s].had \/ session[s].todo = Actions!Gates[kind]
      /\ kind \in Actions!Direct => session[s].key = 1
  BY <1>1, WebFacts, Zenon DEF SessionSure
<1>3. Actions!Gates[kind] # <<>>
  BY LeaveIsFirst, WebFacts
<1>4. session[s].had
  BY <1>1, <1>2, <1>3, Zenon
<1>5. session[s].reason \in Actions!Reason
  BY WebFacts DEF WebSession
<1> QED
  BY <1>2, <1>4, <1>5, Zenon

\* A submission that has passed reaches the table.
LEMMA WebReaches ==
  ASSUME WebInv, NEW s \in Session, Actions!Passed(s), NEW k \in Actions!Key,
         k = session[s].key, NEW new \in WebRequest, new.status # "none",
         request' = [request EXCEPT ![k] = new],
         asked' = asked \cup {Actions!Submission(s)},
         session' = [session EXCEPT ![s] = Actions!NoSession],
         UNCHANGED <<kind, leave, setting, known, recent, able, worker, newestKey>>,
         \/ new.actor = session[s].by
         \/ request[k].status # "none" /\ new.actor = request[k].actor,
         \/ new.reason = Nobody
         \/ new.reason = session[s].reason
         \/ request[k].status # "none" /\ new.reason = request[k].reason
  PROVE  WebInv'
<1> DEFINE mine == Actions!Submission(s)
<1>1. mine \in asked' /\ asked \subseteq asked'
  OBVIOUS
<1>2. mine.key = k /\ mine.by = session[s].by /\ mine.reason = session[s].reason
  BY DEF Actions!Submission
<1>3. mine.had
  <2>1. mine.had = session[s].had
    BY DEF Actions!Submission
  <2> QED
    BY <2>1, WebPassed, Zenon
<1>4. mine \in Actions!Rightful(k)'
  BY <1>1, <1>2, <1>3 DEF Actions!Rightful
<1> HIDE DEF mine
<1>5. request[k].status # "none" => AskedFor(k, request[k].actor, request[k].reason)
  BY DEF WebInv
<1>6. Actions!Rightful(k) \subseteq Actions!Rightful(k)'
  BY <1>1 DEF Actions!Rightful
<1>7. AskedFor(k, new.actor, new.reason)'
  <2>1. \E a \in Actions!Rightful(k)' : a.by = new.actor
    BY <1>2, <1>4, <1>5, <1>6 DEF AskedFor
  <2>2. new.reason # Nobody => \E a \in Actions!Rightful(k)' : a.reason = new.reason
    BY <1>2, <1>4, <1>5, <1>6 DEF AskedFor
  <2> QED
    BY <2>1, <2>2 DEF AskedFor
<1>8. /\ request' \in [Actions!Key -> WebRequest] /\ request'[k] = new
      /\ \A x \in Actions!Key : x # k => request'[x] = request[x]
  BY WebFacts
<1>12. \A x \in Actions!Key : request[x].status # "none" => request'[x].status # "none"
  BY <1>8
<1>9. RequestsSure'
  <2> SUFFICES ASSUME NEW x \in Actions!Key, request'[x].status # "none"
               PROVE  AskedFor(x, request[x].actor, request[x].reason)'
    BY DEF RequestsSure
  <2>1. CASE x = k
    BY <1>7, <1>8, <2>1 DEF AskedFor
  <2>2. CASE x # k
    <3>1. request'[x] = request[x]
      BY <1>8, <2>2
    <3>2. AskedFor(x, request[x].actor, request[x].reason)
      BY <3>1 DEF WebInv
    <3>3. Actions!Rightful(x) \subseteq Actions!Rightful(x)'
      BY <1>1 DEF Actions!Rightful
    <3> QED
      BY <3>1, <3>2, <3>3 DEF AskedFor
  <2> QED
    BY <2>1, <2>2
<1>10. PICK rest \in WebSession : rest = Actions!NoSession /\ SessionSure(rest)
  BY NoWebSession
<1>11. newestKey' \in 0..MaxKeys
  BY WebFacts
<1> QED
  BY <1>1, <1>8, <1>9, <1>10, <1>11, <1>12, WebSessionMove

\* A row of the table.
IsRow(new, st, who, why) ==
  /\ new = [status |-> st, actor |-> who, reason |-> why]
  /\ new.status = st /\ new.actor = who /\ new.reason = why

\* There is such a row.
LEMMA RowOfTable ==
  ASSUME NEW st \in {"queued", "processing", "completed"}, NEW who \in Actions!Reason,
         NEW why \in Actions!Reason
  PROVE  \E new \in WebRequest : IsRow(new, st, who, why)
<1> DEFINE new == [status |-> st, actor |-> who, reason |-> why]
<1>1. new \in WebRequest /\ new.status = st /\ new.actor = who /\ new.reason = why
  BY DEF WebRequest
<1>2. new = [status |-> st, actor |-> who, reason |-> why]
  OBVIOUS
<1> HIDE DEF new
<1> QED
  BY <1>1, <1>2 DEF IsRow

\* A request is made by a submission, or its row updated.
LEMMA WebUpserts ==
  ASSUME WebInv, NEW s \in Session, Actions!Upsert(s)
  PROVE  WebInv'
<1>1. /\ Actions!Passed(s)
      /\ request' = [request EXCEPT ![session[s].key] =
           Actions!Upserted(request[session[s].key], s)]
      /\ asked' = asked \cup {Actions!Submission(s)}
      /\ session' = [session EXCEPT ![s] = Actions!NoSession]
      /\ UNCHANGED <<kind, leave, setting, known, recent, able, worker, newestKey>>
  BY WebFacts DEF Actions!Upsert, Actions!world
<1>2. PICK k \in Actions!Key : k = session[s].key
  BY <1>1, WebPassed
<1>3. /\ session[s].by \in Actions!Reason /\ session[s].reason \in Actions!Reason
      /\ request[k] \in WebRequest
  BY <1>1, <1>2, WebPassed, WebFacts DEF Actions!Reason
<1>4. CASE request[k].status = "none"
  <2>1. PICK new \in WebRequest : IsRow(new, "queued", session[s].by, session[s].reason)
    BY <1>3, RowOfTable
  <2>2. request' = [request EXCEPT ![k] = new]
    BY <1>1, <1>2, <1>4, <2>1 DEF Actions!Upserted, IsRow
  <2>3. new.status # "none" /\ new.actor = session[s].by /\ new.reason = session[s].reason
    BY <2>1 DEF IsRow
  <2> QED
    BY <1>1, <1>2, <2>2, <2>3, WebReaches
<1>5. CASE request[k].status # "none" /\ kind = "cleanup"
  <2>1. PICK new \in WebRequest : new = request[k]
    BY <1>3
  <2>2. request' = [request EXCEPT ![k] = new]
    BY <1>1, <1>2, <1>5, <2>1 DEF Actions!Upserted
  <2> QED
    BY <1>1, <1>2, <1>5, <2>1, <2>2, WebReaches
<1>6. CASE request[k].status # "none" /\ kind # "cleanup"
  <2> DEFINE status == IF request[k].status \in {"processing", "completed"}
                       THEN request[k].status ELSE "queued"
             why == Actions!Merged(request[k], s)
  <2>1. status \in {"queued", "processing", "completed"}
    OBVIOUS
  <2>2. why = session[s].reason \/ why = request[k].reason
    BY DEF Actions!Merged
  <2>3. request[k].actor \in Actions!Reason /\ why \in Actions!Reason
    BY <1>3, <2>2 DEF WebRequest
  <2>4. Actions!Upserted(request[k], s) = [status |-> status, actor |-> request[k].actor,
                                           reason |-> why]
    BY <1>6 DEF Actions!Upserted
  <2> HIDE DEF status, why
  <2>5. PICK new \in WebRequest : IsRow(new, status, request[k].actor, why)
    BY <2>1, <2>3, RowOfTable
  <2>6. request' = [request EXCEPT ![k] = new]
    BY <1>1, <1>2, <2>4, <2>5 DEF IsRow
  <2>7. new.status # "none" /\ new.actor = request[k].actor /\ new.reason = why
    BY <2>1, <2>5 DEF IsRow
  <2> QED
    BY <1>1, <1>2, <1>6, <2>2, <2>6, <2>7, WebReaches
<1> QED
  BY <1>4, <1>5, <1>6

\* The dashboard writes itself.
LEMMA WebWrites ==
  ASSUME WebInv, NEW s \in Session, Actions!WriteDirectly(s)
  PROVE  WebInv'
<1>1. /\ Actions!Passed(s) /\ kind \in Actions!Direct
      /\ request' = [request EXCEPT ![1] =
           IF request[1].status = "completed" THEN request[1]
           ELSE [status |-> "completed", actor |-> session[s].by, reason |-> Nobody]]
      /\ asked' = asked \cup {Actions!Submission(s)}
      /\ session' = [session EXCEPT ![s] = Actions!NoSession]
      /\ UNCHANGED <<kind, leave, setting, known, recent, able, worker, newestKey>>
  BY WebFacts DEF Actions!WriteDirectly, Actions!world
<1>2. PICK k \in Actions!Key : k = session[s].key /\ k = 1
  BY <1>1, WebPassed
<1>3. /\ session[s].by \in Actions!Reason /\ Nobody \in Actions!Reason
      /\ request[k] \in WebRequest
  BY <1>1, <1>2, WebPassed, WebFacts DEF Actions!Reason
<1>4. /\ Actions!Passed(s) /\ asked' = asked \cup {Actions!Submission(s)}
      /\ session' = [session EXCEPT ![s] = Actions!NoSession]
      /\ UNCHANGED <<kind, leave, setting, known, recent, able, worker, newestKey>>
      /\ k = session[s].key
  BY <1>1, <1>2
<1>5. CASE request[k].status = "completed"
  <2>1. PICK new \in WebRequest : new = request[k]
    BY <1>3
  <2>2. request' = [request EXCEPT ![k] = new]
    BY <1>1, <1>2, <1>5, <2>1
  <2>3. new.status # "none"
    BY <1>5, <2>1
  <2> QED
    BY <1>5, <1>4, <2>1, <2>2, <2>3, WebReaches
<1>6. CASE request[k].status # "completed"
  <2>1. PICK new \in WebRequest : IsRow(new, "completed", session[s].by, Nobody)
    BY <1>3, RowOfTable
  <2>2. request' = [request EXCEPT ![k] = new]
    BY <1>1, <1>2, <1>6, <2>1 DEF IsRow
  <2>3. new.status # "none" /\ new.actor = session[s].by /\ new.reason = Nobody
    BY <2>1 DEF IsRow
  <2> QED
    BY <1>4, <2>2, <2>3, WebReaches
<1> QED
  BY <1>5, <1>6

\* A step of the bot keeps the invariant.
LEMMA WebWorkerMove ==
  ASSUME WebInv, NEW new \in WebWork, worker' = new,
         UNCHANGED <<kind, leave, setting, known, recent, able, session, newestKey, asked>>,
         \/ request' = request
         \/ \E k \in Actions!Key, st \in {"processing", "completed", "failed"} :
              request[k].status # "none" /\ request' = [request EXCEPT ![k].status = st],
         WorkerSure'
  PROVE  WebInv'
<1>1. /\ kind' = kind /\ leave' = leave /\ setting' = setting /\ known' = known
      /\ recent' = recent /\ able' = able /\ session' = session /\ newestKey' = newestKey
      /\ asked' = asked
  OBVIOUS
<1>2. /\ request' \in [Actions!Key -> WebRequest]
      /\ \A x \in Actions!Key :
           /\ request'[x].actor = request[x].actor /\ request'[x].reason = request[x].reason
           /\ request'[x].status # "none" => request[x].status # "none"
  <2>1. CASE request' = request
    BY <2>1, WebFacts
  <2>2. CASE request' # request
    <3>1. PICK k \in Actions!Key, st \in {"processing", "completed", "failed"} :
            request[k].status # "none" /\ request' = [request EXCEPT ![k].status = st]
      BY <2>2
    <3> DEFINE row2 == [request[k] EXCEPT !.status = st]
    <3>2. /\ row2 \in WebRequest /\ row2.actor = request[k].actor
          /\ row2.reason = request[k].reason
      BY WebFacts DEF WebRequest
    <3>3. request' = [request EXCEPT ![k] = row2]
      BY <3>1, WebFacts
    <3> HIDE DEF row2
    <3>4. \A x \in Actions!Key : request'[x] = IF x = k THEN row2 ELSE request[x]
      BY <3>2, <3>3, WebFacts
    <3>5. request' \in [Actions!Key -> WebRequest]
      BY <3>2, <3>3, WebFacts
    <3> QED
      BY <3>1, <3>2, <3>4, <3>5
  <2> QED
    BY <2>1, <2>2
<1>3. WebTypes'
  BY <1>1, <1>2, WebFacts, Zenon DEF WebTypes
<1>5. \A s \in Session : SessionSure(session[s])'
  <2>1. \A s \in Session : SessionSure(session[s])
    BY WebFacts
  <2> QED
    BY <1>1, <2>1 DEF SessionSure
<1>6. RequestsSure'
  <2> SUFFICES ASSUME NEW x \in Actions!Key, request'[x].status # "none"
               PROVE  AskedFor(x, request[x].actor, request[x].reason)'
    BY DEF RequestsSure
  <2>1. AskedFor(x, request[x].actor, request[x].reason)
    BY <1>2 DEF WebInv
  <2> QED
    BY <1>1, <1>2, <2>1 DEF AskedFor, Actions!Rightful
<1> QED
  BY <1>3, <1>5, <1>6, Zenon DEF WebInv, RequestsSure

\* The bot is at rest.
LEMMA BotRests ==
  ASSUME WebInv, worker' = Actions!NoWork,
         UNCHANGED <<kind, leave, setting, known, recent, able, session, newestKey, asked>>,
         \/ request' = request
         \/ \E k \in Actions!Key, st \in {"processing", "completed", "failed"} :
              request[k].status # "none" /\ request' = [request EXCEPT ![k].status = st]
  PROVE  WebInv'
<1>1. Actions!NoWork \in WebWork /\ Actions!NoWork.key = 0
  <2>1. <<>> \in Seq(GateName)
    OBVIOUS
  <2>2. Nobody \in Actions!Reason /\ 0 \in 0..MaxKeys
    BY WebFacts DEF Actions!Reason
  <2> QED
    BY <2>1, <2>2 DEF Actions!NoWork, WebWork
<1>2. PICK new \in WebWork : new = Actions!NoWork /\ new.key = 0
  BY <1>1
<1>3. WorkerSure'
  BY <1>2, Zenon DEF WorkerSure
<1> QED
  BY <1>2, <1>3, WebWorkerMove

\* The bot claims a request.
LEMMA BotClaims ==
  ASSUME WebInv, Actions!Claim
  PROVE  WebInv'
<1>1. UNCHANGED <<kind, leave, setting, known, recent, able, session, newestKey, asked>>
  BY DEF Actions!Claim, Actions!world
<1>2. PICK k \in Actions!Key :
        /\ request[k].status # "none"
        /\ request' = [request EXCEPT ![k].status = "processing"]
        /\ worker' = [key |-> k, actor |-> request[k].actor, reason |-> request[k].reason,
                      todo |-> Actions!BotGates[kind], under |-> recent,
                      had |-> request[k].actor \in leave, could |-> able]
  BY DEF Actions!Claim
<1>3. /\ AskedFor(k, request[k].actor, request[k].reason)
      /\ request[k].actor \in Actions!Reason /\ request[k].reason \in Actions!Reason
  BY <1>2, WebFacts DEF WebInv, WebRequest
<1>4. PICK had \in BOOLEAN : had <=> request[k].actor \in leave
  OBVIOUS
<1>5. (request[k].actor \in leave) = had
  BY <1>4
<1>6. PICK gates \in Seq(GateName) : gates = Actions!BotGates[kind]
  BY BotGatesOfKinds, WebFacts
<1>7. PICK could \in BOOLEAN : could = able
  BY WebFacts
<1>8. PICK who \in Actions!Reason, why \in Actions!Reason, under \in SUBSET Actions!Setting :
        who = request[k].actor /\ why = request[k].reason /\ under = recent
  BY <1>3, WebFacts
<1> DEFINE new == [key |-> k, actor |-> who, reason |-> why, todo |-> gates, under |-> under,
                   had |-> had, could |-> could]
<1>9. worker' = new
  BY <1>2, <1>5, <1>6, <1>7, <1>8
<1>10. new \in WebWork
  <2>1. k \in 0..MaxKeys
    BY WebFacts DEF Actions!Key
  <2> QED
    BY <2>1 DEF WebWork
<1>11. /\ new.key = k /\ new.actor = who /\ new.reason = why /\ new.todo = gates
       /\ new.under = under
  OBVIOUS
<1>12. new.had = had /\ new.could = could
  OBVIOUS
<1> HIDE DEF new
<1>13. WorkerSure'
  <2>1. AskedFor(new.key, new.actor, new.reason)'
    BY <1>1, <1>3, <1>8, <1>11 DEF AskedFor, Actions!Rightful
  <2>2. recent' \subseteq new.under
    BY <1>1, <1>8, <1>11
  <2>3. able' => new.could
    <3>1. able' = able
      BY <1>1
    <3>2. able => could
      BY <1>7
    <3> QED
      BY <1>12, <3>1, <3>2, Zenon
  <2>4. new.actor \in leave' => new.had
    <3>1. new.actor \in leave' => had
      BY <1>1, <1>4, <1>8, <1>11
    <3> QED
      BY <1>12, <3>1, Zenon
  <2>5. \A g \in {"policy", "reason", "able", "actor"} :
          Has(Actions!BotGates[kind'], g) => Has(new.todo, g)
    BY <1>1, <1>6, <1>11
  <2>6. request'[new.key].status # "none"
    BY <1>2, <1>11, WebFacts DEF WebRequest
  <2> QED
    BY <1>9, <2>1, <2>2, <2>3, <2>4, <2>5, <2>6, Zenon DEF WorkerSure
<1> QED
  BY <1>1, <1>2, <1>9, <1>10, <1>13, WebWorkerMove

\* What the bot finds at a gate, is so.
LEMMA BotFinds ==
  ASSUME WebInv, worker.key # 0, NEW g, Actions!WorkerPasses(g)
  PROVE  Vouched(g)
<1>1. WorkerSure /\ known \in recent
  BY WebFacts
<1>2. /\ recent \subseteq worker.under
      /\ able => worker.could
      /\ worker.actor \in leave => worker.had
  BY <1>1, Zenon DEF WorkerSure
<1>3. known \in worker.under
  BY <1>1, <1>2
<1>4. /\ g = "policy" => \E p \in worker.under : Actions!Allows(p, worker.reason)
      /\ g = "reason" => \E p \in worker.under : Actions!Given(p, worker.reason)
  BY <1>3 DEF Actions!WorkerPasses
<1>5. g = "able" => worker.could
  BY <1>2, Zenon DEF Actions!WorkerPasses
<1>6. g = "actor" => worker.had
  BY <1>2, Zenon DEF Actions!WorkerPasses
<1> QED
  BY <1>4, <1>5, <1>6, Zenon DEF Vouched

\* The bot passes a gate.
LEMMA BotPasses ==
  ASSUME WebInv, Actions!WorkerPass
  PROVE  WebInv'
<1>1. /\ worker.key # 0 /\ worker.todo # <<>> /\ Actions!WorkerPasses(Head(worker.todo))
      /\ UNCHANGED <<kind, leave, setting, known, recent, able, session, newestKey, asked, request>>
      /\ worker \in WebWork /\ WorkerSure
  BY WebFacts DEF Actions!WorkerPass, Actions!Idle, Actions!world
<1>2. worker' = [worker EXCEPT !.todo = Tail(worker.todo)]
  BY WebFacts DEF Actions!WorkerPass
<1>3. worker.todo \in Seq(GateName) /\ Tail(worker.todo) \in Seq(GateName)
  BY <1>1 DEF WebWork
<1>4. worker' \in WebWork
  BY <1>1, <1>2, <1>3 DEF WebWork
<1>5. /\ worker'.key = worker.key /\ worker'.actor = worker.actor
      /\ worker'.reason = worker.reason /\ worker'.todo = Tail(worker.todo)
      /\ worker'.under = worker.under
  BY <1>1, <1>2 DEF WebWork
<1>6. worker'.had = worker.had /\ worker'.could = worker.could
  BY <1>1, <1>2 DEF WebWork
<1>7. WorkerSure'
  <2>1. /\ request[worker.key].status # "none"
        /\ AskedFor(worker.key, worker.actor, worker.reason)
        /\ recent \subseteq worker.under
        /\ able => worker.could
        /\ worker.actor \in leave => worker.had
        /\ \A g \in {"policy", "reason", "able", "actor"} :
             Has(Actions!BotGates[kind], g) => Has(worker.todo, g) \/ Vouched(g)
    BY <1>1, Zenon DEF WorkerSure
  <2>2. AskedFor(worker.key, worker.actor, worker.reason)'
    BY <1>1, <1>5, <2>1 DEF AskedFor, Actions!Rightful
  <2>3. recent' \subseteq worker'.under
    BY <1>1, <1>5, <2>1
  <2>4. (able' => worker'.could) /\ (worker'.actor \in leave' => worker'.had)
    <3>1. able' = able /\ leave' = leave
      BY <1>1
    <3> QED
      BY <1>5, <1>6, <2>1, <3>1, Zenon
  <2>5. ASSUME NEW g \in {"policy", "reason", "able", "actor"}, Has(Actions!BotGates[kind'], g)
        PROVE  Has(worker'.todo, g) \/ Vouched(g)'
    <3>1. Vouched(g) => Vouched(g)'
      BY <1>5, <1>6, Zenon DEF Vouched
    <3>2. Has(worker.todo, g) \/ Vouched(g)
      BY <1>1, <2>1, <2>5
    <3>3. CASE Has(worker.todo, g) /\ g # Head(worker.todo)
      BY <1>1, <1>3, <1>5, <3>3, GatePassed
    <3>4. CASE g = Head(worker.todo)
      BY <1>1, <3>1, <3>4, BotFinds
    <3> QED
      BY <3>1, <3>2, <3>3, <3>4
  <2>6. request'[worker'.key].status # "none"
    BY <1>1, <1>5, <2>1
  <2> QED
    BY <2>2, <2>3, <2>4, <2>5, <2>6, Zenon DEF WorkerSure
<1>8. PICK new \in WebWork : worker' = new
  BY <1>4
<1> QED
  BY <1>1, <1>7, <1>8, WebWorkerMove

\* The bot answers, or its process ends.
LEMMA BotEnds ==
  ASSUME WebInv, Actions!WorkerFails \/ Actions!ActAndComplete \/ Actions!Crash
  PROVE  WebInv'
<1>1. /\ worker.key # 0 /\ worker' = Actions!NoWork
      /\ UNCHANGED <<kind, leave, setting, known, recent, able, session, newestKey, asked>>
  BY DEF Actions!WorkerFails, Actions!ActAndComplete, Actions!Crash, Actions!Answer,
     Actions!Idle, Actions!world
<1>2. worker.key \in Actions!Key /\ request[worker.key].status # "none"
  <2>1. worker.key \in Actions!Key
    BY <1>1, WebFacts DEF WebWork, Actions!Key
  <2>2. request[worker.key].status # "none"
    BY <1>1, WebFacts DEF WorkerSure
  <2> QED
    BY <2>1, <2>2
<1>3. \/ request' = request
      \/ \E st \in {"completed", "failed"} :
           request' = [request EXCEPT ![worker.key].status = st]
  BY DEF Actions!WorkerFails, Actions!ActAndComplete, Actions!Crash, Actions!Answer
<1> QED
  BY <1>1, <1>2, <1>3, BotRests

\* The sweep fails what was left.
LEMMA BotSweeps ==
  ASSUME WebInv, Actions!Sweep
  PROVE  WebInv'
<1>1. /\ worker.key = 0 /\ worker' = worker
      /\ UNCHANGED <<kind, leave, setting, known, recent, able, session, newestKey, asked>>
  BY DEF Actions!Sweep, Actions!Idle, Actions!world
<1>2. \E k \in Actions!Key, st \in {"processing", "completed", "failed"} :
        request[k].status # "none" /\ request' = [request EXCEPT ![k].status = st]
  BY DEF Actions!Sweep
<1>3. PICK new \in WebWork : worker' = new /\ new.key = 0
  BY <1>1, WebFacts
<1>4. WorkerSure'
  BY <1>3, Zenon DEF WorkerSure
<1> QED
  BY <1>1, <1>2, <1>3, <1>4, WebWorkerMove

\* What a change of permissions or settings does to the world.
LEMMA WorldChanges ==
  ASSUME WebInv, Actions!Change
  PROVE  /\ leave' \subseteq Person /\ able' \in BOOLEAN
         /\ setting' \in recent' /\ recent \subseteq recent' /\ recent' \subseteq Actions!Setting
         /\ UNCHANGED <<kind, known, request, newestKey, asked>>
<1>1. UNCHANGED <<kind, known, request, newestKey, asked>>
  BY DEF Actions!Change
<1>2. CASE (\E p \in Person : leave' = IF p \in leave THEN leave \ {p} ELSE leave \cup {p})
           /\ UNCHANGED <<setting, recent, able>>
  <2>1. leave' \subseteq Person
    BY <1>2, WebFacts
  <2>2. setting' = setting /\ recent' = recent /\ able' = able
    BY <1>2
  <2> QED
    BY <1>1, <2>1, <2>2, WebFacts, Zenon
<1>3. CASE able' = ~able /\ UNCHANGED <<leave, setting, recent>>
  <2>1. leave' = leave /\ setting' = setting /\ recent' = recent
    BY <1>3
  <2>2. able' \in BOOLEAN
    BY <1>3, WebFacts
  <2> QED
    BY <1>1, <2>1, <2>2, WebFacts, Zenon
<1>4. CASE (\E new \in Actions!Setting \ {setting} : setting' = new /\ recent' = recent \cup {new})
           /\ UNCHANGED <<leave, able>>
  <2>1. /\ setting' \in recent' /\ recent \subseteq recent' /\ recent' \subseteq Actions!Setting
    BY <1>4, WebFacts
  <2>2. leave' = leave /\ able' = able
    BY <1>4
  <2> QED
    BY <1>1, <2>1, <2>2, WebFacts, Zenon
<1> QED
  BY <1>2, <1>3, <1>4 DEF Actions!Change

\* A submission sees a change.
LEMMA SessionSees ==
  ASSUME WebInv, NEW s \in Session,
         session' = [t \in Session |->
           IF session[t].by \in leave' THEN [session[t] EXCEPT !.had = TRUE] ELSE session[t]],
         kind' = kind
  PROVE  session'[s] \in WebSession /\ SessionSure(session[s])'
<1>1. session[s] \in WebSession /\ SessionSure(session[s])
  BY WebFacts
<1>2. CASE session[s].by \in leave'
  <2> DEFINE new == [session[s] EXCEPT !.had = TRUE]
  <2>1. /\ new \in WebSession /\ new.at = session[s].at /\ new.by = session[s].by
        /\ new.key = session[s].key /\ new.todo = session[s].todo
    BY <1>1 DEF WebSession
  <2>2. new.had = TRUE
    BY <1>1 DEF WebSession
  <2>3. session'[s] = new
    BY <1>2
  <2> HIDE DEF new
  <2>4. new.had
    BY <2>2
  <2>5. SessionSure(session[s])'
    BY <1>1, <2>1, <2>3, <2>4, Zenon DEF SessionSure
  <2> QED
    BY <2>1, <2>3, <2>5, Zenon
<1>3. CASE session[s].by \notin leave'
  <2>1. session'[s] = session[s]
    BY <1>3
  <2>2. SessionSure(session[s])'
    BY <1>1, <1>3, <2>1, Zenon DEF SessionSure
  <2> QED
    BY <1>1, <2>1, <2>2, Zenon
<1> QED
  BY <1>2, <1>3

\* The handler at work sees a change.
LEMMA WorkerSees ==
  ASSUME WebInv, Actions!Change, worker.key # 0
  PROVE  worker' \in WebWork /\ WorkerSure'
<1>1. /\ worker \in WebWork /\ WorkerSure /\ recent \subseteq recent'
      /\ recent' \subseteq Actions!Setting /\ able' \in BOOLEAN
      /\ kind' = kind /\ request' = request /\ asked' = asked
  BY WebFacts, WorldChanges
<1>2. worker' = [worker EXCEPT !.had = worker.had \/ worker.actor \in leave',
                               !.could = worker.could \/ able',
                               !.under = worker.under \cup recent']
  BY <1>1 DEF Actions!Change, Actions!Seen, Actions!Idle
<1>3. PICK had \in BOOLEAN : had <=> (worker.had \/ worker.actor \in leave')
  OBVIOUS
<1>4. PICK could \in BOOLEAN : could <=> (worker.could \/ able')
  OBVIOUS
<1>5. (worker.had \/ worker.actor \in leave') = had /\ (worker.could \/ able') = could
  BY <1>3, <1>4, Zenon
<1>6. PICK under \in SUBSET Actions!Setting : under = worker.under \cup recent'
  BY <1>1 DEF WebWork
<1> DEFINE one == [worker EXCEPT !.had = had]
           two == [one EXCEPT !.could = could]
           new == [two EXCEPT !.under = under]
<1>7. worker' = new
  BY <1>1, <1>2, <1>5, <1>6 DEF WebWork
<1>8. /\ one \in WebWork /\ one.key = worker.key /\ one.actor = worker.actor
      /\ one.reason = worker.reason /\ one.todo = worker.todo /\ one.had = had
  BY <1>1 DEF WebWork
<1> HIDE DEF one
<1>9. /\ two \in WebWork /\ two.key = worker.key /\ two.actor = worker.actor
      /\ two.reason = worker.reason /\ two.todo = worker.todo /\ two.had = had
      /\ two.could = could
  BY <1>8 DEF WebWork
<1> HIDE DEF two
<1>10. /\ new \in WebWork /\ new.key = worker.key /\ new.actor = worker.actor
       /\ new.reason = worker.reason /\ new.todo = worker.todo /\ new.under = under
  BY <1>9 DEF WebWork
<1>11. new.had = had /\ new.could = could
  BY <1>9 DEF WebWork
<1> HIDE DEF new
<1>12. /\ request[worker.key].status # "none"
       /\ AskedFor(worker.key, worker.actor, worker.reason)
       /\ \A g \in {"policy", "reason", "able", "actor"} :
            Has(Actions!BotGates[kind], g) => Has(worker.todo, g) \/ Vouched(g)
  BY <1>1, Zenon DEF WorkerSure
<1>13. AskedFor(worker.key, worker.actor, worker.reason)'
  BY <1>1, <1>7, <1>10, <1>12 DEF AskedFor, Actions!Rightful
<1>14. request'[worker'.key].status # "none" /\ recent' \subseteq worker'.under
  BY <1>1, <1>6, <1>7, <1>10, <1>12
<1>15. (worker.had => worker'.had) /\ (worker.could => worker'.could)
  BY <1>3, <1>4, <1>7, <1>11, Zenon
<1>16. (able' => worker'.could) /\ (worker'.actor \in leave' => worker'.had)
  <2>1. worker'.actor \in leave' => had
    BY <1>3, <1>7, <1>10
  <2> QED
    BY <1>4, <1>7, <1>11, <2>1, Zenon
<1>17. ASSUME NEW g \in {"policy", "reason", "able", "actor"}, Has(Actions!BotGates[kind'], g)
       PROVE  Has(worker'.todo, g) \/ Vouched(g)'
  <2>1. Has(worker.todo, g) \/ Vouched(g)
    BY <1>1, <1>12, <1>17
  <2>2. worker.under \subseteq worker'.under /\ worker'.reason = worker.reason
    BY <1>6, <1>7, <1>10
  <2>3. Vouched(g) => Vouched(g)'
    BY <1>15, <2>2, Zenon DEF Vouched
  <2> QED
    BY <1>7, <1>10, <2>1, <2>3
<1> QED
  BY <1>7, <1>10, <1>13, <1>14, <1>16, <1>17, Zenon DEF WorkerSure

\* A permission or a setting changes.
LEMMA WebSeesChange ==
  ASSUME WebInv, Actions!Change
  PROVE  WebInv'
<1>1. /\ kind' \in Actions!Kinds /\ leave' \subseteq Person /\ able' \in BOOLEAN
      /\ setting' \in recent' /\ known' \in recent' /\ recent' \subseteq Actions!Setting
      /\ request' \in [Actions!Key -> WebRequest] /\ newestKey' \in 0..MaxKeys
      /\ request' = request /\ asked' = asked /\ kind' = kind
  BY WorldChanges, WebFacts
<1>2. session' = [t \in Session |->
        IF session[t].by \in leave' THEN [session[t] EXCEPT !.had = TRUE] ELSE session[t]]
  BY DEF Actions!Change, Actions!Seen
<1>3. \A s \in Session : session'[s] \in WebSession /\ SessionSure(session[s])'
  BY <1>1, <1>2, SessionSees
<1>4. session' \in [Session -> WebSession]
  BY <1>2, <1>3
<1>5. worker' \in WebWork /\ WorkerSure'
  <2>1. CASE worker.key # 0
    BY <2>1, WorkerSees
  <2>2. CASE worker.key = 0
    <3>1. worker' = worker
      BY <2>2 DEF Actions!Change, Actions!Seen, Actions!Idle
    <3>2. worker' \in WebWork
      BY <3>1, WebFacts
    <3>3. worker'.key = 0
      BY <2>2, <3>1
    <3> QED
      BY <3>2, <3>3, Zenon DEF WorkerSure
  <2> QED
    BY <2>1, <2>2
<1>6. WebTypes'
  BY <1>1, <1>4, <1>5, Zenon DEF WebTypes
<1>7. \A k \in Actions!Key :
        request'[k].status # "none" => AskedFor(k, request[k].actor, request[k].reason)'
  BY <1>1 DEF WebInv, AskedFor, Actions!Rightful
<1> QED
  BY <1>3, <1>5, <1>6, <1>7, Zenon DEF WebInv

\* The cache of the bot is filled again.
LEMMA WebRefreshes ==
  ASSUME WebInv, Actions!Refresh
  PROVE  WebInv'
<1>1. /\ kind' = kind /\ leave' = leave /\ setting' = setting /\ able' = able
      /\ session' = session /\ request' = request /\ newestKey' = newestKey /\ asked' = asked
      /\ worker' = worker /\ known' = setting /\ recent' = {setting}
  BY DEF Actions!Refresh
<1>2. setting' \in recent' /\ known' \in recent' /\ recent' \subseteq recent
  BY <1>1, WebFacts
<1>3. recent' \subseteq Actions!Setting
  BY <1>2, WebFacts
<1>4. WebTypes'
  BY <1>1, <1>2, <1>3, WebFacts, Zenon DEF WebTypes
<1>5. \A s \in Session : SessionSure(session[s])'
  BY <1>1, WebFacts DEF SessionSure
<1>6. RequestsSure'
  <2>1. RequestsSure
    BY Zenon DEF WebInv, RequestsSure
  <2> QED
    BY <1>1, <2>1 DEF RequestsSure, AskedFor, Actions!Rightful
<1>7. WorkerSure'
  <2>1. CASE worker.key # 0
    <3>1. /\ request[worker.key].status # "none"
          /\ AskedFor(worker.key, worker.actor, worker.reason)
          /\ recent \subseteq worker.under
          /\ able => worker.could
          /\ worker.actor \in leave => worker.had
          /\ \A g \in {"policy", "reason", "able", "actor"} :
               Has(Actions!BotGates[kind], g) => Has(worker.todo, g) \/ Vouched(g)
      BY <2>1, WebFacts, Zenon DEF WorkerSure
    <3>2. AskedFor(worker.key, worker.actor, worker.reason)'
      BY <1>1, <3>1 DEF AskedFor, Actions!Rightful
    <3>3. recent' \subseteq worker.under
      BY <1>2, <3>1
    <3>4. \A g : Vouched(g) => Vouched(g)'
      BY <1>1, Zenon DEF Vouched
    <3> QED
      BY <1>1, <3>1, <3>2, <3>3, <3>4, Zenon DEF WorkerSure
  <2>2. CASE worker.key = 0
    BY <1>1, <2>2, Zenon DEF WorkerSure
  <2> QED
    BY <2>1, <2>2
<1> QED
  BY <1>4, <1>5, <1>6, <1>7, Zenon DEF WebInv, RequestsSure

\* Every step of the dashboard and of its bot keeps the invariant.
LEMMA WebNextKept ==
  ASSUME WebInv, Actions!Next
  PROVE  WebInv'
<1>1. CASE \E s \in Session : Actions!Submit(s)
  BY <1>1, WebSubmits
<1>2. CASE \E s \in Session : Actions!Pass(s)
  BY <1>2, WebPasses
<1>3. CASE \E s \in Session : Actions!Refuse(s) \/ Actions!SubmitFails(s)
  BY <1>3, WebRefuses
<1>4. CASE \E s \in Session : Actions!Upsert(s)
  BY <1>4, WebUpserts
<1>5. CASE \E s \in Session : Actions!WriteDirectly(s)
  BY <1>5, WebWrites
<1>6. CASE Actions!Claim
  BY <1>6, BotClaims
<1>7. CASE Actions!WorkerPass
  BY <1>7, BotPasses
<1>8. CASE Actions!WorkerFails \/ Actions!ActAndComplete \/ Actions!Crash
  BY <1>8, BotEnds
<1>9. CASE Actions!Sweep
  BY <1>9, BotSweeps
<1>10. CASE Actions!Change
  BY <1>10, WebSeesChange
<1>11. CASE Actions!Refresh
  BY <1>11, WebRefreshes
<1> QED
  BY <1>1, <1>2, <1>3, <1>4, <1>5, <1>6, <1>7, <1>8, <1>9, <1>10, <1>11 DEF Actions!Next

\* Every step of the system is one of the dashboard, or none of its business.
LEMMA WebSteps ==
  ASSUME [Next]_vars
  PROVE  Actions!Next \/ UNCHANGED webVars
<1>1. CASE WebNext
  BY <1>1 DEF WebNext
<1>2. CASE Next /\ ~WebNext
  BY <1>2 DEF Next, InLive, InConfig, CommandNext, SetupNext, TriggerNext, IntakeNext,
     GateNext, admin
<1>3. CASE UNCHANGED vars
  BY <1>3 DEF vars, admin
<1> QED
  BY <1>1, <1>2, <1>3

\* In the beginning.
LEMMA WebInit ==
  ASSUME Init
  PROVE  WebInv
<1>1. Actions!Init
  BY DEF Init
<1>2. /\ kind \in Actions!Kinds /\ leave \subseteq Person /\ able \in BOOLEAN
      /\ setting \in recent /\ known \in recent /\ recent \subseteq Actions!Setting
  BY <1>1 DEF Actions!Init
<1>3. session = [s \in Session |-> Actions!NoSession] /\ worker = Actions!NoWork
      /\ request = [k \in Actions!Key |-> Actions!NoRequest] /\ newestKey = 0
  BY <1>1 DEF Actions!Init
<1>4. newestKey \in 0..MaxKeys
  BY <1>3, GuildAssumption DEF Actions!WebActionsAssumption
<1>5. Nobody \in Actions!Reason /\ 0 \in 0..MaxKeys
  BY GuildAssumption DEF Actions!Reason, Actions!WebActionsAssumption
<1>6. Actions!NoRequest \in WebRequest /\ Actions!NoRequest.status = "none"
  BY <1>5 DEF Actions!NoRequest, WebRequest
<1>7. Actions!NoWork \in WebWork /\ Actions!NoWork.key = 0
  <2>1. <<>> \in Seq(GateName)
    OBVIOUS
  <2> QED
    BY <1>5, <2>1 DEF Actions!NoWork, WebWork
<1>8. session \in [Session -> WebSession] /\ request \in [Actions!Key -> WebRequest]
  BY <1>3, <1>6, NoWebSession
<1>9. WebTypes
  BY <1>2, <1>3, <1>4, <1>7, <1>8, Zenon DEF WebTypes
<1>10. \A s \in Session : SessionSure(session[s])
  BY <1>3, NoWebSession
<1>11. \A k \in Actions!Key : request[k].status = "none"
  BY <1>3, <1>6
<1>12. WorkerSure
  <2>1. worker.key = 0
    BY <1>3, <1>7
  <2> QED
    BY <2>1, Zenon DEF WorkerSure
<1> QED
  BY <1>9, <1>10, <1>11, <1>12, Zenon DEF WebInv

\* What must hold of a handler that acts.
MayAct ==
  /\ \E a \in Actions!Rightful(worker.key) : a.by = worker.actor
  /\ worker.reason # Nobody => \E a \in Actions!Rightful(worker.key) : a.reason = worker.reason
  /\ kind \in {"observedRemoval", "caseRemoval"} =>
       \E p \in worker.under : Actions!Allows(p, worker.reason)
  /\ kind \in {"openCase", "roleIntake", "userReport"} =>
       \E p \in worker.under : Actions!Given(p, worker.reason)
  /\ kind \in {"observedRemoval", "caseRemoval", "cleanup"} => worker.could
  /\ kind \in {"preview", "cleanup", "userReport", "guided"} => worker.had

\* A handler that has passed its gates may act.
LEMMA PassedMayAct ==
  ASSUME WebInv, worker.key # 0, worker.todo = <<>>
  PROVE  MayAct
<1>1. /\ AskedFor(worker.key, worker.actor, worker.reason)
      /\ \A g \in {"policy", "reason", "able", "actor"} :
           Has(Actions!BotGates[kind], g) => Has(worker.todo, g) \/ Vouched(g)
  BY WebFacts, Zenon DEF WorkerSure
<1>2. \A g : ~Has(worker.todo, g)
  BY DEF Has
<1>3. \A g \in {"policy", "reason", "able", "actor"} :
        Has(Actions!BotGates[kind], g) => Vouched(g)
  BY <1>1, <1>2, Zenon
<1>4. kind \in {"observedRemoval", "caseRemoval"} => Vouched("policy") /\ Vouched("able")
  BY <1>3, BotGatesOfKinds, WebFacts
<1>5. kind \in {"openCase", "roleIntake", "userReport"} => Vouched("reason")
  BY <1>3, BotGatesOfKinds, WebFacts
<1>6. kind = "cleanup" => Vouched("able")
  BY <1>3, BotGatesOfKinds, WebFacts
<1>7. kind \in {"preview", "cleanup", "userReport", "guided"} => Vouched("actor")
  BY <1>3, BotGatesOfKinds, WebFacts
<1>8. Vouched("policy") => \E p \in worker.under : Actions!Allows(p, worker.reason)
  BY DEF Vouched
<1>9. Vouched("reason") => \E p \in worker.under : Actions!Given(p, worker.reason)
  BY DEF Vouched
<1>10. (Vouched("able") => worker.could) /\ (Vouched("actor") => worker.had)
  BY Zenon DEF Vouched
<1>11. kind \in {"observedRemoval", "caseRemoval", "cleanup"} => Vouched("able")
  BY <1>4, <1>6
<1> QED
  BY <1>1, <1>4, <1>5, <1>7, <1>8, <1>9, <1>10, <1>11, Zenon DEF MayAct, AskedFor

\* The invariant of the dashboard, in every behaviour.
LEMMA WebKept == FairSpec => []WebInv
<1>1. Init => WebInv
  BY WebInit
<1>2. WebInv /\ [Next]_vars => WebInv'
  <2> SUFFICES ASSUME WebInv, [Next]_vars
               PROVE  WebInv'
    OBVIOUS
  <2>1. CASE Actions!Next
    BY <2>1, WebNextKept
  <2>2. CASE UNCHANGED webVars
    <3>1. UNCHANGED <<kind, leave, setting, known, recent, able, session, request, newestKey,
                      asked, worker>>
      BY <2>2 DEF webVars
    <3> QED
      BY <3>1 DEF WebInv, WebTypes, SessionSure, AskedFor, WorkerSure, Vouched, Actions!Rightful
  <2> QED
    BY <2>1, <2>2, WebSteps
<1> QED
  BY <1>1, <1>2, PTL DEF FairSpec

\* The bot acts in the name of somebody with the permission, for a reason given by one, and
\* under a setting, with a permission of its own or of the actor, that it had when it looked.
THEOREM GatesAreHeld == FairSpec => GatesHold
<1>1. WebInv /\ [Next]_vars =>
        [Actions!Acting /\ request'[worker.key].status = "completed" => MayAct]_(Actions!vars)
  <2> SUFFICES ASSUME WebInv, Actions!Acting
               PROVE  MayAct
    OBVIOUS
  <2> QED
    BY PassedMayAct DEF Actions!Acting, Actions!Idle
<1> QED
  BY <1>1, WebKept, PTL DEF FairSpec, GatesHold, Actions!GatesHold, MayAct

---------------------------------------------------------------------------
(* The commands of /config *)

Choice == SUBSET {1, 2}
Group == {Settings!Settings, {"caseRole"}, {"threshold", "keywords"}}
Delicate == {"manual", "manualRole", "consent"}

\* What is common to the commands: they are about the settings, or the columns of the
\* heuristics, or the case role; they enable the manual intake with a role, and the full
\* consent for the owner.
Sound(c) ==
  /\ c.set \in [DOMAIN c.set -> Choice]
  /\ \E group \in Group : DOMAIN c.set \subseteq group
  /\ DOMAIN c.set \cap Delicate # {} => c.how = "patch"
  /\ "manualRole" \in DOMAIN c.set =>
       "manual" \in DOMAIN c.set /\ (c.set["manual"] = Settings!On => c.set["manualRole"] # {})
  /\ "manual" \in DOMAIN c.set /\ c.set["manual"] = Settings!On =>
       "manualRole" \in DOMAIN c.set \/ "manualRole" \in c.needs
  /\ "consent" \in DOMAIN c.set /\ c.set["consent"] = Settings!Full => c.owner

\* The choices.
LEMMA Choices ==
  /\ Settings!On \in Choice /\ Settings!Off \in Choice /\ {} \in Choice
  /\ Settings!On # Settings!Off /\ Settings!On # {} /\ Settings!Off # {}
  /\ Settings!Full = Settings!Off
  /\ Settings!Value \in SUBSET Choice /\ Settings!Cleared \in SUBSET Choice
  /\ Settings!Value \cup Settings!Cleared \in SUBSET Choice
  /\ {Settings!On} \cup Settings!Cleared \in SUBSET Choice
  /\ {Settings!On} \in SUBSET Choice /\ {Settings!Off} \in SUBSET Choice
<1>1. Settings!On # Settings!Off
  <2>1. 1 \in Settings!On /\ 1 \notin Settings!Off
    BY DEF Settings!On, Settings!Off
  <2> QED
    BY <2>1
<1> QED
  BY <1>1 DEF Settings!On, Settings!Off, Settings!Full, Settings!Value, Settings!Cleared, Choice

\* A command about one field.
LEMMA OneFieldIsSound ==
  ASSUME NEW how, NEW f \in Settings!Field, NEW v \in Choice, f # "manualRole",
         f \in Delicate => how = "patch",
         f = "manual" => v # Settings!On, f = "consent" => v # Settings!Full
  PROVE  Sound(Settings!Command(how, [x \in {f} |-> v]))
<1> DEFINE c == Settings!Command(how, [x \in {f} |-> v])
<1>1. c.how = how /\ c.set = [x \in {f} |-> v]
  BY DEF Settings!Command
<1>2. DOMAIN c.set = {f} /\ c.set[f] = v /\ c.set \in [DOMAIN c.set -> Choice]
  BY <1>1
<1>3. \E group \in Group : DOMAIN c.set \subseteq group
  BY <1>2 DEF Group, Settings!Field, Settings!Column
<1> HIDE DEF c
<1>4. Sound(c)
  BY <1>1, <1>2, <1>3 DEF Sound, Delicate
<1> QED
  BY <1>4 DEF c

\* The fields without a rule of their own.
Plain == Settings!Field \ Delicate

\* A value is put into such a field.
LEMMA PutIsSound ==
  ASSUME NEW f \in Plain, NEW vs \in SUBSET Choice, NEW c \in Settings!Put(f, vs)
  PROVE  Sound(c)
<1>1. PICK v \in Choice : c = Settings!Command("patch", [x \in {f} |-> v])
  BY DEF Settings!Put
<1> QED
  BY <1>1, OneFieldIsSound DEF Plain, Delicate

\* A list is edited.
LEMMA EditIsSound ==
  ASSUME NEW f \in Plain, NEW c \in Settings!Edit(f)
  PROVE  Sound(c)
<1>1. PICK how \in {"add", "remove"}, v \in Settings!Value :
        c = Settings!Command(how, [x \in {f} |-> v])
  BY DEF Settings!Edit
<1>2. v \in Choice
  BY Choices
<1> QED
  BY <1>1, <1>2, OneFieldIsSound DEF Plain, Delicate

\* Keys are deleted.
LEMMA ResetIsSound ==
  ASSUME NEW fields \in SUBSET Plain, NEW group \in Group, fields \subseteq group,
         NEW c \in Settings!Reset(fields)
  PROVE  Sound(c)
<1>1. c.set = [x \in fields |-> {}]
  BY DEF Settings!Reset, Settings!Command
<1>2. DOMAIN c.set = fields /\ c.set \in [DOMAIN c.set -> Choice]
  BY <1>1 DEF Choice
<1> QED
  BY <1>2 DEF Sound, Plain, Delicate

\* The fields that the simple commands are about.
LEMMA PlainFields ==
  /\ {"gate", "honeypot", "quarantine", "exempt", "queue", "grace", "mode", "policy", "autoKick",
      "responders", "staff", "review", "report", "ai", "prompt", "context", "topics",
      "analysis"} \subseteq Plain \cap Settings!Settings
  /\ {"caseRole", "threshold", "keywords"} \subseteq Plain
  /\ Settings!Settings \in Group /\ {"caseRole"} \in Group /\ {"threshold", "keywords"} \in Group
BY DEF Plain, Delicate, Settings!Field, Settings!Column, Settings!Settings, Group

\* The manual intake.
LEMMA ManualIsSound ==
  ASSUME NEW c \in Settings!ManualIntakeCommand
  PROVE  Sound(c)
<1>0. {"manual", "manualRole"} \subseteq Settings!Settings /\ Settings!Settings \in Group
  BY DEF Settings!Settings, Group
<1>1. CASE \E v \in Settings!Value :
             c = [Settings!Command("patch", [manualRole |-> v, manual |-> Settings!On])
                    EXCEPT !.apart = {"caseRole"}]
  <2>1. PICK v \in Settings!Value :
          c = [Settings!Command("patch", [manualRole |-> v, manual |-> Settings!On])
                 EXCEPT !.apart = {"caseRole"}]
    BY <1>1
  <2>2. c.how = "patch" /\ c.set = [manualRole |-> v, manual |-> Settings!On]
    BY <2>1 DEF Settings!Command
  <2>3. v \in Choice /\ v # {}
    BY Choices DEF Settings!Value
  <2>4. /\ DOMAIN c.set = {"manualRole", "manual"} /\ c.set["manualRole"] = v
        /\ c.set \in [DOMAIN c.set -> Choice]
    BY <2>2, <2>3, Choices
  <2> QED
    BY <1>0, <2>2, <2>3, <2>4 DEF Sound
<1>2. CASE c = Settings!Command("patch", [manualRole |-> {}, manual |-> Settings!Off])
  <2>1. c.how = "patch" /\ c.set = [manualRole |-> {}, manual |-> Settings!Off]
    BY <1>2 DEF Settings!Command
  <2>2. /\ DOMAIN c.set = {"manualRole", "manual"} /\ c.set["manual"] # Settings!On
        /\ c.set \in [DOMAIN c.set -> Choice]
    BY <2>1, Choices
  <2> QED
    BY <1>0, <2>1, <2>2 DEF Sound
<1>3. CASE c = [Settings!Command("patch", [manual |-> Settings!On]) EXCEPT !.needs = {"manualRole"}]
  <2>1. c.how = "patch" /\ c.set = [manual |-> Settings!On] /\ c.needs = {"manualRole"}
    BY <1>3 DEF Settings!Command
  <2>2. DOMAIN c.set = {"manual"} /\ c.set \in [DOMAIN c.set -> Choice]
    BY <2>1, Choices
  <2> QED
    BY <1>0, <2>1, <2>2 DEF Sound
<1>4. CASE c \in Settings!Put("manual", {Settings!Off})
  <2>1. c = Settings!Command("patch", [x \in {"manual"} |-> Settings!Off])
    BY <1>4 DEF Settings!Put
  <2> QED
    BY <1>0, <2>1, Choices, OneFieldIsSound DEF Settings!Field
<1>5. CASE c \in Settings!Put("grace", {Settings!On})
  BY <1>5, PlainFields, Choices, PutIsSound
<1> QED
  BY <1>1, <1>2, <1>3, <1>4, <1>5 DEF Settings!ManualIntakeCommand

\* The consent to analytics.
LEMMA ConsentIsSound ==
  ASSUME NEW c \in Settings!AnalyticsCommand
  PROVE  Sound(c)
<1>0. "consent" \in Settings!Settings /\ Settings!Settings \in Group
  BY DEF Settings!Settings, Group
<1>1. CASE c \in Settings!Put("consent", {Settings!On})
  <2>1. c = Settings!Command("patch", [x \in {"consent"} |-> Settings!On])
    BY <1>1 DEF Settings!Put
  <2> QED
    BY <1>0, <2>1, Choices, OneFieldIsSound DEF Settings!Field
<1>2. CASE c = [Settings!Command("patch", [consent |-> Settings!Full]) EXCEPT !.owner = TRUE]
  <2>1. c.how = "patch" /\ c.set = [consent |-> Settings!Full]
    BY <1>2 DEF Settings!Command
  <2>2. c.owner = TRUE
    BY <1>2 DEF Settings!Command
  <2>3. c.owner
    BY <2>2
  <2>4. DOMAIN c.set = {"consent"} /\ c.set \in [DOMAIN c.set -> Choice]
    BY <2>1, Choices
  <2>5. /\ \E group \in Group : DOMAIN c.set \subseteq group
        /\ "manual" \notin DOMAIN c.set /\ "manualRole" \notin DOMAIN c.set
    BY <1>0, <2>4
  <2> QED
    BY <2>1, <2>3, <2>4, <2>5, Zenon DEF Sound
<1> QED
  BY <1>1, <1>2 DEF Settings!AnalyticsCommand

\* Every command is sound.
LEMMA CommandsAreSound ==
  ASSUME NEW c \in Settings!Commands
  PROVE  Sound(c)
<1>1. CASE c \in Settings!ManualIntakeCommand \cup Settings!AnalyticsCommand
  BY <1>1, ManualIsSound, ConsentIsSound
<1>2. CASE c \in Settings!RoleGateCommand \cup Settings!RoleQuarantineCommand
                   \cup Settings!CaseQueueCommand \cup Settings!DetectionModeCommand
  BY <1>2, PlainFields, Choices, PutIsSound, EditIsSound
     DEF Settings!RoleGateCommand, Settings!RoleQuarantineCommand, Settings!CaseQueueCommand,
         Settings!DetectionModeCommand
<1>3. CASE c \in Settings!DetectionPolicyCommand \cup Settings!AutoKickCommand
                   \cup Settings!CaseStaffCommand \cup Settings!CaseReviewCommand
  BY <1>3, PlainFields, Choices, PutIsSound, EditIsSound
     DEF Settings!DetectionPolicyCommand, Settings!AutoKickCommand, Settings!CaseStaffCommand,
         Settings!CaseReviewCommand
<1>4. CASE c \in Settings!ReportCommand \cup Settings!ReportAiCommand
                   \cup Settings!AnalysisCommand \cup Settings!SetupCommand
  BY <1>4, PlainFields, Choices, PutIsSound
     DEF Settings!ReportCommand, Settings!ReportAiCommand, Settings!AnalysisCommand,
         Settings!SetupCommand
<1>5. CASE c \in Settings!PromptCommand
  BY <1>5, PlainFields, Choices, PutIsSound, ResetIsSound DEF Settings!PromptCommand
<1>6. CASE c \in Settings!HeuristicCommand
  BY <1>6, PlainFields, Choices, PutIsSound, EditIsSound, ResetIsSound
     DEF Settings!HeuristicCommand
<1>7. CASE c \in Settings!ContextCommand
  <2>1. CASE c \in Settings!Puts({"context", "topics"}, {Settings!On})
    BY <2>1, PlainFields, Choices, PutIsSound DEF Settings!Puts
  <2>2. CASE c \in Settings!Reset({"context", "topics"})
    BY <2>2, PlainFields, ResetIsSound
  <2>3. CASE c = Settings!Command("patch", [context |-> Settings!On, topics |-> Settings!Off])
    <3>1. c.set = [context |-> Settings!On, topics |-> Settings!Off]
      BY <2>3 DEF Settings!Command
    <3>2. DOMAIN c.set = {"context", "topics"} /\ c.set \in [DOMAIN c.set -> Choice]
      BY <3>1, Choices
    <3> QED
      BY <3>2, PlainFields DEF Sound, Delicate
  <2> QED
    BY <1>7, <2>1, <2>2, <2>3 DEF Settings!ContextCommand
<1> QED
  BY <1>1, <1>2, <1>3, <1>4, <1>5, <1>6, <1>7 DEF Settings!Commands

NoCommand == Settings!Command("none", <<>>)
Hand ==
  [at : {"idle", "look", "write"}, command : Settings!Commands \cup {NoCommand},
   config : Settings!Configs \cup {<<>>}, by : {"none", "owner", "administrator"}]

CommandTypes ==
  /\ stored \in Settings!Configs /\ shown \in Settings!Configs /\ want \in Settings!Configs
  /\ command \in [ConfigHandler -> Hand]
  /\ owned \in BOOLEAN /\ astray \in BOOLEAN
  /\ commands \in 0..MaxCommands

\* what a handler holds
HandSure(l) ==
  /\ l.at # "idle" => l.command \in Settings!Commands
  /\ l.at = "write" => l.config \in Settings!Configs /\ (l.command.owner => l.by = "owner")

\* What it is about to write, is the settings as they are, with its command applied.
Fresh(l) ==
  l.at = "write" =>
    /\ l.config = Settings!Applied(l.command, stored)
    /\ \A f \in l.command.needs : stored[f] # {}

\* One command at a time.
CommandAlone == \A h, g \in ConfigHandler : h # g => command[h].at = "idle" \/ command[g].at = "idle"

\* the settings have been changed by commands only, one after the other
Kept ==
  /\ shown = stored /\ want = stored
  /\ stored["manual"] = Settings!On => stored["manualRole"] # {}
  /\ stored["consent"] = Settings!Full => owned
  /\ CommandAlone
  /\ \A h \in ConfigHandler : Fresh(command[h])

CommandInv ==
  /\ CommandTypes
  /\ \A h \in ConfigHandler : HandSure(command[h])
  /\ ~astray => Kept

\* What the invariant gives.
LEMMA CommandFacts ==
  ASSUME CommandInv
  PROVE  /\ stored \in Settings!Configs /\ shown \in Settings!Configs
         /\ want \in Settings!Configs /\ command \in [ConfigHandler -> Hand]
         /\ owned \in BOOLEAN /\ astray \in BOOLEAN
         /\ commands \in 0..MaxCommands
         /\ \A h \in ConfigHandler : command[h] \in Hand /\ HandSure(command[h])
         /\ ~astray => Kept
<1>1. /\ stored \in Settings!Configs /\ shown \in Settings!Configs
      /\ want \in Settings!Configs /\ command \in [ConfigHandler -> Hand]
      /\ owned \in BOOLEAN /\ astray \in BOOLEAN
      /\ commands \in 0..MaxCommands
  BY Zenon DEF CommandInv, CommandTypes
<1>2. (\A h \in ConfigHandler : HandSure(command[h])) /\ (~astray => Kept)
  BY Zenon DEF CommandInv
<1>3. \A h \in ConfigHandler : command[h] \in Hand
  BY <1>1
<1> QED
  BY <1>1, <1>2, <1>3, Zenon

\* The bounds.
LEMMA CommandBounds == MaxCommands \in Nat
BY GuildAssumption DEF Settings!ConfigCommandsAssumption

\* What a command makes of a configuration is one.
LEMMA AppliedIsConfig ==
  ASSUME NEW c \in Settings!Commands, NEW config \in Settings!Configs
  PROVE  Settings!Applied(c, config) \in Settings!Configs
<1>1. Sound(c)
  BY CommandsAreSound
<1>2. c.set \in [DOMAIN c.set -> Choice]
  BY <1>1 DEF Sound
<1>3. ASSUME NEW f \in Settings!Field, f \in DOMAIN c.set
      PROVE  /\ config[f] \cup c.set[f] \in SUBSET {1, 2}
             /\ config[f] \ c.set[f] \in SUBSET {1, 2} /\ c.set[f] \in SUBSET {1, 2}
  BY <1>2, <1>3 DEF Settings!Configs, Choice
<1>4. \A f \in Settings!Field : config[f] \in SUBSET {1, 2}
  BY DEF Settings!Configs
<1>5. ASSUME NEW f \in Settings!Field
      PROVE  Settings!Applied(c, config)[f] \in SUBSET {1, 2}
  <2>1. CASE f \notin DOMAIN c.set
    BY <1>4, <2>1 DEF Settings!Applied
  <2>2. CASE f \in DOMAIN c.set
    <3>1. CASE c.how = "add"
      BY <1>3, <2>2, <3>1 DEF Settings!Applied
    <3>2. CASE c.how = "remove"
      BY <1>3, <2>2, <3>2 DEF Settings!Applied
    <3>3. CASE c.how \notin {"add", "remove"}
      BY <1>3, <2>2, <3>3 DEF Settings!Applied
    <3> QED
      BY <3>1, <3>2, <3>3
  <2> QED
    BY <2>1, <2>2
<1>6. Settings!Applied(c, config) \in [Settings!Field -> SUBSET {1, 2}]
  BY <1>5 DEF Settings!Applied
<1> QED
  BY <1>6 DEF Settings!Configs

\* What it leaves alone, and what it puts in.
LEMMA AppliedAt ==
  ASSUME NEW c, NEW config, NEW f \in Settings!Field
  PROVE  /\ f \notin DOMAIN c.set => Settings!Applied(c, config)[f] = config[f]
         /\ f \in DOMAIN c.set /\ c.how = "patch" => Settings!Applied(c, config)[f] = c.set[f]
<1>1. CASE f \notin DOMAIN c.set
  BY <1>1 DEF Settings!Applied
<1>2. CASE f \in DOMAIN c.set /\ c.how = "patch"
  BY <1>2 DEF Settings!Applied
<1> QED
  BY <1>1, <1>2

\* What is written.
LEMMA WrittenIsConfig ==
  ASSUME CommandInv, NEW h \in ConfigHandler, command[h].at = "write"
  PROVE  Settings!Written(h) \in Settings!Configs
<1>1. /\ command[h].config \in Settings!Configs /\ stored \in Settings!Configs
  BY CommandFacts DEF HandSure
<1>2. \A f \in Settings!Field :
        command[h].config[f] \in SUBSET {1, 2} /\ stored[f] \in SUBSET {1, 2}
  BY <1>1 DEF Settings!Configs
<1> QED
  BY <1>2 DEF Settings!Written, Settings!Configs

\* One command at a time writes what it asks for.
LEMMA WrittenIsApplied ==
  ASSUME CommandInv, ~astray, NEW h \in ConfigHandler, command[h].at = "write"
  PROVE  Settings!Written(h) = Settings!Applied(command[h].command, stored)
<1> DEFINE c == command[h].command
           about == DOMAIN c.set
           group == IF about \subseteq Settings!Settings THEN Settings!Settings
                    ELSE IF "caseRole" \in about THEN {"caseRole"} ELSE {"threshold", "keywords"}
<1>1. c \in Settings!Commands /\ command[h].config = Settings!Applied(c, stored)
  <2>1. c \in Settings!Commands
    BY CommandFacts DEF HandSure
  <2>2. Fresh(command[h])
    BY CommandFacts, Zenon DEF Kept
  <2> QED
    BY <2>1, <2>2 DEF Fresh
<1>2. Sound(c)
  BY <1>1, CommandsAreSound
<1>3. about \subseteq group
  BY <1>2 DEF Sound, Group
<1>4. Settings!Written(h) =
        [f \in Settings!Field |-> IF f \in group THEN command[h].config[f] ELSE stored[f]]
  BY DEF Settings!Written
<1> HIDE DEF group
<1>5. ASSUME NEW f \in Settings!Field
      PROVE  Settings!Written(h)[f] = Settings!Applied(c, stored)[f]
  <2>1. CASE f \in group
    BY <1>1, <1>4, <2>1
  <2>2. CASE f \notin group
    <3>1. Settings!Written(h)[f] = stored[f]
      BY <1>4, <2>2
    <3>2. f \notin about
      BY <1>3, <2>2
    <3> QED
      BY <3>1, <3>2, AppliedAt
  <2> QED
    BY <2>1, <2>2
<1>6. Settings!Written(h) \in Settings!Configs /\ Settings!Applied(c, stored) \in Settings!Configs
  BY <1>1, CommandFacts, AppliedIsConfig, WrittenIsConfig
<1> QED
  BY <1>5, <1>6 DEF Settings!Configs

\* A command that does not write.
LEMMA CommandMove ==
  ASSUME CommandInv, NEW h \in ConfigHandler, NEW new \in Hand,
         command' = [command EXCEPT ![h] = new],
         UNCHANGED <<stored, shown, want, owned>>,
         astray' \in BOOLEAN, ~astray' => ~astray,
         commands' \in 0..MaxCommands,
         HandSure(new), ~astray => Fresh(new),
         ~astray' => \/ new.at = "idle" \/ command[h].at # "idle"
                     \/ \A g \in ConfigHandler : command[g].at = "idle"
  PROVE  CommandInv'
<1>1. /\ stored' = stored /\ shown' = shown /\ want' = want /\ owned' = owned
  OBVIOUS
<1>2. /\ command' \in [ConfigHandler -> Hand] /\ command'[h] = new
      /\ \A g \in ConfigHandler : g # h => command'[g] = command[g]
  BY CommandFacts
<1>3. CommandTypes'
  BY <1>1, <1>2, CommandFacts, Zenon DEF CommandTypes
<1>4. \A g \in ConfigHandler : HandSure(command[g])'
  <2>1. \A g \in ConfigHandler : HandSure(command'[g])
    BY <1>2, CommandFacts
  <2> QED
    BY <2>1, Zenon DEF HandSure
<1>5. ASSUME ~astray'
      PROVE  Kept'
  <2>1. ~astray /\ Kept
    BY <1>5, CommandFacts, Zenon
  <2>2. CommandAlone'
    <3>1. CommandAlone
      BY <2>1 DEF Kept
    <3>2. \/ new.at = "idle" \/ command[h].at # "idle"
          \/ \A g \in ConfigHandler : command[g].at = "idle"
      BY <1>5
    <3> QED
      BY <1>2, <3>1, <3>2 DEF CommandAlone
  <2>3. \A g \in ConfigHandler : Fresh(command[g])'
    <3>1. \A g \in ConfigHandler : Fresh(command'[g])
      BY <1>2, <2>1 DEF Kept
    <3> QED
      BY <1>1, <3>1, Zenon DEF Fresh
  <2>4. /\ shown = stored /\ want = stored
        /\ stored["manual"] = Settings!On => stored["manualRole"] # {}
    BY <2>1 DEF Kept
  <2>5. stored["consent"] = Settings!Full => owned
    BY <2>1, Zenon DEF Kept
  <2>6. /\ shown' = stored' /\ want' = stored'
        /\ stored'["manual"] = Settings!On => stored'["manualRole"] # {}
    BY <1>1, <2>4
  <2>7. stored'["consent"] = Settings!Full => owned'
    BY <1>1, <2>5
  <2> QED
    BY <2>2, <2>3, <2>6, <2>7, Zenon DEF Kept
<1> QED
  BY <1>3, <1>4, <1>5, Zenon DEF CommandInv

\* A hand at rest.
LEMMA HandAtRest ==
  Settings!Idle \in Hand /\ HandSure(Settings!Idle) /\ Fresh(Settings!Idle)
    /\ Settings!Idle.at = "idle"
<1>1. Settings!Idle \in Hand /\ Settings!Idle.at = "idle"
  BY DEF Settings!Idle, Hand, NoCommand
<1> QED
  BY <1>1 DEF HandSure, Fresh

\* A command arrives.
LEMMA CommandStarts ==
  ASSUME CommandInv, NEW h \in ConfigHandler, Settings!Start(h)
  PROVE  CommandInv'
<1>1. PICK c \in Settings!Commands, by \in {"owner", "administrator"} :
        command' = [command EXCEPT ![h] =
          [at |-> "look", command |-> c, config |-> <<>>, by |-> by]]
  BY DEF Settings!Start
<1>2. /\ UNCHANGED <<stored, shown, want, owned>>
      /\ commands < MaxCommands /\ commands' = commands + 1
      /\ astray' = (astray \/ Settings!Busy # {})
  BY DEF Settings!Start
<1>3. commands' \in 0..MaxCommands
  BY <1>2, CommandFacts, CommandBounds
<1>4. /\ astray' \in BOOLEAN
      /\ ~astray' => ~astray /\ \A g \in ConfigHandler : command[g].at = "idle"
  BY <1>2, CommandFacts DEF Settings!Busy, Settings!At
<1> DEFINE new == [at |-> "look", command |-> c, config |-> <<>>, by |-> by]
<1>5. new \in Hand /\ new.at = "look" /\ new.command = c
  BY DEF Hand
<1>6. command' = [command EXCEPT ![h] = new]
  BY <1>1
<1> HIDE DEF new
<1>7. HandSure(new) /\ Fresh(new)
  BY <1>5 DEF HandSure, Fresh
<1> QED
  BY <1>2, <1>3, <1>4, <1>5, <1>6, <1>7, CommandMove

\* A command is refused, or its write fails.
LEMMA CommandEnds ==
  ASSUME CommandInv, NEW h \in ConfigHandler, command' = [command EXCEPT ![h] = Settings!Idle],
         UNCHANGED <<stored, shown, want, owned, astray, commands>>
  PROVE  CommandInv'
<1>1. PICK new \in Hand : /\ new = Settings!Idle /\ HandSure(new) /\ Fresh(new)
                          /\ new.at = "idle"
  BY HandAtRest
<1>2. astray' \in BOOLEAN /\ (~astray' => ~astray) /\ commands' \in 0..MaxCommands
  BY CommandFacts
<1> QED
  BY <1>1, <1>2, CommandMove

\* A command looks at the cache.
LEMMA CommandLooks ==
  ASSUME CommandInv, NEW h \in ConfigHandler, Settings!Look(h)
  PROVE  CommandInv'
<1> DEFINE l == command[h]
<1>1. /\ l \in Hand /\ l.at = "look" /\ l.command \in Settings!Commands
      /\ Settings!Admitted(h)
      /\ UNCHANGED <<stored, shown, want, owned, astray, commands>>
  BY CommandFacts DEF Settings!Look, Settings!At, HandSure
<1>2. PICK config \in Settings!Configs : config = Settings!Applied(l.command, shown)
  BY <1>1, CommandFacts, AppliedIsConfig
<1> DEFINE one == [l EXCEPT !.at = "write"]
           new == [one EXCEPT !.config = config]
<1>3. command' = [command EXCEPT ![h] = new]
  BY <1>1, <1>2, CommandFacts DEF Settings!Look, Settings!Merged
<1>4. one \in Hand /\ one.at = "write" /\ one.command = l.command /\ one.by = l.by
  BY <1>1 DEF Hand
<1> HIDE DEF one
<1>5. /\ new \in Hand /\ new.at = "write" /\ new.command = l.command /\ new.by = l.by
      /\ new.config = config
  BY <1>4 DEF Hand
<1> HIDE DEF new
<1>6. HandSure(new)
  <2>1. l.command.owner => l.by = "owner"
    BY <1>1 DEF Settings!Admitted
  <2> QED
    BY <1>1, <1>5, <2>1 DEF HandSure
<1>7. ~astray => Fresh(new)
  <2> SUFFICES ASSUME ~astray
               PROVE  Fresh(new)
    OBVIOUS
  <2>1. shown = stored
    BY CommandFacts DEF Kept
  <2>2. \A f \in l.command.needs : stored[f] # {}
    BY <1>1, <2>1 DEF Settings!Admitted
  <2> QED
    BY <1>2, <1>5, <2>1, <2>2 DEF Fresh
<1>8. astray' \in BOOLEAN /\ (~astray' => ~astray) /\ commands' \in 0..MaxCommands
  BY <1>1, CommandFacts
<1> QED
  BY <1>1, <1>3, <1>5, <1>6, <1>7, <1>8, CommandMove

\* A command is carried out.
LEMMA CommandCarried ==
  ASSUME CommandInv, NEW h \in ConfigHandler, command[h].at = "write", Settings!Carried(h),
         \/ shown' = stored' /\ astray' = astray
         \/ shown' = shown /\ astray' = TRUE,
         commands' = commands
  PROVE  CommandInv'
<1> DEFINE l == command[h]
           c == l.command
<1>1. /\ stored' = Settings!Written(h) /\ want' = Settings!Applied(c, want)
      /\ owned' = IF "consent" \in DOMAIN c.set THEN l.by = "owner" ELSE owned
      /\ command' = [command EXCEPT ![h] = Settings!Idle]
  BY DEF Settings!Carried
<1>2. /\ c \in Settings!Commands /\ (c.owner => l.by = "owner")
  BY CommandFacts DEF HandSure
<1>3. /\ stored' \in Settings!Configs /\ want' \in Settings!Configs
      /\ shown' \in Settings!Configs /\ commands' \in 0..MaxCommands
  BY <1>1, <1>2, CommandFacts, WrittenIsConfig, AppliedIsConfig
<1>4. owned' \in BOOLEAN /\ astray' \in BOOLEAN
  BY <1>1, CommandFacts
<1>5. /\ command' \in [ConfigHandler -> Hand] /\ command'[h] = Settings!Idle
      /\ \A g \in ConfigHandler : g # h => command'[g] = command[g]
  BY <1>1, CommandFacts, HandAtRest
<1>6. CommandTypes'
  BY <1>3, <1>4, <1>5, Zenon DEF CommandTypes
<1>7. \A g \in ConfigHandler : HandSure(command[g])'
  <2>1. \A g \in ConfigHandler : HandSure(command'[g])
    BY <1>5, CommandFacts, HandAtRest
  <2> QED
    BY <2>1, Zenon DEF HandSure
<1>8. ASSUME ~astray'
      PROVE  Kept'
  <2>1. ~astray /\ shown' = stored'
    BY <1>8
  <2>2. Kept
    BY <2>1, CommandFacts, Zenon
  <2>3. stored' = Settings!Applied(c, stored) /\ want' = stored'
    BY <1>1, <2>1, <2>2, WrittenIsApplied DEF Kept
  <2>4. Sound(c)
    BY <1>2, CommandsAreSound
  <2>5. \A g \in ConfigHandler : command'[g].at = "idle"
    BY <1>5, <2>2, HandAtRest DEF Kept, CommandAlone
  <2>6. CommandAlone' /\ \A g \in ConfigHandler : Fresh(command[g])'
    <3>1. \A g \in ConfigHandler : Fresh(command[g])'
      BY <2>5, Zenon DEF Fresh
    <3> QED
      BY <2>5, <3>1 DEF CommandAlone
  <2>7. {"manual", "manualRole", "consent"} \subseteq Settings!Field
    BY DEF Settings!Field, Settings!Settings
  <2>8. stored'["manual"] = Settings!On => stored'["manualRole"] # {}
    <3>1. /\ stored["manual"] = Settings!On => stored["manualRole"] # {}
          /\ \A f \in c.needs : stored[f] # {}
      BY <2>2 DEF Kept, Fresh
    <3>2. /\ "manual" \in DOMAIN c.set => c.how = "patch"
          /\ "manualRole" \in DOMAIN c.set =>
               /\ "manual" \in DOMAIN c.set
               /\ c.set["manual"] = Settings!On => c.set["manualRole"] # {}
          /\ "manual" \in DOMAIN c.set /\ c.set["manual"] = Settings!On =>
               "manualRole" \in DOMAIN c.set \/ "manualRole" \in c.needs
      BY <2>4 DEF Sound, Delicate
    <3>3. /\ "manual" \notin DOMAIN c.set => stored'["manual"] = stored["manual"]
          /\ "manualRole" \notin DOMAIN c.set => stored'["manualRole"] = stored["manualRole"]
          /\ "manual" \in DOMAIN c.set => stored'["manual"] = c.set["manual"]
          /\ "manualRole" \in DOMAIN c.set => stored'["manualRole"] = c.set["manualRole"]
      BY <2>3, <2>7, <3>2, AppliedAt
    <3> HIDE DEF c
    <3> QED
      BY <3>1, <3>2, <3>3
  <2>9. stored'["consent"] = Settings!Full => owned'
    <3>1. stored["consent"] = Settings!Full => owned
      BY <2>2, Zenon DEF Kept
    <3>2. /\ "consent" \in DOMAIN c.set => c.how = "patch"
          /\ "consent" \in DOMAIN c.set /\ c.set["consent"] = Settings!Full => c.owner
      BY <2>4 DEF Sound, Delicate
    <3>3. /\ "consent" \notin DOMAIN c.set => stored'["consent"] = stored["consent"]
          /\ "consent" \in DOMAIN c.set => stored'["consent"] = c.set["consent"]
      BY <2>3, <2>7, <3>2, AppliedAt
    <3>4. CASE "consent" \in DOMAIN c.set
      <4>1. owned' <=> l.by = "owner"
        BY <1>1, <3>4
      <4> QED
        BY <1>2, <3>2, <3>3, <3>4, <4>1, Zenon
    <3>5. CASE "consent" \notin DOMAIN c.set
      <4>1. owned' = owned
        BY <1>1, <3>5
      <4> QED
        BY <3>1, <3>3, <3>5, <4>1
    <3> QED
      BY <3>4, <3>5
  <2> QED
    BY <2>1, <2>3, <2>6, <2>8, <2>9, Zenon DEF Kept
<1> QED
  BY <1>6, <1>7, <1>8, Zenon DEF CommandInv

\* Every step of the commands keeps the invariant.
LEMMA CommandNextKept ==
  ASSUME CommandInv, Settings!Next
  PROVE  CommandInv'
<1>1. CASE \E h \in ConfigHandler : Settings!Start(h)
  BY <1>1, CommandStarts
<1>2. CASE \E h \in ConfigHandler : Settings!Refuse(h)
  <2>1. PICK h \in ConfigHandler : Settings!Refuse(h)
    BY <1>2
  <2> QED
    BY <2>1, CommandEnds DEF Settings!Refuse
<1>3. CASE \E h \in ConfigHandler : Settings!Look(h)
  BY <1>3, CommandLooks
<1>4. CASE \E h \in ConfigHandler : Settings!Write(h)
  <2>1. PICK h \in ConfigHandler : Settings!Write(h)
    BY <1>4
  <2> QED
    BY <2>1, CommandCarried DEF Settings!Write, Settings!At
<1>5. CASE \E h \in ConfigHandler : Settings!WriteFails(h)
  <2>1. PICK h \in ConfigHandler : Settings!WriteFails(h)
    BY <1>5
  <2>3. CASE command' = [command EXCEPT ![h] = Settings!Idle]
             /\ UNCHANGED <<stored, want, owned, astray>>
    BY <2>1, <2>3, CommandEnds DEF Settings!WriteFails
  <2>4. CASE Settings!Carried(h) /\ astray' = TRUE
    BY <2>1, <2>4, CommandCarried DEF Settings!WriteFails, Settings!At
  <2> QED
    BY <2>1, <2>3, <2>4 DEF Settings!WriteFails
<1>6. CASE Settings!Reload
  <2>1. /\ stored' = stored /\ command' = command /\ want' = want /\ owned' = owned
        /\ astray' = astray /\ commands' = commands /\ shown' = stored
    BY <1>6 DEF Settings!Reload
  <2>2. CommandTypes'
    BY <2>1, CommandFacts, Zenon DEF CommandTypes
  <2>3. \A h \in ConfigHandler : HandSure(command[h])'
    BY <2>1, CommandFacts DEF HandSure
  <2>4. astray
    BY <1>6, CommandFacts DEF Settings!Reload, Kept
  <2> QED
    BY <2>1, <2>2, <2>3, <2>4, Zenon DEF CommandInv
<1> QED
  BY <1>1, <1>2, <1>3, <1>4, <1>5, <1>6 DEF Settings!Next

\* Every step of the system is one of the commands, or none of their business.
LEMMA CommandSteps ==
  ASSUME [Next]_vars
  PROVE  Settings!Next \/ UNCHANGED commandVars
<1>1. CASE CommandNext
  BY <1>1 DEF CommandNext
<1>2. CASE Next /\ ~CommandNext
  BY <1>2 DEF Next, InLive, InConfig, WebNext, SetupNext, TriggerNext, IntakeNext, GateNext,
     admin
<1>3. CASE UNCHANGED vars
  BY <1>3 DEF vars, admin
<1> QED
  BY <1>1, <1>2, <1>3

\* In the beginning.
LEMMA CommandInit ==
  ASSUME Init
  PROVE  CommandInv
<1>1. /\ stored \in {[f \in Settings!Field |-> {}],
                     [f \in Settings!Field |-> IF f = "caseRole" THEN {} ELSE Settings!On]}
      /\ shown = stored /\ want = stored /\ owned = FALSE /\ astray = FALSE /\ commands = 0
      /\ command = [h \in ConfigHandler |-> Settings!Idle]
      /\ part # "commands" => stored = [f \in Settings!Field |-> {}]
  BY DEF Init, Settings!Init
<1>2. /\ {"manual", "manualRole", "consent"} \subseteq Settings!Field
      /\ "caseRole" \notin {"manual", "manualRole", "consent"}
  BY DEF Settings!Field, Settings!Settings
<1>3. \A f \in Settings!Field : stored[f] \in {{}, Settings!On}
  BY <1>1
<1>4. stored \in Settings!Configs
  <2>1. {} \in SUBSET {1, 2} /\ Settings!On \in SUBSET {1, 2}
    BY DEF Settings!On
  <2>2. stored \in [Settings!Field -> {{}, Settings!On}]
    BY <1>1
  <2> QED
    BY <2>1, <2>2 DEF Settings!Configs
<1>5. stored["manual"] = Settings!On => stored["manualRole"] # {}
  BY <1>1, <1>2, Choices
<1>6. stored["consent"] # Settings!Full
  BY <1>2, <1>3, Choices
<1>7. \A h \in ConfigHandler : command[h] = Settings!Idle
  BY <1>1
<1>8. command \in [ConfigHandler -> Hand] /\ \A h \in ConfigHandler : HandSure(command[h])
  BY <1>1, <1>7, HandAtRest
<1>9. CommandTypes
  <2>1. /\ shown \in Settings!Configs /\ want \in Settings!Configs
        /\ owned \in BOOLEAN /\ astray \in BOOLEAN
    BY <1>1, <1>4
  <2>2. commands \in 0..MaxCommands
    BY <1>1, CommandBounds
  <2> QED
    BY <1>4, <1>8, <2>1, <2>2, Zenon DEF CommandTypes
<1>10. CommandAlone /\ \A h \in ConfigHandler : Fresh(command[h])
  BY <1>7, HandAtRest DEF CommandAlone
<1>11. Kept
  BY <1>1, <1>5, <1>6, <1>10, Zenon DEF Kept
<1> QED
  BY <1>8, <1>9, <1>11, Zenon DEF CommandInv

\* The invariant of the commands, in every behaviour.
LEMMA CommandsKept == FairSpec => []CommandInv
<1>1. Init => CommandInv
  BY CommandInit
<1>2. CommandInv /\ [Next]_vars => CommandInv'
  <2> SUFFICES ASSUME CommandInv, [Next]_vars
               PROVE  CommandInv'
    OBVIOUS
  <2>1. CASE Settings!Next
    BY <2>1, CommandNextKept
  <2>2. CASE UNCHANGED commandVars
    BY <2>2 DEF commandVars, CommandInv, CommandTypes, HandSure, Kept, CommandAlone, Fresh
  <2> QED
    BY <2>1, <2>2, CommandSteps
<1> QED
  BY <1>1, <1>2, PTL DEF FairSpec

\* As long as commands do not overlap and no answer is lost, the settings are what the
\* commands asked for, the manual intake is enabled with a role only, and the full consent
\* is the owner's.
THEOREM CommandsStayKept == FairSpec => []CommandsAreKept
<1>1. CommandInv => CommandsAreKept
  <2> SUFFICES ASSUME CommandInv, ~astray
               PROVE  /\ stored = want
                      /\ stored["manual"] = Settings!On => stored["manualRole"] # {}
                      /\ stored["consent"] = Settings!Full => owned
    BY DEF CommandsAreKept, Settings!CommandsAreKept
  <2>1. Kept
    BY CommandFacts, Zenon
  <2> QED
    BY <2>1, Zenon DEF Kept
<1> QED
  BY <1>1, CommandsKept, PTL

---------------------------------------------------------------------------
(* The live queue *)

Mirror == [at : Live!Step, copy : Live!Item]

LiveTypes ==
  /\ item \in Live!Item /\ messages \subseteq 1..MaxMessages
  /\ task \in [Live!Handler -> Mirror]

\* A message whose row is about to be dropped is gone, and stays so: no new message is one
\* that a handler remembers.  A message is stored in a row.
MirrorSure(l) ==
  /\ l.at = "drop" => l.copy.message \notin messages
  /\ l.at \in {"send", "store"} => l.copy.id # 0

LiveInv ==
  /\ LiveTypes
  /\ item.id = 0 => item.message = 0
  /\ \A h \in Live!Handler : MirrorSure(task[h])
  /\ Live!MessageIsKnown

\* What the invariant gives.
LEMMA LiveFacts ==
  ASSUME LiveInv
  PROVE  /\ item \in Live!Item /\ messages \subseteq 1..MaxMessages
         /\ task \in [Live!Handler -> Mirror]
         /\ item.id = 0 => item.message = 0
         /\ \A h \in Live!Handler :
              task[h] \in Mirror /\ task[h].copy \in Live!Item /\ MirrorSure(task[h])
         /\ \A m \in messages \ lost :
              \/ item.message = m
              \/ \E h \in Live!Handler : task[h].at = "store" /\ task[h].copy.message = m
         /\ 0 \notin messages
<1>1. /\ item \in Live!Item /\ messages \subseteq 1..MaxMessages
      /\ task \in [Live!Handler -> Mirror]
  BY DEF LiveInv, LiveTypes
<1>2. \A h \in Live!Handler : task[h] \in Mirror /\ task[h].copy \in Live!Item
  BY <1>1 DEF Mirror
<1>3. 0 \notin messages
  BY <1>1
<1> QED
  BY <1>1, <1>2, <1>3 DEF LiveInv, Live!MessageIsKnown, Live!At

\* Handlers at rest.
LEMMA MirrorAtRest ==
  /\ Live!NoItem \in Live!Item /\ Live!NoItem.id = 0 /\ Live!NoItem.message = 0
  /\ Live!Idle \in Mirror /\ Live!Idle.at = "idle"
<1>1. MaxRows \in Nat /\ MaxMessages \in Nat
  BY GuildAssumption DEF Live!LiveQueueAssumption
<1>2. Live!NoItem \in Live!Item /\ Live!NoItem.id = 0 /\ Live!NoItem.message = 0
  BY <1>1 DEF Live!NoItem, Live!Item
<1> QED
  BY <1>2 DEF Live!Idle, Mirror, Live!Step

\* A handler goes on, with a row it has found.
LEMMA MirrorStep ==
  ASSUME NEW at \in Live!Step, NEW copy \in Live!Item
  PROVE  \E new \in Mirror : /\ new = [at |-> at, copy |-> copy]
                             /\ new.at = at /\ new.copy = copy
<1> DEFINE new == [at |-> at, copy |-> copy]
<1>1. new \in Mirror /\ new.at = at /\ new.copy = copy
  BY DEF Mirror
<1> HIDE DEF new
<1> QED
  BY <1>1 DEF new

\* A step of one handler, with what it does to the row and to the messages.
LEMMA LiveMove ==
  ASSUME LiveInv, NEW h \in Live!Handler, NEW new \in Mirror,
         task' = [task EXCEPT ![h] = new],
         item' \in Live!Item, item'.id = 0 => item'.message = 0,
         messages' \subseteq 1..MaxMessages,
         new.at = "drop" => new.copy.message \notin messages',
         new.at \in {"send", "store"} => new.copy.id # 0,
         \A g \in Live!Handler : g # h /\ task[g].copy.message \notin messages =>
                                   task[g].copy.message \notin messages',
         \A m \in messages' \ lost' :
           \/ item'.message = m
           \/ new.at = "store" /\ new.copy.message = m
           \/ \E g \in Live!Handler : g # h /\ task[g].at = "store" /\ task[g].copy.message = m
  PROVE  LiveInv'
<1>1. /\ task' \in [Live!Handler -> Mirror] /\ task'[h] = new
      /\ \A g \in Live!Handler : g # h => task'[g] = task[g]
  BY LiveFacts
<1>2. \A g \in Live!Handler : MirrorSure(task[g])'
  BY <1>1, LiveFacts DEF MirrorSure
<1>3. Live!MessageIsKnown'
  BY <1>1 DEF Live!MessageIsKnown, Live!At
<1> QED
  BY <1>1, <1>2, <1>3 DEF LiveInv, LiveTypes

\* A step that leaves the row and the messages alone, of a handler without a new message.
LEMMA LiveLocal ==
  ASSUME LiveInv, NEW h \in Live!Handler, NEW new \in Mirror,
         task' = [task EXCEPT ![h] = new], task[h].at # "store",
         item' = item, messages' \subseteq messages, lost' = lost,
         new.at = "drop" => new.copy.message \notin messages',
         new.at \in {"send", "store"} => new.copy.id # 0
  PROVE  LiveInv'
<1>1. item' \in Live!Item /\ (item'.id = 0 => item'.message = 0)
      /\ messages' \subseteq 1..MaxMessages
  BY LiveFacts
<1>2. \A m \in messages' \ lost' :
        \/ item'.message = m
        \/ \E g \in Live!Handler : g # h /\ task[g].at = "store" /\ task[g].copy.message = m
  BY LiveFacts
<1> QED
  BY <1>1, <1>2, LiveMove

\* A handler begins.
LEMMA LiveBegins ==
  ASSUME LiveInv, NEW h \in Live!Handler, Live!Begin(h)
  PROVE  LiveInv'
<1>1. PICK new \in Mirror :
        /\ new = [at |-> IF pending THEN "row" ELSE "list", copy |-> Live!NoItem]
        /\ new.at \notin {"drop", "send", "store"}
  <2>1. (IF pending THEN "row" ELSE "list") \in Live!Step \ {"drop", "send", "store"}
    BY DEF Live!Step
  <2> QED
    BY <2>1, MirrorStep, MirrorAtRest
<1> QED
  BY <1>1, LiveLocal DEF Live!Begin, Live!Goto, Live!At

\* The row is there, or inserted.
LEMMA LiveUpserts ==
  ASSUME LiveInv, NEW h \in Live!Handler, Live!UpsertRow(h)
  PROVE  LiveInv'
<1>1. PICK i \in 1..MaxRows :
        /\ item' = IF item.id = 0 THEN [id |-> i, message |-> 0] ELSE item
        /\ task' = [task EXCEPT ![h] = [at |-> "send", copy |-> item']]
  BY DEF Live!UpsertRow, Live!FreshRow, Live!Goto
<1>2. task[h].at # "store" /\ messages' = messages /\ lost' = lost
  BY DEF Live!UpsertRow, Live!At
<1>3. PICK fresh \in Live!Item : /\ fresh = [id |-> i, message |-> 0]
                                 /\ fresh.id = i /\ fresh.message = 0
  <2>1. 0 \in 0..MaxMessages /\ i \in 0..MaxRows /\ i # 0
    BY GuildAssumption DEF Live!LiveQueueAssumption
  <2> DEFINE fresh == [id |-> i, message |-> 0]
  <2>2. fresh \in Live!Item /\ fresh.id = i /\ fresh.message = 0
    BY <2>1 DEF Live!Item
  <2> HIDE DEF fresh
  <2> QED
    BY <2>2 DEF fresh
<1>4. /\ item' \in Live!Item /\ (item'.id = 0 => item'.message = 0)
      /\ item'.message = item.message /\ item'.id # 0
  BY <1>1, <1>3, LiveFacts
<1>5. PICK new \in Mirror : /\ new = [at |-> "send", copy |-> item'] /\ new.at = "send"
                            /\ new.copy = item'
  <2>1. "send" \in Live!Step
    BY DEF Live!Step
  <2> QED
    BY <1>4, <2>1, MirrorStep
<1>6. \A m \in messages' \ lost' :
        \/ item'.message = m
        \/ \E g \in Live!Handler : g # h /\ task[g].at = "store" /\ task[g].copy.message = m
  BY <1>2, <1>4, LiveFacts
<1>7. messages' \subseteq 1..MaxMessages
  BY <1>2, LiveFacts
<1> QED
  BY <1>1, <1>2, <1>4, <1>5, <1>6, <1>7, LiveMove

\* A new message is sent: nobody remembers its identity.
LEMMA LiveSends ==
  ASSUME LiveInv, NEW h \in Live!Handler, task[h].at = "send", NEW m \in Live!FreshMessage,
         task' = [task EXCEPT ![h] = [at |-> "store", copy |-> [task[h].copy EXCEPT !.message = m]]],
         messages' = messages \cup {m}, item' = item,
         lost \ {m} \subseteq lost'
  PROVE  LiveInv'
<1>1. m \in 1..MaxMessages /\ \A g \in Live!Handler : task[g].copy.message # m
  BY DEF Live!FreshMessage
<1>2. PICK copy \in Live!Item : copy = [task[h].copy EXCEPT !.message = m] /\ copy.message = m
                               /\ copy.id = task[h].copy.id
  <2> DEFINE copy == [task[h].copy EXCEPT !.message = m]
  <2>1. copy \in Live!Item /\ copy.message = m /\ copy.id = task[h].copy.id
    BY <1>1, LiveFacts DEF Live!Item
  <2> HIDE DEF copy
  <2> QED
    BY <2>1 DEF copy
<1>3. PICK new \in Mirror : /\ new = [at |-> "store", copy |-> copy]
                            /\ new.at = "store" /\ new.copy = copy
  <2>1. "store" \in Live!Step
    BY DEF Live!Step
  <2> QED
    BY <2>1, MirrorStep
<1>4. task' = [task EXCEPT ![h] = new]
  BY <1>2, <1>3
<1>5. /\ item' \in Live!Item /\ (item'.id = 0 => item'.message = 0)
      /\ messages' \subseteq 1..MaxMessages
  BY <1>1, LiveFacts
<1>6. \A g \in Live!Handler :
        task[g].copy.message \notin messages => task[g].copy.message \notin messages'
  BY <1>1
<1>7. ASSUME NEW x \in messages' \ lost'
      PROVE  \/ item'.message = x
             \/ new.at = "store" /\ new.copy.message = x
             \/ \E g \in Live!Handler : g # h /\ task[g].at = "store" /\ task[g].copy.message = x
  <2>1. CASE x = m
    BY <1>2, <1>3, <2>1
  <2>2. CASE x # m
    <3>1. x \in messages \ lost
      BY <1>7, <2>2
    <3> QED
      BY <3>1, LiveFacts
  <2> QED
    BY <2>1, <2>2
<1>8. new.copy.id # 0
  BY <1>2, <1>3, LiveFacts DEF MirrorSure
<1> QED
  BY <1>3, <1>4, <1>5, <1>6, <1>7, <1>8, LiveMove

\* A handler sends or edits, or the call fails.
LEMMA LiveSendsOrEdits ==
  ASSUME LiveInv, NEW h \in Live!Handler, Live!SendOrEdit(h) \/ Live!FailSend(h)
  PROVE  LiveInv'
<1>1. /\ task[h].at = "send" /\ item' = item /\ task[h].copy \in Live!Item
      /\ task[h].copy.id # 0
  BY LiveFacts DEF Live!SendOrEdit, Live!FailSend, Live!At, MirrorSure
<1>2. CASE \E m \in Live!FreshMessage :
             /\ messages' = messages \cup {m} /\ lost \ {m} \subseteq lost'
             /\ task' = [task EXCEPT ![h] =
                  [at |-> "store", copy |-> [task[h].copy EXCEPT !.message = m]]]
  BY <1>1, <1>2, LiveSends
<1>3. CASE /\ messages' = messages /\ lost' = lost
           /\ task' = [task EXCEPT ![h] = [at |-> "store", copy |-> task[h].copy]]
  <2>1. PICK new \in Mirror : /\ new = [at |-> "store", copy |-> task[h].copy]
                              /\ new.at = "store" /\ new.copy = task[h].copy
    <3>1. "store" \in Live!Step
      BY DEF Live!Step
    <3> QED
      BY <1>1, <3>1, MirrorStep
  <2> QED
    BY <1>1, <1>3, <2>1, LiveLocal
<1>4. CASE /\ messages' = messages /\ lost' = lost
           /\ task' = [task EXCEPT ![h] = Live!Idle]
  <2>1. PICK new \in Mirror : new = Live!Idle /\ new.at = "idle"
    BY MirrorAtRest
  <2> QED
    BY <1>1, <1>4, <2>1, LiveLocal
<1>5. CASE Live!SendOrEdit(h)
  BY <1>2, <1>3, <1>5 DEF Live!SendOrEdit, Live!Goto
<1>6. CASE Live!FailSend(h)
  BY <1>2, <1>4, <1>6 DEF Live!FailSend, Live!Goto, Live!Return
<1> QED
  BY <1>5, <1>6

\* A handler returns.
LEMMA LiveReturns ==
  ASSUME LiveInv, NEW h \in Live!Handler, task' = [task EXCEPT ![h] = Live!Idle],
         item' \in Live!Item, item'.id = 0 => item'.message = 0, messages' = messages,
         \A m \in messages' \ lost' :
           \/ item'.message = m
           \/ \E g \in Live!Handler : g # h /\ task[g].at = "store" /\ task[g].copy.message = m
  PROVE  LiveInv'
<1>1. PICK new \in Mirror : new = Live!Idle /\ new.at = "idle"
  BY MirrorAtRest
<1>2. messages' \subseteq 1..MaxMessages
  BY LiveFacts
<1> QED
  BY <1>1, <1>2, LiveMove

\* A message is stored, or its row is not there any more.
LEMMA LiveStores ==
  ASSUME LiveInv, NEW h \in Live!Handler, Live!StoreMessage(h)
  PROVE  LiveInv'
<1> DEFINE copy == task[h].copy
<1>1. /\ task' = [task EXCEPT ![h] = Live!Idle] /\ messages' = messages
      /\ copy \in Live!Item /\ item \in Live!Item /\ copy.id # 0
  BY LiveFacts DEF Live!StoreMessage, Live!Return, Live!At, MirrorSure
<1>2. \A m \in messages \ lost :
        \/ item.message = m \/ copy.message = m
        \/ \E g \in Live!Handler : g # h /\ task[g].at = "store" /\ task[g].copy.message = m
  BY LiveFacts
<1>3. 0 \notin messages /\ (item.id = 0 => item.message = 0)
  BY LiveFacts
<1>4. CASE item.id = copy.id
  <2>1. item' = copy /\ lost' = lost \cup ({item.message} \ {0, copy.message})
    BY <1>4 DEF Live!StoreMessage
  <2>2. \A m \in messages' \ lost' :
          \/ item'.message = m
          \/ \E g \in Live!Handler : g # h /\ task[g].at = "store" /\ task[g].copy.message = m
    BY <1>1, <1>2, <1>3, <2>1
  <2> QED
    BY <1>1, <2>1, <2>2, LiveReturns
<1>5. CASE item.id # copy.id
  <2>1. item' = item /\ lost' = lost \cup {copy.message}
    BY <1>5 DEF Live!StoreMessage
  <2>2. \A m \in messages' \ lost' :
          \/ item'.message = m
          \/ \E g \in Live!Handler : g # h /\ task[g].at = "store" /\ task[g].copy.message = m
    BY <1>1, <1>2, <2>1
  <2> QED
    BY <1>1, <1>3, <2>1, <2>2, LiveReturns
<1> QED
  BY <1>4, <1>5

\* The row is dropped, or it is another one by now.
LEMMA LiveDrops ==
  ASSUME LiveInv, NEW h \in Live!Handler, Live!DropRow(h)
  PROVE  LiveInv'
<1> DEFINE copy == task[h].copy
<1>1. /\ task' = [task EXCEPT ![h] = Live!Idle] /\ messages' = messages
      /\ item \in Live!Item /\ task[h].at = "drop" /\ copy.message \notin messages
  BY LiveFacts DEF Live!DropRow, Live!Return, Live!At, MirrorSure
<1>2. \A m \in messages \ lost :
        \/ item.message = m
        \/ \E g \in Live!Handler : g # h /\ task[g].at = "store" /\ task[g].copy.message = m
  BY <1>1, LiveFacts
<1>3. 0 \notin messages /\ (item.id = 0 => item.message = 0)
  BY LiveFacts
<1>4. CASE item.id = copy.id
  <2>1. item' = Live!NoItem /\ lost' = lost \cup ({item.message} \ {0, copy.message})
    BY <1>4 DEF Live!DropRow
  <2>2. \A m \in messages' \ lost' :
          \E g \in Live!Handler : g # h /\ task[g].at = "store" /\ task[g].copy.message = m
    BY <1>1, <1>2, <1>3, <2>1
  <2>3. item' \in Live!Item /\ item'.message = 0
    BY <2>1, MirrorAtRest
  <2> QED
    BY <1>1, <2>2, <2>3, LiveReturns
<1>5. CASE item.id # copy.id
  <2>1. item' = item /\ lost' = lost
    BY <1>5 DEF Live!DropRow
  <2> QED
    BY <1>1, <1>2, <1>3, <2>1, LiveReturns
<1> QED
  BY <1>4, <1>5

\* A stale row is looked up, its message deleted, or not.
LEMMA LiveClears ==
  ASSUME LiveInv, NEW h \in Live!Handler,
         Live!ListItems(h) \/ Live!DeleteMessage(h) \/ Live!FailDelete(h)
  PROVE  LiveInv'
<1>1. item' = item /\ lost' = lost /\ task[h].at # "store"
  BY DEF Live!ListItems, Live!DeleteMessage, Live!FailDelete, Live!At
<1>2. CASE messages' = messages /\ task' = [task EXCEPT ![h] = Live!Idle]
  <2>1. PICK new \in Mirror : new = Live!Idle /\ new.at = "idle"
    BY MirrorAtRest
  <2> QED
    BY <1>1, <1>2, <2>1, LiveLocal
<1>3. CASE messages' = messages /\ task' = [task EXCEPT ![h] = [at |-> "unsend", copy |-> item]]
  <2>1. PICK new \in Mirror : new = [at |-> "unsend", copy |-> item] /\ new.at = "unsend"
    <3>1. "unsend" \in Live!Step
      BY DEF Live!Step
    <3> QED
      BY <3>1, LiveFacts, MirrorStep
  <2> QED
    BY <1>1, <1>3, <2>1, LiveLocal
<1>4. CASE Live!DeleteMessage(h)
  <2>1. PICK new \in Mirror : /\ new = [at |-> "drop", copy |-> task[h].copy]
                              /\ new.copy = task[h].copy
    <3>1. "drop" \in Live!Step
      BY DEF Live!Step
    <3> QED
      BY <3>1, LiveFacts, MirrorStep
  <2>2. messages' = messages \ {task[h].copy.message} /\ task' = [task EXCEPT ![h] = new]
    BY <1>4, <2>1 DEF Live!DeleteMessage, Live!Goto
  <2> QED
    BY <1>1, <2>1, <2>2, LiveLocal
<1> QED
  BY <1>2, <1>3, <1>4 DEF Live!ListItems, Live!FailDelete, Live!Return, Live!Goto

\* The case changes, a message is deleted by somebody else, or the process ends.
LEMMA LiveElse ==
  ASSUME LiveInv, Live!Change \/ Live!Vanish \/ Live!Crash
  PROVE  LiveInv'
<1>1. CASE Live!Change \/ Live!Vanish
  <2>1. /\ item' = item /\ task' = task /\ lost' = lost /\ messages' \subseteq messages
    BY <1>1 DEF Live!Change, Live!Vanish
  <2>2. messages' \subseteq 1..MaxMessages
    BY <2>1, LiveFacts
  <2>3. Live!MessageIsKnown'
    BY <2>1 DEF LiveInv, Live!MessageIsKnown, Live!At
  <2> QED
    BY <2>1, <2>2, <2>3 DEF LiveInv, LiveTypes, MirrorSure
<1>2. CASE Live!Crash
  <2>1. /\ item' = item /\ messages' = messages
        /\ task' = [h \in Live!Handler |-> Live!Idle]
        /\ lost' = lost \cup {task[h].copy.message :
                                h \in {g \in Live!Handler : task[g].at = "store"}}
    BY <1>2 DEF Live!Crash, Live!At
  <2>2. task' \in [Live!Handler -> Mirror] /\ \A h \in Live!Handler : MirrorSure(task[h])'
    BY <2>1, MirrorAtRest DEF MirrorSure
  <2>3. \A m \in messages' \ lost' : item'.message = m
    BY <2>1, LiveFacts
  <2>4. Live!MessageIsKnown'
    BY <2>3 DEF Live!MessageIsKnown
  <2> QED
    BY <2>1, <2>2, <2>4 DEF LiveInv, LiveTypes
<1> QED
  BY <1>1, <1>2

\* Every step of the system is one of the live queue, or none of its business.
LEMMA LiveSteps ==
  ASSUME [Next]_vars
  PROVE  Live!Next \/ UNCHANGED liveVars
<1>1. CASE InLive(Live!Next)
  BY <1>1 DEF InLive
<1>2. CASE Next /\ ~InLive(Live!Next)
  BY <1>2 DEF Next, InConfig, CommandNext, WebNext, SetupNext, TriggerNext, IntakeNext,
     GateNext, mirrors
<1>3. CASE UNCHANGED vars
  BY <1>3 DEF vars, mirrors
<1> QED
  BY <1>1, <1>2, <1>3

\* The invariant of the live queue, in every behaviour.
LEMMA LiveKept == FairSpec => []LiveInv
<1>1. Init => LiveInv
  BY MirrorAtRest DEF Init, Live!Init, LiveInv, LiveTypes, MirrorSure, Live!MessageIsKnown
<1>2. LiveInv /\ [Next]_vars => LiveInv'
  <2> SUFFICES ASSUME LiveInv, [Next]_vars
               PROVE  LiveInv'
    OBVIOUS
  <2>0. Timer \in Live!Handler /\ Task \subseteq Live!Handler
    BY DEF Live!Handler
  <2>1. CASE Live!Next
    <3>1. CASE Live!Change \/ Live!Vanish \/ Live!Crash
      BY <3>1, LiveElse
    <3>2. CASE Live!Tick \/ \E h \in Task : Live!StartTask(h)
      BY <2>0, <3>2, LiveBegins DEF Live!Tick, Live!StartTask
    <3>3. CASE \E h \in Live!Handler : Live!Work(h) \/ Live!FailSend(h) \/ Live!FailDelete(h)
      BY <3>3, LiveUpserts, LiveSendsOrEdits, LiveStores, LiveClears, LiveDrops DEF Live!Work
    <3> QED
      BY <2>1, <3>1, <3>2, <3>3 DEF Live!Next
  <2>2. CASE UNCHANGED liveVars
    BY <2>2 DEF liveVars, LiveInv, LiveTypes, MirrorSure, Live!MessageIsKnown, Live!At
  <2> QED
    BY <2>1, <2>2, LiveSteps
<1> QED
  BY <1>1, <1>2, PTL DEF FairSpec

\* No message of the live queue is forgotten.
THEOREM MessagesStayKnown == FairSpec => []Live!MessageIsKnown
<1>1. LiveInv => Live!MessageIsKnown
  BY DEF LiveInv
<1> QED
  BY <1>1, LiveKept, PTL
---------------------------------------------------------------------------
(* The configuration of a guild *)

\* A call about to write a setting has the whole of the settings.
ConfigWrites(l) == l.at = "write" /\ l.field \in Name => l.got \in Config!Config

ConfigTypes ==
  /\ server \in Config!Config \cup {NoConfig} /\ cache \in Config!Config \cup {NoConfig}
  /\ age \in 0..Ttl /\ web \in Config!Local /\ updates \in 0..MaxUpdates
ConfigInv ==
  /\ ConfigTypes
  /\ caller \in [ConfigHandler -> Config!Local]
  /\ \A h \in ConfigHandler : ConfigWrites(caller[h])

\* Counting one more, below a bound.
LEMMA OneMoreCount ==
  ASSUME NEW n \in Nat, NEW k \in 0..n, NEW m, k < n, m = k + 1
  PROVE  m \in 0..n
OBVIOUS

\* The numbers of the configuration; a column is not a setting.
LEMMA ConfigNumbers == Ttl \in Nat \ {0} /\ MaxUpdates \in Nat /\ Name \cap Id = {}
BY GuildAssumption DEF Config!ConfigStoreAssumption

\* A configuration with one field set is one, and so is that of the defaults.
LEMMA ConfigFields ==
  /\ Config!Default \in Config!Config
  /\ \A c \in Config!Config : \A f \in Config!Field : c[f] \in 0..MaxUpdates
  /\ \A c \in Config!Config : \A f : \A v \in 0..MaxUpdates : [c EXCEPT ![f] = v] \in Config!Config
<1>1. Config!Default \in Config!Config
  BY ConfigNumbers DEF Config!Default, Config!Config
<1>2. ASSUME NEW c \in Config!Config
      PROVE  /\ \A f \in Config!Field : c[f] \in 0..MaxUpdates
             /\ \A f : \A v \in 0..MaxUpdates : [c EXCEPT ![f] = v] \in Config!Config
  BY DEF Config!Config
<1> QED
  BY <1>1, <1>2

\* A call at rest.
LEMMA ConfigAtRest == Config!Idle \in Config!Local /\ Config!Idle.at = "idle"
BY ConfigNumbers DEF Config!Idle, Config!Local

\* A call that goes on as a call that is typed.
LEMMA ConfigMove ==
  ASSUME ConfigInv, NEW h \in ConfigHandler, NEW new \in Config!Local, ConfigWrites(new),
         caller' = [caller EXCEPT ![h] = new], ConfigTypes'
  PROVE  ConfigInv'
<1>1. caller' \in [ConfigHandler -> Config!Local]
  BY DEF ConfigInv
<1>2. \A g \in ConfigHandler : caller'[g] = IF g = h THEN new ELSE caller[g]
  BY DEF ConfigInv
<1>3. \A g \in ConfigHandler : ConfigWrites(caller'[g])
  BY <1>2, Zenon DEF ConfigInv
<1> QED
  BY <1>1, <1>3 DEF ConfigInv, ConfigWrites

\* A call that was given a configuration: it is at rest, or about to write it.
LEMMA ConfigAnswered ==
  ASSUME NEW l \in Config!Local, NEW c \in Config!Config,
         NEW new, new = [l EXCEPT !.at = "write", !.got = [c EXCEPT ![l.field] = l.value]]
  PROVE  new \in Config!Local /\ ConfigWrites(new)
<1>1. l.value \in 0..MaxUpdates
  BY DEF Config!Local
<1>2. [c EXCEPT ![l.field] = l.value] \in Config!Config
  BY <1>1, ConfigFields
<1> QED
  BY <1>2 DEF Config!Local, ConfigWrites

\* The answer to a reading, in either case.
LEMMA ConfigAnswers ==
  ASSUME ConfigInv, NEW h \in ConfigHandler, NEW c \in Config!Config, Config!Answered(h, c),
         ConfigTypes'
  PROVE  ConfigInv'
<1>1. caller[h] \in Config!Local
  BY DEF ConfigInv
<1>2. CASE caller' = [caller EXCEPT ![h] = Config!Idle]
  BY <1>2, ConfigAtRest, ConfigMove DEF ConfigWrites
<1>3. CASE caller' = [caller EXCEPT ![h] =
             [caller[h] EXCEPT !.at = "write",
                !.got = [c EXCEPT ![caller[h].field] = caller[h].value]]]
  <2> DEFINE new == [caller[h] EXCEPT !.at = "write",
                       !.got = [c EXCEPT ![caller[h].field] = caller[h].value]]
  <2>1. new \in Config!Local /\ ConfigWrites(new)
    BY <1>1, ConfigAnswered, Zenon
  <2>2. caller' = [caller EXCEPT ![h] = new]
    BY <1>3, Zenon
  <2> HIDE DEF new
  <2> QED
    BY <2>1, <2>2, ConfigMove
<1> QED
  BY <1>2, <1>3, Zenon DEF Config!Answered, Config!Set

\* A call begins.
LEMMA ConfigBegins ==
  ASSUME ConfigInv, NEW h \in ConfigHandler,
         \/ Config!Use(h)
         \/ \E f \in Name : Config!SetSetting(h, f)
         \/ \E f \in Id : Config!SetColumn(h, f)
  PROVE  ConfigInv'
<1> USE ConfigNumbers
<1>1. CASE Config!Use(h)
  <2> DEFINE new == [Config!Idle EXCEPT !.at = "read", !.held = cache]
  <2>0. cache \in Config!Config \cup {NoConfig}
    BY DEF ConfigInv, ConfigTypes
  <2>1. new \in Config!Local /\ ConfigWrites(new)
    BY <2>0, ConfigAtRest DEF Config!Local, ConfigWrites
  <2>2. ConfigTypes' /\ caller' = [caller EXCEPT ![h] = new]
    BY <1>1 DEF Config!Use, Config!Set, Config!NoCache, ConfigInv, ConfigTypes
  <2> HIDE DEF new
  <2> QED
    BY <2>1, <2>2, ConfigMove
<1>2. CASE \E f \in Name : Config!SetSetting(h, f)
  <2>1. PICK f \in Name : Config!SetSetting(h, f)
    BY <1>2
  <2>0. updates < MaxUpdates /\ updates' = updates + 1 /\ updates \in 0..MaxUpdates
    BY <2>1, Zenon DEF Config!SetSetting, ConfigInv, ConfigTypes
  <2>2. updates' \in 0..MaxUpdates /\ updates' = updates + 1
    BY <2>0, OneMoreCount
  <2>3. ConfigTypes'
    BY <2>1, <2>2 DEF Config!SetSetting, Config!NoCache, ConfigInv, ConfigTypes
  <2> DEFINE wanted == [Config!Idle EXCEPT !.held = cache, !.field = f, !.value = updates']
             first == [wanted EXCEPT !.at = "write", !.got = [cache EXCEPT ![f] = updates']]
             second == [wanted EXCEPT !.at = "read"]
  <2>4. wanted \in Config!Local
    BY <2>2 DEF ConfigInv, ConfigTypes, Config!Idle, Config!Local, Config!Field
  <2>5. CASE Config!Fresh
    <3>1. cache \in Config!Config
      BY <2>5 DEF Config!Fresh, ConfigInv, ConfigTypes
    <3>2. [cache EXCEPT ![f] = updates'] \in Config!Config
      BY <2>2, <3>1, ConfigFields
    <3> HIDE DEF wanted
    <3>3. first \in Config!Local /\ ConfigWrites(first)
      BY <2>4, <3>2 DEF Config!Local, ConfigWrites
    <3>4. caller' = [caller EXCEPT ![h] = first]
      BY <2>1, <2>2, <2>5 DEF Config!SetSetting, Config!Set, wanted
    <3> HIDE DEF first
    <3> QED
      BY <2>3, <3>3, <3>4, ConfigMove
  <2>6. CASE ~Config!Fresh
    <3> HIDE DEF wanted
    <3>1. second \in Config!Local /\ ConfigWrites(second)
      BY <2>4 DEF Config!Local, ConfigWrites
    <3>2. caller' = [caller EXCEPT ![h] = second]
      BY <2>1, <2>2, <2>6 DEF Config!SetSetting, Config!Set, wanted
    <3> HIDE DEF second
    <3> QED
      BY <2>3, <3>1, <3>2, ConfigMove
  <2> QED
    BY <2>5, <2>6
<1>3. CASE \E f \in Id : Config!SetColumn(h, f)
  <2>1. PICK f \in Id : Config!SetColumn(h, f)
    BY <1>3
  <2>0. updates < MaxUpdates /\ updates' = updates + 1 /\ updates \in 0..MaxUpdates
    BY <2>1, Zenon DEF Config!SetColumn, ConfigInv, ConfigTypes
  <2>2. updates' \in 0..MaxUpdates /\ updates' = updates + 1
    BY <2>0, OneMoreCount
  <2>3. ConfigTypes'
    BY <2>1, <2>2 DEF Config!SetColumn, Config!NoCache, ConfigInv, ConfigTypes
  <2> DEFINE new == [Config!Idle EXCEPT !.at = "write", !.field = f, !.value = updates']
  <2>4. new \in Config!Local /\ ConfigWrites(new)
    BY <2>2 DEF Config!Idle, Config!Local, Config!Field, ConfigWrites
  <2>5. caller' = [caller EXCEPT ![h] = new]
    BY <2>1, <2>2 DEF Config!SetColumn, Config!Set
  <2> HIDE DEF new
  <2> QED
    BY <2>3, <2>4, <2>5, ConfigMove
<1> QED
  BY <1>1, <1>2, <1>3

\* A call reads.
LEMMA ConfigReads ==
  ASSUME ConfigInv, NEW h \in ConfigHandler,
         Config!Read(h) \/ Config!InsertDefault(h) \/ Config!Load(h) \/ Config!FailRead(h)
  PROVE  ConfigInv'
<1> USE ConfigNumbers
<1>0. caller[h] \in Config!Local
  BY DEF ConfigInv
<1>1. CASE Config!Read(h)
  <2> DEFINE new == [caller[h] EXCEPT !.got = server,
                       !.at = IF server = NoConfig /\ @ = "read" THEN "insert" ELSE "load"]
  <2>1. new \in Config!Local /\ ConfigWrites(new)
    BY <1>0 DEF ConfigInv, ConfigTypes, Config!Local, ConfigWrites
  <2>2. ConfigTypes' /\ caller' = [caller EXCEPT ![h] = new]
    BY <1>1 DEF Config!Read, Config!Set, Config!NoCache, ConfigInv, ConfigTypes
  <2> HIDE DEF new
  <2> QED
    BY <2>1, <2>2, ConfigMove
<1>2. CASE Config!InsertDefault(h)
  <2> DEFINE new == [caller[h] EXCEPT !.at = "reread"]
  <2>1. new \in Config!Local /\ ConfigWrites(new)
    BY <1>0 DEF Config!Local, ConfigWrites
  <2>2. ConfigTypes'
    BY <1>2, ConfigFields DEF Config!InsertDefault, Config!NoCache, ConfigInv, ConfigTypes
  <2>3. caller' = [caller EXCEPT ![h] = new]
    BY <1>2 DEF Config!InsertDefault, Config!Goto
  <2> HIDE DEF new
  <2> QED
    BY <2>1, <2>2, <2>3, ConfigMove
<1>3. CASE Config!Load(h)
  <2>1. PICK c \in Config!Config : cache' = c /\ age' = 0 /\ Config!Answered(h, c)
    <3>1. (IF caller[h].got = NoConfig THEN Config!Default ELSE caller[h].got) \in Config!Config
      BY <1>0, ConfigFields DEF Config!Local
    <3> QED
      BY <1>3, <3>1, Zenon DEF Config!Load, Config!Store
  <2>2. ConfigTypes'
    BY <1>3, <2>1 DEF Config!Load, ConfigInv, ConfigTypes
  <2> QED
    BY <2>1, <2>2, ConfigAnswers
<1>4. CASE Config!FailRead(h)
  <2>1. PICK c \in Config!Config : /\ Config!Answered(h, c)
                                   /\ (cache' = cache /\ age' = age) \/ (cache' = c /\ age' = 0)
    <3>1. caller[h].held # NoConfig => caller[h].held \in Config!Config
      BY <1>0 DEF Config!Local
    <3> QED
      BY <1>4, <3>1, ConfigFields, Zenon DEF Config!FailRead, Config!Store, Config!NoCache
  <2>2. ConfigTypes'
    BY <1>4, <2>1 DEF Config!FailRead, ConfigInv, ConfigTypes
  <2> QED
    BY <2>1, <2>2, ConfigAnswers
<1> QED
  BY <1>1, <1>2, <1>3, <1>4

\* A call writes, and what is written is cached.
LEMMA ConfigWritten ==
  ASSUME ConfigInv, NEW h \in ConfigHandler,
         Config!Upsert(h) \/ Config!CacheUpdated(h) \/ Config!FailUpsert(h)
  PROVE  ConfigInv'
<1> USE ConfigNumbers
<1>0. caller[h] \in Config!Local
  BY DEF ConfigInv
<1>1. CASE Config!Upsert(h)
  <2> DEFINE old == IF server = NoConfig THEN Config!Default ELSE server
             f == caller[h].field
             written == [g \in Config!Field |-> IF g \in Name THEN caller[h].got[g] ELSE old[g]]
             column == [old EXCEPT ![f] = caller[h].value]
  <2>1. old \in Config!Config
    BY ConfigFields DEF ConfigInv, ConfigTypes
  <2> HIDE DEF old
  <2>2. f \in Name => written \in Config!Config
    <3> SUFFICES ASSUME f \in Name
                 PROVE  written \in Config!Config
      OBVIOUS
    <3>1. caller[h].got \in Config!Config
      BY <1>1 DEF Config!Upsert, Config!At, ConfigInv, ConfigWrites
    <3>2. \A g \in Config!Field : caller[h].got[g] \in 0..MaxUpdates /\ old[g] \in 0..MaxUpdates
      BY <2>1, <3>1, ConfigFields
    <3> QED
      BY <3>2 DEF Config!Config
  <2>3. column \in Config!Config
    <3>1. caller[h].value \in 0..MaxUpdates
      BY <1>0 DEF Config!Local
    <3> QED
      BY <2>1, <3>1, ConfigFields
  <2>4. server' = IF f \in Name THEN written ELSE column
    BY <1>1, Zenon DEF Config!Upsert, old
  <2> HIDE DEF written, column
  <2>5. server' \in Config!Config
    BY <2>2, <2>3, <2>4
  <2> DEFINE new == [caller[h] EXCEPT !.at = "returned", !.got = server']
  <2>6. caller' = [caller EXCEPT ![h] = new]
    BY <1>1, Zenon DEF Config!Upsert, Config!Set
  <2>7. new \in Config!Local /\ ConfigWrites(new)
    BY <1>0, <2>5 DEF Config!Local, ConfigWrites
  <2>8. ConfigTypes'
    BY <1>1, <2>5 DEF Config!Upsert, Config!NoCache, ConfigInv, ConfigTypes
  <2> HIDE DEF new
  <2> QED
    BY <2>6, <2>7, <2>8, ConfigMove
<1>2. CASE Config!CacheUpdated(h)
  <2>1. cache' = caller[h].got /\ age' = 0 /\ caller' = [caller EXCEPT ![h] = Config!Idle]
    BY <1>2 DEF Config!CacheUpdated, Config!Store, Config!Set
  <2>2. cache' \in Config!Config \cup {NoConfig}
    BY <1>0, <2>1 DEF Config!Local
  <2>3. ConfigTypes'
    BY <1>2, <2>1, <2>2 DEF Config!CacheUpdated, ConfigInv, ConfigTypes
  <2> QED
    BY <2>1, <2>3, ConfigAtRest, ConfigMove DEF ConfigWrites
<1>3. CASE Config!FailUpsert(h)
  <2>1. ConfigTypes' /\ caller' = [caller EXCEPT ![h] = Config!Idle]
    BY <1>3 DEF Config!FailUpsert, Config!Set, Config!NoCache, ConfigInv, ConfigTypes
  <2> QED
    BY <2>1, ConfigAtRest, ConfigMove DEF ConfigWrites
<1> QED
  BY <1>1, <1>2, <1>3

\* The dashboard, the time and the process leave the calls as they are, or end them.
LEMMA ConfigOthers ==
  ASSUME ConfigInv,
         \/ (\E f \in Config!Field : Config!WebRead(f)) \/ Config!WebWrite
         \/ Config!Tick \/ Config!Restart
  PROVE  ConfigInv'
<1> USE ConfigNumbers
<1>0. ASSUME caller' = caller, ConfigTypes'
      PROVE  ConfigInv'
  BY <1>0 DEF ConfigInv, ConfigWrites
<1>1. CASE \E f \in Config!Field : Config!WebRead(f)
  <2>1. PICK f \in Config!Field : Config!WebRead(f)
    BY <1>1
  <2>0. updates < MaxUpdates /\ updates' = updates + 1 /\ updates \in 0..MaxUpdates
    BY <2>1, Zenon DEF Config!WebRead, ConfigInv, ConfigTypes
  <2>2. updates' \in 0..MaxUpdates /\ updates' = updates + 1
    BY <2>0, OneMoreCount
  <2>3. web' \in Config!Local
    BY <2>1, <2>2 DEF Config!WebRead, ConfigInv, ConfigTypes, Config!Idle, Config!Local
  <2> QED
    BY <1>0, <2>1, <2>2, <2>3 DEF Config!WebRead, Config!NoCache, ConfigInv, ConfigTypes
<1>2. CASE Config!WebWrite
  <2> DEFINE old == IF server = NoConfig THEN Config!Default ELSE server
             ids == IF web.got = NoConfig THEN Config!Default ELSE web.got
  <2>1. old \in Config!Config /\ ids \in Config!Config /\ web.value \in 0..MaxUpdates
    BY ConfigFields DEF ConfigInv, ConfigTypes, Config!Local
  <2>2. server' = [f \in Config!Field |-> IF f = web.field THEN web.value
                                          ELSE IF f \in Id THEN ids[f] ELSE old[f]]
    BY <1>2, Zenon DEF Config!WebWrite
  <2> HIDE DEF old, ids
  <2>3. \A f \in Config!Field : ids[f] \in 0..MaxUpdates /\ old[f] \in 0..MaxUpdates
    BY <2>1, ConfigFields
  <2>4. server' \in Config!Config
    BY <2>1, <2>2, <2>3 DEF Config!Config
  <2>5. caller' = caller /\ ConfigTypes'
    BY <1>2, <2>4, ConfigAtRest DEF Config!WebWrite, Config!NoCache, ConfigInv, ConfigTypes
  <2> QED
    BY <1>0, <2>5
<1>3. CASE Config!Tick
  BY <1>0, <1>3 DEF Config!Tick, ConfigInv, ConfigTypes
<1>4. CASE Config!Restart
  <2>1. ConfigTypes'
    BY <1>4 DEF Config!Restart, ConfigInv, ConfigTypes
  <2>2. caller' = [h \in ConfigHandler |-> Config!Idle]
    BY <1>4 DEF Config!Restart
  <2>3. /\ caller' \in [ConfigHandler -> Config!Local]
        /\ \A h \in ConfigHandler : caller'[h].at = "idle"
    BY <2>2, ConfigAtRest
  <2> QED
    BY <2>1, <2>3 DEF ConfigInv, ConfigWrites
<1> QED
  BY <1>1, <1>2, <1>3, <1>4

\* Every step of the configuration.
LEMMA ConfigNextKept ==
  ASSUME ConfigInv, Config!Next
  PROVE  ConfigInv'
BY ConfigBegins, ConfigReads, ConfigWritten, ConfigOthers DEF Config!Next, Config!Work

\* Every step of the system is one of the configuration, or none of its business.
LEMMA ConfigSteps ==
  ASSUME [Next]_vars
  PROVE  Config!Next \/ UNCHANGED configVars
<1>1. CASE InConfig(Config!Next)
  BY <1>1 DEF InConfig
<1>2. CASE Next /\ ~InConfig(Config!Next)
  BY <1>2 DEF Next, InLive, CommandNext, WebNext, SetupNext, TriggerNext, IntakeNext,
     GateNext, mirrors
<1>3. CASE UNCHANGED vars
  BY <1>3 DEF vars, mirrors
<1> QED
  BY <1>1, <1>2, <1>3

\* The invariant of the configuration, in every behaviour.
LEMMA ConfigKept == FairSpec => []ConfigInv
<1>1. Init => ConfigInv
  <2> SUFFICES ASSUME Init
               PROVE  ConfigInv
    OBVIOUS
  <2>1. /\ server \in {NoConfig, Config!Default} /\ cache = NoConfig /\ age = Ttl
        /\ caller = [h \in ConfigHandler |-> Config!Idle] /\ web = Config!Idle /\ updates = 0
    BY DEF Init, Config!Init
  <2>2. ConfigTypes
    BY <2>1, ConfigFields, ConfigAtRest, ConfigNumbers DEF ConfigTypes
  <2>3. caller \in [ConfigHandler -> Config!Local] /\ \A h \in ConfigHandler : caller[h].at = "idle"
    BY <2>1, ConfigAtRest
  <2> QED
    BY <2>2, <2>3 DEF ConfigInv, ConfigWrites
<1>2. ConfigInv /\ [Next]_vars => ConfigInv'
  <2> SUFFICES ASSUME ConfigInv, [Next]_vars
               PROVE  ConfigInv'
    OBVIOUS
  <2>1. CASE Config!Next
    BY <2>1, ConfigNextKept
  <2>2. CASE UNCHANGED configVars
    BY <2>2 DEF configVars, ConfigInv, ConfigTypes, ConfigWrites
  <2> QED
    BY <2>1, <2>2, ConfigSteps
<1> QED
  BY <1>1, <1>2, PTL DEF FairSpec
---------------------------------------------------------------------------
(* The counters *)

\* A counter stays, or counts one more below its bound.
Counts(k, new, n) == new = k \/ (k < n /\ new = k + 1)

\* A counter stays within its bound.
LEMMA CountsWithin ==
  ASSUME NEW n \in Nat, NEW k \in 0..n, NEW new, Counts(k, new, n)
  PROVE  new \in 0..n
BY DEF Counts

\* What is counted, by all parts or by one.
Counters ==
  /\ faults \in 0..MaxFaults
  /\ changes \in 0..LiveChanges
  /\ starts \in 0..MaxSetups /\ outside \in 0..MaxOutside
  /\ crowdMoves \in 0..CrowdMoves /\ intakes \in 0..MaxIntakes
  /\ submits \in 0..MaxSubmits /\ turns \in 0..WebChanges

Bounds ==
  /\ MaxFaults \in Nat /\ LiveChanges \in Nat /\ MaxSetups \in Nat /\ MaxOutside \in Nat
  /\ CrowdMoves \in Nat /\ MaxIntakes \in Nat /\ MaxSubmits \in Nat /\ WebChanges \in Nat

\* The bounds are numbers.
LEMMA BoundsAreNumbers == Bounds
BY GuildAssumption DEF Bounds, Live!LiveQueueAssumption, Setup!GuildSetupAssumption,
   Intake!RoleIntakeAssumption, Actions!WebActionsAssumption

\* What a step does to the counters.
CountersCount ==
  /\ Counts(faults, faults', MaxFaults)
  /\ Counts(changes, changes', LiveChanges)
  /\ Counts(starts, starts', MaxSetups) /\ Counts(outside, outside', MaxOutside)
  /\ Counts(crowdMoves, crowdMoves', CrowdMoves) /\ Counts(intakes, intakes', MaxIntakes)
  /\ Counts(submits, submits', MaxSubmits) /\ Counts(turns, turns', WebChanges)

\* The counters stay within their bounds.
LEMMA CountersWithin ==
  ASSUME Counters, CountersCount
  PROVE  Counters'
BY CountsWithin, BoundsAreNumbers, Zenon DEF Counters, CountersCount, Bounds

\* The steps of the live queue.
LEMMA LiveCounts ==
  ASSUME Live!Next
  PROVE  Counts(changes, changes', LiveChanges) /\ Counts(faults, faults', MaxFaults)
<1>1. CASE Live!Change \/ Live!Tick \/ \E h \in Task : Live!StartTask(h)
  <2>1. faults' = faults /\ Counts(changes, changes', LiveChanges)
    BY <1>1, Zenon DEF Live!Change, Live!Tick, Live!StartTask, Live!Begin, Counts
  <2> QED
    BY <2>1 DEF Counts
<1>2. CASE \/ Live!Vanish \/ Live!Crash
           \/ \E h \in Live!Handler : Live!FailSend(h) \/ Live!FailDelete(h)
  <2>1. changes' = changes /\ Live!Fault
    BY <1>2, Zenon DEF Live!Vanish, Live!Crash, Live!FailSend, Live!FailDelete
  <2> QED
    BY <2>1 DEF Live!Fault, Counts
<1>3. CASE \E h \in Live!Handler : Live!Work(h)
  <2>1. UNCHANGED Live!counters
    BY <1>3, Zenon DEF Live!Work, Live!UpsertRow, Live!SendOrEdit, Live!StoreMessage,
       Live!ListItems, Live!DeleteMessage, Live!DropRow
  <2> QED
    BY <2>1 DEF Live!counters, Counts
<1> QED
  BY <1>1, <1>2, <1>3 DEF Live!Next

\* The steps of the configuration.
LEMMA ConfigCounts ==
  ASSUME Config!Next
  PROVE  Counts(faults, faults', MaxFaults)
<1>1. ASSUME NEW h \in ConfigHandler, Config!Use(h) \/ Config!Work(h)
      PROVE  Counts(faults, faults', MaxFaults)
  BY <1>1, Zenon DEF Counts, Config!Use, Config!Work, Config!Read, Config!InsertDefault,
     Config!Load, Config!FailRead, Config!Upsert, Config!CacheUpdated, Config!FailUpsert
<1>2. ASSUME \E h \in ConfigHandler :
               \/ \E f \in Name : Config!SetSetting(h, f)
               \/ \E f \in Id : Config!SetColumn(h, f)
      PROVE  Counts(faults, faults', MaxFaults)
  BY <1>2, Zenon DEF Counts, Config!SetSetting, Config!SetColumn
<1>3. ASSUME \/ (\E f \in Config!Field : Config!WebRead(f)) \/ Config!WebWrite
             \/ Config!Tick \/ Config!Restart
      PROVE  Counts(faults, faults', MaxFaults)
  BY <1>3, Zenon DEF Counts, Config!WebRead, Config!WebWrite, Config!Tick, Config!Restart
<1> QED
  BY <1>1, <1>2, <1>3, Zenon DEF Config!Next

\* The steps of the commands.
LEMMA CommandCounts ==
  ASSUME Settings!Next
  PROVE  Counts(faults, faults', MaxFaults)
BY Zenon DEF Counts, Settings!Next, Settings!Start, Settings!Refuse, Settings!Look,
   Settings!Write, Settings!WriteFails, Settings!Reload, Settings!Fault

\* The steps of the setup.
LEMMA SetupCounts ==
  ASSUME Setup!Next
  PROVE  /\ Counts(faults, faults', MaxFaults)
         /\ Counts(starts, starts', MaxSetups) /\ Counts(outside, outside', MaxOutside)
<1>1. CASE Setup!DeleteThing \/ Setup!CreateThing
  <2>1. Setup!Outside /\ faults' = faults /\ starts' = starts
    BY <1>1, Zenon DEF Setup!DeleteThing, Setup!CreateThing
  <2> QED
    BY <2>1 DEF Setup!Outside, Counts
<1>2. CASE Setup!Crash
  BY <1>2, Zenon DEF Setup!Crash, Setup!Fault, Counts
<1>3. ASSUME NEW h \in SetupHandler,
             \/ Setup!ConfigSetup(h) \/ Setup!VerificationCommand(h) \/ Setup!SetupForm(h)
             \/ Setup!WebRequest(h) \/ Setup!GuildCreate(h)
      PROVE  /\ Counts(faults, faults', MaxFaults)
             /\ Counts(starts, starts', MaxSetups) /\ Counts(outside, outside', MaxOutside)
  <2>1. PICK local : Setup!Begin(h, local)
    BY <1>3, Zenon DEF Setup!ConfigSetup, Setup!VerificationCommand, Setup!SetupForm,
       Setup!WebRequest, Setup!GuildCreate
  <2> QED
    BY <2>1, Zenon DEF Setup!Begin, Counts
<1>4. ASSUME NEW h \in SetupHandler,
             \/ Setup!FindChannel(h) \/ Setup!FindRole(h) \/ Setup!Validate(h)
             \/ Setup!UseChosen(h) \/ Setup!FinalValidation(h) \/ Setup!Save(h) \/ Setup!Undone(h)
      PROVE  faults' = faults /\ starts' = starts /\ outside' = outside
  <2>1. UNCHANGED Setup!counters
    BY <1>4, Zenon DEF Setup!FindChannel, Setup!FindRole, Setup!Validate, Setup!UseChosen,
       Setup!FinalValidation, Setup!Save, Setup!Undone
  <2> QED
    BY <2>1 DEF Setup!counters
<1>5. ASSUME NEW h \in SetupHandler,
             \/ Setup!CreateRole(h) \/ Setup!SyncChannel(h) \/ Setup!CreateChannel(h)
             \/ Setup!ChannelFails(h) \/ Setup!SaveFails(h) \/ Setup!Undo(h)
      PROVE  (faults' = faults \/ Setup!Fault) /\ starts' = starts /\ outside' = outside
  BY <1>5, Zenon DEF Setup!CreateRole, Setup!SyncChannel, Setup!CreateChannel,
     Setup!ChannelFails, Setup!SaveFails, Setup!Undo
<1> QED
  BY <1>1, <1>2, <1>3, <1>4, <1>5, Zenon DEF Setup!Next, Setup!Fault, Counts

\* The steps of the trigger role.
LEMMA TriggerCounts ==
  ASSUME Trigger!Next
  PROVE  Counts(faults, faults', MaxFaults)
<1>1. CASE \/ \E m \in Holder : \/ Trigger!Give(m) \/ Trigger!Take(m) \/ Trigger!Leave(m)
                                \/ Trigger!ComeBack(m)
           \/ Trigger!Switch
  BY <1>1, Zenon DEF Counts, Trigger!Give, Trigger!Take, Trigger!Leave, Trigger!ComeBack,
     Trigger!Switch
<1>2. CASE \/ Trigger!Restart
           \/ \E h \in TriggerHandler : Trigger!UpdateFails(h) \/ Trigger!RunFails(h)
  BY <1>2, Zenon DEF Counts, Trigger!Restart, Trigger!UpdateFails, Trigger!RunFails, Trigger!Fault
<1>3. CASE \/ \E m \in Holder : Trigger!Fire(m)
           \/ \E h \in TriggerHandler :
                \/ Trigger!ReadSettings(h) \/ Trigger!Decide(h) \/ Trigger!RunSettings(h)
                \/ Trigger!RunMember(h) \/ Trigger!RunOpen(h) \/ Trigger!RunRemove(h)
  <2>1. UNCHANGED Trigger!counters
    BY <1>3, Zenon DEF Trigger!Fire, Trigger!ReadSettings, Trigger!Decide,
       Trigger!RunSettings, Trigger!RunMember, Trigger!RunOpen, Trigger!RunRemove
  <2> QED
    BY <2>1 DEF Trigger!counters, Counts
<1> QED
  BY <1>1, <1>2, <1>3, Zenon DEF Trigger!Next

\* The steps of the role intake.
LEMMA RoleIntakeCounts ==
  ASSUME Intake!Next
  PROVE  /\ Counts(faults, faults', MaxFaults)
         /\ Counts(crowdMoves, crowdMoves', CrowdMoves) /\ Counts(intakes, intakes', MaxIntakes)
<1>1. CASE Intake!StartIntake \/ Intake!NextMember \/ Intake!EndIntake \/ Intake!Timeout
  BY <1>1, Zenon DEF Counts, Intake!StartIntake, Intake!NextMember, Intake!EndIntake, Intake!Timeout
<1>2. CASE \E o \in op : Intake!FindActive(o) \/ Intake!OpenCase(o) \/ Intake!OperationFails(o)
  BY <1>2, Zenon DEF Counts, Intake!FindActive, Intake!OpenCase, Intake!OperationFails, Intake!Fault
<1>3. CASE Intake!Others \/ Intake!Restart
  BY <1>3, Zenon DEF Counts, Intake!Others, Intake!Restart, Intake!Fault
<1> QED
  BY <1>1, <1>2, <1>3 DEF Intake!Next

\* The steps of the gate roles.
LEMMA GateCounts ==
  ASSUME Gate!Next
  PROVE  Counts(faults, faults', MaxFaults)
<1>1. CASE \/ \E role \in Gate!Role : Gate!Give(role) \/ Gate!Take(role)
           \/ Gate!Configure \/ Gate!Deliver \/ Gate!Honeypot
  BY <1>1, Zenon DEF Counts, Gate!Give, Gate!Take, Gate!Configure, Gate!Deliver, Gate!Honeypot
<1>2. ASSUME NEW h \in GateHandler,
             \/ Gate!Press(h) \/ Gate!Resolve(h) \/ Gate!ResolveFails(h)
             \/ Gate!RemoveHoneypot(h) \/ Gate!AddAccess(h) \/ Gate!Answer(h)
      PROVE  faults' = faults \/ Gate!Fault
  BY <1>2, Zenon DEF Gate!Press, Gate!Resolve, Gate!ResolveFails, Gate!RemoveHoneypot,
     Gate!AddAccess, Gate!Answer
<1> QED
  BY <1>1, <1>2, Zenon DEF Gate!Next, Gate!Fault, Counts

\* The steps of the dashboard.
LEMMA WebCounts ==
  ASSUME Actions!Next
  PROVE  /\ Counts(faults, faults', MaxFaults)
         /\ Counts(submits, submits', MaxSubmits) /\ Counts(turns, turns', WebChanges)
<1>1. ASSUME NEW s \in Session, Actions!Submit(s) \/ Actions!Refuse(s) \/ Actions!SubmitFails(s)
      PROVE  /\ turns' = turns /\ (faults' = faults \/ Actions!Fault)
             /\ Counts(submits, submits', MaxSubmits)
  BY <1>1, Zenon DEF Counts, Actions!Submit, Actions!Refuse, Actions!SubmitFails
<1>2. CASE \/ \E s \in Session : Actions!Pass(s) \/ Actions!Upsert(s) \/ Actions!WriteDirectly(s)
           \/ Actions!Claim \/ Actions!WorkerPass \/ Actions!ActAndComplete \/ Actions!Sweep
           \/ Actions!Refresh
  <2>1. UNCHANGED Actions!counters
    BY <1>2, Zenon DEF Actions!Pass, Actions!Upsert, Actions!WriteDirectly, Actions!Claim,
       Actions!WorkerPass, Actions!ActAndComplete, Actions!Sweep, Actions!Refresh
  <2> QED
    BY <2>1 DEF Actions!counters, Counts
<1>3. CASE Actions!WorkerFails \/ Actions!Crash
  BY <1>3, Zenon DEF Counts, Actions!WorkerFails, Actions!Crash, Actions!Fault
<1>4. CASE Actions!Change
  BY <1>4, Zenon DEF Counts, Actions!Change
<1> QED
  BY <1>1, <1>2, <1>3, <1>4, Zenon DEF Actions!Next, Actions!Fault, Counts

\* No step counts too far.
LEMMA CountersStay ==
  ASSUME [Next]_vars
  PROVE  CountersCount
<1>1. CASE UNCHANGED vars
  <2>1. /\ faults' = faults /\ changes' = changes /\ starts' = starts /\ outside' = outside
        /\ crowdMoves' = crowdMoves /\ intakes' = intakes /\ submits' = submits /\ turns' = turns
    BY <1>1 DEF vars, mirrors, admin, byRole, liveVars, setupVars, intakeVars, webVars
  <2> QED
    BY <2>1 DEF CountersCount, Counts
<1>2. CASE InLive(Live!Next)
  <2>1. UNCHANGED <<starts, outside, crowdMoves, intakes, submits, turns>>
    BY <1>2 DEF InLive, admin, byRole, setupVars, intakeVars, webVars
  <2> QED
    BY <1>2, <2>1, LiveCounts DEF InLive, CountersCount, Counts
<1>3. CASE InConfig(Config!Next)
  <2>1. UNCHANGED <<changes, starts, outside, crowdMoves, intakes, submits, turns>>
    BY <1>3 DEF InConfig, admin, byRole, liveVars, setupVars, intakeVars, webVars
  <2> QED
    BY <1>3, <2>1, ConfigCounts DEF InConfig, CountersCount, Counts
<1>4. CASE CommandNext
  <2>1. UNCHANGED <<changes, starts, outside, crowdMoves, intakes, submits, turns>>
    BY <1>4 DEF CommandNext, mirrors, byRole, liveVars, setupVars, intakeVars, webVars
  <2> QED
    BY <1>4, <2>1, CommandCounts DEF CommandNext, CountersCount, Counts
<1>5. CASE SetupNext
  <2>1. UNCHANGED <<changes, crowdMoves, intakes, submits, turns>>
    BY <1>5 DEF SetupNext, mirrors, byRole, liveVars, intakeVars, webVars
  <2> QED
    BY <1>5, <2>1, SetupCounts DEF SetupNext, CountersCount, Counts
<1>6. CASE WebNext
  <2>1. UNCHANGED <<changes, starts, outside, crowdMoves, intakes>>
    BY <1>6 DEF WebNext, mirrors, byRole, liveVars, setupVars, intakeVars
  <2> QED
    BY <1>6, <2>1, WebCounts DEF WebNext, CountersCount, Counts
<1>7. CASE TriggerNext
  <2>1. UNCHANGED <<changes, starts, outside, crowdMoves, intakes, submits, turns>>
    BY <1>7 DEF TriggerNext, mirrors, admin, liveVars, setupVars, intakeVars, webVars
  <2> QED
    BY <1>7, <2>1, TriggerCounts DEF TriggerNext, CountersCount, Counts
<1>8. CASE IntakeNext
  <2>1. UNCHANGED <<changes, starts, outside, submits, turns>>
    BY <1>8 DEF IntakeNext, mirrors, admin, liveVars, setupVars, webVars
  <2> QED
    BY <1>8, <2>1, RoleIntakeCounts DEF IntakeNext, CountersCount, Counts
<1>9. CASE GateNext
  <2>1. UNCHANGED <<changes, starts, outside, crowdMoves, intakes, submits, turns>>
    BY <1>9 DEF GateNext, mirrors, admin, liveVars, setupVars, intakeVars, webVars
  <2> QED
    BY <1>9, <2>1, GateCounts DEF GateNext, CountersCount, Counts
<1> QED
  BY <1>1, <1>2, <1>3, <1>4, <1>5, <1>6, <1>7, <1>8, <1>9 DEF Next
---------------------------------------------------------------------------
(* What the types say besides *)

\* The messages that are lost, and those about to be stored, are messages.
LostKnown ==
  /\ pending \in BOOLEAN /\ lost \subseteq 1..MaxMessages
  /\ \A h \in Live!Handler : task[h].at = "store" => task[h].copy.message # 0

\* The numbers of messages that are recorded or remembered.
LEMMA MessageNumbers ==
  ASSUME LiveInv
  PROVE  /\ item.message \in 0..MaxMessages
         /\ \A h \in Live!Handler : task[h].copy.message \in 0..MaxMessages
<1>1. item \in Live!Item /\ \A h \in Live!Handler : task[h].copy \in Live!Item
  BY LiveFacts
<1> QED
  BY <1>1 DEF Live!Item

\* A step of one handler.
LEMMA LostMove ==
  ASSUME LiveInv, LostKnown, NEW h \in Live!Handler, NEW new,
         task' = [task EXCEPT ![h] = new], new.at = "store" => new.copy.message # 0,
         pending' = pending, lost' \subseteq 1..MaxMessages
  PROVE  LostKnown'
<1>1. \A g \in Live!Handler : task'[g] = IF g = h THEN new ELSE task[g]
  BY LiveFacts
<1> QED
  BY <1>1, Zenon DEF LostKnown

\* A handler goes to a step with a copy.
LEMMA LostGoto ==
  ASSUME LiveInv, LostKnown, NEW h \in Live!Handler, NEW step, NEW copy,
         Live!Goto(h, step, copy), step = "store" => copy.message # 0,
         pending' = pending, lost' \subseteq 1..MaxMessages
  PROVE  LostKnown'
<1> DEFINE new == [at |-> step, copy |-> copy]
<1>1. task' = [task EXCEPT ![h] = new] /\ new.at = step /\ new.copy = copy
  BY DEF Live!Goto
<1> HIDE DEF new
<1> QED
  BY <1>1, LostMove, Zenon

\* A handler is done.
LEMMA LostReturn ==
  ASSUME LiveInv, LostKnown, NEW h \in Live!Handler, Live!Return(h),
         pending' = pending, lost' \subseteq 1..MaxMessages
  PROVE  LostKnown'
<1>1. task' = [task EXCEPT ![h] = Live!Idle] /\ Live!Idle.at # "store"
  BY MirrorAtRest DEF Live!Return
<1> QED
  BY <1>1, LostMove, Zenon

\* A handler sends or edits.
LEMMA LostSends ==
  ASSUME LiveInv, LostKnown, NEW h \in Live!Handler, Live!SendOrEdit(h) \/ Live!FailSend(h)
  PROVE  LostKnown'
<1> DEFINE copy == task[h].copy
<1>1. copy \in Live!Item /\ 0 \notin messages /\ messages \subseteq 1..MaxMessages
  BY LiveFacts
<1>2. pending' = pending /\ lost \subseteq 1..MaxMessages
  BY Zenon DEF Live!SendOrEdit, Live!FailSend, LostKnown
<1>3. CASE copy.message \in messages /\ lost' = lost /\ Live!Goto(h, "store", copy)
  BY <1>1, <1>2, <1>3, LostGoto
<1>4. CASE \E m \in Live!FreshMessage :
             /\ \/ lost' = lost \ {m}
                \/ copy.message \in messages /\ lost' = (lost \ {m}) \cup {copy.message}
             /\ Live!Goto(h, "store", [copy EXCEPT !.message = m])
  <2>1. PICK m \in Live!FreshMessage :
             /\ \/ lost' = lost \ {m}
                \/ copy.message \in messages /\ lost' = (lost \ {m}) \cup {copy.message}
             /\ Live!Goto(h, "store", [copy EXCEPT !.message = m])
    BY <1>4
  <2>2. lost' \subseteq 1..MaxMessages
    BY <1>1, <1>2, <2>1
  <2>3. m \in 1..MaxMessages
    BY DEF Live!FreshMessage
  <2>4. [copy EXCEPT !.message = m].message # 0
    BY <1>1, <2>3 DEF Live!Item
  <2> HIDE DEF copy
  <2> QED
    BY <1>2, <2>1, <2>2, <2>4, LostGoto
<1>5. CASE lost' = lost /\ Live!Return(h)
  BY <1>2, <1>5, LostReturn
<1>6. CASE Live!SendOrEdit(h)
  BY <1>3, <1>4, <1>6, Zenon DEF Live!SendOrEdit
<1>7. CASE Live!FailSend(h)
  BY <1>4, <1>5, <1>7, Zenon DEF Live!FailSend
<1> QED
  BY <1>6, <1>7

\* What the live queue forgets are messages.
LEMMA LostKept ==
  ASSUME LiveInv, LostKnown, Live!Next
  PROVE  LostKnown'
<1>0. lost \subseteq 1..MaxMessages
  BY DEF LostKnown
<1>1. CASE Live!Change \/ Live!Vanish
  BY <1>1 DEF Live!Change, Live!Vanish, LostKnown
<1>2. CASE Live!Crash
  <2>1. /\ pending' = pending /\ task' = [h \in Live!Handler |-> Live!Idle]
        /\ lost' = lost \cup {task[h].copy.message :
                                h \in {g \in Live!Handler : task[g].at = "store"}}
    BY <1>2 DEF Live!Crash, Live!At
  <2>2. \A h \in Live!Handler : task[h].at = "store" => task[h].copy.message \in 1..MaxMessages
    BY MessageNumbers DEF LostKnown
  <2>3. lost' \subseteq 1..MaxMessages
    BY <1>0, <2>1, <2>2
  <2> QED
    BY <2>1, <2>3, MirrorAtRest DEF LostKnown
<1>3. ASSUME NEW h \in Live!Handler, Live!Begin(h)
      PROVE  LostKnown'
  <2>1. /\ pending' = pending /\ lost' = lost
        /\ Live!Goto(h, IF pending THEN "row" ELSE "list", Live!NoItem)
    BY <1>3 DEF Live!Begin
  <2> QED
    BY <1>0, <2>1, LostGoto
<1>4. ASSUME NEW h \in Live!Handler, Live!UpsertRow(h) \/ Live!ListItems(h) \/ Live!DeleteMessage(h)
      PROVE  LostKnown'
  <2>1. /\ pending' = pending /\ lost' = lost
        /\ \/ \E copy : \E step \in {"send", "unsend", "drop"} : Live!Goto(h, step, copy)
           \/ Live!Return(h)
    BY <1>4, Zenon DEF Live!UpsertRow, Live!ListItems, Live!DeleteMessage, Live!counters
  <2> QED
    BY <1>0, <2>1, LostGoto, LostReturn
<1>5. ASSUME NEW h \in Live!Handler, Live!StoreMessage(h) \/ Live!DropRow(h)
      PROVE  LostKnown'
  <2>1. pending' = pending /\ Live!Return(h)
    BY <1>5 DEF Live!StoreMessage, Live!DropRow
  <2>2. lost' \subseteq 1..MaxMessages
    <3>1. \/ lost' = lost \/ lost' = lost \cup ({item.message} \ {0, task[h].copy.message})
          \/ task[h].at = "store" /\ lost' = lost \cup {task[h].copy.message}
      BY <1>5, Zenon DEF Live!StoreMessage, Live!DropRow, Live!At
    <3>2. task[h].at = "store" => task[h].copy.message # 0
      BY DEF LostKnown
    <3>3. item.message \in 0..MaxMessages /\ task[h].copy.message \in 0..MaxMessages
      BY MessageNumbers
    <3>4. {item.message} \ {0, task[h].copy.message} \subseteq 1..MaxMessages
      BY <3>3
    <3>5. task[h].at = "store" => task[h].copy.message \in 1..MaxMessages
      BY <3>2, <3>3
    <3> QED
      BY <1>0, <3>1, <3>4, <3>5, Zenon
  <2> QED
    BY <2>1, <2>2, LostReturn
<1>6. ASSUME NEW h \in Live!Handler, Live!FailDelete(h)
      PROVE  LostKnown'
  <2>1. pending' = pending /\ lost' = lost /\ Live!Return(h)
    BY <1>6 DEF Live!FailDelete
  <2> QED
    BY <1>0, <2>1, LostReturn
<1>7. Timer \in Live!Handler /\ Task \subseteq Live!Handler
  BY DEF Live!Handler
<1>8. CASE Live!Tick \/ \E h \in Task : Live!StartTask(h)
  BY <1>3, <1>7, <1>8 DEF Live!Tick, Live!StartTask
<1>9. CASE \E h \in Live!Handler : Live!Work(h) \/ Live!FailSend(h) \/ Live!FailDelete(h)
  BY <1>4, <1>5, <1>6, <1>9, LostSends DEF Live!Work
<1> QED
  BY <1>1, <1>2, <1>8, <1>9 DEF Live!Next

\* The members that an intake has still to count, or has counted.
Room(b) == b.done + Cardinality(b.todo) + (IF b.at = "wait" THEN 1 ELSE 0)
RoomInv == active \subseteq Crowd /\ Room(batch) <= Limit

\* A batch of which one has been counted takes the same room.
LEMMA RoomWhenCounted ==
  ASSUME IsFiniteSet(Crowd), NEW b \in Batch, b.at = "wait", NEW c, SameCourse(b, c)
  PROVE  Room(Intake!Counted(c)) = Room(b)
<1>1. c \in Batch /\ c.done = b.done /\ c.todo = b.todo
  BY DEF SameCourse
<1>2. /\ Intake!Counted(c).at = "next" /\ Intake!Counted(c).done = b.done + 1
      /\ Intake!Counted(c).todo = b.todo
  BY <1>1, CountedBatch
<1>3. b.done \in Nat /\ b.todo \in SUBSET Crowd
  BY DEF Batch
<1>4. Cardinality(b.todo) \in Nat
  BY <1>3, OneMore
<1> QED
  BY <1>2, <1>3, <1>4 DEF Room

\* Whatever the result of an operation, the course of the batch is the same.
LEMMA ResultsSameCourse ==
  ASSUME NEW b \in Batch, NEW m \in Crowd
  PROVE  /\ SameCourse(b, b)
         /\ SameCourse(b, [b EXCEPT !.skipped = @ \cup {m}])
         /\ SameCourse(b, [b EXCEPT !.seen = @ \cup {m}])
         /\ SameCourse(b, [b EXCEPT !.failed = @ \cup {m}])
         /\ SameCourse(b, [b EXCEPT !.opened = @ \cup {m}])
         /\ SameCourse(b, [[b EXCEPT !.opened = @ \cup {m}] EXCEPT !.failed = @ \cup {m}])
<1>1. /\ SameCourse(b, [b EXCEPT !.skipped = @ \cup {m}])
      /\ SameCourse(b, [b EXCEPT !.seen = @ \cup {m}])
      /\ SameCourse(b, [b EXCEPT !.failed = @ \cup {m}])
      /\ SameCourse(b, [b EXCEPT !.opened = @ \cup {m}])
  BY BatchWithOneMore, Zenon
<1> DEFINE one == [b EXCEPT !.opened = @ \cup {m}]
           two == [one EXCEPT !.failed = @ \cup {m}]
<1>2. one \in Batch
  BY <1>1, Zenon DEF SameCourse
<1>3. SameCourse(one, two)
  <2> HIDE DEF one
  <2> QED
    BY <1>2, BatchWithOneMore, Zenon
<1>4. SameCourse(b, two)
  BY <1>1, <1>3, Zenon DEF SameCourse
<1> QED
  BY <1>1, <1>4, Zenon DEF SameCourse

\* The end of an operation keeps the room.
LEMMA RoomOfResults ==
  ASSUME IsFiniteSet(Crowd), RoleIntakeInv, NEW o \in op, NEW result, SameCourse(batch, result),
         Intake!Results(o, result)
  PROVE  Room(batch') = Room(batch)
<1>1. batch \in Batch
  BY DEF RoleIntakeInv, BatchCounts
<1>2. CASE Intake!Awaited(o)
  BY <1>1, <1>2, RoomWhenCounted DEF Intake!Results, Intake!Awaited
<1>3. CASE ~Intake!Awaited(o)
  BY <1>3 DEF Intake!Results
<1> QED
  BY <1>2, <1>3

\* An intake counts no more than its limit.
LEMMA RoomKept ==
  ASSUME IsFiniteSet(Crowd), RoleIntakeInv, RoomInv, Intake!Next
  PROVE  RoomInv'
<1>0. /\ batch \in Batch /\ op \subseteq Operation /\ active \subseteq Crowd
      /\ batch.current \in Crowd <=> batch.at = "wait"
      /\ Room(batch) <= Limit
  BY DEF RoleIntakeInv, BatchCounts, OperationsKnown, RoomInv
<1>1. CASE Intake!StartIntake
  <2>1. PICK s \in Intake!Selections, execute \in BOOLEAN :
          batch' = [Intake!NoBatch EXCEPT !.at = "next", !.execute = execute, !.todo = s]
    BY <1>1 DEF Intake!StartIntake
  <2>2. batch'.done = 0 /\ batch'.at = "next" /\ batch'.todo = s
    BY <2>1 DEF Intake!NoBatch
  <2>3. s \in SUBSET Crowd
    BY DEF Intake!Selections
  <2>4. Cardinality(s) <= Limit /\ Cardinality(s) \in Nat
    <3>1. Limit \in Nat
      BY GuildAssumption DEF Intake!RoleIntakeAssumption
    <3>2. Cardinality(s) = IF Cardinality(Crowd) < Limit THEN Cardinality(Crowd) ELSE Limit
      BY Zenon DEF Intake!Selections, Cardinality, Intake!Cardinality
    <3>3. Cardinality(s) \in Nat /\ Cardinality(Crowd) \in Nat
      BY <2>3, OneMore
    <3> QED
      BY <3>1, <3>2, <3>3
  <2>5. active' = active
    BY <1>1 DEF Intake!StartIntake
  <2> QED
    BY <1>0, <2>2, <2>4, <2>5 DEF RoomInv, Room
<1>2. CASE Intake!NextMember
  <2>1. PICK m \in batch.todo :
          batch' = [batch EXCEPT !.at = "wait", !.todo = @ \ {m}, !.current = m]
    BY <1>2 DEF Intake!NextMember
  <2>2. batch.at = "next" /\ active' = active
    BY <1>2 DEF Intake!NextMember
  <2>3. /\ batch'.at = "wait" /\ batch'.todo = batch.todo \ {m} /\ batch'.done = batch.done
        /\ batch.done \in Nat /\ batch.todo \in SUBSET Crowd
    BY <1>0, <2>1 DEF Batch
  <2>4. Cardinality(batch.todo) = Cardinality(batch.todo \ {m}) + 1
        /\ Cardinality(batch.todo \ {m}) \in Nat
    <3>1. batch.todo \ {m} \in SUBSET Crowd /\ batch.todo = (batch.todo \ {m}) \cup {m}
      BY <2>1, <2>3
    <3> QED
      BY <2>1, <2>3, <3>1, OneMore
  <2>5. Room(batch') = Room(batch)
    BY <2>2, <2>3, <2>4 DEF Room
  <2> QED
    BY <1>0, <2>2, <2>5 DEF RoomInv
<1>3. CASE Intake!EndIntake
  <2>1. /\ batch.at = "next" /\ batch' = [batch EXCEPT !.at = "idle"] /\ active' = active
    BY <1>3 DEF Intake!EndIntake
  <2>2. batch'.at = "idle" /\ batch'.todo = batch.todo /\ batch'.done = batch.done
    BY <1>0, <2>1 DEF Batch
  <2>3. Room(batch') = Room(batch)
    BY <2>1, <2>2 DEF Room
  <2> QED
    BY <1>0, <2>1, <2>3 DEF RoomInv
<1>4. CASE Intake!Timeout
  <2>1. /\ batch.at = "wait" /\ active' = active
        /\ batch' = Intake!Counted([batch EXCEPT !.failed = @ \cup {batch.current}])
    BY <1>4 DEF Intake!Timeout, Intake!GivenUp
  <2>2. SameCourse(batch, [batch EXCEPT !.failed = @ \cup {batch.current}])
    BY <1>0, <2>1, ResultsSameCourse
  <2>3. Room(batch') = Room(batch)
    BY <1>0, <2>1, <2>2, RoomWhenCounted
  <2> QED
    BY <1>0, <2>1, <2>3 DEF RoomInv
<1>5. ASSUME NEW o \in op, Intake!FindActive(o) \/ Intake!OpenCase(o) \/ Intake!OperationFails(o)
      PROVE  RoomInv'
  <2>1. o.member \in Crowd
    BY <1>0 DEF Operation
  <2>2. /\ SameCourse(batch, [batch EXCEPT !.skipped = @ \cup {o.member}])
        /\ SameCourse(batch, [batch EXCEPT !.seen = @ \cup {o.member}])
        /\ SameCourse(batch, Intake!Failed(o)) /\ SameCourse(batch, Intake!Opened(o))
        /\ SameCourse(batch, Intake!OpenedWithoutRole(o))
    BY <1>0, <2>1, ResultsSameCourse, Zenon
       DEF Intake!Failed, Intake!Opened, Intake!OpenedWithoutRole
  <2>3. batch' = batch \/ \E result : SameCourse(batch, result) /\ Intake!Results(o, result)
    BY <1>5, <2>2, Zenon DEF Intake!FindActive, Intake!OpenCase, Intake!OperationFails
  <2>4. Room(batch') = Room(batch)
    BY <2>3, RoomOfResults
  <2>5. active' \subseteq active \cup {o.member}
    BY <1>5 DEF Intake!FindActive, Intake!OpenCase, Intake!OperationFails
  <2> QED
    BY <1>0, <2>1, <2>4, <2>5 DEF RoomInv
<1>6. CASE Intake!Others
  BY <1>0, <1>6 DEF Intake!Others, RoomInv
<1>7. CASE Intake!Restart
  <2>1. batch'.done = 0 /\ batch'.at = "idle" /\ batch'.todo = {} /\ active' = active
    BY <1>7 DEF Intake!Restart, Intake!NoBatch
  <2>2. Cardinality({}) = 0 /\ Limit \in Nat
    BY FS_EmptySet, GuildAssumption DEF Intake!RoleIntakeAssumption
  <2> QED
    BY <1>0, <2>1, <2>2 DEF RoomInv, Room
<1> QED
  BY <1>1, <1>2, <1>3, <1>4, <1>5, <1>6, <1>7 DEF Intake!Next

\* What was submitted, as it is remembered.
Asking == [key : Actions!Key, by : Person, reason : Actions!Reason, had : BOOLEAN]

\* Only whoever is in the guild has submitted anything.
LEMMA AskedKept ==
  ASSUME WebInv, asked \subseteq Asking, Actions!Next
  PROVE  asked' \subseteq Asking
<1>1. ASSUME NEW s \in Session, Actions!Upsert(s) \/ Actions!WriteDirectly(s)
      PROVE  asked' \subseteq Asking
  <2>1. session[s].at = "gates" /\ asked' = asked \cup {Actions!Submission(s)}
    BY <1>1 DEF Actions!Upsert, Actions!WriteDirectly, Actions!Passed
  <2>2. session[s] \in WebSession /\ SessionSure(session[s])
    BY DEF WebInv, WebTypes
  <2>3. /\ session[s].key \in Actions!Key /\ session[s].by \in Person
        /\ session[s].reason \in Actions!Reason /\ session[s].had \in BOOLEAN
    BY <2>1, <2>2 DEF SessionSure, WebSession
  <2> QED
    BY <2>1, <2>3 DEF Actions!Submission, Asking
<1>2. ASSUME NEW s \in Session,
             \/ Actions!Submit(s) \/ Actions!Pass(s) \/ Actions!Refuse(s) \/ Actions!SubmitFails(s)
      PROVE  asked' = asked
  BY <1>2, Zenon DEF Actions!Submit, Actions!Pass, Actions!Refuse, Actions!SubmitFails
<1>3. CASE \/ Actions!Claim \/ Actions!WorkerPass \/ Actions!WorkerFails
           \/ Actions!ActAndComplete \/ Actions!Crash \/ Actions!Sweep
           \/ Actions!Change \/ Actions!Refresh
  BY <1>3, Zenon DEF Actions!Claim, Actions!WorkerPass, Actions!WorkerFails,
     Actions!ActAndComplete, Actions!Crash, Actions!Sweep, Actions!Change, Actions!Refresh
<1> QED
  BY <1>1, <1>2, <1>3 DEF Actions!Next
---------------------------------------------------------------------------
(* All that is kept for a guild *)

\* What the types say besides the invariants of the parts.
Besides ==
  /\ part \in Part /\ Counters /\ LostKnown /\ RoomInv /\ asked \subseteq Asking

\* It holds in the beginning, and is kept.
LEMMA BesidesKept == FairSpec => []Besides
<1> DEFINE Parts == LiveInv /\ RoleIntakeInv /\ WebInv
<1>0. IsFiniteSet(Crowd)
  BY GuildAssumption DEF Intake!RoleIntakeAssumption, IsFiniteSet, Intake!IsFiniteSet
<1>1. Init => Besides
  <2> SUFFICES ASSUME Init
               PROVE  Besides
    OBVIOUS
  <2>1. Counters
    BY BoundsAreNumbers DEF Init, Live!Init, Setup!Init, Intake!Init, Actions!Init,
       Counters, Bounds
  <2>2. LostKnown
    <3>1. /\ pending \in BOOLEAN /\ lost = {} /\ task = [h \in Live!Handler |-> Live!Idle]
      BY DEF Init, Live!Init
    <3> QED
      BY <3>1, MirrorAtRest DEF LostKnown
  <2>3. RoomInv
    <3>1. active \subseteq Crowd /\ batch.done = 0 /\ batch.at = "idle" /\ batch.todo = {}
      BY DEF Init, Intake!Init, Intake!NoBatch
    <3>2. Cardinality({}) = 0 /\ Limit \in Nat
      BY FS_EmptySet, GuildAssumption DEF Intake!RoleIntakeAssumption
    <3> QED
      BY <3>1, <3>2 DEF RoomInv, Room
  <2>4. part \in Part /\ asked = {}
    BY DEF Init, Actions!Init
  <2> QED
    BY <2>1, <2>2, <2>3, <2>4 DEF Besides
<1>2. Parts /\ Besides /\ [Next]_vars => Besides'
  <2> SUFFICES ASSUME Parts, Besides, [Next]_vars
               PROVE  Besides'
    OBVIOUS
  <2>1. part' \in Part
    BY DEF Besides, Next, InLive, InConfig, CommandNext, SetupNext, WebNext, TriggerNext,
       IntakeNext, GateNext, vars
  <2>2. Counters'
    BY CountersStay, CountersWithin DEF Besides
  <2>3. LostKnown'
    <3>1. CASE Live!Next
      BY <3>1, LostKept DEF Besides
    <3>2. CASE UNCHANGED liveVars
      BY <3>2 DEF liveVars, Besides, LostKnown
    <3> QED
      BY <3>1, <3>2, LiveSteps
  <2>4. RoomInv'
    <3>1. CASE Intake!Next
      BY <1>0, <3>1, RoomKept DEF Besides
    <3>2. CASE UNCHANGED intakeVars
      BY <3>2 DEF intakeVars, Besides, RoomInv, Room
    <3> QED
      BY <3>1, <3>2, RoleIntakeSteps
  <2>5. asked' \subseteq Asking
    <3>1. CASE Actions!Next
      BY <3>1, AskedKept DEF Besides
    <3>2. CASE UNCHANGED webVars
      BY <3>2 DEF webVars, Besides
    <3> QED
      BY <3>1, <3>2, WebSteps
  <2> QED
    BY <2>1, <2>2, <2>3, <2>4, <2>5 DEF Besides
<1>3. FairSpec => []Parts
  BY LiveKept, RoleIntakeInvariant, WebKept, PTL
<1> HIDE DEF Parts
<1> QED
  BY <1>1, <1>2, <1>3, PTL DEF FairSpec

\* The types of each part, from its invariant.
LEMMA PartsAreTyped ==
  ASSUME LiveInv, ConfigInv, CommandInv, SetupInv, TriggerInv, RoleIntakeInv, GateInv, WebInv,
         Besides
  PROVE  TypeOK
<1>1. Live!TypeOK
  BY DEF LiveInv, LiveTypes, Besides, Counters, LostKnown, Live!TypeOK, Mirror
<1>2. Config!TypeOK
  BY DEF ConfigInv, ConfigTypes, Besides, Counters, Config!TypeOK
<1>3. Settings!TypeOK
  <2>1. \A h \in ConfigHandler : command[h].at \in {"idle", "look", "write"}
    BY DEF CommandInv, CommandTypes, Hand
  <2> QED
    BY <2>1 DEF CommandInv, CommandTypes, Besides, Counters, Settings!TypeOK
<1>4. Setup!TypeOK
  BY DEF SetupInv, SetupTypes, Besides, Counters, Setup!TypeOK
<1>5. Trigger!TypeOK
  BY DEF TriggerInv, TriggerTypes, Trigger!TypeOK, Runner, RunnerStep
<1>6. Intake!TypeOK
  <2>0. IsFiniteSet(Crowd) /\ Limit \in Nat
    BY GuildAssumption DEF Intake!RoleIntakeAssumption, IsFiniteSet, Intake!IsFiniteSet
  <2>1. batch \in Batch /\ op \subseteq Operation /\ active \subseteq Crowd /\ Room(batch) <= Limit
    BY DEF RoleIntakeInv, BatchCounts, OperationsKnown, Besides, RoomInv
  <2>2. batch.done \in 0..Limit
    <3>1. batch.done \in Nat /\ batch.todo \in SUBSET Crowd
      BY <2>1 DEF Batch
    <3>2. Cardinality(batch.todo) \in Nat
      BY <2>0, <3>1, OneMore
    <3> QED
      BY <2>0, <2>1, <3>1, <3>2 DEF Room
  <2>3. taken \subseteq Crowd
    BY <2>1 DEF RoleIntakeInv, TakenCounted, Batch
  <2>4. batch \in [at : {"idle", "next", "wait"}, execute : BOOLEAN, todo : SUBSET Crowd,
                   current : Crowd \cup {Nobody}, done : 0..Limit, opened : SUBSET Crowd,
                   skipped : SUBSET Crowd, failed : SUBSET Crowd, seen : SUBSET Crowd]
    BY <2>1, <2>2 DEF Batch
  <2> QED
    BY <2>1, <2>3, <2>4 DEF Intake!TypeOK, Operation, Besides, Counters
<1>7. Gate!TypeOK
  BY DEF GateInv
<1>8. Actions!TypeOK
  <2>1. /\ setting \in Actions!Setting /\ known \in Actions!Setting
        /\ recent \subseteq Actions!Setting
    BY DEF WebInv, WebTypes
  <2>2. /\ worker.key \in 0..MaxKeys /\ worker.actor \in Actions!Reason
        /\ worker.reason \in Actions!Reason
    BY DEF WebInv, WebTypes, WebWork
  <2> QED
    BY <2>1, <2>2 DEF WebInv, WebTypes, WebRequest, Asking, Besides, Counters, Actions!TypeOK
<1> QED
  BY <1>1, <1>2, <1>3, <1>4, <1>5, <1>6, <1>7, <1>8 DEF TypeOK, Besides

\* For every choice of the constants, the variables of the part at work have the values their
\* types allow: the invariants of all parts hold whichever of them is at work.
THEOREM GuildTypeCorrect == FairSpec => []TypeOK
<1> DEFINE Inv == /\ LiveInv /\ ConfigInv /\ CommandInv /\ SetupInv
                  /\ TriggerInv /\ RoleIntakeInv /\ GateInv /\ WebInv /\ Besides
<1>1. Inv => TypeOK
  BY PartsAreTyped
<1>2. FairSpec => []Inv
  BY LiveKept, ConfigKept, CommandsKept, SetupInvariant, TriggerInvariant, RoleIntakeInvariant,
     GateKept, WebKept, BesidesKept, PTL
<1> HIDE DEF Inv
<1> QED
  BY <1>1, <1>2, PTL
============================================================================
