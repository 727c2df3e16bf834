------------------------- MODULE DetectionPipeline -------------------------
(***************************************************************************)
(* The scans of one member's messages and joins: handlers of EventHandler    *)
(* that run at once in one process and take turns at every await.  A message *)
(* is scored (heuristics, past detections, age, GPT), a suspicious one is    *)
(* recorded and, as the response mode has it, put on an alert for the        *)
(* moderators, shared by the scans of a while, or handed in to a case.       *)
(*                                                                          *)
(* Scores are in hundredths.  Which messages match the watchlist, are        *)
(* suspicious to the heuristics (MessageFrequency) or among the first ones,  *)
(* what the settings of the guild are when a scan reads them, and what GPT   *)
(* answers, are inputs; staff is exempt from ordinary scans.                 *)
(***************************************************************************)
EXTENDS Integers, FiniteSets, Sequences

CONSTANTS
  MaxScans,     \* bound: messages and joins
  Profile,      \* what the member may be, see Profiles
  AlertWindow,  \* observed_notification_window_minutes
  ObservedMin,  \* observed_min_confidence_threshold
  ActionMin,    \* min_confidence_threshold
  MaxNow        \* bound: the last moment

Profiles == {"regular", "newAccount", "newMember", "newcomer", "staff"}
Mode == {"off", "record_only", "notify_only", "restrict"}

\* what the constants are assumed to be
DetectionPipelineAssumption ==
  /\ MaxScans \in Nat /\ Profile \subseteq Profiles
  /\ AlertWindow \in Nat /\ MaxNow \in Nat
  /\ ObservedMin \in 0..100 /\ ActionMin \in 0..100

VARIABLES
  profile,   \* what the member is
  now,
  scan,      \* the handlers: next step and local variables
  event,     \* rows of detection_events, one a scan at most
  alerts,    \* the alerts in the channel: whose buttons, and whether they work
  unstamped  \* scans that stopped between their alert and its record (history)

vars == <<profile, now, scan, event, alerts, unstamped>>
outside == <<profile, now>>

Scan == 1..MaxScans
Acted == {"none", "dismiss", "false_positive"}
\* rank: the order of detected_at, 0 when there is no row
Event == [rank : 0..MaxScans, confidence : 0..100, acted : Acted,
          alert : 0..MaxScans, notified : 0..MaxNow]
NoEvent == [rank |-> 0, confidence |-> 0, acted |-> "none", alert |-> 0, notified |-> 0]
\* alert, acted: the alert found and what the own row said of actions
NewScan == [at |-> "new", confidence |-> 0, alert |-> 0, acted |-> "none"]
ScanState == [at : {"new", "past", "create", "look", "post", "stamp", "done"},
              confidence : 0..100, alert : 0..MaxScans, acted : Acted]

Init ==
  /\ profile \in Profile /\ now = 0
  /\ scan = [s \in Scan |-> NewScan]
  /\ event = [s \in Scan |-> NoEvent]
  /\ alerts = <<>> /\ unstamped = {}

NewAccount == profile \in {"newAccount", "newcomer"}
NewMember == profile \in {"newMember", "newcomer"}
At(s, step) == scan[s].at = step
\* scans forget what later steps do not use
Done(s) == scan' = [scan EXCEPT ![s] = [NewScan EXCEPT !.at = "done"]]
On(s, data) == scan' = [scan EXCEPT ![s] = data]

Distance(score) == IF score >= 50 THEN 2 * (score - 50) ELSE 2 * (50 - score)
\* toConfidence
Confidence(score) == IF Distance(score) > 100 THEN 100 ELSE Distance(score)

Tick ==
  /\ now < MaxNow /\ now' = now + 1
  /\ UNCHANGED <<profile, scan, event, alerts, unstamped>>

---------------------------------------------------------------------------
(* The scan *)

\* handleMessage, runJoinDetectionForMember: nothing is scanned when the mode is off,
\* nor of staff unless it matches the watchlist; a match is certain and not scored
Arrive(s) ==
  \E off, listed \in BOOLEAN :
    /\ At(s, "new") /\ \A earlier \in 1..(s - 1) : ~At(earlier, "new")
    /\ IF off \/ (profile = "staff" /\ ~listed) THEN Done(s)
       ELSE On(s, IF listed THEN [NewScan EXCEPT !.at = "create", !.confidence = 100]
                  ELSE [NewScan EXCEPT !.at = "past"])
    /\ UNCHANGED <<outside, event, alerts, unstamped>>

\* a row is made of suspicious results only
Judged(s, score) ==
  IF score >= 50
  THEN On(s, [scan[s] EXCEPT !.at = "create", !.confidence = Confidence(score)])
  ELSE Done(s)

\* isDetectionEventExcludedFromAccounting
Excluded(e) == event[e].acted = "false_positive"
\* findCountedByServerAndUser
Counted == {e \in Scan : event[e].rank # 0 /\ ~Excluded(e)}

Repeated == \E e \in Counted : event[e].confidence >= 80
Points(condition, points) == IF condition THEN points ELSE 0

\* The sum of binary fractions misses 0.8 and 0.7 by the last bit.
Rounding(repeated, heuristic) ==
  IF ~(NewAccount /\ NewMember) \/ repeated = heuristic THEN 0
  ELSE IF heuristic THEN -1 ELSE 1

Larger(x, y) == IF x >= y THEN x ELSE y
\* the score after GPT: suspicious with a confidence, no answer, or legitimate
WithGpt(score) == {Larger(score, 60), Larger(score, 90), score, Larger(0, score - 30)}

\* detectMessage from its reading of the past detections to its verdict: what GPT
\* answers depends on nothing that changes meanwhile
ScoreMessage(s) ==
  \E heuristic, forceGpt \in BOOLEAN :
    LET score == Points(Repeated, 40) + Points(heuristic, 50)
                 + Points(NewAccount, 20) + Points(NewMember, 10)
                 + Rounding(Repeated, heuristic)
        askGpt == forceGpt \/ NewAccount \/ NewMember \/ score \in 30..70
    IN
    /\ At(s, "past")
    /\ \E final \in IF askGpt THEN WithGpt(score) ELSE {score} : Judged(s, final)
    /\ UNCHANGED <<outside, event, alerts, unstamped>>

\* detectNewJoin asks GPT in any case and takes a verdict for seven tenths.
ScoreJoin(s) ==
  /\ At(s, "past")
  /\ \E suspicious \in BOOLEAN :
       Judged(s, Points(NewAccount, 40) + Points(suspicious, 70))
  /\ UNCHANGED <<outside, event, alerts, unstamped>>

\* handleAutomaticDetection, and observeSuspiciousMessage for staff; what becomes of
\* a detection that is handed in to a case is not this module's subject
OnAlert(s, mode) ==
  \/ profile = "staff"
  \/ /\ scan[s].confidence >= ObservedMin
     /\ \/ mode = "notify_only"
        \/ mode = "restrict" /\ scan[s].confidence < ActionMin

Made == Cardinality({e \in Scan : event[e].rank # 0})
\* The row is created by the orchestrator, or by ensureDetectionEventId.
CreateEvent(s) ==
  /\ At(s, "create")
  /\ event' = [event EXCEPT ![s] = [NoEvent EXCEPT !.rank = Made + 1,
                                      !.confidence = scan[s].confidence]]
  /\ \E mode \in Mode \ {"off"} :
       IF OnAlert(s, mode) THEN On(s, [NewScan EXCEPT !.at = "look"]) ELSE Done(s)
  /\ UNCHANGED <<outside, alerts, unstamped>>

---------------------------------------------------------------------------
(* upsertObservedDetectionNotification *)

\* findRecentObservedDetectionNotification: the alerts nobody acted on
ActionedAlerts == {event[e].alert : e \in {x \in Scan : event[x].acted # "none"}}
Reusable ==
  {e \in Scan : /\ event[e].alert # 0 /\ event[e].alert \notin ActionedAlerts
                /\ event[e].notified >= now - AlertWindow}
\* the alert of the newest such row, 0 when there is none
AlertToReuse ==
  IF Reusable = {} THEN 0
  ELSE event[CHOOSE e \in Reusable : \A x \in Reusable : event[x].rank <= event[e].rank].alert

LookForAlert(s) ==
  /\ At(s, "look")
  /\ On(s, [scan[s] EXCEPT !.at = "post", !.alert = AlertToReuse, !.acted = event[s].acted])
  /\ UNCHANGED <<outside, event, alerts, unstamped>>

PostAlert(s) ==
  LET buttons == [event |-> s, open |-> TRUE] IN
  /\ At(s, "post")
  /\ IF scan[s].alert # 0
     THEN alerts' = [alerts EXCEPT ![scan[s].alert] = buttons] /\ On(s, [scan[s] EXCEPT !.at = "stamp"])
     ELSE /\ alerts' = Append(alerts, buttons)
          /\ On(s, [scan[s] EXCEPT !.at = "stamp", !.alert = Len(alerts) + 1])
  /\ UNCHANGED <<outside, event, unstamped>>

\* Mutant: the row is written only when the alert is a new message.
StampNewOnly(s) ==
  /\ At(s, "stamp")
  /\ event' = IF \E e \in Scan : event[e].alert = scan[s].alert THEN event
              ELSE [event EXCEPT ![s].alert = scan[s].alert, ![s].notified = now]
  /\ Done(s)
  /\ UNCHANGED <<outside, alerts, unstamped>>

\* The metadata is written as it was read, with the alert.
Stamp(s) ==
  /\ At(s, "stamp")
  /\ event' = [event EXCEPT ![s].alert = scan[s].alert, ![s].notified = now,
                            ![s].acted = scan[s].acted]
  /\ Done(s)
  /\ UNCHANGED <<outside, alerts, unstamped>>

\* A statement or a call fails, or the process stops.
Fail(s) ==
  /\ ~At(s, "new") /\ ~At(s, "done")
  /\ Done(s)
  /\ unstamped' = IF At(s, "stamp") THEN unstamped \cup {s} ELSE unstamped
  /\ UNCHANGED <<outside, event, alerts>>

\* A moderator acts on a detection: the row is claimed, then the alert it names
\* shows what was done.
Act(e) ==
  \E action \in Acted \ {"none"} :
    /\ event[e].rank # 0 /\ event[e].acted = "none"
    /\ event' = [event EXCEPT ![e].acted = action]
    /\ alerts' = [a \in DOMAIN alerts |-> IF event[e].alert = a
                                          THEN [event |-> e, open |-> FALSE] ELSE alerts[a]]
    /\ UNCHANGED <<outside, scan, unstamped>>

Work(s) ==
  \/ ScoreMessage(s) \/ ScoreJoin(s) \/ CreateEvent(s)
  \/ LookForAlert(s) \/ PostAlert(s) \/ Stamp(s)

Next ==
  \/ Tick
  \/ \E s \in Scan : Arrive(s) \/ Work(s) \/ Fail(s) \/ Act(s)

Spec == Init /\ [][Next]_vars

---------------------------------------------------------------------------
(* Properties *)

TypeOK ==
  /\ profile \in Profile /\ now \in 0..MaxNow
  /\ scan \in [Scan -> ScanState] /\ event \in [Scan -> Event]
  /\ alerts \in Seq([event : Scan, open : BOOLEAN]) /\ unstamped \subseteq Scan

\* The buttons of an alert belong to a detection whose row names the alert, so
\* that what a moderator does is shown on it: although scans share alerts, find
\* each other's and are overtaken by moderators, only a scan that is about to
\* write its row, or stopped there, is an exception.
AlertIsTracked ==
  \A a \in DOMAIN alerts :
    LET e == alerts[a].event IN
    \/ event[e].alert = a
    \/ At(e, "stamp") /\ scan[e].alert = a
    \/ e \in unstamped
=============================================================================
