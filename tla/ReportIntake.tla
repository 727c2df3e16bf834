--------------------------- MODULE ReportIntake ---------------------------
(***************************************************************************)
(* One report intake: the private thread in which a reporter describes a    *)
(* member, the suggested targets they are asked about, the report that is   *)
(* filed for the confirmed one, and its review.  Every handler (a message   *)
(* in the thread, the delayed analysis of the agent, a pressed button, a    *)
(* close, the outcome of the alert that was raised for the report) reads    *)
(* the row, works and awaits, and writes status and metadata back; only the *)
(* confirmation and the dashboard's closing are conditional updates.        *)
(***************************************************************************)
EXTENDS FiniteSets, Integers

CONSTANTS
  Cand,       \* members the reporter may mean
  NoCand,     \* no member
  Handler,    \* handlers that can be in flight at one time
  MaxStarts,  \* bound: handlers started
  MaxFaults   \* bound: handlers that fail

\* what the constants are assumed to be
ReportIntakeAssumption ==
  NoCand \notin Cand /\ MaxStarts \in Nat /\ MaxFaults \in Nat

OpenStatus == {"collecting_evidence", "needs_reporter_confirmation"}
Reviewed == {"actioned", "dismissed", "false_positive"}
Status == {"none", "submitted", "closed_by_reporter", "expired"} \cup OpenStatus \cup Reviewed
Kind == {"open", "message", "close_text", "agent", "confirm", "reject", "close", "alert", "undo"}

\* candidate_suggestions, rejected_candidate_ids, the candidates of the last
\* prompt (its token) and last_confirmation_prompt_candidate_ids
Metadata == [suggested : SUBSET Cand, rejected : SUBSET Cand,
             prompt : SUBSET Cand, current : SUBSET Cand]
NoMetadata == [suggested |-> {}, rejected |-> {}, prompt |-> {}, current |-> {}]

VARIABLES
  row,      \* report_intakes: status, confirmed_target_user_id, metadata
  asked,    \* prompts in the thread: their buttons stay
  alert,    \* the observed alert of the report, if it has one
  handler,  \* kind, next step and local variables of the handlers
  filed,    \* members a report was filed about
  writes,   \* updates of the row so far (history)
  raced,    \* a handler wrote back metadata others had updated since (history)
  said,     \* members the reporter said they do not mean (history)
  starts, faults

counters == <<starts, faults>>
vars == <<row, asked, alert, handler, filed, writes, raced, said, starts, faults>>

\* data, seen: the metadata read, when so many updates had been made; to: the
\* status to write; goal, cands: the pressed or found candidates
Local == [kind : Kind, data : Metadata, seen : Nat, to : Status \cup {"keep"},
          goal : Cand \cup {NoCand}, cands : SUBSET Cand,
          at : {"idle", "create", "activate", "read", "prompt", "write", "target", "submit"}]
Idle == [kind |-> "close", at |-> "idle", data |-> NoMetadata, seen |-> 0,
         to |-> "keep", goal |-> NoCand, cands |-> {}]

Init ==
  /\ row = [status |-> "none", target |-> NoCand, data |-> NoMetadata]
  /\ asked = {} /\ alert = "none"
  /\ handler = [h \in Handler |-> Idle]
  /\ filed = {} /\ writes = 0 /\ raced = FALSE /\ said = {}
  /\ starts = 0 /\ faults = 0

At(h, step) == handler[h].at = step
Goto(h, step) == handler' = [handler EXCEPT ![h].at = step]
Return(h) == handler' = [handler EXCEPT ![h] = Idle]
\* on with the row as it is now, meaning to write the given status
Hold(h, step, to) ==
  handler' = [handler EXCEPT ![h].data = row.data, ![h].seen = writes,
                             ![h].at = step, ![h].to = to]
Rows == UNCHANGED <<row, writes, raced>>

---------------------------------------------------------------------------
(* Starting *)

Begin(h, kind, goal, cands, to) ==
  /\ At(h, "idle") /\ starts < MaxStarts /\ starts' = starts + 1
  /\ handler' = [handler EXCEPT ![h] =
       [Idle EXCEPT !.kind = kind, !.goal = goal, !.cands = cands, !.to = to,
                    !.at = IF kind = "open" THEN "create" ELSE "read"]]
  /\ Rows /\ UNCHANGED <<asked, filed, said, faults>>
Opened == row.status # "none" /\ \A g \in Handler : handler[g].kind # "open"

\* A message of the reporter: members it mentions, or the wish to close.
StartMessage(h, cands) ==
  /\ Opened
  /\ \/ Begin(h, "message", NoCand, cands, "keep")
     \/ cands = {} /\ Begin(h, "close_text", NoCand, {}, "keep")
  /\ UNCHANGED alert

\* The agent's analysis after it: the members it finds.
StartAnalysis(h, cands) ==
  /\ Opened
  /\ Begin(h, "agent", NoCand, cands, "keep")
  /\ UNCHANGED alert

StartClose(h) ==
  /\ Opened
  /\ Begin(h, "close", NoCand, {}, "keep")
  /\ UNCHANGED alert

StartOpen(h) ==
  /\ row.status = "none" /\ \A g \in Handler : At(g, "idle")
  /\ Begin(h, "open", NoCand, {}, "keep")
  /\ UNCHANGED alert

StartConfirm(h, c) ==
  /\ \E P \in asked : c \in P
  /\ Begin(h, "confirm", c, {}, "keep")
  /\ UNCHANGED alert

StartReject(h, P) ==
  /\ P \in asked
  /\ Begin(h, "reject", NoCand, P, "keep")
  /\ UNCHANGED alert

\* Mutant: an undo gives the intake the status of the alert.
StartAlertRaw(h) ==
  /\ \/ alert = "open" /\ alert' \in Reviewed
        /\ Begin(h, "alert", NoCand, {}, alert')
     \/ alert \in {"dismissed", "false_positive"} /\ alert' = "open"
        /\ Begin(h, "undo", NoCand, {}, "open")

\* The alert of the filed report is acted on, its dismissal undone.
StartAlert(h) ==
  /\ \/ alert = "open" /\ alert' \in Reviewed
        /\ Begin(h, "alert", NoCand, {}, alert')
     \/ alert \in {"dismissed", "false_positive"} /\ alert' = "open"
        /\ Begin(h, "undo", NoCand, {}, "submitted")

---------------------------------------------------------------------------
(* Opening: handleReportUserInitiate *)

CreateIntake(h) ==
  /\ At(h, "create")
  /\ row' = [row EXCEPT !.status = "collecting_evidence"] /\ writes' = writes + 1
  /\ Goto(h, "activate")
  /\ UNCHANGED <<asked, alert, filed, raced, said, counters>>

\* Nobody is in the thread before.  Without activation the intake expires.
Activate(h) ==
  /\ At(h, "activate")
  /\ \/ Return(h) /\ UNCHANGED faults
     \/ Hold(h, "write", "expired") /\ faults < MaxFaults /\ faults' = faults + 1
  /\ Rows /\ UNCHANGED <<asked, alert, filed, said, starts>>

---------------------------------------------------------------------------
(* Reading: what each handler decides by the row it reads *)

Reads(h, kinds) ==
  /\ At(h, "read") /\ handler[h].kind \in kinds
  /\ Rows /\ UNCHANGED <<asked, alert, filed, said, counters>>

\* Messages count while the intake is open, the agent's findings while it has
\* nobody to ask about.
ReadToSuggest(h) ==
  /\ Reads(h, {"message", "agent"})
  /\ IF \/ row.status = "collecting_evidence"
        \/ row.status \in OpenStatus /\ handler[h].kind = "message"
     THEN Hold(h, "prompt", row.status) ELSE Return(h)

\* A close of a submitted or reviewed report leaves its status.
ReadToClose(h) ==
  /\ Reads(h, {"close_text", "close"})
  /\ IF row.status \in OpenStatus THEN Hold(h, "write", "closed_by_reporter")
     ELSE IF handler[h].kind = "close" /\ row.status \in Reviewed \cup {"submitted"}
     THEN Hold(h, "write", "keep") ELSE Return(h)

\* before the target is confirmed ...
ReadToConfirm(h) ==
  /\ Reads(h, {"confirm"}) /\ handler[h].to = "keep"
  /\ IF /\ row.status = "needs_reporter_confirmation" /\ row.target = NoCand
        /\ handler[h].goal \in row.data.suggested
     THEN Hold(h, "target", "keep") ELSE Return(h)

\* ... and again after the report was filed.
ReadToSubmit(h) ==
  /\ Reads(h, {"confirm"}) /\ handler[h].to = "submitted"
  /\ Hold(h, "write", "submitted")

\* Only the last question is answered.
ReadToReject(h) ==
  /\ Reads(h, {"reject"})
  /\ IF row.status = "needs_reporter_confirmation" /\ row.data.prompt = handler[h].cands
     THEN Hold(h, "write", "collecting_evidence") ELSE Return(h)

ReadLinked(h) ==
  /\ Reads(h, {"alert", "undo"})
  /\ IF handler[h].kind = "alert"
     THEN Hold(h, "write", IF row.status \in {"closed_by_reporter", "expired"}
                           THEN row.status ELSE handler[h].to)
     ELSE IF row.status \in {"dismissed", "false_positive"} THEN Hold(h, "write", "submitted")
     ELSE Return(h)

\* Suggestions are merged; a set of them that was not the last one asked about
\* is asked about.
Prompt(h) ==
  LET data == handler[h].data
      merged == (data.suggested \cup handler[h].cands) \ data.rejected
      new == merged # {} /\ merged # data.current
  IN
  /\ At(h, "prompt")
  /\ asked' = IF new THEN asked \cup {merged} ELSE asked
  /\ handler' = [handler EXCEPT
       ![h].at = "write",
       ![h].data = [data EXCEPT !.suggested = merged,
                                !.prompt = IF new THEN merged ELSE @,
                                !.current = IF new THEN merged ELSE @],
       ![h].to = IF @ = "collecting_evidence" /\ merged # {}
                 THEN "needs_reporter_confirmation" ELSE @]
  /\ Rows /\ UNCHANGED <<alert, filed, said, counters>>

---------------------------------------------------------------------------
(* Writing *)

\* Mutant: the rejection is not remembered.
WrittenUnremembered(h) ==
  IF handler[h].kind # "reject" THEN handler[h].data
  ELSE [handler[h].data EXCEPT !.suggested = @ \ handler[h].cands, !.current = {}]

\* The metadata a handler writes is made of the metadata it read.
Written(h) ==
  LET data == handler[h].data IN
  IF handler[h].kind # "reject" THEN data
  ELSE [data EXCEPT !.suggested = @ \ handler[h].cands,
                    !.rejected = @ \cup handler[h].cands, !.current = {}]

Write(h) ==
  /\ At(h, "write")
  /\ row' = [status |-> IF handler[h].to = "keep" THEN row.status ELSE handler[h].to,
             target |-> IF handler[h].kind = "confirm" THEN handler[h].goal ELSE row.target,
             data |-> Written(h)]
  /\ writes' = writes + 1
  /\ raced' = (raced \/ writes # handler[h].seen)
  /\ said' = IF handler[h].kind = "reject" THEN said \cup handler[h].cands ELSE said
  /\ Return(h)
  /\ UNCHANGED <<asked, alert, filed, counters>>

\* Mutants: a second target replaces the first one; the intake is submitted
\* before its report is filed.
ConfirmAnyTarget(h) ==
  /\ At(h, "target")
  /\ IF row.status = "needs_reporter_confirmation"
     THEN /\ row' = [row EXCEPT !.target = handler[h].goal, !.data = handler[h].data]
          /\ writes' = writes + 1
          /\ raced' = (raced \/ writes # handler[h].seen)
          /\ Goto(h, "submit")
     ELSE Rows /\ Return(h)
  /\ UNCHANGED <<asked, alert, filed, said, counters>>
ConfirmAsSubmitted(h) ==
  /\ At(h, "target")
  /\ IF row.status = "needs_reporter_confirmation" /\ row.target = NoCand
     THEN /\ row' = [row EXCEPT !.target = handler[h].goal, !.status = "submitted"]
          /\ writes' = writes + 1 /\ raced' = raced
          /\ Goto(h, "submit")
     ELSE Rows /\ Return(h)
  /\ UNCHANGED <<asked, alert, filed, said, counters>>

\* confirmTargetIfUnset
ConfirmTarget(h) ==
  /\ At(h, "target")
  /\ IF row.status = "needs_reporter_confirmation" /\ row.target = NoCand
     THEN /\ row' = [row EXCEPT !.target = handler[h].goal, !.data = handler[h].data]
          /\ writes' = writes + 1
          /\ raced' = (raced \/ writes # handler[h].seen)
          /\ Goto(h, "submit")
     ELSE Rows /\ Return(h)
  /\ UNCHANGED <<asked, alert, filed, said, counters>>

\* What the settings and the analysis of the report make of it.
Route == {"observed_alert", "open_case", "kick"}

\* An alert is raised only where no case is active: else the report joins the
\* case.
AlertAfter(route, caseActive) ==
  IF route = "observed_alert" /\ ~caseActive /\ filed = {} THEN "open" ELSE alert

\* The report is filed and routed; the intake is read again.
Submit(h) ==
  /\ At(h, "submit")
  /\ filed' = filed \cup {handler[h].goal}
  /\ \E route \in Route, caseActive \in BOOLEAN : alert' = AlertAfter(route, caseActive)
  /\ handler' = [handler EXCEPT ![h].at = "read", ![h].to = "submitted"]
  /\ Rows /\ UNCHANGED <<asked, said, counters>>

\* The dashboard's closing of a submitted report
Review(status) ==
  /\ row.status = "submitted"
  /\ row' = [row EXCEPT !.status = status] /\ writes' = writes + 1
  /\ starts < MaxStarts /\ starts' = starts + 1
  /\ UNCHANGED <<asked, alert, handler, filed, raced, said, faults>>

\* A call fails or the process dies: the handler takes nothing back.
Stop(h) ==
  /\ ~At(h, "idle") /\ faults < MaxFaults /\ faults' = faults + 1
  /\ Return(h)
  /\ Rows /\ UNCHANGED <<asked, alert, filed, said, starts>>

Next ==
  \/ \E h \in Handler :
       \/ \E S \in SUBSET Cand : StartMessage(h, S) \/ StartAnalysis(h, S)
       \/ \E c \in Cand : StartConfirm(h, c)
       \/ \E P \in asked : StartReject(h, P)
       \/ StartClose(h) \/ StartOpen(h) \/ StartAlert(h)
       \/ CreateIntake(h) \/ Activate(h)
       \/ ReadToSuggest(h) \/ ReadToClose(h) \/ ReadToConfirm(h) \/ ReadToSubmit(h)
       \/ ReadToReject(h) \/ ReadLinked(h) \/ Prompt(h) \/ Write(h)
       \/ ConfirmTarget(h) \/ Submit(h) \/ Stop(h)
  \/ \E status \in Reviewed : Review(status)

Spec == Init /\ [][Next]_vars

---------------------------------------------------------------------------
(* Properties *)

\* Types of the variables: the row, the prompts, the alert and the handlers.
TypeOK ==
  /\ row \in [status : Status, target : Cand \cup {NoCand}, data : Metadata]
  /\ asked \subseteq SUBSET Cand
  /\ alert \in {"none", "open"} \cup Reviewed
  /\ handler \in [Handler -> Local]
  /\ filed \subseteq Cand /\ said \subseteq Cand
  /\ writes \in Nat /\ raced \in BOOLEAN
  /\ starts \in 0..MaxStarts /\ faults \in 0..MaxFaults

\* An intake reports one member: whatever buttons the reporter and the staff
\* press at the same time, and whatever handlers write over each other, a
\* report is filed only about the confirmed target, and when it counts as
\* submitted or reviewed it was filed: moderators find an alert or a case.
OneReport ==
  /\ filed \subseteq {row.target}
  /\ row.status \in Reviewed \cup {"submitted"} => filed # {}

\* Whom the reporter has rejected does not become the target afterwards, unless
\* a handler wrote back metadata from before the rejection.
RejectedStaysRejected ==
  [][row'.target # row.target => row'.target \notin said \/ raced']_vars
============================================================================
