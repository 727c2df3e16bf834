-------------------------- MODULE ReviewReminder --------------------------
(***************************************************************************)
(* CaseReviewReminderService for one guild with one case and one member in  *)
(* membership screening: the batch for the moderators, the reminder in the  *)
(* thread of the case, and the handler of the member's answers, which       *)
(* writes the same metadata.  Timestamps are kept as ages in hours, up to   *)
(* the age nothing depends on; no timestamp is as good as the oldest.       *)
(***************************************************************************)
EXTENDS Naturals

CONSTANTS
  Stale, VeryStale,  \* staleHours and veryStaleDays, in hours
  Repeat,            \* repeatHours
  Interval,          \* SUPPORT_THREAD_REMINDER_INTERVAL_HOURS
  Window,            \* ADMIN_REVIEW_WINDOW_HOURS
  LongPending,       \* longPendingDays, in hours
  MaxFaults          \* bound: failed calls and restarts

\* what the constants are assumed to be
ReviewReminderAssumption ==
  /\ {Stale, Interval, Window, LongPending} \subseteq Nat \ {0}
  /\ VeryStale \in Nat /\ Stale <= VeryStale
  /\ Repeat \in Nat /\ Window <= Repeat /\ MaxFaults \in Nat

VARIABLES
  event,     \* the row of the case: updated_at and support_thread_reminder
  screened,  \* the row of the member: discord_member_pending and its dates
  stamps,    \* the two dates of the settings
  tick,      \* runOnce: next step and local variables
  reply,     \* handleFlaggedUserThreadMessage: next step and local variables
  batch,     \* hours since a batch was posted in truth, and since one with
  review,    \*   case review
  sent,      \* reminders posted in truth, and hours since the last one
  reminder,
  answered,  \* an answer of the member was recorded
  unstamped, \* dates of the settings that miss the last batch
  unmarked,  \* the last reminder was not recorded
  clobbered, \* an answer or a reminder was overwritten by an older reading
  ticked,    \* a tick was completed in this hour
  faults

rows == <<event, screened, stamps>>
posted == <<batch, review, sent, reminder>>
history == <<answered, unstamped, unmarked, clobbered>>
vars == <<rows, tick, reply, posted, history, ticked, faults>>

Older(age, oldest) == IF age < oldest THEN age + 1 ELSE oldest

\* getUserReminderLimit: the window between stale and very stale, in intervals
Limit == (VeryStale - Stale + Interval - 1) \div Interval

Metadata == [count : 0..Limit, last : 0..Interval, responded : BOOLEAN]
Event == [pending : BOOLEAN, age : 0..VeryStale, data : Metadata]
Stamps == [admin : 0..Repeat, review : 0..Repeat]
Tick == [at : {"idle", "post", "stamp", "list", "remind", "mark"},
         stamps : Stamps, event : Event,
         cases : BOOLEAN, screening : BOOLEAN, answered : BOOLEAN]

NoData == [count |-> 0, last |-> Interval, responded |-> FALSE]
NoTick == [at |-> "idle", stamps |-> [admin |-> Repeat, review |-> Repeat],
           event |-> [pending |-> FALSE, age |-> 0, data |-> NoData],
           cases |-> FALSE, screening |-> FALSE, answered |-> FALSE]
NoReply == [at |-> "idle", read |-> NoData]

Init ==
  /\ event = [pending |-> TRUE, age |-> 0, data |-> NoData]
  /\ screened = [pending |-> FALSE, age |-> 0, listed |-> FALSE]
  /\ stamps = NoTick.stamps
  /\ tick = NoTick /\ reply = NoReply
  /\ batch = Repeat /\ review = Repeat /\ sent = 0 /\ reminder = Interval
  /\ answered = FALSE /\ unstamped = {} /\ unmarked = FALSE /\ clobbered = FALSE
  /\ ticked = FALSE /\ faults = 0

At(step) == tick.at = step
Goto(step) == tick' = [tick EXCEPT !.at = step]
Fault == faults < MaxFaults /\ faults' = faults + 1

---------------------------------------------------------------------------
(* buildCaseReminderPlan *)

\* An age in hours is at least one.
Hours(age) == IF age = 0 THEN 1 ELSE age
IsFresh(e) == Hours(e.age) < Stale
IsVeryStale(e) == Hours(e.age) >= VeryStale

\* When the next reminder would be due, without looking at the batches:
\* hours until then, none if it is past.
Until(e) ==
  LET wanted == IF e.data.count = 0 THEN Stale ELSE Interval
      passed == IF e.data.count = 0 THEN e.age ELSE e.data.last
  IN IF passed < wanted THEN wanted - passed ELSE 0

\* Mutant: the window is not looked at.
AvoidedNever(hours, sinceReview) == hours

\* Mutant: the hour is counted from the reminder.
AvoidedForLong(hours, sinceReview) ==
  IF sinceReview < Repeat THEN Repeat - sinceReview ELSE hours

\* avoidAdminReviewWindow: a reminder that would fall into the hour after a
\* batch with case review waits for its end.
Avoided(hours, sinceReview) ==
  IF sinceReview < Window /\ hours <= Window - sinceReview
  THEN Window - sinceReview ELSE hours

\* nextUserReminderAt is there and not in the future.
Due(e, sinceReview) ==
  /\ e.pending /\ ~e.data.responded /\ ~IsVeryStale(e)
  /\ e.data.count < Limit
  /\ Avoided(Until(e), sinceReview) = 0

---------------------------------------------------------------------------
(* runOnce and processServer *)

\* findAllActive, the members that are in screening for long and were not
\* listed yet, the pending case.  A batch is due once per repeat window; only
\* the tick itself writes the dates this depends on.
Begin ==
  LET screening == screened.pending /\ screened.age >= LongPending /\ ~screened.listed
      cases == event.pending /\ ~IsFresh(event)
  IN
  /\ At("idle")
  /\ tick' = [at |-> IF (cases \/ screening) /\ stamps.admin >= Repeat
                    THEN "post" ELSE "remind",
              stamps |-> stamps, event |-> event, cases |-> cases,
              screening |-> screening, answered |-> answered]
  /\ UNCHANGED <<rows, reply, posted, history, ticked, faults>>

\* the dates that stand for a batch of this tick
Recorded == {"batch"} \cup (IF tick.cases THEN {"review"} ELSE {})

\* sendAdminDigest: the first message
Post ==
  /\ At("post") /\ Goto("stamp")
  /\ batch' = 0 /\ review' = (IF tick.cases THEN 0 ELSE review)
  /\ unstamped' = unstamped \cup Recorded
  /\ UNCHANGED <<rows, reply, sent, reminder, answered, unmarked, clobbered, ticked, faults>>

FailPost ==
  /\ At("post") /\ Fault /\ Goto("remind")
  /\ UNCHANGED <<rows, reply, posted, history, ticked>>

\* stampAdminDigestSent, whose failure is only logged; the reminders of this
\* tick know of the batch in any case.
Posted ==
  tick' = [tick EXCEPT !.at = IF tick.screening THEN "list" ELSE "remind",
             !.stamps.review = IF tick.cases THEN 0 ELSE @]
Stamp ==
  /\ At("stamp") /\ Posted
  /\ stamps' = [admin |-> 0, review |-> IF tick.cases THEN 0 ELSE stamps.review]
  /\ unstamped' = unstamped \ Recorded
  /\ UNCHANGED <<event, screened, reply, posted, answered, unmarked, clobbered, ticked, faults>>

FailStamp ==
  /\ At("stamp") /\ Fault /\ Posted
  /\ UNCHANGED <<rows, reply, posted, history, ticked>>

\* markPendingScreeningDigestSent: whoever of the listed is in screening
MarkListed ==
  /\ At("list") /\ Goto("remind")
  /\ screened' = [screened EXCEPT !.listed = @ \/ screened.pending]
  /\ UNCHANGED <<event, stamps, reply, posted, history, ticked, faults>>

\* A later message of the batch could not be sent, or the mark not be written.
FailListed ==
  /\ At("list") /\ Fault /\ Goto("remind")
  /\ UNCHANGED <<rows, reply, posted, history, ticked>>

\* processUserThreadReminder
Remind ==
  /\ At("remind") /\ Due(tick.event, tick.stamps.review) /\ Goto("mark")
  /\ sent' = (IF sent = Limit + MaxFaults THEN sent ELSE sent + 1) /\ reminder' = 0
  /\ unmarked' = TRUE
  /\ UNCHANGED <<rows, reply, batch, review, answered, unstamped, clobbered, ticked, faults>>

NothingDue ==
  /\ At("remind") /\ ~Due(tick.event, tick.stamps.review)
  /\ tick' = NoTick /\ ticked' = TRUE
  /\ UNCHANGED <<rows, reply, posted, history, faults>>

\* The thread is gone, or the message could not be sent.
FailRemind ==
  /\ At("remind") /\ Due(tick.event, tick.stamps.review) /\ Fault
  /\ tick' = NoTick /\ ticked' = TRUE
  /\ UNCHANGED <<rows, reply, posted, history>>

\* markSupportThreadReminderSent: the whole metadata as read, counted up;
\* updated_at stays.
MarkReminded ==
  /\ At("mark") /\ tick' = NoTick /\ ticked' = TRUE
  /\ event' = [event EXCEPT !.data =
       [tick.event.data EXCEPT !.count = @ + 1, !.last = 0]]
  /\ unmarked' = FALSE
  /\ clobbered' = (clobbered \/ event.data # tick.event.data)
  /\ UNCHANGED <<screened, stamps, reply, posted, answered, unstamped, faults>>

FailMark ==
  /\ At("mark") /\ Fault /\ tick' = NoTick /\ ticked' = TRUE
  /\ UNCHANGED <<rows, reply, posted, history>>

---------------------------------------------------------------------------
(* handleFlaggedUserThreadMessage: one message of a case at a time *)

\* The case is read again; the first answer is recorded, later ones are
\* analysed only.
Answer ==
  /\ reply.at = "idle" /\ event.pending
  /\ reply' = [at |-> IF event.data.responded THEN "analyse" ELSE "respond",
               read |-> event.data]
  /\ UNCHANGED <<rows, tick, posted, history, ticked, faults>>

\* Each of the two writes stores the metadata as read, and a new updated_at.
StoreReply(next) ==
  LET data == [reply.read EXCEPT !.responded = TRUE] IN
  /\ event' = [event EXCEPT !.data = data, !.age = 0]
  /\ clobbered' = (clobbered \/ event.data # reply.read)
  /\ reply' = [at |-> next, read |-> IF next = "idle" THEN NoData ELSE data]
  /\ answered' = TRUE
  /\ UNCHANGED <<screened, stamps, tick, posted, unstamped, unmarked, ticked, faults>>

Respond == reply.at = "respond" /\ StoreReply("analyse")
Analyse == reply.at = "analyse" /\ StoreReply("idle")

\* The answer could not be recorded; the handler goes on with what it has.
FailRespond ==
  /\ reply.at = "respond" /\ Fault
  /\ reply' = [reply EXCEPT !.at = "analyse"]
  /\ UNCHANGED <<rows, tick, posted, history, ticked>>

\* The analysis is off, used up, or fails.
SkipAnalysis ==
  /\ reply.at = "analyse" /\ reply' = NoReply
  /\ UNCHANGED <<rows, tick, posted, history, ticked, faults>>

---------------------------------------------------------------------------
(* what happens around it *)

\* The case is resolved, reopened, or its row updated without its metadata.
TouchCase ==
  /\ \E pending \in BOOLEAN : event' = [event EXCEPT !.pending = pending, !.age = 0]
  /\ UNCHANGED <<screened, stamps, tick, reply, posted, history, ticked, faults>>

\* updateDiscordMemberPendingState: a screening begins anew, or is over.
ChangeScreening ==
  /\ screened' = [pending |-> ~screened.pending, age |-> 0,
                  listed |-> screened.pending /\ screened.listed]
  /\ UNCHANGED <<event, stamps, tick, reply, posted, history, ticked, faults>>

\* An hour has several ticks, and none takes an hour.
HourPasses ==
  /\ ticked /\ At("idle") /\ reply.at = "idle" /\ ticked' = FALSE
  /\ event' = [event EXCEPT !.age = Older(@, VeryStale), !.data.last = Older(@, Interval)]
  /\ screened' = [screened EXCEPT !.age = IF screened.pending THEN Older(@, LongPending) ELSE 0]
  /\ stamps' = [admin |-> Older(stamps.admin, Repeat), review |-> Older(stamps.review, Repeat)]
  /\ batch' = Older(batch, Repeat) /\ review' = Older(review, Repeat)
  /\ reminder' = Older(reminder, Interval)
  /\ UNCHANGED <<tick, reply, sent, history, faults>>

\* The process ends, and a new one begins with a tick of its own.
Restart ==
  /\ Fault /\ tick' = NoTick /\ reply' = NoReply
  /\ UNCHANGED <<rows, posted, history, ticked>>

Step ==
  \/ Begin \/ Post \/ FailPost \/ Stamp \/ FailStamp \/ MarkListed \/ FailListed
  \/ Remind \/ NothingDue \/ FailRemind \/ MarkReminded \/ FailMark

Next ==
  \/ Step \/ Answer \/ Respond \/ FailRespond \/ Analyse \/ SkipAnalysis
  \/ TouchCase \/ ChangeScreening \/ HourPasses \/ Restart

Spec == Init /\ [][Next]_vars

---------------------------------------------------------------------------
(* Properties *)

\* Types of the variables: the rows, the handlers, the history.
TypeOK ==
  /\ event \in Event
  /\ screened \in [pending : BOOLEAN, age : 0..LongPending, listed : BOOLEAN]
  /\ stamps \in Stamps
  /\ tick \in Tick
  /\ reply \in [at : {"idle", "respond", "analyse"}, read : Metadata]
  /\ {batch, review} \subseteq 0..Repeat /\ reminder \in 0..Interval
  /\ sent \in 0..Limit + MaxFaults
  /\ {answered, unmarked, clobbered, ticked} \subseteq BOOLEAN
  /\ unstamped \subseteq {"batch", "review"}
  /\ faults \in 0..MaxFaults

\* However ticks, answers, resolutions and failures fall: batches keep their
\* distance, and a reminder keeps its distance from the one before and from
\* the batch with case review, comes no more often than the limit (a failure may lose one of the count), and not to
\* a member whose answer was recorded.  What may spoil this is a post that
\* could not be recorded, or a record overwritten by a concurrent handler.
RemindersInTime ==
  [][/\ At("post") /\ tick'.at = "stamp" => batch >= Repeat \/ "batch" \in unstamped
     /\ At("remind") /\ tick'.at = "mark" =>
          /\ review >= Window \/ "review" \in unstamped
          /\ \/ reminder >= Interval /\ sent < Limit + faults /\ ~tick.answered
             \/ unmarked \/ clobbered]_vars

\* A member who stays silent was reminded before the case is very stale.
SilentIsReminded ==
  event.pending /\ IsVeryStale(event) /\ ~event.data.responded /\ Limit > 0 /\ faults = 0
  => sent > 0
============================================================================
