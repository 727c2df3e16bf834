--------------------------- MODULE CaseLifecycle ---------------------------
(***************************************************************************)
(* The verification cases of one member of one guild: the handlers that    *)
(* open, repair, reopen and resolve them, each a sequence of awaited        *)
(* statements and Discord calls, and the member who meanwhile leaves,       *)
(* rejoins or is banned by others.  Nothing locks a case: a handler works   *)
(* on the rows it read at its beginning and writes whole rows back.         *)
(*                                                                          *)
(* A case is its number in the order of creation.  Between any two steps a  *)
(* handler may stop (a rejected call that it does not catch, a crash): the  *)
(* pair of its kind and its step is then in cut.                            *)
(***************************************************************************)
EXTENDS Integers, FiniteSets

CONSTANTS
  Handler,     \* handlers that can be in flight at one time
  Kinds,       \* which of them occur
  Parallel,    \* kinds that may be in flight together; every other one is alone
  MaxCases,    \* bound: cases of the member
  MaxThreads,  \* bound: Discord threads created
  MaxStarts,   \* bound: handlers started
  MaxMoves,    \* bound: acts of the member and of other moderators
  MaxMishaps   \* bound: failed Discord calls and stopped handlers

Opener == {"open", "repair", "reopen"}
Resolver == {"verify", "close", "kick", "ban", "banById"}
Observer == {"sync", "observedBan", "observedKick", "left"}
Kind == Opener \cup Resolver \cup Observer

ASSUME CaseLifecycleAssumption ==
  /\ Kinds \subseteq Kind /\ Parallel \subseteq Kind
  /\ MaxCases \in Nat /\ MaxThreads \in Nat /\ MaxStarts \in Nat
  /\ MaxMoves \in Nat /\ MaxMishaps \in Nat

Case == 1..MaxCases
Thread == 1..MaxThreads
Outcome == {"verified", "banned", "kicked", "closed"}
Row == [status : {"none", "pending"} \cup Outcome, thread : Thread \cup {0},
        alert : BOOLEAN, failed : SUBSET {"role", "thread"}]
NoRow == [status |-> "none", thread |-> 0, alert |-> FALSE, failed |-> {}]
Step == {"idle", "find", "look", "create", "role", "mark", "thread", "store", "join",
         "route", "rejoin", "clear", "notify", "reopen", "unarchive", "read", "write",
         "unrole", "member", "archive", "ban", "kick", "undo"}

VARIABLES
  rows,     \* verification_events, by case
  threads,  \* state of the Discord threads
  member,   \* [present, banned, role]: what Discord says of the member
  mark,     \* server_members.case_role_active
  handler,  \* the handlers: kind, next step and local variables
  cut,      \* where handlers stopped (history)
  wasBanned,\* the member was on the ban list at some time (history)
  starts, moves, mishaps

world == <<threads, member, wasBanned>>
counters == <<starts, moves, mishaps>>
vars == <<rows, threads, member, mark, handler, cut, wasBanned, starts, moves, mishaps>>

\* seen: the rows the handler holds; todo: those it still has to write or to
\* archive; mine: the thread it created; flag: shouldRemoveCaseRole of a close.
Local == [kind : Kind, at : Step, obj : Case \cup {0}, seen : [Case -> Row],
          todo : SUBSET Case, mine : Thread \cup {0}, flag : BOOLEAN]
Idle == [kind |-> "open", at |-> "idle", obj |-> 0, seen |-> [c \in Case |-> NoRow],
         todo |-> {}, mine |-> 0, flag |-> FALSE]

Pending(table) == {c \in Case : table[c].status = "pending"}
Newest(S) == CHOOSE c \in S : \A d \in S : d <= c
Held(h) == {c \in Case : handler[h].seen[c].status # "none"}
Unused == {t \in Thread : threads[t] = "none"}
InFlight == {h \in Handler : handler[h].at # "idle"}

Init ==
  /\ rows = [c \in Case |-> NoRow]
  /\ threads = [t \in Thread |-> "none"]
  /\ member = [present |-> TRUE, banned |-> FALSE, role |-> FALSE]
  /\ mark = FALSE
  /\ handler = [h \in Handler |-> Idle]
  /\ cut = {} /\ wasBanned = FALSE
  /\ starts = 0 /\ moves = 0 /\ mishaps = 0

---------------------------------------------------------------------------
(* Moving a handler on *)

At(h, step) == handler[h].at = step
Mishap == mishaps < MaxMishaps /\ mishaps' = mishaps + 1
Goto(h, step) == handler' = [handler EXCEPT ![h].at = step]
\* on with the given copy of the case it works on
Hold(h, row, step) ==
  handler' = [handler EXCEPT ![h].at = step, ![h].seen[handler[h].obj] = row]
Return(h) == handler' = [handler EXCEPT ![h] = Idle]
\* the next round of a loop over todo, or what follows the loop
NextRound(h, c, after) ==
  IF handler[h].todo # {c} THEN handler' = [handler EXCEPT ![h].todo = @ \ {c}]
  ELSE IF after = "idle" THEN Return(h)
  ELSE handler' = [handler EXCEPT ![h].todo = Held(h), ![h].at = after]

AfterRole(h) ==
  IF handler[h].kind = "reopen" THEN "unarchive"
  ELSE IF handler[h].seen[handler[h].obj].thread = 0 THEN "thread"
  ELSE IF handler[h].kind = "repair" THEN "rejoin" ELSE "notify"
AfterThread(h) == IF handler[h].kind = "repair" THEN "clear" ELSE "notify"
AfterFailedThread(h) == IF handler[h].kind = "repair" THEN "idle" ELSE "notify"
\* Mutants: a verification forgets the role, a close never looks at it.
AfterWriteVerifyKeepsRole(h) ==
  CASE handler[h].kind = "close" -> IF handler[h].flag THEN "unrole" ELSE "member"
    [] handler[h].kind = "banById" -> "ban"
    [] handler[h].kind = "left" -> "idle"
    [] OTHER -> "member"
AfterWriteCloseKeepsRole(h) ==
  CASE handler[h].kind = "verify" -> "unrole"
    [] handler[h].kind = "banById" -> "ban"
    [] handler[h].kind = "left" -> "idle"
    [] OTHER -> "member"

AfterWrite(h) ==
  CASE handler[h].kind = "verify" -> "unrole"
    [] handler[h].kind = "close" -> IF handler[h].flag THEN "unrole" ELSE "member"
    [] handler[h].kind = "banById" -> "ban"
    [] handler[h].kind = "left" -> "idle"
    [] OTHER -> "member"
OutcomeOf(kind) ==
  CASE kind = "verify" -> "verified" [] kind = "close" -> "closed"
    [] kind \in {"kick", "observedKick"} -> "kicked"
    [] kind = "left" -> "pending" [] OTHER -> "banned"

---------------------------------------------------------------------------
(* Starting *)

FirstStep(kind) ==
  CASE kind \in {"open", "repair"} -> "find" [] kind = "reopen" -> "reopen"
    [] kind = "ban" -> "ban" [] OTHER -> "read"

\* Messages, joins and buttons need the member; a departure is only handled
\* when the member is definitely not banned.
MayStart(kind) ==
  CASE kind \in {"open", "repair", "verify", "kick", "ban"} -> member.present
    [] kind \in {"sync", "observedBan"} -> member.banned
    [] kind \in {"observedKick", "left"} -> ~member.present /\ ~member.banned
    [] OTHER -> TRUE

\* A reopening is for a resolved case its caller has read.
Start(h, kind) ==
  /\ At(h, "idle") /\ starts < MaxStarts /\ starts' = starts + 1
  /\ MayStart(kind)
  /\ \A g \in InFlight : {kind, handler[g].kind} \subseteq Parallel
  /\ \E c \in IF kind = "reopen" THEN {d \in Case : rows[d].status \in Outcome} ELSE {0} :
       handler' = [handler EXCEPT ![h] =
         [Idle EXCEPT !.kind = kind, !.at = FirstStep(kind), !.obj = c,
                      !.seen = [d \in Case |-> IF d = c THEN rows[d] ELSE NoRow]]]
  /\ UNCHANGED <<rows, world, mark, cut, moves, mishaps>>

\* A call rejects and nothing catches it, or the process dies.
Stop(h) ==
  /\ ~At(h, "idle") /\ Mishap
  /\ Return(h)
  /\ cut' = cut \cup {<<handler[h].kind, handler[h].at>>}
  /\ UNCHANGED <<rows, world, mark, starts, moves>>

---------------------------------------------------------------------------
(* Opening: handleSuspiciousMember, openAdminCase, repairActiveCase *)

FindCase(h) ==
  /\ At(h, "find")
  /\ IF Pending(rows) # {}
     THEN \E c \in Pending(rows) :
            /\ c = Newest(Pending(rows))
            /\ handler' = [handler EXCEPT
                 ![h].obj = c, ![h].seen[c] = rows[c],
                 ![h].at = IF handler[h].kind = "repair" THEN "role" ELSE "look"]
     ELSE IF handler[h].kind = "repair" THEN Return(h) ELSE Goto(h, "create")
  /\ UNCHANGED <<rows, world, mark, cut, counters>>

\* An active case: the role is applied only when the member row says it is not.
LookAtMark(h) ==
  /\ At(h, "look")
  /\ Goto(h, IF mark THEN AfterRole(h) ELSE "role")
  /\ UNCHANGED <<rows, world, mark, cut, counters>>

CreateCase(h) ==
  /\ At(h, "create")
  /\ \E c \in Case :
       /\ \A d \in Case : rows[d].status = "none" <=> d >= c
       /\ rows' = [rows EXCEPT ![c].status = "pending"]
       /\ handler' = [handler EXCEPT ![h].obj = c, ![h].seen[c] = rows'[c], ![h].at = "role"]
  /\ UNCHANGED <<world, mark, cut, counters>>

\* The failure is appended to the metadata the handler holds; the handler goes
\* on with the row that update returns.
RecordFailure(h, what, step) ==
  LET c == handler[h].obj IN
  /\ rows' = [rows EXCEPT ![c].failed = handler[h].seen[c].failed \cup {what}]
  /\ IF step = "idle" THEN Return(h) ELSE Hold(h, rows'[c], step)

AssignRole(h) ==
  /\ At(h, "role") /\ member.present
  /\ member' = [member EXCEPT !.role = TRUE]
  /\ Goto(h, "mark")
  /\ UNCHANGED <<rows, threads, wasBanned, mark, cut, counters>>

\* For a reopening the error is not caught.
FailRole(h) ==
  /\ At(h, "role")
  /\ (~member.present /\ mishaps' = mishaps) \/ Mishap
  /\ IF handler[h].kind = "reopen"
     THEN /\ Return(h) /\ rows' = rows
          /\ cut' = cut \cup {<<"reopen", "role">>}
     ELSE RecordFailure(h, "role", AfterRole(h)) /\ cut' = cut
  /\ UNCHANGED <<world, mark, starts, moves>>

\* upsertMember, then the case is read again
MarkRole(h) ==
  /\ At(h, "mark")
  /\ mark' = TRUE
  /\ IF handler[h].kind = "reopen" THEN Goto(h, "unarchive")
     ELSE Hold(h, rows[handler[h].obj], AfterRole(h))
  /\ UNCHANGED <<rows, world, cut, counters>>

CreateThread(h) ==
  /\ At(h, "thread")
  /\ \E t \in Unused :
       /\ \A u \in Unused : t <= u
       /\ threads' = [threads EXCEPT ![t] = "open"]
       /\ handler' = [handler EXCEPT ![h].mine = t, ![h].at = "store"]
  /\ UNCHANGED <<rows, member, wasBanned, mark, cut, counters>>

\* Mutant: the id of the thread is only remembered, the row not written.
StoreThreadInMemory(h) ==
  /\ At(h, "store")
  /\ Hold(h, [handler[h].seen[handler[h].obj] EXCEPT !.thread = handler[h].mine], "join")
  /\ UNCHANGED <<rows, world, mark, cut, counters>>

\* storeThreadId writes the whole row the handler holds, its status included.
StoreThread(h) ==
  LET c == handler[h].obj
      row == [handler[h].seen[c] EXCEPT !.thread = handler[h].mine]
  IN
  /\ At(h, "store")
  /\ rows' = [rows EXCEPT ![c] = row]
  /\ Hold(h, row, "join")
  /\ UNCHANGED <<world, mark, cut, counters>>

JoinThread(h) ==
  /\ At(h, "join") /\ member.present
  /\ Goto(h, "route")
  /\ UNCHANGED <<rows, world, mark, cut, counters>>

\* the routing metadata: the whole row once more
RouteThread(h) ==
  LET c == handler[h].obj IN
  /\ At(h, "route")
  /\ rows' = [rows EXCEPT ![c] = handler[h].seen[c]]
  /\ Goto(h, AfterThread(h))
  /\ UNCHANGED <<world, mark, cut, counters>>

\* Mutants: the failure is recorded under the name of the step, or not at all.
FailThreadByStep(h) ==
  /\ handler[h].at \in {"thread", "join", "rejoin"}
  /\ (~member.present /\ ~At(h, "thread") /\ mishaps' = mishaps) \/ Mishap
  /\ RecordFailure(h, handler[h].at, AfterFailedThread(h))
  /\ UNCHANGED <<world, mark, cut, starts, moves>>
FailThreadUnrecorded(h) ==
  /\ handler[h].at \in {"thread", "join", "rejoin"} /\ Mishap
  /\ IF AfterFailedThread(h) = "idle" THEN Return(h) ELSE Goto(h, AfterFailedThread(h))
  /\ UNCHANGED <<rows, world, mark, cut, starts, moves>>

\* The thread is not created, or the member cannot be added to it.
FailThread(h) ==
  /\ handler[h].at \in {"thread", "join", "rejoin"}
  /\ (~member.present /\ ~At(h, "thread") /\ mishaps' = mishaps) \/ Mishap
  /\ RecordFailure(h, "thread", AfterFailedThread(h))
  /\ UNCHANGED <<world, mark, cut, starts, moves>>

\* repairVerificationThread of a case with a thread
RejoinThread(h) ==
  LET t == handler[h].seen[handler[h].obj].thread IN
  /\ At(h, "rejoin") /\ member.present
  /\ threads' = [threads EXCEPT ![t] = "open"]
  /\ Goto(h, "clear")
  /\ UNCHANGED <<rows, member, wasBanned, mark, cut, counters>>

ClearFailure(h) ==
  LET c == handler[h].obj IN
  /\ At(h, "clear")
  /\ rows' = IF "thread" \in handler[h].seen[c].failed
             THEN [rows EXCEPT ![c].failed = handler[h].seen[c].failed \ {"thread"}]
             ELSE rows
  /\ Return(h)
  /\ UNCHANGED <<world, mark, cut, counters>>

\* the alert is sent or edited, and its message id stored
Notify(h) ==
  /\ At(h, "notify")
  /\ rows' = [rows EXCEPT ![handler[h].obj].alert = TRUE]
  /\ Return(h)
  /\ UNCHANGED <<world, mark, cut, counters>>

\* reopenVerification: a partial update, with no look at the row or at others
ReopenCase(h) ==
  LET c == handler[h].obj IN
  /\ At(h, "reopen")
  /\ rows' = [rows EXCEPT ![c].status = "pending"]
  /\ Goto(h, "role")
  /\ UNCHANGED <<world, mark, cut, counters>>

ReopenThread(h) ==
  LET t == handler[h].seen[handler[h].obj].thread IN
  /\ At(h, "unarchive")
  /\ threads' = IF t = 0 THEN threads ELSE [threads EXCEPT ![t] = "open"]
  /\ Return(h)
  /\ UNCHANGED <<rows, member, wasBanned, mark, cut, counters>>

---------------------------------------------------------------------------
(* Resolving: UserModerationService *)

\* on with all pending cases, as they are now
HoldPending(h, step, flag) ==
  LET found == Pending(rows) IN
  /\ handler' = [handler EXCEPT
       ![h].seen = [c \in Case |-> IF c \in found THEN rows[c] ELSE NoRow],
       ![h].todo = found, ![h].flag = flag, ![h].at = step]
  /\ UNCHANGED <<rows, world, mark, cut, counters>>
Reads(h, kinds) == At(h, "read") /\ handler[h].kind \in kinds
GiveUp(h) == Return(h) /\ UNCHANGED <<rows, world, mark, cut, counters>>

\* Without a pending case a verification throws, a sync and observers of a ban
\* or a departure return.
ReadToVerify(h) ==
  /\ Reads(h, {"verify"})
  /\ IF Pending(rows) # {} THEN HoldPending(h, "write", FALSE) ELSE GiveUp(h)
ReadBanned(h) ==
  /\ Reads(h, {"sync"})
  /\ IF Pending(rows) # {} THEN HoldPending(h, "write", FALSE) ELSE GiveUp(h)
ReadObserved(h) ==
  /\ Reads(h, {"observedBan", "left"})
  /\ IF Pending(rows) # {} THEN HoldPending(h, "write", FALSE) ELSE GiveUp(h)

\* A close without a case removes a role that was left behind.
ReadToClose(h) ==
  LET flag == member.present /\ mark IN
  /\ Reads(h, {"close"})
  /\ IF Pending(rows) # {} THEN HoldPending(h, "write", flag)
     ELSE IF flag THEN HoldPending(h, "unrole", flag) ELSE GiveUp(h)

\* The others act on the member, whether there is a case or not.
ReadToKick(h) == Reads(h, {"kick"}) /\ HoldPending(h, "kick", FALSE)
ReadToBan(h) ==
  /\ Reads(h, {"ban", "observedKick"})
  /\ HoldPending(h, IF Pending(rows) # {} THEN "write" ELSE "member", FALSE)
ReadToBanById(h) ==
  /\ Reads(h, {"banById"})
  /\ HoldPending(h, IF Pending(rows) # {} THEN "write" ELSE "ban", FALSE)

\* One pending row is written, whole, with its outcome.  A departure writes
\* the row back as it was read.
WriteOutcome(h) ==
  /\ At(h, "write")
  /\ \E c \in handler[h].todo :
       /\ c = Newest(handler[h].todo)
       /\ rows' = [rows EXCEPT ![c] =
            [handler[h].seen[c] EXCEPT !.status = OutcomeOf(handler[h].kind)]]
       /\ NextRound(h, c, AfterWrite(h))
  /\ UNCHANGED <<world, mark, cut, counters>>

RemoveRole(h) ==
  /\ At(h, "unrole") /\ member.present
  /\ member' = [member EXCEPT !.role = FALSE]
  /\ Goto(h, "member")
  /\ UNCHANGED <<rows, threads, wasBanned, mark, cut, counters>>

\* upsertMember with case_role_active false
ClearMark(h) ==
  /\ At(h, "member")
  /\ mark' = FALSE
  /\ IF Held(h) = {} THEN Return(h)
     ELSE handler' = [handler EXCEPT ![h].todo = Held(h), ![h].at = "archive"]
  /\ UNCHANGED <<rows, world, cut, counters>>

\* resolveVerificationThread catches what Discord rejects
ArchiveThread(h) ==
  /\ At(h, "archive")
  /\ \E c \in handler[h].todo :
       LET t == handler[h].seen[c].thread IN
       /\ c = Newest(handler[h].todo)
       /\ \/ t # 0 /\ threads' = [threads EXCEPT ![t] = "closed"] /\ mishaps' = mishaps
          \/ t = 0 /\ threads' = threads /\ mishaps' = mishaps
          \/ t # 0 /\ threads' = threads /\ Mishap
       /\ NextRound(h, c, "idle")
  /\ UNCHANGED <<rows, member, wasBanned, mark, cut, starts, moves>>

\* ban reads the cases after the call, banUserById before it
BanMember(h) ==
  /\ At(h, "ban")
  /\ member' = [present |-> FALSE, banned |-> TRUE, role |-> FALSE]
  /\ wasBanned' = TRUE
  /\ Goto(h, IF handler[h].kind = "ban" THEN "read" ELSE "member")
  /\ UNCHANGED <<rows, threads, mark, cut, counters>>

\* Mutant: the rows are not written back.
FailBanKeepingRows(h) ==
  /\ At(h, "ban") /\ Mishap
  /\ Return(h)
  /\ UNCHANGED <<rows, world, mark, cut, starts, moves>>

\* The rejected ban of banUserById: the rows it read are written back.
FailBan(h) ==
  /\ At(h, "ban") /\ Mishap
  /\ IF handler[h].kind = "banById" /\ Held(h) # {}
     THEN handler' = [handler EXCEPT ![h].todo = Held(h), ![h].at = "undo"]
     ELSE Return(h)
  /\ UNCHANGED <<rows, world, mark, cut, starts, moves>>

UndoOutcome(h) ==
  /\ At(h, "undo")
  /\ \E c \in handler[h].todo :
       /\ c = Newest(handler[h].todo)
       /\ rows' = [rows EXCEPT ![c] = handler[h].seen[c]]
       /\ NextRound(h, c, "idle")
  /\ UNCHANGED <<world, mark, cut, counters>>

KickMember(h) ==
  /\ At(h, "kick") /\ member.present
  /\ member' = [member EXCEPT !.present = FALSE, !.role = FALSE]
  /\ Goto(h, IF handler[h].todo # {} THEN "write" ELSE "member")
  /\ UNCHANGED <<rows, threads, wasBanned, mark, cut, counters>>

---------------------------------------------------------------------------
(* The member and other moderators *)

Moves(after) ==
  /\ moves < MaxMoves /\ moves' = moves + 1
  /\ member' = after
  /\ wasBanned' = (wasBanned \/ after.banned)
  /\ UNCHANGED <<rows, threads, mark, handler, cut, starts, mishaps>>

NativeBan == ~member.banned /\ Moves([present |-> FALSE, banned |-> TRUE, role |-> FALSE])
Unban == member.banned /\ Moves([member EXCEPT !.banned = FALSE])
Leave == member.present /\ Moves([member EXCEPT !.present = FALSE, !.role = FALSE])
Rejoin == ~member.present /\ ~member.banned /\ Moves([member EXCEPT !.present = TRUE])

---------------------------------------------------------------------------
Open(h) ==
  \/ FindCase(h) \/ LookAtMark(h) \/ CreateCase(h) \/ AssignRole(h) \/ FailRole(h)
  \/ MarkRole(h) \/ CreateThread(h) \/ StoreThread(h) \/ JoinThread(h)
  \/ RouteThread(h) \/ FailThread(h) \/ RejoinThread(h) \/ ClearFailure(h)
  \/ Notify(h) \/ ReopenCase(h) \/ ReopenThread(h)

Resolve(h) ==
  \/ ReadToVerify(h) \/ ReadToClose(h) \/ ReadToKick(h) \/ ReadToBan(h)
  \/ ReadToBanById(h) \/ ReadBanned(h) \/ ReadObserved(h) \/ WriteOutcome(h) \/ RemoveRole(h) \/ ClearMark(h)
  \/ ArchiveThread(h) \/ BanMember(h) \/ FailBan(h) \/ UndoOutcome(h) \/ KickMember(h)

World == NativeBan \/ Unban \/ Leave \/ Rejoin

Next ==
  \/ \E h \in Handler : (\E kind \in Kinds : Start(h, kind)) \/ Stop(h) \/ Open(h) \/ Resolve(h)
  \/ World

Spec == Init /\ [][Next]_vars

---------------------------------------------------------------------------
(* Properties *)

\* Types of the variables: the case rows, Discord's state and the handlers.
TypeOK ==
  /\ rows \in [Case -> Row]
  /\ threads \in [Thread -> {"none", "open", "closed"}]
  /\ member \in [present : BOOLEAN, banned : BOOLEAN, role : BOOLEAN]
  /\ mark \in BOOLEAN
  /\ handler \in [Handler -> Local]
  /\ cut \subseteq Kind \X Step
  /\ wasBanned \in BOOLEAN
  /\ starts \in 0..MaxStarts /\ moves \in 0..MaxMoves /\ mishaps \in 0..MaxMishaps

\* A case that says banned is one of a member who was banned: the ban by id,
\* which writes the rows before the Discord call, takes its outcome back when
\* the call is rejected, unless it is still at it or was stopped on the way.
BannedMeansBanned ==
  \A c \in Case : rows[c].status = "banned" =>
    \/ wasBanned
    \/ \E h \in InFlight : handler[h].kind = "banById"
    \/ \E pair \in cut : pair[1] = "banById"

\* Every thread the bot created is the recorded thread of a case, so that it
\* can be closed with the case, or its id is about to be stored; only a
\* handler stopped right there loses one.
ThreadIsRecorded ==
  \A t \in Thread : threads[t] # "none" =>
    \/ \E c \in Case : rows[c].thread = t
    \/ \E h \in Handler : At(h, "store") /\ handler[h].mine = t
    \/ \E pair \in cut : pair[2] = "store"

\* While no handler is at work, a member with the case role is marked as
\* having it: the mark is what makes a close take the role away again.  Only
\* a handler stopped between the assignment and the mark breaks this.
RoleIsMarked ==
  InFlight = {} /\ member.role => mark \/ \E pair \in cut : pair[2] = "mark"

\* What the bot did to the member and the threads in Discord, its rows know of.
DiscordIsRecorded == ThreadIsRecorded /\ RoleIsMarked

\* the handler ends, and not because it was stopped here
Ends(h) ==
  /\ ~At(h, "idle") /\ handler'[h] = Idle
  /\ <<handler[h].kind, handler[h].at>> \notin cut'

\* An opening that ends leaves a pending case moderators can see and act on:
\* alerted, with a thread or the recorded failure to make one, and with the
\* member marked as restricted or the recorded failure to restrict.
OpenedIsVisible ==
  [][\A h \in Handler : Ends(h) /\ handler[h].kind = "open" =>
       LET row == rows'[handler[h].obj] IN
       /\ row.status = "pending" /\ row.alert
       /\ row.thread # 0 \/ "thread" \in row.failed
       /\ mark' \/ "role" \in row.failed]_vars

\* When a verification or a close that found a case has gone through, whatever
\* other resolutions ran at the same time, no case of the member is pending, the member neither has the case role nor is marked as having it.
\* An opening that was stopped before its mark hides the role from a close.
ResolutionReleases ==
  [][\A h \in Handler :
       /\ Ends(h) /\ handler[h].kind \in {"verify", "close"}
       /\ ~At(h, "read")
       /\ ~\E pair \in cut : pair[2] = "mark"
       => Pending(rows') = {} /\ ~member'.role /\ ~mark']_vars

\* A message that meets an active case only leaves the role alone when the
\* member has it.
OpenedIsRestricted ==
  [][\A h \in Handler : At(h, "look") /\ handler'[h].at \in {"thread", "notify"}
       => member.role]_vars

\* A member has at most one pending case.
OneCasePerMember == Cardinality(Pending(rows)) <= 1
============================================================================
