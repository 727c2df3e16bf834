---------------------------- MODULE CombinedBan ----------------------------
(***************************************************************************)
(* The combined ban with message cleanup of one case: mark the case, ban    *)
(* the user in Discord, run the cleanup job, finalize the case, answer the  *)
(* request, clear the mark.  Every step is durable, so that a request taken *)
(* over after a crash can go on from the job row it reads.  Meanwhile       *)
(* Discord reports bans, kicks and departures, and moderators resolve and   *)
(* reopen the case: those handlers read the case row and write the whole    *)
(* row back later.                                                          *)
(*                                                                          *)
(* The case has one active request and one handler at a time                *)
(* (OneActivePerCase and OneHandlerPerCase of ActionRequestQueue); the      *)
(* deletion itself is MessageCleanup, here a begin and an end.  At most one *)
(* other writer of the row is in flight.                                    *)
(***************************************************************************)
EXTENDS Naturals

CONSTANTS
  Job,          \* cleanup jobs of the case with mode ban_with_cleanup
  NoJob,
  WriterKinds,  \* which other writers of the case row occur
  WritesFail,   \* database statements may fail
  MaxMishaps,   \* bound: crashes, failed calls and failed statements
  MaxOutside    \* bound: acts of Discord and of other moderators

WriterKind == {"observedBan", "observedKick", "left", "resolve", "memberBan"}

ASSUME CombinedBanAssumption ==
  /\ NoJob \notin Job
  /\ WriterKinds \subseteq WriterKind
  /\ WritesFail \in BOOLEAN
  /\ MaxMishaps \in Nat /\ MaxOutside \in Nat

VARIABLES
  row,      \* the verification_events row: status and active_moderation_operation
  job,      \* the message_deletion_jobs rows
  request,  \* the job of the active request, or NoJob
  done,     \* jobs whose request was completed (history)
  work,     \* the handler: where it awaits, and its local variables
  banned,   \* the user is on Discord's ban list
  echo,     \* a guildBanAdd event is still to be handled
  writer,   \* another handler between its read of the row and its write
  mishaps,
  outside

discord == <<banned, echo>>
vars == <<row, job, request, done, work, banned, echo, writer, mishaps, outside>>

Row == [status : {"pending", "banned", "resolved"}, marker : Job \cup {NoJob}, final : BOOLEAN]
JobRow == [status : {"ready", "executing", "completed", "failed"},
           ban : {"not_requested", "pending", "succeeded", "failed"},
           fin : {"not_started", "pending", "succeeded", "failed"}]
NewJob == [status |-> "ready", ban |-> "not_requested", fin |-> "not_started"]
Undo == {"ban", "fin", "marker"}
Pc == {"idle", "mark", "writeMark", "banPending", "ban", "banSucceeded", "cleanup",
       "deleting", "finPending", "finRead", "finWrite", "finMark", "finMarkWrite",
       "finSucceeded", "complete", "clear", "undo"}

Unmarked == [status |-> "pending", marker |-> NoJob, final |-> FALSE]
Idle == [pc |-> "idle", id |-> NoJob, snap |-> NewJob, seen |-> Unmarked, undo |-> {}]
NoWriter == [kind |-> "none", seen |-> Unmarked]

Init ==
  /\ row = Unmarked
  /\ job = [j \in Job |-> NewJob]
  /\ request = NoJob
  /\ done = {}
  /\ work = Idle
  /\ banned = FALSE
  /\ echo = FALSE
  /\ writer = NoWriter
  /\ mishaps = 0
  /\ outside = 0

\* isMessageCleanupFinalizationRetry
FinalizationRetry(j) ==
  job[j] = [status |-> "completed", ban |-> "succeeded", fin |-> "failed"]

\* assertFrozenJob: the job is ready with no ban under way, or only its
\* finalization failed.
Executable(j) ==
  \/ job[j].status = "ready" /\ job[j].ban \in {"not_requested", "failed"}
  \/ FinalizationRetry(j)

\* queueFrozenJob: the case is pending and no request of it is active.
Submit(j) ==
  /\ request = NoJob
  /\ row.status = "pending"
  /\ Executable(j)
  /\ request' = j
  /\ UNCHANGED <<row, job, done, work, discord, writer, mishaps, outside>>

-----------------------------------------------------------------------------
(* banCaseUserWithMessageCleanup, one action per statement or Discord call *)

At(pc) == work.pc = pc
Goto(pc) == work' = [work EXCEPT !.pc = pc]
Rollback(what) == work' = [work EXCEPT !.pc = "undo", !.undo = what]
SetJob(field, value) == job' = [job EXCEPT ![work.id][field] = value]
FailRequest == request' = NoJob /\ work' = Idle
Mishap == mishaps < MaxMishaps /\ mishaps' = mishaps + 1

Claim ==
  /\ At("idle")
  /\ request # NoJob
  /\ work' = [Idle EXCEPT !.pc = "mark", !.id = request, !.snap = job[request]]
  /\ UNCHANGED <<row, job, request, done, discord, writer, mishaps, outside>>

\* The administrator, the ban setting or a bot permission is gone.
Reject ==
  /\ At("mark")
  /\ FailRequest
  /\ UNCHANGED <<row, job, done, discord, writer, mishaps, outside>>

\* Mutants: a ban that was begun is taken for one that succeeded; a resumed
\* handler bans again.
AfterMarkBegun == IF work.snap.ban \in {"pending", "succeeded"} THEN "cleanup" ELSE "banPending"
AfterMarkAlwaysBan == "banPending"

\* A durable ban is not repeated.
AfterMark == IF work.snap.ban = "succeeded" THEN "cleanup" ELSE "banPending"

\* markCombinedBanCleanupPending finds its own mark, of an earlier attempt.
MarkAlreadySet ==
  /\ At("mark")
  /\ row.marker = work.id /\ row.status \in {"pending", "banned"}
  /\ Goto(AfterMark)
  /\ UNCHANGED <<row, job, request, done, discord, writer, mishaps, outside>>

ReadUnmarked ==
  /\ At("mark")
  /\ row.status = "pending" /\ row.marker = NoJob
  /\ Goto("writeMark")
  /\ UNCHANGED <<row, job, request, done, discord, writer, mishaps, outside>>

MarkRefused ==
  /\ At("mark")
  /\ row.status # "pending" \/ row.marker \notin {NoJob, work.id}
  /\ ~(row.marker = work.id /\ row.status = "banned")
  /\ FailRequest
  /\ UNCHANGED <<row, job, done, discord, writer, mishaps, outside>>

\* Writes the metadata only; the status may have changed since it was read.
WriteMark ==
  /\ At("writeMark")
  /\ row' = [row EXCEPT !.marker = work.id, !.final = FALSE]
  /\ Goto(AfterMark)
  /\ UNCHANGED <<job, request, done, discord, writer, mishaps, outside>>

SetBanPending ==
  /\ At("banPending")
  /\ SetJob("ban", "pending")
  /\ Goto("ban")
  /\ UNCHANGED <<row, request, done, discord, writer, mishaps, outside>>

Ban ==
  /\ At("ban")
  /\ banned' = TRUE
  /\ echo' = (echo \/ ~banned)
  /\ Goto("banSucceeded")
  /\ UNCHANGED <<row, job, request, done, writer, mishaps, outside>>

\* Discord refused the ban, or carried it out and the answer was lost.
BanFails ==
  /\ At("ban")
  /\ Mishap
  /\ \/ UNCHANGED discord
     \/ banned' = TRUE /\ echo' = (echo \/ ~banned)
  /\ Rollback({"ban", "marker"})
  /\ UNCHANGED <<row, job, request, done, writer, outside>>

SetBanSucceeded ==
  /\ At("banSucceeded")
  /\ SetJob("ban", "succeeded")
  /\ Goto("cleanup")
  /\ UNCHANGED <<row, request, done, discord, writer, mishaps, outside>>

AfterCleanup == IF work.snap.fin = "succeeded" THEN "complete" ELSE "finPending"

\* executeJob of a completed job returns at once ...
CleanupAlreadyDone ==
  /\ At("cleanup")
  /\ job[work.id].status = "completed"
  /\ Goto(AfterCleanup)
  /\ UNCHANGED <<row, job, request, done, discord, writer, mishaps, outside>>

\* ... begins or resumes one of a pending case ...
BeginCleanup ==
  /\ At("cleanup")
  /\ row.status = "pending" /\ job[work.id].status \in {"ready", "executing"}
  /\ SetJob("status", "executing")
  /\ Goto("deleting")
  /\ UNCHANGED <<row, request, done, discord, writer, mishaps, outside>>

\* Mutant: only a failed job is refused.
CleanupRefusedFailed ==
  /\ At("cleanup")
  /\ job[work.id].status = "failed"
  /\ Rollback({"marker"})
  /\ UNCHANGED <<row, job, request, done, discord, writer, mishaps, outside>>

\* ... and throws otherwise.
CleanupRefused ==
  /\ At("cleanup")
  /\ \/ row.status # "pending" /\ job[work.id].status # "completed"
     \/ job[work.id].status = "failed"
  /\ Rollback({"marker"})
  /\ UNCHANGED <<row, job, request, done, discord, writer, mishaps, outside>>

FinishCleanup ==
  /\ At("deleting")
  /\ SetJob("status", "completed")
  /\ Goto(AfterCleanup)
  /\ UNCHANGED <<row, request, done, discord, writer, mishaps, outside>>

CleanupThrows ==
  /\ At("deleting")
  /\ Mishap
  /\ SetJob("status", "failed")
  /\ Rollback({"marker"})
  /\ UNCHANGED <<row, request, done, discord, writer, outside>>

SetFinPending ==
  /\ At("finPending")
  /\ SetJob("fin", "pending")
  /\ Goto("finRead")
  /\ UNCHANGED <<row, request, done, discord, writer, mishaps, outside>>

\* finalizeSuccessfulCombinedBan, by what it reads of the case: pending ...
ReadPending ==
  /\ At("finRead")
  /\ banned /\ row.status = "pending"
  /\ work' = [work EXCEPT !.pc = "finWrite", !.seen = row]
  /\ UNCHANGED <<row, job, request, done, discord, writer, mishaps, outside>>

\* ... banned by an earlier attempt that was interrupted ...
ReadBanned ==
  /\ At("finRead")
  /\ banned /\ row.status = "banned" /\ row.marker = work.id /\ ~row.final
  /\ Goto("finMark")
  /\ UNCHANGED <<row, job, request, done, discord, writer, mishaps, outside>>

\* ... banned and final, or banned by somebody else ...
ReadFinal ==
  /\ At("finRead")
  /\ banned /\ row.status = "banned"
  /\ row.marker = NoJob \/ (row.marker = work.id /\ row.final)
  /\ Goto("finSucceeded")
  /\ UNCHANGED <<row, job, request, done, discord, writer, mishaps, outside>>

\* ... or anything else.
FinalizeRefused ==
  /\ At("finRead")
  /\ \/ ~banned
     \/ row.status = "resolved"
     \/ row.status = "banned" /\ row.marker \notin {NoJob, work.id}
  /\ Rollback({"fin", "marker"})
  /\ UNCHANGED <<row, job, request, done, discord, writer, mishaps, outside>>

\* The whole row is written, with the metadata as it was read.
WriteBanned ==
  /\ At("finWrite")
  /\ row' = [work.seen EXCEPT !.status = "banned"]
  /\ Goto("finMark")
  /\ UNCHANGED <<job, request, done, discord, writer, mishaps, outside>>

\* withCompletedCombinedBanCleanup needs the mark to be there still.
ReadMarked ==
  /\ At("finMark")
  /\ row.marker = work.id
  /\ Goto("finMarkWrite")
  /\ UNCHANGED <<row, job, request, done, discord, writer, mishaps, outside>>

MarkMissing ==
  /\ At("finMark")
  /\ row.marker # work.id
  /\ Rollback({"fin", "marker"})
  /\ UNCHANGED <<row, job, request, done, discord, writer, mishaps, outside>>

WriteFinal ==
  /\ At("finMarkWrite")
  /\ row' = [row EXCEPT !.marker = work.id, !.final = TRUE]
  /\ Goto("finSucceeded")
  /\ UNCHANGED <<job, request, done, discord, writer, mishaps, outside>>

SetFinSucceeded ==
  /\ At("finSucceeded")
  /\ SetJob("fin", "succeeded")
  /\ Goto("complete")
  /\ UNCHANGED <<row, request, done, discord, writer, mishaps, outside>>

\* Mutant: the job is forgotten before its mark is cleared.
CompleteAndForget ==
  /\ At("complete")
  /\ request' = NoJob
  /\ done' = done \cup {work.id}
  /\ work' = [Idle EXCEPT !.pc = "clear"]
  /\ UNCHANGED <<row, job, discord, writer, mishaps, outside>>

Complete ==
  /\ At("complete")
  /\ request' = NoJob
  /\ done' = done \cup {work.id}
  /\ Goto("clear")
  /\ UNCHANGED <<row, job, discord, writer, mishaps, outside>>

\* clearCombinedBanCleanupMarker reads the row and writes the metadata without
\* the mark.  In between only the status can change to any effect, and that is
\* not written, so that one action stands for both statements.
ClearedRow ==
  IF row.marker = work.id THEN [row EXCEPT !.marker = NoJob, !.final = FALSE] ELSE row

ClearAfterComplete ==
  /\ At("clear")
  /\ row' = ClearedRow
  /\ work' = Idle
  /\ UNCHANGED <<job, request, done, discord, writer, mishaps, outside>>

\* The catch blocks.  The failed ban and the mark are written by one
\* Promise.all, the failed finalization before the mark.
UndoStatus(field) ==
  /\ At("undo")
  /\ field \in work.undo \ {"marker"}
  /\ SetJob(field, "failed")
  /\ work' = [work EXCEPT !.undo = @ \ {field}]
  /\ UNCHANGED <<row, request, done, discord, writer, mishaps, outside>>

UndoMarker ==
  /\ At("undo")
  /\ "marker" \in work.undo /\ "fin" \notin work.undo
  /\ row' = ClearedRow
  /\ work' = [work EXCEPT !.undo = @ \ {"marker"}]
  /\ UNCHANGED <<job, request, done, discord, writer, mishaps, outside>>

Undone ==
  /\ At("undo")
  /\ work.undo = {}
  /\ FailRequest
  /\ UNCHANGED <<row, job, done, discord, writer, mishaps, outside>>

-----------------------------------------------------------------------------
(* What goes wrong *)

\* A statement outside the try blocks, or in a catch block, throws: the request
\* fails and the mark stays.
ThrowsUncaught ==
  /\ WritesFail /\ Mishap
  /\ work.pc \in {"mark", "writeMark", "banPending", "banSucceeded", "finPending",
                  "complete", "undo"}
  /\ FailRequest
  /\ UNCHANGED <<row, job, done, discord, writer, outside>>

FinalizeThrows ==
  /\ WritesFail /\ Mishap
  /\ work.pc \in {"finRead", "finWrite", "finMark", "finMarkWrite", "finSucceeded"}
  /\ Rollback({"fin", "marker"})
  /\ UNCHANGED <<row, job, request, done, discord, writer, outside>>

\* Clearing after the request was completed fails with a warning only.
ClearThrows ==
  /\ WritesFail /\ Mishap
  /\ At("clear")
  /\ work' = Idle
  /\ UNCHANGED <<row, job, request, done, discord, writer, outside>>

\* The process exits; the request stays active until another one takes it over.
Crash ==
  /\ Mishap
  /\ ~At("idle")
  /\ work' = Idle
  /\ UNCHANGED <<row, job, request, done, discord, writer, outside>>

-----------------------------------------------------------------------------
(* Discord, and the other handlers that write the case row *)

Outside == outside < MaxOutside /\ outside' = outside + 1

ExternalBan ==
  /\ Outside
  /\ ~banned
  /\ banned' = TRUE /\ echo' = TRUE
  /\ UNCHANGED <<row, job, request, done, work, writer, mishaps>>

Unban ==
  /\ Outside
  /\ banned
  /\ banned' = FALSE
  /\ UNCHANGED <<row, job, request, done, work, echo, writer, mishaps>>

\* guildBanAdd of our own ban (by the audit log), or with every pending case
\* marked, or with none pending.
IgnoreBan ==
  /\ echo
  /\ echo' = FALSE
  /\ UNCHANGED <<row, job, request, done, work, banned, writer, mishaps, outside>>

\* recordObservedDiscordBan, recordObservedDiscordKick, recordMemberLeftGuild,
\* the resolving buttons and finalizeSuccessfulMemberBan read pending cases.
ReadRow(kind) ==
  /\ kind \in WriterKinds
  /\ writer = NoWriter
  /\ row.status = "pending"
  /\ kind = "observedBan" => echo /\ row.marker = NoJob
  /\ kind \in {"observedKick", "left"} => ~banned
  /\ Outside
  /\ echo' = (echo /\ kind # "observedBan")
  /\ writer' = [kind |-> kind, seen |-> row]
  /\ UNCHANGED <<row, job, request, done, work, banned, mishaps>>

\* ... and write the row back with what they changed.
Written ==
  CASE writer.kind = "observedBan" -> [writer.seen EXCEPT !.status = "banned"]
    [] writer.kind = "memberBan"   -> [status |-> "banned", marker |-> NoJob, final |-> FALSE]
    [] writer.kind = "left"        -> writer.seen
    [] OTHER                       -> [writer.seen EXCEPT !.status = "resolved"]

WriteRow ==
  /\ writer # NoWriter
  /\ row' = Written
  /\ writer' = NoWriter
  /\ UNCHANGED <<job, request, done, work, discord, mishaps, outside>>

\* reopenVerification leaves the metadata alone.
Reopen ==
  /\ Outside
  /\ row.status # "pending"
  /\ row' = [row EXCEPT !.status = "pending"]
  /\ UNCHANGED <<job, request, done, work, discord, writer, mishaps>>

-----------------------------------------------------------------------------
HandlerStep ==
  \/ Claim \/ Reject
  \/ MarkAlreadySet \/ ReadUnmarked \/ MarkRefused \/ WriteMark
  \/ SetBanPending \/ Ban \/ BanFails \/ SetBanSucceeded
  \/ CleanupAlreadyDone \/ BeginCleanup \/ CleanupRefused \/ FinishCleanup \/ CleanupThrows
  \/ SetFinPending \/ ReadPending \/ ReadBanned \/ ReadFinal \/ FinalizeRefused
  \/ WriteBanned \/ ReadMarked \/ MarkMissing \/ WriteFinal \/ SetFinSucceeded
  \/ Complete \/ ClearAfterComplete
  \/ \E field \in Undo : UndoStatus(field)
  \/ UndoMarker \/ Undone

Next ==
  \/ \E j \in Job : Submit(j)
  \/ HandlerStep
  \/ ThrowsUncaught \/ FinalizeThrows \/ ClearThrows \/ Crash
  \/ ExternalBan \/ Unban \/ IgnoreBan \/ Reopen
  \/ \E kind \in WriterKind : ReadRow(kind)
  \/ WriteRow

Spec == Init /\ [][Next]_vars

\* A claimed request is worked on, and taken over after a crash.
FairSpec == Spec /\ WF_vars(HandlerStep)

-----------------------------------------------------------------------------
(* Properties *)

\* Every variable has its type.
TypeOK ==
  /\ row \in Row
  /\ job \in [Job -> JobRow]
  /\ request \in Job \cup {NoJob}
  /\ done \subseteq Job
  /\ work \in [pc : Pc, id : Job \cup {NoJob}, snap : JobRow, seen : Row, undo : SUBSET Undo]
  /\ work.pc # "idle" => work.id \in Job
  /\ banned \in BOOLEAN /\ echo \in BOOLEAN
  /\ writer \in [kind : WriterKind \cup {"none"}, seen : Row]
  /\ mishaps \in Nat /\ outside \in Nat

\* "bans first, cleans up second, and finalizes the case last"
\* (ModerationActionRequestService.unit.test.ts), read off the durable rows:
\* wherever attempts were interrupted and resumed, no deletion was begun before
\* the ban was durable, no finalization before the deletion was complete, and
\* no request was completed before the finalization.
StepsInOrder ==
  \A j \in Job :
    /\ job[j].status \in {"executing", "completed"} => job[j].ban = "succeeded"
    /\ job[j].fin # "not_started" => job[j].status = "completed"
    /\ j \in done => job[j].fin = "succeeded"

\* "resumes cleanup without repeating a durable successful ban": no later attempt
\* puts the ban of a job in doubt again.
DurableBanIsKept ==
  [][\A j \in Job : job[j].ban = "succeeded" => job'[j].ban = "succeeded"]_vars

\* A request is answered in the end, wherever attempts were interrupted and
\* whatever became of the case in between.
RequestIsAnswered == \A j \in Job : request = j ~> request # j

\* "ignores an observed Discord ban while combined cleanup is active"
\* (UserModerationService.unit.test.ts): a case is not resolved by an observed
\* ban while it carries the mark of an unfinished cleanup.
ObservedBanSparesCleanup ==
  [][writer.kind = "observedBan" /\ writer' = NoWriter /\ row' # row =>
       row.marker = NoJob]_vars
=============================================================================
