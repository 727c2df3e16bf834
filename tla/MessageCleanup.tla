--------------------------- MODULE MessageCleanup ---------------------------
(***************************************************************************)
(* One message cleanup job of one case: MessageCleanupService over         *)
(* MessageDeletionJobRepository and MessageDeletionService.  A preview     *)
(* freezes the candidates, an execution copies each of them to the private *)
(* evidence thread, deletes them (one by one or in bulk) and records every *)
(* outcome, while the author edits and deletes messages and moderators     *)
(* resolve the case in Discord.                                            *)
(*                                                                         *)
(* An executor is a worker that ActionRequestQueue let handle a request of *)
(* this job; Exclusive is what its OneHandlerPerCase provides.  SQL        *)
(* statements and Discord calls are atomic, and a failed Discord call may  *)
(* have taken effect.  Permission and other failures of one item share the *)
(* outcome "not_deleted".                                                  *)
(***************************************************************************)
EXTENDS Naturals, FiniteSets

CONSTANTS
  Message,         \* the author's messages
  Executor,        \* workers that handle requests of the job
  Exclusive,       \* at most one executor runs at a time
  ExecutionLimit,  \* EXECUTION_LIMIT, 100 in the code
  MaxRev,          \* bound: edits per message
  MaxGen,          \* bound: previews stored
  MaxMishaps       \* bound: crashes and failed database calls

ASSUME CleanupAssumption ==
  /\ IsFiniteSet(Message)
  /\ Exclusive \in BOOLEAN
  /\ ExecutionLimit \in Nat
  /\ MaxRev \in Nat /\ MaxGen \in Nat /\ MaxMishaps \in Nat

VARIABLES
  present,      \* messages that exist in Discord
  rev,          \* how often each was edited (editedTimestamp)
  evidence,     \* <<message, revision>> copies in the evidence thread
  destroyed,    \* <<message, revision>> the bot's calls deleted (history)
  job,          \* the message_deletion_jobs row
  items,        \* its message_deletion_items rows, by message
  casePending,  \* the case is pending with this evidence thread
  run,          \* the call each executor is in, with its local variables
  mishaps

discord == <<present, rev, evidence, destroyed>>
vars == <<present, rev, evidence, destroyed, job, items, casePending, run, mishaps>>

JobStatus == {"queued", "discovering", "ready", "executing", "completed", "failed"}
Scope == {"source", "window"}
Coverage == {"none", "ready", "partial", "blocked"}
Outcome == {"deleted", "already_missing", "changed", "evidence_failed", "not_deleted"}
Item == [rev : 0..MaxRev, evidence : {"pending", "preserved", "failed"},
         status : Outcome \cup {"pending"}]
ItemTable == UNION {[S -> Item] : S \in SUBSET Message}
NoItems == [m \in {} |-> 0]

\* pc: where the call is awaiting.  gen and snap: the items as read when the
\* execution began.  todo: items to prepare; cur: the one being preserved, as it
\* was fetched at revision seen;
\* prepared: ready to delete; answered: messages of a delete call whose outcome
\* is still to be recorded.
Idle == [pc |-> "idle", gen |-> 0, snap |-> NoItems, todo |-> {}, cur |-> {},
         seen |-> 0, prepared |-> {}, answered |-> {}, outcome |-> "not_deleted"]
Run == [pc : {"idle", "discovering", "preparing", "preserving", "marking"},
        gen : 0..MaxGen, snap : ItemTable, todo : SUBSET Message,
        cur : SUBSET Message, seen : 0..MaxRev, prepared : SUBSET Message,
        answered : SUBSET Message, outcome : {"deleted", "not_deleted"}]
WithinSnap(r) == r.todo \cup r.cur \cup r.prepared \cup r.answered \subseteq DOMAIN r.snap

Init ==
  /\ present = Message
  /\ rev = [m \in Message |-> 0]
  /\ evidence = {}
  /\ destroyed = {}
  /\ \E s \in Scope :
       job = [status |-> "queued", scope |-> s, coverage |-> "none", gen |-> 0, count |-> 0]
  /\ items = NoItems
  /\ casePending = TRUE
  /\ run = [e \in Executor |-> Idle]
  /\ mishaps = 0

May(e) ==
  /\ run[e].pc = "idle"
  /\ Exclusive => \A d \in Executor : run[d].pc = "idle"

Continue(e, r) == run' = [run EXCEPT ![e] = r]
Stop(e) == Continue(e, Idle)

\* jobs.fail: no effect on a job that is completed or failed.
FailedJob == IF job.status \in {"completed", "failed"} THEN job
             ELSE [job EXCEPT !.status = "failed"]

\* Mutant: the update does not look at the status.
OpenAnyStatus(e, m) == run[e].gen = job.gen /\ m \in DOMAIN items

\* updateItemOutcome: "where id = ... and status = 'pending'".  The ids of an
\* older preview are gone, so that their updates match no row.
Open(e, m) == run[e].gen = job.gen /\ m \in DOMAIN items /\ items[m].status = "pending"

ItemsAfter(e, ms, outcome, evidenceStatus) ==
  [m \in DOMAIN items |->
     IF m \in ms /\ Open(e, m)
     THEN [items[m] EXCEPT !.status = outcome, !.evidence = evidenceStatus]
     ELSE items[m]]

-----------------------------------------------------------------------------
(* previewJob *)

\* The administrator who asked for the preview lost the permission: the request
\* handler fails the job before previewJob is called.
RejectPreview(e) ==
  /\ May(e)
  /\ mishaps < MaxMishaps
  /\ mishaps' = mishaps + 1
  /\ job' = FailedJob
  /\ UNCHANGED <<discord, items, casePending, run>>

\* assertPendingCase, then beginPreview; a discovering job is resumed.
BeginPreview(e) ==
  /\ May(e)
  /\ casePending
  /\ job.status \in {"queued", "failed", "discovering"}
  /\ job.gen < MaxGen
  /\ job' = IF job.status = "discovering" THEN job
            ELSE [job EXCEPT !.status = "discovering", !.coverage = "none"]
  /\ Continue(e, [Idle EXCEPT !.pc = "discovering"])
  /\ UNCHANGED <<discord, items, casePending, mishaps>>

\* What discovery may report.  The source message of the case is there or not.  A
\* search that saw everything is ready within the limit; one that is denied, still
\* indexing or too large is blocked, and message context rows may stand in (partial).
Reports(found) ==
  IF job.scope = "source"
  THEN IF found = {} THEN {"blocked"} ELSE {"ready"}
  ELSE IF Cardinality(found) > ExecutionLimit THEN {"partial", "blocked"}
       ELSE {"ready", "partial", "blocked"}

\* Items as discovery read them: edited or deleted since, for all it knows.
ItemsFound(found) ==
  {t \in [found -> [rev : 0..MaxRev, evidence : {"pending"}, status : {"pending"}]] :
     \A m \in found : t[m].rev <= rev[m]}

\* replacePreview: one transaction that replaces the items of a discovering job.
StorePreview(e, found) ==
  /\ run[e].pc = "discovering"
  /\ job.status = "discovering"
  /\ job.gen < MaxGen
  /\ job.scope = "source" => Cardinality(found) <= 1
  /\ \E c \in Reports(found) :
       job' = [job EXCEPT !.status = "ready", !.coverage = c, !.gen = @ + 1,
                          !.count = Cardinality(found)]
  /\ items' \in ItemsFound(found)
  /\ Stop(e)
  /\ UNCHANGED <<discord, casePending, mishaps>>

\* The transaction rolls back because the job is no longer discovering.
PreviewOvertaken(e) ==
  /\ run[e].pc = "discovering"
  /\ job.status # "discovering"
  /\ job' = FailedJob
  /\ Stop(e)
  /\ UNCHANGED <<discord, items, casePending, mishaps>>

PreviewThrows(e) ==
  /\ run[e].pc = "discovering"
  /\ mishaps < MaxMishaps
  /\ mishaps' = mishaps + 1
  /\ job' = FailedJob
  /\ Stop(e)
  /\ UNCHANGED <<discord, items, casePending>>

-----------------------------------------------------------------------------
(* executeJob: preparation *)

\* The where clause of beginExecution.
Executable ==
  /\ job.status = "ready"
  /\ \/ job.coverage = "ready"
     \/ job.scope = "source" /\ job.coverage = "partial" /\ job.count = 1
  /\ job.count > 0
  /\ job.count <= ExecutionLimit

\* Mutants: a resumed execution works from the pending rows only, but goes through
\* all; it takes up only items without evidence; it is not resumed at all.
BeginWithPendingRows(e) ==
  /\ May(e) /\ casePending
  /\ Executable \/ job.status = "executing"
  /\ job' = [job EXCEPT !.status = "executing"]
  /\ LET open == {m \in DOMAIN items : items[m].status = "pending"}
     IN  Continue(e, [Idle EXCEPT !.pc = "preparing", !.gen = job.gen,
                        !.snap = [m \in open |-> items[m]], !.todo = DOMAIN items])
  /\ UNCHANGED <<discord, items, casePending, mishaps>>
BeginUnpreserved(e) ==
  /\ May(e) /\ casePending
  /\ Executable \/ job.status = "executing"
  /\ job' = [job EXCEPT !.status = "executing"]
  /\ Continue(e, [Idle EXCEPT !.pc = "preparing", !.gen = job.gen, !.snap = items,
                    !.todo = {m \in DOMAIN items : items[m].status = "pending"
                                                  /\ items[m].evidence = "pending"}])
  /\ UNCHANGED <<discord, items, casePending, mishaps>>
BeginReadyOnly(e) ==
  /\ May(e) /\ casePending
  /\ Executable
  /\ job' = [job EXCEPT !.status = "executing"]
  /\ Continue(e, [Idle EXCEPT !.pc = "preparing", !.gen = job.gen, !.snap = items,
                    !.todo = {m \in DOMAIN items : items[m].status = "pending"}])
  /\ UNCHANGED <<discord, items, casePending, mishaps>>

\* An executing job is resumed, with the items as its predecessor left them.
BeginExecution(e) ==
  /\ May(e)
  /\ casePending
  /\ Executable \/ job.status = "executing"
  /\ job' = [job EXCEPT !.status = "executing"]
  /\ Continue(e, [Idle EXCEPT !.pc = "preparing", !.gen = job.gen, !.snap = items,
                    !.todo = {m \in DOMAIN items : items[m].status = "pending"}])
  /\ UNCHANGED <<discord, items, casePending, mishaps>>

\* prepareDeletion of an item that is not to be deleted: the outcome is written
\* with the evidence status read when the execution began.
Skip(e, m, outcome) ==
  /\ run[e].pc = "preparing"
  /\ m \in run[e].todo
  /\ items' = ItemsAfter(e, {m}, outcome, run[e].snap[m].evidence)
  /\ Continue(e, [run[e] EXCEPT !.todo = @ \ {m}])
  /\ UNCHANGED <<discord, job, casePending, mishaps>>

SkipMissing(e, m) == m \notin present /\ Skip(e, m, "already_missing")
SkipUnreadable(e, m) == Skip(e, m, "not_deleted")
SkipChanged(e, m) ==
  /\ m \in run[e].todo \cap present
  /\ rev[m] # run[e].snap[m].rev
  /\ Skip(e, m, "changed")

\* Mutant: edits are not noticed.
FetchedAnyRevision(e, m) ==
  /\ run[e].pc = "preparing"
  /\ m \in run[e].todo
  /\ m \in present

\* The fetched message is the previewed one; a copy made by an earlier
\* execution is reused.
Fetched(e, m) ==
  /\ run[e].pc = "preparing"
  /\ m \in run[e].todo
  /\ m \in present
  /\ rev[m] = run[e].snap[m].rev

\* Mutant: evidence that was attempted counts as preserved.
ReuseAttempted(e, m) ==
  /\ Fetched(e, m)
  /\ run[e].pc = "preparing"
  /\ Continue(e, [run[e] EXCEPT !.todo = @ \ {m}, !.prepared = @ \cup {m}])
  /\ UNCHANGED <<discord, job, items, casePending, mishaps>>

ReuseEvidence(e, m) ==
  /\ Fetched(e, m)
  /\ run[e].snap[m].evidence = "preserved"
  /\ Continue(e, [run[e] EXCEPT !.todo = @ \ {m}, !.prepared = @ \cup {m}])
  /\ UNCHANGED <<discord, job, items, casePending, mishaps>>

StartPreserving(e, m) ==
  /\ Fetched(e, m)
  /\ run[e].snap[m].evidence # "preserved"
  /\ Continue(e, [run[e] EXCEPT !.pc = "preserving", !.cur = {m}, !.seen = rev[m],
                              !.todo = @ \ {m}])
  /\ UNCHANGED <<discord, job, items, casePending, mishaps>>

\* preserveMessageEvidence posts the message as it was fetched.
Copies(e) == {<<m, run[e].seen>> : m \in run[e].cur}

PostEvidence(e) ==
  /\ run[e].pc = "preserving"
  /\ evidence' = evidence \cup Copies(e)
  /\ Continue(e, [run[e] EXCEPT !.pc = "marking"])
  /\ UNCHANGED <<present, rev, destroyed, job, items, casePending, mishaps>>

\* Mutant: the message is deleted although its copy failed.
PrepareAnyway(e) ==
  /\ run[e].pc = "preserving"
  /\ evidence' \in {evidence, evidence \cup Copies(e)}
  /\ Continue(e, [run[e] EXCEPT !.pc = "preparing", !.cur = {},
                              !.prepared = @ \cup run[e].cur])
  /\ UNCHANGED <<present, rev, destroyed, job, items, casePending, mishaps>>

\* The thread is unavailable, or the answer of the post was lost.
PostEvidenceFails(e) ==
  /\ run[e].pc = "preserving"
  /\ evidence' \in {evidence, evidence \cup Copies(e)}
  /\ items' = ItemsAfter(e, run[e].cur, "evidence_failed", "failed")
  /\ Continue(e, [run[e] EXCEPT !.pc = "preparing", !.cur = {}])
  /\ UNCHANGED <<present, rev, destroyed, job, casePending, mishaps>>

\* markItemEvidencePreserved; the candidate counts as prepared even when the
\* update matched no row.
MarkPreserved(e) ==
  /\ run[e].pc = "marking"
  /\ items' = [m \in DOMAIN items |->
                 IF m \in run[e].cur /\ Open(e, m)
                 THEN [items[m] EXCEPT !.evidence = "preserved"]
                 ELSE items[m]]
  /\ Continue(e, [run[e] EXCEPT !.pc = "preparing", !.cur = {},
                        !.prepared = @ \cup run[e].cur])
  /\ UNCHANGED <<discord, job, casePending, mishaps>>

MarkThrows(e) ==
  /\ run[e].pc = "marking"
  /\ mishaps < MaxMishaps
  /\ mishaps' = mishaps + 1
  /\ items' = ItemsAfter(e, run[e].cur, "evidence_failed", "failed")
  /\ Continue(e, [run[e] EXCEPT !.pc = "preparing", !.cur = {}])
  /\ UNCHANGED <<discord, job, casePending>>

-----------------------------------------------------------------------------
(* executeJob: deletion *)

\* deletePrepared: when everything is prepared, delete calls follow one
\* another, each with its outcomes recorded before the next.
Deleting(e) ==
  /\ run[e].pc = "preparing"
  /\ run[e].todo = {}
  /\ run[e].answered = {}

Destroy(D) ==
  /\ destroyed' = destroyed \cup {<<m, rev[m]>> : m \in D}
  /\ present' = present \ D

\* One message, or a batch: bulk deletion ignores messages that are gone, while
\* deleting a single message that is gone is an error.
Delete(e, batch) ==
  /\ Deleting(e)
  /\ batch # {} /\ batch \subseteq run[e].prepared
  /\ Cardinality(batch) = 1 => batch \subseteq present
  /\ Destroy(batch \cap present)
  /\ Continue(e, [run[e] EXCEPT !.prepared = @ \ batch,
                              !.answered = batch, !.outcome = "deleted"])
  /\ UNCHANGED <<rev, evidence, job, items, casePending, mishaps>>

\* Mutant: a failed call is recorded like a successful one.
DeleteFailsSilently(e, batch) ==
  /\ Deleting(e)
  /\ batch # {} /\ batch \subseteq run[e].prepared
  /\ \E D \in {{}, batch \cap present} : Destroy(D)
  /\ Continue(e, [run[e] EXCEPT !.prepared = @ \ batch,
                              !.answered = batch, !.outcome = "deleted"])
  /\ UNCHANGED <<rev, evidence, job, items, casePending, mishaps>>

\* Discord refused the call, or carried it out and the answer was lost.
DeleteFails(e, batch) ==
  /\ Deleting(e)
  /\ batch # {} /\ batch \subseteq run[e].prepared
  /\ \E D \in {{}, batch \cap present} : Destroy(D)
  /\ Continue(e, [run[e] EXCEPT !.prepared = @ \ batch,
                              !.answered = batch, !.outcome = "not_deleted"])
  /\ UNCHANGED <<rev, evidence, job, items, casePending, mishaps>>

\* recordDeleted and recordDeleteFailure.
Record(e, m) ==
  /\ m \in run[e].answered
  /\ items' = ItemsAfter(e, {m}, run[e].outcome, "preserved")
  /\ Continue(e, [run[e] EXCEPT !.answered = @ \ {m}])
  /\ UNCHANGED <<discord, job, casePending, mishaps>>

\* jobs.complete: only an executing job becomes completed.
CompleteJob(e) ==
  /\ Deleting(e)
  /\ run[e].prepared = {}
  /\ job' = [job EXCEPT !.status = IF @ = "executing" THEN "completed" ELSE @]
  /\ Stop(e)
  /\ UNCHANGED <<discord, items, casePending, mishaps>>

\* A database call of executeJob throws: the job fails.  Outcomes that were being
\* written by the same Promise.all may still arrive.
ExecutionThrows(e) ==
  /\ run[e].pc \in {"preparing", "preserving", "marking"}
  /\ mishaps < MaxMishaps
  /\ mishaps' = mishaps + 1
  /\ \E arrived \in SUBSET run[e].answered :
       items' = ItemsAfter(e, arrived, run[e].outcome, "preserved")
  /\ job' = FailedJob
  /\ Stop(e)
  /\ UNCHANGED <<discord, casePending>>

-----------------------------------------------------------------------------
(* The environment *)

\* The process exits: no catch runs, the job keeps its status.
Crash(e) ==
  /\ run[e].pc # "idle"
  /\ mishaps < MaxMishaps
  /\ mishaps' = mishaps + 1
  /\ Stop(e)
  /\ UNCHANGED <<discord, job, items, casePending>>

EditMessage(m) ==
  /\ m \in present
  /\ rev[m] < MaxRev
  /\ rev' = [rev EXCEPT ![m] = @ + 1]
  /\ UNCHANGED <<present, evidence, destroyed, job, items, casePending, run, mishaps>>

AuthorDeletes(m) ==
  /\ m \in present
  /\ present' = present \ {m}
  /\ UNCHANGED <<rev, evidence, destroyed, job, items, casePending, run, mishaps>>

ModerateCase ==
  /\ casePending' = ~casePending
  /\ UNCHANGED <<discord, job, items, run, mishaps>>

-----------------------------------------------------------------------------
ExecutionStep(e) ==
  \/ \E m \in Message :
       \/ SkipMissing(e, m)
       \/ SkipUnreadable(e, m)
       \/ SkipChanged(e, m)
       \/ ReuseEvidence(e, m)
       \/ StartPreserving(e, m)
       \/ Record(e, m)
  \/ PostEvidence(e)
  \/ PostEvidenceFails(e)
  \/ MarkPreserved(e)
  \/ MarkThrows(e)
  \/ \E batch \in SUBSET Message : Delete(e, batch) \/ DeleteFails(e, batch)
  \/ CompleteJob(e)
  \/ ExecutionThrows(e)

PreviewStep(e) ==
  \/ RejectPreview(e)
  \/ BeginPreview(e)
  \/ \E found \in SUBSET Message : StorePreview(e, found)
  \/ PreviewOvertaken(e)
  \/ PreviewThrows(e)

Next ==
  \/ \E e \in Executor :
       PreviewStep(e) \/ BeginExecution(e) \/ ExecutionStep(e) \/ Crash(e)
  \/ \E m \in Message : EditMessage(m) \/ AuthorDeletes(m)
  \/ ModerateCase

Spec == Init /\ [][Next]_vars

\* A running execution goes on, and the request of an interrupted one is handed
\* out again when its lease has run out (ActionRequestQueue).
Fairness ==
  \A e \in Executor :
    /\ WF_vars(ExecutionStep(e))
    /\ WF_vars(job.status = "executing" /\ BeginExecution(e))

FairSpec == Spec /\ Fairness

-----------------------------------------------------------------------------
(* Properties *)

\* Every variable has its type; what an executor is about to do concerns
\* messages of the items it read.
TypeOK ==
  /\ present \subseteq Message
  /\ rev \in [Message -> 0..MaxRev]
  /\ evidence \subseteq Message \X (0..MaxRev)
  /\ destroyed \subseteq Message \X (0..MaxRev)
  /\ job \in [status : JobStatus, scope : Scope, coverage : Coverage,
             gen : 0..MaxGen, count : Nat]
  /\ items \in ItemTable
  /\ casePending \in BOOLEAN
  /\ run \in [Executor -> Run]
  /\ \A e \in Executor : WithinSnap(run[e])
  /\ mishaps \in Nat

\* The job implements the ledger: "never deletes when evidence preservation
\* fails" (MessageCleanupService.unit.test.ts), across crashes, resumed and
\* overlapping executions, lost answers and new previews.
Ledger == INSTANCE EvidenceLedger WITH
  preserved <- {m \in Message : \E r \in 0..MaxRev : <<m, r>> \in evidence},
  destroyed <- {m \in Message : \E r \in 0..MaxRev : <<m, r>> \in destroyed}
LedgerSpec == Ledger!Spec

\* An item marked preserved has in the thread a copy of exactly the revision the
\* moderator previewed: the mark never stands for a copy of something else.
PreservedIsThePreview ==
  \A m \in DOMAIN items :
    items[m].evidence = "preserved" => <<m, items[m].rev>> \in evidence

\* An item recorded as deleted is gone from Discord and has its copy.
DeletedIsGone ==
  \A m \in DOMAIN items :
    items[m].status = "deleted" => m \notin present /\ items[m].evidence = "preserved"

\* A completed job has an outcome for every candidate of its preview.
CompletedIsSettled ==
  job.status = "completed" => \A m \in DOMAIN items : items[m].status # "pending"

\* Within one preview a recorded outcome is never rewritten, whichever executor
\* writes late.
OutcomeIsFinal ==
  [][\A m \in DOMAIN items :
       job'.gen = job.gen /\ items[m].status # "pending" =>
         items'[m] = items[m]]_vars

\* An execution that began is completed or failed in the end, through crashes
\* and lost answers, unless moderators take the case out of pending.
ExecutionIsAnswered ==
  job.status = "executing" ~> job.status \in {"completed", "failed"} \/ ~casePending
=============================================================================
