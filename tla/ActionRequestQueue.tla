------------------------- MODULE ActionRequestQueue -------------------------
(***************************************************************************)
(* The durable queue of moderation action requests.  The web dashboard     *)
(* inserts rows of moderation_action_requests; every bot process polls the *)
(* table, claims one row, runs the handler of its action type and writes   *)
(* the answer back.  What makes it work across crashes and overlapping     *)
(* deployments is one updated_at column (heartbeat and 15 minute lease), a *)
(* unique index (at most one active request per case) and the idempotency  *)
(* key (one row per intent).                                               *)
(*                                                                         *)
(* A request is identified by its idempotency key, so Request is the set   *)
(* of keys the dashboard can produce.  Statements are atomic (each is one  *)
(* auto-committed SQL statement); what runs between two statements is not. *)
(***************************************************************************)
EXTENDS Naturals, FiniteSets

CONSTANTS
  Worker,            \* bot processes (two while a deployment overlaps)
  Request,           \* idempotency keys
  Case,              \* verification events
  NoCase,            \* verification_event_id is null
  NoRequest,         \* a worker that has claimed nothing
  CaseOf,            \* [Request -> Case \cup {NoCase}]
  KindOf,            \* [Request -> Kind]
  HeartbeatsTimely,  \* a live worker's heartbeat never misses 15 minutes
  MaxSubmits,        \* bound: submissions per key
  MaxMishaps         \* bound: process crashes and failed database writes

\* The action types, grouped by what the queue and the dashboard tell apart:
\* "resolve" (verify, kick, ban, close without action) and "reopen" use one key
\* per case for ever; "preview" and "execute" are the message cleanup
\* requests, with a key per form; "detached" names no case.
Kind == {"resolve", "reopen", "preview", "execute", "detached"}
CleanupKind == {"preview", "execute"}

ASSUME CaseOfAssumption ==
  /\ NoRequest \notin Request
  /\ NoCase \notin Case
  /\ CaseOf \in [Request -> Case \cup {NoCase}]
  /\ KindOf \in [Request -> Kind]
  /\ \A k \in Request : CaseOf[k] = NoCase <=> KindOf[k] = "detached"
ASSUME TimingAssumption == HeartbeatsTimely \in BOOLEAN
ASSUME BoundAssumption == MaxSubmits \in Nat /\ MaxMishaps \in Nat

VARIABLES
  status,      \* the row's status column; "absent" before the insert
  stale,       \* updated_at is more than 15 minutes ago
  attempts,    \* the row's attempts column
  caseStatus,  \* verification_events.status: pending, or resolved in some way
  allowed,     \* forms whose allowedActions check passed, not yet submitted
  submits,     \* submissions that reached the table, per key
  phase,       \* where each worker's drain loop is
  claim,       \* the row each worker is handling
  mishaps      \* crashes and failed writes so far

rowVars == <<status, stale, attempts>>
webVars == <<allowed, submits>>
workerVars == <<phase, claim>>
vars == <<status, stale, attempts, caseStatus, allowed, submits, phase, claim, mishaps>>

Cleanup(k) == KindOf[k] \in CleanupKind
Active(k) == status[k] \in {"queued", "processing"}
SameCase(k, o) == CaseOf[k] = CaseOf[o] /\ CaseOf[k] # NoCase
Holding(w) == phase[w] \in {"running", "acted", "threw"}
Held(k) == \E w \in Worker : claim[w] = k

\* Mutant: the index covers queued rows only.
IndexOverQueued(k) == \A o \in Request \ {k} : SameCase(k, o) => status[o] # "queued"

\* The partial unique index on verification_event_id lets k become active.
IndexFree(k) == \A o \in Request \ {k} : SameCase(k, o) => ~Active(o)

\* resolveAllowedActions: what the case page offers.
Offered(k) ==
  CASE KindOf[k] = "resolve"  -> caseStatus[CaseOf[k]] = "pending"
    [] KindOf[k] = "reopen"   -> caseStatus[CaseOf[k]] = "resolved"
    [] KindOf[k] = "detached" -> TRUE
    [] OTHER                  -> FALSE

Init ==
  /\ status = [k \in Request |-> "absent"]
  /\ stale = [k \in Request |-> FALSE]
  /\ attempts = [k \in Request |-> 0]
  /\ caseStatus \in [Case -> {"pending", "resolved"}]
  /\ allowed = {}
  /\ submits = [k \in Request |-> 0]
  /\ phase = [w \in Worker |-> "idle"]
  /\ claim = [w \in Worker |-> NoRequest]
  /\ mishaps = 0

-----------------------------------------------------------------------------
(* The dashboard *)

\* queueCaseAction reads the case and checks allowedActions first ...
CheckAllowed(k) ==
  /\ ~Cleanup(k)
  /\ Offered(k)
  /\ k \notin allowed
  /\ submits[k] < MaxSubmits
  /\ allowed' = allowed \cup {k}
  /\ UNCHANGED <<rowVars, caseStatus, submits, workerVars, mishaps>>

\* Mutants: the upsert protects only one of the two states.
UpsertKeepsCompleted(k) == IF status[k] = "completed" THEN status[k] ELSE "queued"
UpsertKeepsProcessing(k) == IF status[k] = "processing" THEN status[k] ELSE "queued"

\* ... and upserts in a later statement.  A key that is processing or completed
\* keeps its status; updated_at is refreshed in every case.
UpsertStatus(k) ==
  IF status[k] \in {"processing", "completed"} THEN status[k] ELSE "queued"

SubmitAction(k) ==
  /\ k \in allowed
  /\ UpsertStatus(k) = "queued" => IndexFree(k)
  /\ status' = [status EXCEPT ![k] = UpsertStatus(k)]
  /\ stale' = [stale EXCEPT ![k] = FALSE]
  /\ allowed' = allowed \ {k}
  /\ submits' = [submits EXCEPT ![k] = @ + 1]
  /\ UNCHANGED <<attempts, caseStatus, workerVars, mishaps>>

\* The same statement refused by the unique index: nothing is written and the
\* moderator sees an error.
SubmitRefused(k) ==
  /\ k \in allowed
  /\ UpsertStatus(k) = "queued" /\ ~IndexFree(k)
  /\ allowed' = allowed \ {k}
  /\ UNCHANGED <<rowVars, caseStatus, submits, workerVars, mishaps>>

\* Mutant: the transaction does not look for an active request of the case, and
\* no index backs it up.
SubmitCleanupUnchecked(k) ==
  /\ Cleanup(k)
  /\ submits[k] < MaxSubmits
  /\ caseStatus[CaseOf[k]] = "pending"
  /\ status[k] \in {"absent", "failed"}
  /\ status' = [status EXCEPT ![k] = "queued"]
  /\ stale' = [stale EXCEPT ![k] = FALSE]
  /\ submits' = [submits EXCEPT ![k] = @ + 1]
  /\ UNCHANGED <<attempts, caseStatus, allowed, workerVars, mishaps>>

\* What the transaction of a cleanup form asks of the rows it has locked: the
\* case is pending, none of its requests is active, and the form has no row
\* yet.  A failed preview is queued again, a failed execution only reported.
CleanupAdmitted(k) ==
  /\ caseStatus[CaseOf[k]] = "pending"
  /\ IndexFree(k)
  /\ status[k] \in IF KindOf[k] = "preview" THEN {"absent", "failed"} ELSE {"absent"}

\* insertRequest, or requeueFailedRequest on the row there is.
QueueCleanup(k) ==
  /\ status' = [status EXCEPT ![k] = "queued"]
  /\ stale' = [stale EXCEPT ![k] = FALSE]

\* queuePreview and queueFrozenJob: one transaction that locks the case.
SubmitCleanup(k) ==
  /\ Cleanup(k)
  /\ submits[k] < MaxSubmits
  /\ CleanupAdmitted(k)
  /\ QueueCleanup(k)
  /\ submits' = [submits EXCEPT ![k] = @ + 1]
  /\ UNCHANGED <<attempts, caseStatus, allowed, workerVars, mishaps>>

-----------------------------------------------------------------------------
(* The workers *)

\* Mutant: the sweep does not wait for the lease to run out.
InterruptedAtOnce(k) ==
  status[k] = "processing" /\ CaseOf[k] # NoCase /\ ~Cleanup(k)

\* claimNext, first statement: fail the case requests of interrupted workers.
Interrupted(k) ==
  status[k] = "processing" /\ stale[k] /\ CaseOf[k] # NoCase /\ ~Cleanup(k)

\* Mutant: the sweep forgets updated_at.
SweepKeepsUpdatedAt(w) ==
  /\ phase[w] = "idle"
  /\ status' = [k \in Request |-> IF Interrupted(k) THEN "failed" ELSE status[k]]
  /\ phase' = [phase EXCEPT ![w] = "swept"]
  /\ UNCHANGED <<stale, attempts, caseStatus, webVars, claim, mishaps>>

SweepInterrupted(w) ==
  /\ phase[w] = "idle"
  /\ status' = [k \in Request |-> IF Interrupted(k) THEN "failed" ELSE status[k]]
  /\ stale' = [k \in Request |-> stale[k] /\ ~Interrupted(k)]
  /\ phase' = [phase EXCEPT ![w] = "swept"]
  /\ UNCHANGED <<attempts, caseStatus, webVars, claim, mishaps>>

\* Mutants: stale rows of every kind are taken over, or of none.
ClaimableAnyStale ==
  {k \in Request : status[k] = "queued" \/ (status[k] = "processing" /\ stale[k])}
ClaimableQueuedOnly == {k \in Request : status[k] = "queued"}

\* claimNext, second statement: a queued row if there is one, else a stale
\* cleanup row.  The order among queued rows is left open: SKIP LOCKED lets a
\* second worker overtake the first.
Claimable ==
  LET queued == {k \in Request : status[k] = "queued"}
  IN  IF queued # {} THEN queued
      ELSE {k \in Request : status[k] = "processing" /\ stale[k] /\ Cleanup(k)}

ClaimNext(w, k) ==
  /\ phase[w] = "swept"
  /\ k \in Claimable
  /\ status' = [status EXCEPT ![k] = "processing"]
  /\ stale' = [stale EXCEPT ![k] = FALSE]
  /\ attempts' = [attempts EXCEPT ![k] = @ + 1]
  /\ phase' = [phase EXCEPT ![w] = "running"]
  /\ claim' = [claim EXCEPT ![w] = k]
  /\ UNCHANGED <<caseStatus, webVars, mishaps>>

NothingToClaim(w) ==
  /\ phase[w] = "swept"
  /\ Claimable = {}
  /\ phase' = [phase EXCEPT ![w] = "idle"]
  /\ UNCHANGED <<rowVars, caseStatus, webVars, claim, mishaps>>

\* What a handler may leave of its case: the processors write the case row
\* before the Discord steps that can still throw.
Effects(k) ==
  CASE KindOf[k] = "resolve" -> {"resolved"}
    [] KindOf[k] = "reopen"  -> {"pending"}
    [] KindOf[k] = "execute" -> {caseStatus[CaseOf[k]], "resolved"}
    [] OTHER                 -> {caseStatus[CaseOf[k]]}

CaseAfter(k, s) ==
  IF CaseOf[k] = NoCase THEN caseStatus ELSE [caseStatus EXCEPT ![CaseOf[k]] = s]

HandlerSucceeds(w) ==
  /\ phase[w] = "running"
  /\ \E s \in {"pending", "resolved"} :
       /\ CaseOf[claim[w]] # NoCase => s \in Effects(claim[w])
       /\ caseStatus' = CaseAfter(claim[w], s)
  /\ phase' = [phase EXCEPT ![w] = "acted"]
  /\ UNCHANGED <<rowVars, webVars, claim, mishaps>>

HandlerThrows(w) ==
  /\ phase[w] = "running"
  /\ \E s \in {"pending", "resolved"} :
       /\ CaseOf[claim[w]] # NoCase =>
            s \in Effects(claim[w]) \cup {caseStatus[CaseOf[claim[w]]]}
       /\ caseStatus' = CaseAfter(claim[w], s)
  /\ phase' = [phase EXCEPT ![w] = "threw"]
  /\ UNCHANGED <<rowVars, webVars, claim, mishaps>>

Release(w) ==
  /\ phase' = [phase EXCEPT ![w] = "idle"]
  /\ claim' = [claim EXCEPT ![w] = NoRequest]

\* complete and fail update the row by id, whatever its status is by now.
Answer(k, s) ==
  /\ status' = [status EXCEPT ![k] = s]
  /\ stale' = [stale EXCEPT ![k] = FALSE]

Complete(w) ==
  /\ phase[w] = "acted"
  /\ Answer(claim[w], "completed")
  /\ Release(w)
  /\ UNCHANGED <<attempts, caseStatus, webVars, mishaps>>

Fail(w) ==
  /\ phase[w] = "threw"
  /\ Answer(claim[w], "failed")
  /\ Release(w)
  /\ UNCHANGED <<attempts, caseStatus, webVars, mishaps>>

\* A complete that throws lands in processClaimedRequest's catch ...
CompleteThrows(w) ==
  /\ phase[w] = "acted"
  /\ mishaps < MaxMishaps
  /\ mishaps' = mishaps + 1
  /\ phase' = [phase EXCEPT ![w] = "threw"]
  /\ UNCHANGED <<rowVars, caseStatus, webVars, claim>>

\* ... and a fail that throws leaves the row processing.
FailThrows(w) ==
  /\ phase[w] = "threw"
  /\ mishaps < MaxMishaps
  /\ mishaps' = mishaps + 1
  /\ Release(w)
  /\ UNCHANGED <<rowVars, caseStatus, webVars>>

Heartbeat(w) ==
  /\ Holding(w)
  /\ status[claim[w]] = "processing"
  /\ stale' = [stale EXCEPT ![claim[w]] = FALSE]
  /\ UNCHANGED <<status, attempts, caseStatus, webVars, workerVars, mishaps>>

-----------------------------------------------------------------------------
(* The environment *)

\* The process dies and restarts; its claim is forgotten, the row is not.
Crash(w) ==
  /\ phase[w] # "idle"
  /\ mishaps < MaxMishaps
  /\ mishaps' = mishaps + 1
  /\ Release(w)
  /\ UNCHANGED <<rowVars, caseStatus, webVars>>

\* Fifteen minutes pass with no write to the row.
Lapse(k) ==
  /\ status[k] = "processing"
  /\ ~stale[k]
  /\ HeartbeatsTimely => ~Held(k)
  /\ stale' = [stale EXCEPT ![k] = TRUE]
  /\ UNCHANGED <<status, attempts, caseStatus, webVars, workerVars, mishaps>>

\* A moderator uses the Discord buttons, which bypass the queue.
ModerateInDiscord(c) ==
  /\ caseStatus' = [caseStatus EXCEPT ![c] = IF @ = "pending" THEN "resolved" ELSE "pending"]
  /\ UNCHANGED <<rowVars, webVars, workerVars, mishaps>>

-----------------------------------------------------------------------------
WorkerStep(w) ==
  \/ SweepInterrupted(w)
  \/ \E k \in Request : ClaimNext(w, k)
  \/ NothingToClaim(w)
  \/ HandlerSucceeds(w)
  \/ HandlerThrows(w)
  \/ Complete(w)
  \/ Fail(w)
  \/ CompleteThrows(w)
  \/ FailThrows(w)

Next ==
  \/ \E k \in Request :
       \/ CheckAllowed(k)
       \/ SubmitAction(k)
       \/ SubmitRefused(k)
       \/ SubmitCleanup(k)
       \/ Lapse(k)
  \/ \E w \in Worker : WorkerStep(w) \/ Heartbeat(w) \/ Crash(w)
  \/ \E c \in Case : ModerateInDiscord(c)

Spec == Init /\ [][Next]_vars

\* The poll timer fires again and again, handlers settle, and clocks advance.
\* Nobody has to press a button, and nothing has to go wrong.
Fairness ==
  /\ \A w \in Worker : WF_vars(WorkerStep(w))
  /\ \A k \in Request : WF_vars(Lapse(k))

FairSpec == Spec /\ Fairness

-----------------------------------------------------------------------------
(* Properties *)

\* Every variable has its type, and only a processing row can be stale.
TypeOK ==
  /\ status \in [Request -> {"absent", "queued", "processing", "completed", "failed"}]
  /\ stale \in [Request -> BOOLEAN]
  /\ \A k \in Request : stale[k] => status[k] = "processing"
  /\ attempts \in [Request -> Nat]
  /\ caseStatus \in [Case -> {"pending", "resolved"}]
  /\ allowed \subseteq Request
  /\ submits \in [Request -> Nat]
  /\ phase \in [Worker -> {"idle", "swept", "running", "acted", "threw"}]
  /\ claim \in [Worker -> Request \cup {NoRequest}]
  /\ mishaps \in Nat

\* The unique index is never violated: each statement that makes a request
\* active (insert, upsert of a failed row, requeue) first finds the case free.
OneActivePerCase ==
  \A k, o \in Request : k # o /\ SameCase(k, o) => ~(Active(k) /\ Active(o))

\* No two workers run handlers for the same request or the same case at
\* once.  Rests on the lease: a row is handed over only after its owner died.
OneHandlerPerCase ==
  \A v, w \in Worker :
    v # w /\ Holding(v) /\ Holding(w) =>
      claim[v] # claim[w] /\ ~SameCase(claim[v], claim[w])

\* A destructive action is started at most once per submission: crashes, sweeps
\* and answers of stale workers never start it again by themselves.
\* Cleanup requests are exempt because claimNext takes them over on purpose.
AttemptsWithinSubmissions ==
  \A k \in Request : ~Cleanup(k) => attempts[k] <= submits[k]

\* A queued request leaves the queue only by being claimed: no late answer of
\* an earlier attempt (complete and fail do not look at the status) swallows it.
QueuedIsOnlyClaimed ==
  [][\A k \in Request : status[k] = "queued" => status'[k] \in {"queued", "processing"}]_vars

\* A completed request stays completed, so that a repeated submission of its key
\* cannot act twice.
CompletedIsFinal ==
  [][\A k \in Request : status[k] = "completed" => status'[k] = "completed"]_vars

\* A case or cleanup request that was accepted is answered in the end, through
\* crashes, failed writes and handlers that throw.
QueuedIsAnswered ==
  \A k \in Request :
    CaseOf[k] # NoCase =>
      (status[k] = "queued" ~> status[k] \in {"completed", "failed"})

\* docs/web-moderation-workbench-goal.md: "Show the action only when the actor
\* can currently use it", "... not dead buttons": submitting an action the case
\* page offers right now puts its request to work.
OfferedActionIsQueued ==
  [][\A k \in Request :
       submits'[k] # submits[k] /\ ~Cleanup(k) /\ Offered(k) =>
         status'[k] \in {"queued", "processing"}]_vars
=============================================================================
