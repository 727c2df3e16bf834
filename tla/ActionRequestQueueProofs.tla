---------------------- MODULE ActionRequestQueueProofs ----------------------
(***************************************************************************)
(* Safety of the request queue for any number of workers, requests and     *)
(* cases.  The invariants that hold whatever the clocks do (TypeOK,        *)
(* OneActivePerCase, AttemptsWithinSubmissions) come first; those that     *)
(* rest on the lease assume HeartbeatsTimely and need the strengthening    *)
(* LeaseInv.                                                               *)
(***************************************************************************)
EXTENDS ActionRequestQueue, TLAPS

\* Every variable keeps its type, and only processing rows go stale.
THEOREM TypeCorrect == Spec => []TypeOK
<1>1. Init => TypeOK
  BY DEF Init, TypeOK
<1>2. TypeOK /\ [Next]_vars => TypeOK'
  <2> SUFFICES ASSUME TypeOK, [Next]_vars
               PROVE  TypeOK'
    OBVIOUS
  <2>1. ASSUME NEW k \in Request, CheckAllowed(k)
         PROVE  TypeOK'
    BY <2>1 DEF TypeOK, CheckAllowed, rowVars, workerVars
  <2>2. ASSUME NEW k \in Request, SubmitAction(k)
         PROVE  TypeOK'
    BY <2>2 DEF TypeOK, SubmitAction, workerVars, UpsertStatus
  <2>3. ASSUME NEW k \in Request, SubmitRefused(k)
         PROVE  TypeOK'
    BY <2>3 DEF TypeOK, SubmitRefused, rowVars, workerVars
  <2>4. ASSUME NEW k \in Request, SubmitCleanup(k)
         PROVE  TypeOK'
    BY <2>4 DEF TypeOK, SubmitCleanup, CleanupAdmitted, QueueCleanup, workerVars
  <2>5. ASSUME NEW k \in Request, Lapse(k)
         PROVE  TypeOK'
    BY <2>5 DEF TypeOK, Lapse, webVars, workerVars
  <2>6. ASSUME NEW w \in Worker, SweepInterrupted(w)
         PROVE  TypeOK'
    BY <2>6 DEF TypeOK, SweepInterrupted, webVars, Interrupted
  <2>7. ASSUME NEW w \in Worker, NEW k \in Request, ClaimNext(w, k)
         PROVE  TypeOK'
    BY <2>7 DEF TypeOK, ClaimNext, webVars, Claimable
  <2>8. ASSUME NEW w \in Worker, NothingToClaim(w)
         PROVE  TypeOK'
    BY <2>8 DEF TypeOK, NothingToClaim, rowVars, webVars
  <2>9. ASSUME NEW w \in Worker, HandlerSucceeds(w)
         PROVE  TypeOK'
    BY <2>9, CaseOfAssumption DEF TypeOK, HandlerSucceeds, rowVars, webVars, CaseAfter
  <2>10. ASSUME NEW w \in Worker, HandlerThrows(w)
         PROVE  TypeOK'
    BY <2>10, CaseOfAssumption DEF TypeOK, HandlerThrows, rowVars, webVars, CaseAfter
  <2>11. ASSUME NEW w \in Worker, Complete(w)
         PROVE  TypeOK'
    BY <2>11 DEF TypeOK, Complete, webVars, Answer, Release
  <2>12. ASSUME NEW w \in Worker, Fail(w)
         PROVE  TypeOK'
    BY <2>12 DEF TypeOK, Fail, webVars, Answer, Release
  <2>13. ASSUME NEW w \in Worker, CompleteThrows(w)
         PROVE  TypeOK'
    BY <2>13 DEF TypeOK, CompleteThrows, rowVars, webVars
  <2>14. ASSUME NEW w \in Worker, FailThrows(w)
         PROVE  TypeOK'
    BY <2>14 DEF TypeOK, FailThrows, rowVars, webVars, Release
  <2>15. ASSUME NEW w \in Worker, Heartbeat(w)
         PROVE  TypeOK'
    BY <2>15 DEF TypeOK, Heartbeat, webVars, workerVars, Holding
  <2>16. ASSUME NEW w \in Worker, Crash(w)
         PROVE  TypeOK'
    BY <2>16 DEF TypeOK, Crash, rowVars, webVars, Release
  <2>17. ASSUME NEW c \in Case, ModerateInDiscord(c)
         PROVE  TypeOK'
    BY <2>17 DEF TypeOK, ModerateInDiscord, rowVars, webVars, workerVars
  <2>18. CASE UNCHANGED vars
    BY <2>18 DEF vars, TypeOK
  <2>19. QED
    BY <2>1, <2>2, <2>3, <2>4, <2>5, <2>6,
       <2>7, <2>8, <2>9, <2>10, <2>11, <2>12,
       <2>13, <2>14, <2>15, <2>16, <2>17, <2>18 DEF Next, WorkerStep
<1>3. QED
  BY <1>1, <1>2, PTL DEF Spec

-----------------------------------------------------------------------------
(* One active request per case *)

\* What keeps the unique index satisfied: a step that makes a request active
\* finds its case free and changes no other row.
LEMMA ActivationFindsCaseFree ==
  ASSUME TypeOK, [Next]_vars, NEW k \in Request, ~Active(k), Active(k)'
  PROVE  /\ IndexFree(k)
         /\ \A o \in Request \ {k} : status'[o] = status[o]
<1> DEFINE Freely == /\ IndexFree(k)
                     /\ \A o \in Request \ {k} : status'[o] = status[o]
<1> SUFFICES Freely
  OBVIOUS
<1>1. ASSUME NEW o \in Request, CheckAllowed(o)
       PROVE  Freely
  BY <1>1 DEF TypeOK, Active, CheckAllowed, rowVars
<1>2. ASSUME NEW o \in Request, SubmitAction(o)
       PROVE  Freely
  BY <1>2 DEF TypeOK, Active, SubmitAction, UpsertStatus
<1>3. ASSUME NEW o \in Request, SubmitRefused(o)
       PROVE  Freely
  BY <1>3 DEF TypeOK, Active, SubmitRefused, rowVars
<1>4. ASSUME NEW o \in Request, SubmitCleanup(o)
       PROVE  Freely
  BY <1>4 DEF TypeOK, Active, SubmitCleanup, CleanupAdmitted, QueueCleanup
<1>5. ASSUME NEW o \in Request, Lapse(o)
       PROVE  Freely
  BY <1>5 DEF TypeOK, Active, Lapse
<1>6. ASSUME NEW w \in Worker, SweepInterrupted(w)
       PROVE  Freely
  BY <1>6 DEF TypeOK, Active, SweepInterrupted, Interrupted
<1>7. ASSUME NEW w \in Worker, NEW o \in Request, ClaimNext(w, o)
       PROVE  Freely
  BY <1>7 DEF TypeOK, Active, ClaimNext, Claimable, Interrupted
<1>8. ASSUME NEW w \in Worker, NothingToClaim(w)
       PROVE  Freely
  BY <1>8 DEF TypeOK, Active, NothingToClaim, rowVars
<1>9. ASSUME NEW w \in Worker, HandlerSucceeds(w)
       PROVE  Freely
  BY <1>9 DEF TypeOK, Active, HandlerSucceeds, rowVars
<1>10. ASSUME NEW w \in Worker, HandlerThrows(w)
       PROVE  Freely
  BY <1>10 DEF TypeOK, Active, HandlerThrows, rowVars
<1>11. ASSUME NEW w \in Worker, Complete(w)
       PROVE  Freely
  BY <1>11 DEF TypeOK, Active, Complete, Answer
<1>12. ASSUME NEW w \in Worker, Fail(w)
       PROVE  Freely
  BY <1>12 DEF TypeOK, Active, Fail, Answer
<1>13. ASSUME NEW w \in Worker, CompleteThrows(w)
       PROVE  Freely
  BY <1>13 DEF TypeOK, Active, CompleteThrows, rowVars
<1>14. ASSUME NEW w \in Worker, FailThrows(w)
       PROVE  Freely
  BY <1>14 DEF TypeOK, Active, FailThrows, rowVars
<1>15. ASSUME NEW w \in Worker, Heartbeat(w)
       PROVE  Freely
  BY <1>15 DEF TypeOK, Active, Heartbeat
<1>16. ASSUME NEW w \in Worker, Crash(w)
       PROVE  Freely
  BY <1>16 DEF TypeOK, Active, Crash, rowVars
<1>17. ASSUME NEW c \in Case, ModerateInDiscord(c)
       PROVE  Freely
  BY <1>17 DEF TypeOK, Active, ModerateInDiscord, rowVars
<1>18. CASE UNCHANGED vars
  BY <1>18 DEF vars, Active
<1>19. QED
  BY <1>1, <1>2, <1>3, <1>4, <1>5, <1>6,
     <1>7, <1>8, <1>9, <1>10, <1>11, <1>12,
     <1>13, <1>14, <1>15, <1>16, <1>17, <1>18 DEF Next, WorkerStep

\* At most one queued or processing request per case, for any interleaving of
\* submissions, sweeps, claims, late answers and crashes.
THEOREM OneActive == Spec => []OneActivePerCase
<1>1. Init => OneActivePerCase
  BY DEF Init, OneActivePerCase, Active
<1>2. TypeOK /\ OneActivePerCase /\ [Next]_vars => OneActivePerCase'
  <2> SUFFICES ASSUME TypeOK, OneActivePerCase, [Next]_vars,
                      NEW k \in Request, NEW o \in Request,
                      k # o, SameCase(k, o), Active(k)', Active(o)'
               PROVE  FALSE
    BY DEF OneActivePerCase, SameCase
  <2>1. CASE ~Active(k)
    <3>1. IndexFree(k) /\ status'[o] = status[o]
      BY <2>1, ActivationFindsCaseFree
    <3>2. QED
      BY <3>1 DEF IndexFree, Active
  <2>2. CASE ~Active(o)
    <3>1. IndexFree(o) /\ status'[k] = status[k]
      BY <2>2, ActivationFindsCaseFree
    <3>2. QED
      BY <3>1 DEF IndexFree, Active, SameCase
  <2>3. CASE Active(k) /\ Active(o)
    BY <2>3 DEF OneActivePerCase
  <2>4. QED
    BY <2>1, <2>2, <2>3
<1>3. QED
  BY <1>1, <1>2, TypeCorrect, PTL DEF Spec

-----------------------------------------------------------------------------
(* Attempts are paid for by submissions *)

\* A queued request still has a submission to spend.
SubmissionInv ==
  \A k \in Request : ~Cleanup(k) =>
    /\ attempts[k] <= submits[k]
    /\ status[k] = "queued" => attempts[k] < submits[k]

\* No request outside message cleanup is started more often than it was
\* submitted, even by workers whose lease has lapsed.
THEOREM AttemptsBounded == Spec => []AttemptsWithinSubmissions
<1>1. Init => SubmissionInv
  BY DEF Init, SubmissionInv
<1>2. TypeOK /\ SubmissionInv /\ [Next]_vars => SubmissionInv'
  <2> SUFFICES ASSUME TypeOK, SubmissionInv, [Next]_vars
               PROVE  SubmissionInv'
    OBVIOUS
  <2>1. ASSUME NEW k \in Request, CheckAllowed(k)
         PROVE  SubmissionInv'
    BY <2>1 DEF TypeOK, SubmissionInv, Cleanup, CheckAllowed, rowVars
  <2>2. ASSUME NEW k \in Request, SubmitAction(k)
         PROVE  SubmissionInv'
    BY <2>2 DEF TypeOK, SubmissionInv, Cleanup, SubmitAction, UpsertStatus
  <2>3. ASSUME NEW k \in Request, SubmitRefused(k)
         PROVE  SubmissionInv'
    BY <2>3 DEF TypeOK, SubmissionInv, Cleanup, SubmitRefused, rowVars
  <2>4. ASSUME NEW k \in Request, SubmitCleanup(k)
         PROVE  SubmissionInv'
    BY <2>4 DEF TypeOK, SubmissionInv, Cleanup, SubmitCleanup, CleanupAdmitted, QueueCleanup
  <2>5. ASSUME NEW k \in Request, Lapse(k)
         PROVE  SubmissionInv'
    BY <2>5 DEF TypeOK, SubmissionInv, Cleanup, Lapse, webVars
  <2>6. ASSUME NEW w \in Worker, SweepInterrupted(w)
         PROVE  SubmissionInv'
    BY <2>6 DEF TypeOK, SubmissionInv, Cleanup, SweepInterrupted, Interrupted, webVars
  <2>7. ASSUME NEW w \in Worker, NEW k \in Request, ClaimNext(w, k)
         PROVE  SubmissionInv'
    BY <2>7 DEF TypeOK, SubmissionInv, Cleanup, ClaimNext, Claimable, webVars
  <2>8. ASSUME NEW w \in Worker, NothingToClaim(w)
         PROVE  SubmissionInv'
    BY <2>8 DEF TypeOK, SubmissionInv, Cleanup, NothingToClaim, rowVars, webVars
  <2>9. ASSUME NEW w \in Worker, HandlerSucceeds(w)
         PROVE  SubmissionInv'
    BY <2>9 DEF TypeOK, SubmissionInv, Cleanup, HandlerSucceeds, rowVars, webVars
  <2>10. ASSUME NEW w \in Worker, HandlerThrows(w)
         PROVE  SubmissionInv'
    BY <2>10 DEF TypeOK, SubmissionInv, Cleanup, HandlerThrows, rowVars, webVars
  <2>11. ASSUME NEW w \in Worker, Complete(w)
         PROVE  SubmissionInv'
    BY <2>11 DEF TypeOK, SubmissionInv, Cleanup, Complete, Answer, webVars
  <2>12. ASSUME NEW w \in Worker, Fail(w)
         PROVE  SubmissionInv'
    BY <2>12 DEF TypeOK, SubmissionInv, Cleanup, Fail, Answer, webVars
  <2>13. ASSUME NEW w \in Worker, CompleteThrows(w)
         PROVE  SubmissionInv'
    BY <2>13 DEF TypeOK, SubmissionInv, Cleanup, CompleteThrows, rowVars, webVars
  <2>14. ASSUME NEW w \in Worker, FailThrows(w)
         PROVE  SubmissionInv'
    BY <2>14 DEF TypeOK, SubmissionInv, Cleanup, FailThrows, rowVars, webVars
  <2>15. ASSUME NEW w \in Worker, Heartbeat(w)
         PROVE  SubmissionInv'
    BY <2>15 DEF TypeOK, SubmissionInv, Cleanup, Heartbeat, webVars
  <2>16. ASSUME NEW w \in Worker, Crash(w)
         PROVE  SubmissionInv'
    BY <2>16 DEF TypeOK, SubmissionInv, Cleanup, Crash, rowVars, webVars
  <2>17. ASSUME NEW c \in Case, ModerateInDiscord(c)
         PROVE  SubmissionInv'
    BY <2>17 DEF TypeOK, SubmissionInv, Cleanup, ModerateInDiscord, rowVars, webVars
  <2>18. CASE UNCHANGED vars
    BY <2>18 DEF vars, SubmissionInv, Cleanup
  <2>19. QED
    BY <2>1, <2>2, <2>3, <2>4, <2>5, <2>6,
       <2>7, <2>8, <2>9, <2>10, <2>11, <2>12,
       <2>13, <2>14, <2>15, <2>16, <2>17, <2>18 DEF Next, WorkerStep
<1>3. SubmissionInv => AttemptsWithinSubmissions
  BY DEF SubmissionInv, AttemptsWithinSubmissions
<1>4. QED
  BY <1>1, <1>2, <1>3, TypeCorrect, PTL DEF Spec

-----------------------------------------------------------------------------
(* The lease *)

\* With timely heartbeats a worker that holds a row owns it: the row is
\* processing, its lease is running, and no other worker holds it.
LeaseInv ==
  \A w \in Worker :
    /\ claim[w] \in Request <=> Holding(w)
    /\ Holding(w) => status[claim[w]] = "processing" /\ ~stale[claim[w]]
    /\ \A v \in Worker : v # w /\ Holding(w) => claim[v] # claim[w]

\* LeaseInv is inductive.
LEMMA LeaseKept ==
  ASSUME HeartbeatsTimely
  PROVE  Spec => []LeaseInv
<1>1. Init => LeaseInv
  BY CaseOfAssumption DEF Init, LeaseInv, Holding
<1>2. TypeOK /\ LeaseInv /\ [Next]_vars => LeaseInv'
  <2> SUFFICES ASSUME TypeOK, LeaseInv, [Next]_vars
               PROVE  LeaseInv'
    OBVIOUS
  <2> USE CaseOfAssumption DEF Holding
  <2>1. ASSUME NEW k \in Request, CheckAllowed(k)
         PROVE  LeaseInv'
    BY <2>1 DEF TypeOK, LeaseInv, CheckAllowed, rowVars, workerVars
  <2>2. ASSUME NEW k \in Request, SubmitAction(k)
         PROVE  LeaseInv'
    BY <2>2 DEF TypeOK, LeaseInv, SubmitAction, UpsertStatus, workerVars
  <2>3. ASSUME NEW k \in Request, SubmitRefused(k)
         PROVE  LeaseInv'
    BY <2>3 DEF TypeOK, LeaseInv, SubmitRefused, rowVars, workerVars
  <2>4. ASSUME NEW k \in Request, SubmitCleanup(k)
         PROVE  LeaseInv'
    BY <2>4 DEF TypeOK, LeaseInv, SubmitCleanup, CleanupAdmitted, QueueCleanup, workerVars
  <2>5. ASSUME NEW k \in Request, Lapse(k)
         PROVE  LeaseInv'
    BY <2>5 DEF TypeOK, LeaseInv, Lapse, Held, workerVars
  <2>6. ASSUME NEW w \in Worker, SweepInterrupted(w)
         PROVE  LeaseInv'
    BY <2>6 DEF TypeOK, LeaseInv, SweepInterrupted, Interrupted
  <2>7. ASSUME NEW w \in Worker, NEW k \in Request, ClaimNext(w, k)
         PROVE  LeaseInv'
    BY <2>7 DEF TypeOK, LeaseInv, ClaimNext, Claimable
  <2>8. ASSUME NEW w \in Worker, NothingToClaim(w)
         PROVE  LeaseInv'
    BY <2>8 DEF TypeOK, LeaseInv, NothingToClaim, rowVars
  <2>9. ASSUME NEW w \in Worker, HandlerSucceeds(w)
         PROVE  LeaseInv'
    BY <2>9 DEF TypeOK, LeaseInv, HandlerSucceeds, rowVars
  <2>10. ASSUME NEW w \in Worker, HandlerThrows(w)
         PROVE  LeaseInv'
    BY <2>10 DEF TypeOK, LeaseInv, HandlerThrows, rowVars
  <2>11. ASSUME NEW w \in Worker, Complete(w)
         PROVE  LeaseInv'
    BY <2>11 DEF TypeOK, LeaseInv, Complete, Answer, Release
  <2>12. ASSUME NEW w \in Worker, Fail(w)
         PROVE  LeaseInv'
    BY <2>12 DEF TypeOK, LeaseInv, Fail, Answer, Release
  <2>13. ASSUME NEW w \in Worker, CompleteThrows(w)
         PROVE  LeaseInv'
    BY <2>13 DEF TypeOK, LeaseInv, CompleteThrows, rowVars
  <2>14. ASSUME NEW w \in Worker, FailThrows(w)
         PROVE  LeaseInv'
    BY <2>14 DEF TypeOK, LeaseInv, FailThrows, rowVars, Release
  <2>15. ASSUME NEW w \in Worker, Heartbeat(w)
         PROVE  LeaseInv'
    BY <2>15 DEF TypeOK, LeaseInv, Heartbeat, workerVars
  <2>16. ASSUME NEW w \in Worker, Crash(w)
         PROVE  LeaseInv'
    BY <2>16 DEF TypeOK, LeaseInv, Crash, rowVars, Release
  <2>17. ASSUME NEW c \in Case, ModerateInDiscord(c)
         PROVE  LeaseInv'
    BY <2>17 DEF TypeOK, LeaseInv, ModerateInDiscord, rowVars, workerVars
  <2>18. CASE UNCHANGED vars
    BY <2>18 DEF vars, LeaseInv
  <2>19. QED
    BY <2>1, <2>2, <2>3, <2>4, <2>5, <2>6,
       <2>7, <2>8, <2>9, <2>10, <2>11, <2>12,
       <2>13, <2>14, <2>15, <2>16, <2>17, <2>18 DEF Next, WorkerStep
<1>3. QED
  BY <1>1, <1>2, TypeCorrect, PTL DEF Spec

\* With timely heartbeats no two workers handle the same request, nor two
\* requests of the same case, at once.
THEOREM HandlersExclusive ==
  ASSUME HeartbeatsTimely
  PROVE  Spec => []OneHandlerPerCase
<1>1. TypeOK /\ LeaseInv /\ OneActivePerCase => OneHandlerPerCase
  BY DEF TypeOK, LeaseInv, OneActivePerCase, OneHandlerPerCase, Active
<1>2. QED
  BY <1>1, TypeCorrect, LeaseKept, OneActive, PTL

\* With timely heartbeats a completed row is never written again: answers come
\* from the owner of a processing row, and an upsert keeps completed rows.
THEOREM CompletedStays ==
  ASSUME HeartbeatsTimely
  PROVE  Spec => CompletedIsFinal
<1> DEFINE Stays == \A k \in Request : status[k] = "completed" => status'[k] = "completed"
<1>1. TypeOK /\ LeaseInv /\ [Next]_vars => Stays
  <2> SUFFICES ASSUME TypeOK, LeaseInv, [Next]_vars
               PROVE  Stays
    OBVIOUS
  <2>1. ASSUME NEW k \in Request, CheckAllowed(k)
         PROVE  Stays
    BY <2>1 DEF TypeOK, CheckAllowed, rowVars
  <2>2. ASSUME NEW k \in Request, SubmitAction(k)
         PROVE  Stays
    BY <2>2 DEF TypeOK, SubmitAction, UpsertStatus
  <2>3. ASSUME NEW k \in Request, SubmitRefused(k)
         PROVE  Stays
    BY <2>3 DEF TypeOK, SubmitRefused, rowVars
  <2>4. ASSUME NEW k \in Request, SubmitCleanup(k)
         PROVE  Stays
    BY <2>4 DEF TypeOK, SubmitCleanup, CleanupAdmitted, QueueCleanup
  <2>5. ASSUME NEW k \in Request, Lapse(k)
         PROVE  Stays
    BY <2>5 DEF TypeOK, Lapse
  <2>6. ASSUME NEW w \in Worker, SweepInterrupted(w)
         PROVE  Stays
    BY <2>6 DEF TypeOK, SweepInterrupted, Interrupted
  <2>7. ASSUME NEW w \in Worker, NEW k \in Request, ClaimNext(w, k)
         PROVE  Stays
    BY <2>7 DEF TypeOK, ClaimNext, Claimable
  <2>8. ASSUME NEW w \in Worker, NothingToClaim(w)
         PROVE  Stays
    BY <2>8 DEF TypeOK, NothingToClaim, rowVars
  <2>9. ASSUME NEW w \in Worker, HandlerSucceeds(w)
         PROVE  Stays
    BY <2>9 DEF TypeOK, HandlerSucceeds, rowVars
  <2>10. ASSUME NEW w \in Worker, HandlerThrows(w)
         PROVE  Stays
    BY <2>10 DEF TypeOK, HandlerThrows, rowVars
  <2>11. ASSUME NEW w \in Worker, Complete(w)
         PROVE  Stays
    BY <2>11 DEF TypeOK, Complete, Answer, LeaseInv, Holding
  <2>12. ASSUME NEW w \in Worker, Fail(w)
         PROVE  Stays
    BY <2>12 DEF TypeOK, Fail, Answer, LeaseInv, Holding
  <2>13. ASSUME NEW w \in Worker, CompleteThrows(w)
         PROVE  Stays
    BY <2>13 DEF TypeOK, CompleteThrows, rowVars
  <2>14. ASSUME NEW w \in Worker, FailThrows(w)
         PROVE  Stays
    BY <2>14 DEF TypeOK, FailThrows, rowVars
  <2>15. ASSUME NEW w \in Worker, Heartbeat(w)
         PROVE  Stays
    BY <2>15 DEF TypeOK, Heartbeat
  <2>16. ASSUME NEW w \in Worker, Crash(w)
         PROVE  Stays
    BY <2>16 DEF TypeOK, Crash, rowVars
  <2>17. ASSUME NEW c \in Case, ModerateInDiscord(c)
         PROVE  Stays
    BY <2>17 DEF TypeOK, ModerateInDiscord, rowVars
  <2>18. CASE UNCHANGED vars
    BY <2>18 DEF vars
  <2>19. QED
    BY <2>1, <2>2, <2>3, <2>4, <2>5, <2>6,
       <2>7, <2>8, <2>9, <2>10, <2>11, <2>12,
       <2>13, <2>14, <2>15, <2>16, <2>17, <2>18 DEF Next, WorkerStep
<1>2. [](TypeOK /\ LeaseInv) /\ [][Next]_vars => [][Stays]_vars
  BY <1>1, PTL
<1>3. QED
  BY <1>2, TypeCorrect, LeaseKept, PTL DEF Spec, CompletedIsFinal

\* With timely heartbeats a queued request leaves the queue only by a claim.
THEOREM QueuedClaimed ==
  ASSUME HeartbeatsTimely
  PROVE  Spec => QueuedIsOnlyClaimed
<1> DEFINE Claims == \A k \in Request :
      status[k] = "queued" => status'[k] \in {"queued", "processing"}
<1>1. TypeOK /\ LeaseInv /\ [Next]_vars => Claims
  <2> SUFFICES ASSUME TypeOK, LeaseInv, [Next]_vars
               PROVE  Claims
    OBVIOUS
  <2>1. ASSUME NEW k \in Request, CheckAllowed(k)
         PROVE  Claims
    BY <2>1 DEF TypeOK, CheckAllowed, rowVars
  <2>2. ASSUME NEW k \in Request, SubmitAction(k)
         PROVE  Claims
    BY <2>2 DEF TypeOK, SubmitAction, UpsertStatus
  <2>3. ASSUME NEW k \in Request, SubmitRefused(k)
         PROVE  Claims
    BY <2>3 DEF TypeOK, SubmitRefused, rowVars
  <2>4. ASSUME NEW k \in Request, SubmitCleanup(k)
         PROVE  Claims
    BY <2>4 DEF TypeOK, SubmitCleanup, CleanupAdmitted, QueueCleanup
  <2>5. ASSUME NEW k \in Request, Lapse(k)
         PROVE  Claims
    BY <2>5 DEF TypeOK, Lapse
  <2>6. ASSUME NEW w \in Worker, SweepInterrupted(w)
         PROVE  Claims
    BY <2>6 DEF TypeOK, SweepInterrupted, Interrupted
  <2>7. ASSUME NEW w \in Worker, NEW k \in Request, ClaimNext(w, k)
         PROVE  Claims
    BY <2>7 DEF TypeOK, ClaimNext, Claimable
  <2>8. ASSUME NEW w \in Worker, NothingToClaim(w)
         PROVE  Claims
    BY <2>8 DEF TypeOK, NothingToClaim, rowVars
  <2>9. ASSUME NEW w \in Worker, HandlerSucceeds(w)
         PROVE  Claims
    BY <2>9 DEF TypeOK, HandlerSucceeds, rowVars
  <2>10. ASSUME NEW w \in Worker, HandlerThrows(w)
         PROVE  Claims
    BY <2>10 DEF TypeOK, HandlerThrows, rowVars
  <2>11. ASSUME NEW w \in Worker, Complete(w)
         PROVE  Claims
    BY <2>11 DEF TypeOK, Complete, Answer, LeaseInv, Holding
  <2>12. ASSUME NEW w \in Worker, Fail(w)
         PROVE  Claims
    BY <2>12 DEF TypeOK, Fail, Answer, LeaseInv, Holding
  <2>13. ASSUME NEW w \in Worker, CompleteThrows(w)
         PROVE  Claims
    BY <2>13 DEF TypeOK, CompleteThrows, rowVars
  <2>14. ASSUME NEW w \in Worker, FailThrows(w)
         PROVE  Claims
    BY <2>14 DEF TypeOK, FailThrows, rowVars
  <2>15. ASSUME NEW w \in Worker, Heartbeat(w)
         PROVE  Claims
    BY <2>15 DEF TypeOK, Heartbeat
  <2>16. ASSUME NEW w \in Worker, Crash(w)
         PROVE  Claims
    BY <2>16 DEF TypeOK, Crash, rowVars
  <2>17. ASSUME NEW c \in Case, ModerateInDiscord(c)
         PROVE  Claims
    BY <2>17 DEF TypeOK, ModerateInDiscord, rowVars
  <2>18. CASE UNCHANGED vars
    BY <2>18 DEF vars
  <2>19. QED
    BY <2>1, <2>2, <2>3, <2>4, <2>5, <2>6,
       <2>7, <2>8, <2>9, <2>10, <2>11, <2>12,
       <2>13, <2>14, <2>15, <2>16, <2>17, <2>18 DEF Next, WorkerStep
<1>2. [](TypeOK /\ LeaseInv) /\ [][Next]_vars => [][Claims]_vars
  BY <1>1, PTL
<1>3. QED
  BY <1>2, TypeCorrect, LeaseKept, PTL DEF Spec, QueuedIsOnlyClaimed
=============================================================================
