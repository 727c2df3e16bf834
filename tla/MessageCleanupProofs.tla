------------------------ MODULE MessageCleanupProofs ------------------------
(***************************************************************************)
(* For any number of messages, executors, crashes and previews, with or    *)
(* without exclusive execution: a message cleanup job implements           *)
(* EvidenceLedger, an item marked preserved has its copy, an item recorded *)
(* as deleted is gone, and no recorded outcome is rewritten; with exclusive *)
(* execution a completed job is settled.  CopyInv follows each candidate   *)
(* from the posted copy to the delete call, SettleInv each item without an *)
(* outcome through the lists of the execution.                             *)
(***************************************************************************)
EXTENDS MessageCleanup, FiniteSetTheorems, TLAPS

\* Updating the outcome of items keeps the table well formed and the preview.
LEMMA ItemsAfterKeepsTable ==
  ASSUME TypeOK, NEW e \in Executor, NEW ms \in SUBSET Message, NEW o \in Outcome,
         NEW v \in {"pending", "preserved", "failed"}
  PROVE  /\ ItemsAfter(e, ms, o, v) \in ItemTable
         /\ DOMAIN ItemsAfter(e, ms, o, v) = DOMAIN items
         /\ \A m \in DOMAIN items : ItemsAfter(e, ms, o, v)[m].rev = items[m].rev
<1>1. PICK S \in SUBSET Message : items \in [S -> Item]
  BY DEF TypeOK, ItemTable
<1>2. ItemsAfter(e, ms, o, v) \in [S -> Item]
  BY <1>1 DEF ItemsAfter, Item
<1>3. QED
  BY <1>1, <1>2 DEF ItemsAfter, ItemTable, Item

\* The empty table is a table.
LEMMA NoItemsIsTable == NoItems \in ItemTable /\ DOMAIN NoItems = {}
<1>1. NoItems \in [{} -> Item]
  BY DEF NoItems
<1>2. {} \in SUBSET Message
  OBVIOUS
<1>3. QED
  BY <1>1, <1>2 DEF ItemTable, NoItems

\* Marking items keeps the table well formed and the preview.
LEMMA MarkKeepsTable ==
  ASSUME TypeOK, NEW e \in Executor,
         items' = [m \in DOMAIN items |->
                     IF m \in run[e].cur /\ Open(e, m)
                     THEN [items[m] EXCEPT !.evidence = "preserved"]
                     ELSE items[m]]
  PROVE  /\ items' \in ItemTable
         /\ DOMAIN items' = DOMAIN items
         /\ \A m \in DOMAIN items : items'[m].rev = items[m].rev
<1>1. PICK S \in SUBSET Message : items \in [S -> Item]
  BY DEF TypeOK, ItemTable
<1>2. items' \in [S -> Item]
  BY <1>1 DEF Item
<1>3. QED
  BY <1>1, <1>2 DEF ItemTable, Item

\* What discovery may store is a table of items that are not preserved yet.
LEMMA PreviewIsTable ==
  ASSUME NEW found \in SUBSET Message, NEW t \in ItemsFound(found)
  PROVE  /\ t \in ItemTable
         /\ \A m \in DOMAIN t : t[m].evidence = "pending"
<1>1. t \in [found -> Item]
  BY DEF ItemsFound, Item
<1>2. \A m \in found : t[m].evidence = "pending"
  BY DEF ItemsFound
<1>3. QED
  BY <1>1, <1>2 DEF ItemTable

\* An idle executor's record.
LEMMA IdleTyped == Idle \in Run /\ WithinSnap(Idle)
  BY NoItemsIsTable, CleanupAssumption DEF Idle, Run, WithinSnap

\* An executor's record is well formed.
LEMMA ExecutorTyped ==
  ASSUME TypeOK, NEW e \in Executor
  PROVE  run[e] \in Run /\ WithinSnap(run[e])
  BY DEF TypeOK

\* What an executor remembers of an item it is working on is an item.
LEMMA SnapItem ==
  ASSUME TypeOK, NEW e \in Executor,
         NEW m \in run[e].todo \cup run[e].cur \cup run[e].prepared \cup run[e].answered
  PROVE  m \in DOMAIN run[e].snap /\ run[e].snap[m] \in Item /\ m \in Message
<1>1. run[e].snap \in ItemTable /\ m \in DOMAIN run[e].snap
  BY ExecutorTyped DEF Run, WithinSnap
<1>2. QED
  BY <1>1 DEF ItemTable

\* Copies are of messages, at possible revisions.
LEMMA CopiesTyped ==
  ASSUME TypeOK, NEW e \in Executor
  PROVE  Copies(e) \subseteq Message \X (0..MaxRev)
  BY SnapItem, ExecutorTyped DEF Copies, Run

\* The size of what discovery found.
LEMMA FoundCounted ==
  ASSUME TypeOK, NEW found \in SUBSET Message
  PROVE  Cardinality(found) \in Nat /\ Reports(found) \subseteq Coverage
  BY CleanupAssumption, FS_Subset, FS_CardinalityType DEF Reports, Coverage

\* A well formed record in the place of an executor's keeps run well formed.
LEMMA RunKept ==
  ASSUME TypeOK, NEW e \in Executor, NEW r \in Run, WithinSnap(r), Continue(e, r)
  PROVE  run' \in [Executor -> Run] /\ \A d \in Executor : WithinSnap(run'[d])
  BY DEF TypeOK, Continue

\* Every variable keeps its type.
THEOREM CleanupTypeCorrect == Spec => []TypeOK
<1> USE CleanupAssumption DEF JobStatus, Scope, Coverage, Outcome
<1>1. Init => TypeOK
  BY NoItemsIsTable, IdleTyped DEF Init, TypeOK
<1>2. TypeOK /\ [Next]_vars => TypeOK'
  <2> SUFFICES ASSUME TypeOK, [Next]_vars
               PROVE  TypeOK'
    OBVIOUS
  <2>1. ASSUME NEW e \in Executor, RejectPreview(e)
         PROVE  TypeOK'
    BY <2>1 DEF TypeOK, RejectPreview, FailedJob, discord
  <2>2. ASSUME NEW e \in Executor, BeginPreview(e)
         PROVE  TypeOK'
    <3> DEFINE r == [Idle EXCEPT !.pc = "discovering"]
    <3>1. r \in Run /\ WithinSnap(r)
      BY <2>2, IdleTyped DEF Run, WithinSnap, BeginPreview, Idle
    <3>2. run' \in [Executor -> Run] /\ \A d \in Executor : WithinSnap(run'[d])
      <4> HIDE DEF r
      <4>1. Continue(e, r)
        BY <2>2 DEF r, BeginPreview
      <4>2. QED
        BY <3>1, <4>1, RunKept
    <3>4. QED
      BY <2>2, <3>2 DEF TypeOK, BeginPreview, discord
  <2>3. ASSUME NEW e \in Executor, NEW found \in SUBSET Message, StorePreview(e, found)
         PROVE  TypeOK'
    <3>1. run' \in [Executor -> Run] /\ \A d \in Executor : WithinSnap(run'[d])
      BY <2>3, IdleTyped, RunKept DEF StorePreview, Stop
    <3>2. items' \in ItemTable
      BY <2>3, PreviewIsTable DEF StorePreview
    <3>3. job' \in [status : JobStatus, scope : Scope, coverage : Coverage,
                    gen : 0..MaxGen, count : Nat]
      <4>1. PICK c \in Reports(found) :
              job' = [job EXCEPT !.status = "ready", !.coverage = c, !.gen = @ + 1,
                                 !.count = Cardinality(found)]
        BY <2>3 DEF StorePreview
      <4>2. job.gen + 1 \in 0..MaxGen
        BY <2>3 DEF TypeOK, StorePreview
      <4>3. QED
        BY <4>1, <4>2, FoundCounted DEF TypeOK
    <3>4. QED
      BY <2>3, <3>1, <3>2, <3>3 DEF TypeOK, StorePreview, discord
  <2>4. ASSUME NEW e \in Executor, PreviewOvertaken(e)
         PROVE  TypeOK'
    <3>1. run' \in [Executor -> Run] /\ \A d \in Executor : WithinSnap(run'[d])
      BY <2>4, IdleTyped, RunKept DEF PreviewOvertaken, Stop
    <3>3. QED
      BY <2>4, <3>1 DEF TypeOK, PreviewOvertaken, FailedJob, discord, Stop
  <2>5. ASSUME NEW e \in Executor, PreviewThrows(e)
         PROVE  TypeOK'
    <3>1. run' \in [Executor -> Run] /\ \A d \in Executor : WithinSnap(run'[d])
      BY <2>5, IdleTyped, RunKept DEF PreviewThrows, Stop
    <3>3. QED
      BY <2>5, <3>1 DEF TypeOK, PreviewThrows, FailedJob, discord, Stop
  <2>6. ASSUME NEW e \in Executor, BeginExecution(e)
         PROVE  TypeOK'
    <3> DEFINE r == [Idle EXCEPT !.pc = "preparing", !.gen = job.gen, !.snap = items,
                         !.todo = {m \in DOMAIN items : items[m].status = "pending"}]
    <3>1. r \in Run /\ WithinSnap(r)
      <4>1. DOMAIN items \subseteq Message /\ items \in ItemTable /\ job.gen \in 0..MaxGen
        BY DEF TypeOK, ItemTable
      <4>2. {m \in DOMAIN items : items[m].status = "pending"} \in SUBSET Message
        BY <4>1
      <4>3. r \in Run
        BY <4>1, <4>2, IdleTyped DEF Run
      <4>4. WithinSnap(r)
        BY DEF WithinSnap, Idle
      <4>5. QED
        BY <4>3, <4>4
    <3>2. run' \in [Executor -> Run] /\ \A d \in Executor : WithinSnap(run'[d])
      <4> HIDE DEF r
      <4>1. Continue(e, r)
        BY <2>6 DEF r, BeginExecution
      <4>2. QED
        BY <3>1, <4>1, RunKept
    <3>4. QED
      BY <2>6, <3>2 DEF TypeOK, BeginExecution, discord
  <2>7. ASSUME NEW e \in Executor, NEW m \in Message, SkipMissing(e, m)
         PROVE  TypeOK'
    <3> DEFINE r == [run[e] EXCEPT !.todo = @ \ {m}]
    <3>1. r \in Run /\ WithinSnap(r)
      BY <2>7, ExecutorTyped DEF Run, WithinSnap, SkipMissing, Skip
    <3>2. run' \in [Executor -> Run] /\ \A d \in Executor : WithinSnap(run'[d])
      <4> HIDE DEF r
      <4>1. Continue(e, r)
        BY <2>7 DEF r, SkipMissing, Skip
      <4>2. QED
        BY <3>1, <4>1, RunKept
    <3>3. items' \in ItemTable
      BY <2>7, SnapItem, ItemsAfterKeepsTable DEF SkipMissing, Skip, Item
    <3>4. QED
      BY <2>7, <3>2, <3>3 DEF TypeOK, SkipMissing, Skip, discord
  <2>8. ASSUME NEW e \in Executor, NEW m \in Message, SkipUnreadable(e, m)
         PROVE  TypeOK'
    <3> DEFINE r == [run[e] EXCEPT !.todo = @ \ {m}]
    <3>1. r \in Run /\ WithinSnap(r)
      BY <2>8, ExecutorTyped DEF Run, WithinSnap, SkipUnreadable, Skip
    <3>2. run' \in [Executor -> Run] /\ \A d \in Executor : WithinSnap(run'[d])
      <4> HIDE DEF r
      <4>1. Continue(e, r)
        BY <2>8 DEF r, SkipUnreadable, Skip
      <4>2. QED
        BY <3>1, <4>1, RunKept
    <3>3. items' \in ItemTable
      BY <2>8, SnapItem, ItemsAfterKeepsTable DEF SkipUnreadable, Skip, Item
    <3>4. QED
      BY <2>8, <3>2, <3>3 DEF TypeOK, SkipUnreadable, Skip, discord
  <2>9. ASSUME NEW e \in Executor, NEW m \in Message, SkipChanged(e, m)
         PROVE  TypeOK'
    <3> DEFINE r == [run[e] EXCEPT !.todo = @ \ {m}]
    <3>1. r \in Run /\ WithinSnap(r)
      BY <2>9, ExecutorTyped DEF Run, WithinSnap, SkipChanged, Skip
    <3>2. run' \in [Executor -> Run] /\ \A d \in Executor : WithinSnap(run'[d])
      <4> HIDE DEF r
      <4>1. Continue(e, r)
        BY <2>9 DEF r, SkipChanged, Skip
      <4>2. QED
        BY <3>1, <4>1, RunKept
    <3>3. items' \in ItemTable
      BY <2>9, SnapItem, ItemsAfterKeepsTable DEF SkipChanged, Skip, Item
    <3>4. QED
      BY <2>9, <3>2, <3>3 DEF TypeOK, SkipChanged, Skip, discord
  <2>10. ASSUME NEW e \in Executor, NEW m \in Message, ReuseEvidence(e, m)
         PROVE  TypeOK'
    <3> DEFINE r == [run[e] EXCEPT !.todo = @ \ {m}, !.prepared = @ \cup {m}]
    <3>0. m \in run[e].todo
      BY <2>10 DEF ReuseEvidence, Fetched
    <3>1. r \in Run /\ WithinSnap(r)
      <4>1. /\ {m} \subseteq DOMAIN run[e].snap
            /\ {m} \subseteq Message
        BY <3>0, SnapItem
      <4>2. r \in Run
        <5>1. /\ run[e].todo \ {m} \in SUBSET Message
              /\ run[e].prepared \cup {m} \in SUBSET Message
          BY <4>1, ExecutorTyped DEF Run
        <5>2. QED
          BY <5>1, ExecutorTyped DEF Run
      <4>3. WithinSnap(r)
        BY <4>1, ExecutorTyped, SMTT(30) DEF Run, WithinSnap
      <4>4. QED
        BY <4>2, <4>3
    <3>2. run' \in [Executor -> Run] /\ \A d \in Executor : WithinSnap(run'[d])
      <4> HIDE DEF r
      <4>1. Continue(e, r)
        BY <2>10 DEF r, ReuseEvidence
      <4>2. QED
        BY <3>1, <4>1, RunKept
    <3>4. QED
      BY <2>10, <3>2 DEF TypeOK, ReuseEvidence, Fetched, discord
  <2>11. ASSUME NEW e \in Executor, NEW m \in Message, StartPreserving(e, m)
         PROVE  TypeOK'
    <3> DEFINE r == [run[e] EXCEPT !.pc = "preserving", !.cur = {m}, !.seen = rev[m],
                          !.todo = @ \ {m}]
    <3>0. m \in run[e].todo
      BY <2>11 DEF StartPreserving, Fetched
    <3>1. r \in Run /\ WithinSnap(r)
      <4>1. /\ {m} \subseteq DOMAIN run[e].snap
            /\ {m} \subseteq Message
        BY <3>0, SnapItem
      <4>2. r \in Run
        <5>1. /\ run[e].todo \ {m} \in SUBSET Message
              /\ {m} \in SUBSET Message
              /\ rev[m] \in 0..MaxRev
          BY <4>1, ExecutorTyped DEF Run, TypeOK
        <5>2. QED
          BY <5>1, ExecutorTyped DEF Run
      <4>3. WithinSnap(r)
        BY <4>1, ExecutorTyped, SMTT(30) DEF Run, WithinSnap
      <4>4. QED
        BY <4>2, <4>3
    <3>2. run' \in [Executor -> Run] /\ \A d \in Executor : WithinSnap(run'[d])
      <4> HIDE DEF r
      <4>1. Continue(e, r)
        BY <2>11 DEF r, StartPreserving
      <4>2. QED
        BY <3>1, <4>1, RunKept
    <3>4. QED
      BY <2>11, <3>2 DEF TypeOK, StartPreserving, Fetched, discord
  <2>12. ASSUME NEW e \in Executor, NEW m \in Message, Record(e, m)
         PROVE  TypeOK'
    <3> DEFINE r == [run[e] EXCEPT !.answered = @ \ {m}]
    <3>1. r \in Run /\ WithinSnap(r)
      BY <2>12, ExecutorTyped DEF Run, WithinSnap, Record
    <3>2. run' \in [Executor -> Run] /\ \A d \in Executor : WithinSnap(run'[d])
      <4> HIDE DEF r
      <4>1. Continue(e, r)
        BY <2>12 DEF r, Record
      <4>2. QED
        BY <3>1, <4>1, RunKept
    <3>3. items' \in ItemTable
      BY <2>12, ExecutorTyped, ItemsAfterKeepsTable DEF Record, Run
    <3>4. QED
      BY <2>12, <3>2, <3>3 DEF TypeOK, Record, discord
  <2>13. ASSUME NEW e \in Executor, PostEvidence(e)
         PROVE  TypeOK'
    <3> DEFINE r == [run[e] EXCEPT !.pc = "marking"]
    <3>1. r \in Run /\ WithinSnap(r)
      BY <2>13, ExecutorTyped DEF Run, WithinSnap, PostEvidence
    <3>2. run' \in [Executor -> Run] /\ \A d \in Executor : WithinSnap(run'[d])
      <4> HIDE DEF r
      <4>1. Continue(e, r)
        BY <2>13 DEF r, PostEvidence
      <4>2. QED
        BY <3>1, <4>1, RunKept
    <3>4. QED
      BY <2>13, <3>2, CopiesTyped DEF TypeOK, PostEvidence, Copies
  <2>14. ASSUME NEW e \in Executor, PostEvidenceFails(e)
         PROVE  TypeOK'
    <3> DEFINE r == [run[e] EXCEPT !.pc = "preparing", !.cur = {}]
    <3>1. r \in Run /\ WithinSnap(r)
      BY <2>14, ExecutorTyped DEF Run, WithinSnap, PostEvidenceFails
    <3>2. run' \in [Executor -> Run] /\ \A d \in Executor : WithinSnap(run'[d])
      <4> HIDE DEF r
      <4>1. Continue(e, r)
        BY <2>14 DEF r, PostEvidenceFails
      <4>2. QED
        BY <3>1, <4>1, RunKept
    <3>3. items' \in ItemTable
      BY <2>14, ExecutorTyped, ItemsAfterKeepsTable DEF PostEvidenceFails, Run
    <3>4. QED
      BY <2>14, <3>2, <3>3, CopiesTyped DEF TypeOK, PostEvidenceFails, Copies
  <2>15. ASSUME NEW e \in Executor, MarkPreserved(e)
         PROVE  TypeOK'
    <3> DEFINE r == [run[e] EXCEPT !.pc = "preparing", !.cur = {},
                           !.prepared = @ \cup run[e].cur]
    <3>1. r \in Run /\ WithinSnap(r)
      BY <2>15, ExecutorTyped DEF Run, WithinSnap, MarkPreserved
    <3>2. run' \in [Executor -> Run] /\ \A d \in Executor : WithinSnap(run'[d])
      <4> HIDE DEF r
      <4>1. Continue(e, r)
        BY <2>15 DEF r, MarkPreserved
      <4>2. QED
        BY <3>1, <4>1, RunKept
    <3>3. items' \in ItemTable
      BY <2>15, MarkKeepsTable DEF MarkPreserved
    <3>4. QED
      BY <2>15, <3>2, <3>3 DEF TypeOK, MarkPreserved, discord
  <2>16. ASSUME NEW e \in Executor, MarkThrows(e)
         PROVE  TypeOK'
    <3> DEFINE r == [run[e] EXCEPT !.pc = "preparing", !.cur = {}]
    <3>1. r \in Run /\ WithinSnap(r)
      BY <2>16, ExecutorTyped DEF Run, WithinSnap, MarkThrows
    <3>2. run' \in [Executor -> Run] /\ \A d \in Executor : WithinSnap(run'[d])
      <4> HIDE DEF r
      <4>1. Continue(e, r)
        BY <2>16 DEF r, MarkThrows
      <4>2. QED
        BY <3>1, <4>1, RunKept
    <3>3. items' \in ItemTable
      BY <2>16, ExecutorTyped, ItemsAfterKeepsTable DEF MarkThrows, Run
    <3>4. QED
      BY <2>16, <3>2, <3>3 DEF TypeOK, MarkThrows, discord
  <2>17. ASSUME NEW e \in Executor, NEW batch \in SUBSET Message, Delete(e, batch)
         PROVE  TypeOK'
    <3> DEFINE one == [run[e] EXCEPT !.prepared = @ \ batch]
               two == [one EXCEPT !.answered = batch]
               r == [two EXCEPT !.outcome = "deleted"]
    <3>1. r \in Run /\ WithinSnap(r)
      <4>1. run[e] \in Run /\ WithinSnap(run[e]) /\ batch \subseteq run[e].prepared
        BY <2>17, ExecutorTyped DEF Delete
      <4>2. one \in Run /\ WithinSnap(one) /\ batch \subseteq DOMAIN one.snap
        BY <4>1 DEF Run, WithinSnap
      <4> HIDE DEF one
      <4>3. two \in Run /\ WithinSnap(two)
        BY <4>2 DEF Run, WithinSnap
      <4> HIDE DEF two
      <4> QED
        BY <4>3 DEF Run, WithinSnap
    <3>2. run' \in [Executor -> Run] /\ \A d \in Executor : WithinSnap(run'[d])
      <4> HIDE DEF r
      <4>1. Continue(e, r)
        BY <2>17 DEF r, Delete
      <4>2. QED
        BY <3>1, <4>1, RunKept
    <3>4. QED
      BY <2>17, <3>2 DEF TypeOK, Delete, Destroy, Deleting
  <2>18. ASSUME NEW e \in Executor, NEW batch \in SUBSET Message, DeleteFails(e, batch)
         PROVE  TypeOK'
    <3> DEFINE one == [run[e] EXCEPT !.prepared = @ \ batch]
               two == [one EXCEPT !.answered = batch]
               r == [two EXCEPT !.outcome = "not_deleted"]
    <3>1. r \in Run /\ WithinSnap(r)
      <4>1. run[e] \in Run /\ WithinSnap(run[e]) /\ batch \subseteq run[e].prepared
        BY <2>18, ExecutorTyped DEF DeleteFails
      <4>2. one \in Run /\ WithinSnap(one) /\ batch \subseteq DOMAIN one.snap
        BY <4>1 DEF Run, WithinSnap
      <4> HIDE DEF one
      <4>3. two \in Run /\ WithinSnap(two)
        BY <4>2 DEF Run, WithinSnap
      <4> HIDE DEF two
      <4> QED
        BY <4>3 DEF Run, WithinSnap
    <3>2. run' \in [Executor -> Run] /\ \A d \in Executor : WithinSnap(run'[d])
      <4> HIDE DEF r
      <4>1. Continue(e, r)
        BY <2>18 DEF r, DeleteFails
      <4>2. QED
        BY <3>1, <4>1, RunKept
    <3>4. QED
      BY <2>18, <3>2 DEF TypeOK, DeleteFails, Destroy, Deleting
  <2>19. ASSUME NEW e \in Executor, CompleteJob(e)
         PROVE  TypeOK'
    <3>1. run' \in [Executor -> Run] /\ \A d \in Executor : WithinSnap(run'[d])
      BY <2>19, IdleTyped, RunKept DEF CompleteJob, Stop
    <3>3. QED
      BY <2>19, <3>1 DEF TypeOK, CompleteJob, discord, Stop
  <2>20. ASSUME NEW e \in Executor, ExecutionThrows(e)
         PROVE  TypeOK'
    <3>1. run' \in [Executor -> Run] /\ \A d \in Executor : WithinSnap(run'[d])
      BY <2>20, IdleTyped, RunKept DEF ExecutionThrows, Stop
    <3>2. items' \in ItemTable
      BY <2>20, ExecutorTyped, ItemsAfterKeepsTable DEF ExecutionThrows, Run
    <3>3. QED
      BY <2>20, <3>1, <3>2 DEF TypeOK, ExecutionThrows, discord, Stop, FailedJob
  <2>21. ASSUME NEW e \in Executor, Crash(e)
         PROVE  TypeOK'
    <3>1. run' \in [Executor -> Run] /\ \A d \in Executor : WithinSnap(run'[d])
      BY <2>21, IdleTyped, RunKept DEF Crash, Stop
    <3>3. QED
      BY <2>21, <3>1 DEF TypeOK, Crash, discord, Stop
  <2>22. ASSUME NEW m \in Message, EditMessage(m)
         PROVE  TypeOK'
    BY <2>22 DEF TypeOK, EditMessage
  <2>23. ASSUME NEW m \in Message, AuthorDeletes(m)
         PROVE  TypeOK'
    BY <2>23 DEF TypeOK, AuthorDeletes
  <2>24. ASSUME ModerateCase
         PROVE  TypeOK'
    BY <2>24 DEF TypeOK, ModerateCase, discord
  <2>25. CASE UNCHANGED vars
    BY <2>25 DEF TypeOK, vars
  <2>26. QED
    BY <2>1, <2>2, <2>3, <2>4, <2>5, <2>6, <2>7, <2>8,
       <2>9, <2>10, <2>11, <2>12, <2>13, <2>14, <2>15, <2>16,
       <2>17, <2>18, <2>19, <2>20, <2>21, <2>22, <2>23, <2>24,
       <2>25 DEF Next, PreviewStep, ExecutionStep
<1>3. QED
  BY <1>1, <1>2, PTL DEF Spec

-----------------------------------------------------------------------------
(* What executors read *)

\* The table of an executor that read the current preview agrees with the
\* stored items on what was previewed.
SnapInv ==
  /\ job.gen = 0 => DOMAIN items = {}
  /\ \A e \in Executor :
       /\ run[e].gen <= job.gen
       /\ run[e].gen = job.gen =>
            /\ DOMAIN run[e].snap = DOMAIN items
            /\ \A m \in DOMAIN items : run[e].snap[m].rev = items[m].rev

\* A step that stores no preview keeps what was previewed, and one that begins
\* no execution leaves every executor's table as it was or drops it.
LEMMA PreviewIsFrozen ==
  ASSUME TypeOK, [Next]_vars,
         \A e \in Executor, found \in SUBSET Message : ~StorePreview(e, found),
         \A e \in Executor : ~BeginExecution(e)
  PROVE  /\ job'.gen = job.gen
         /\ DOMAIN items' = DOMAIN items
         /\ \A m \in DOMAIN items : items'[m].rev = items[m].rev
         /\ \A d \in Executor :
              \/ run'[d].gen = run[d].gen /\ run'[d].snap = run[d].snap
              \/ run'[d].gen = 0 /\ run'[d].snap = NoItems
<1> DEFINE SamePreview ==
             /\ job'.gen = job.gen
             /\ DOMAIN items' = DOMAIN items
             /\ \A m \in DOMAIN items : items'[m].rev = items[m].rev
           SameTables ==
             \A d \in Executor :
               \/ run'[d].gen = run[d].gen /\ run'[d].snap = run[d].snap
               \/ run'[d].gen = 0 /\ run'[d].snap = NoItems
<1> USE DEF Outcome
<1>1. SamePreview /\ SameTables
  <2>1. ASSUME NEW e \in Executor, RejectPreview(e)
         PROVE  SamePreview /\ SameTables
    BY <2>1 DEF TypeOK, RejectPreview, FailedJob, NoItems, discord
  <2>2. ASSUME NEW e \in Executor, BeginPreview(e)
         PROVE  SamePreview /\ SameTables
    BY <2>2 DEF TypeOK, BeginPreview, Idle, Continue, NoItems, discord
  <2>3. ASSUME NEW e \in Executor, NEW found \in SUBSET Message, StorePreview(e, found)
         PROVE  SamePreview /\ SameTables
    BY <2>3
  <2>4. ASSUME NEW e \in Executor, PreviewOvertaken(e)
         PROVE  SamePreview /\ SameTables
    BY <2>4 DEF TypeOK, PreviewOvertaken, FailedJob, Stop, Continue, Idle, NoItems, discord
  <2>5. ASSUME NEW e \in Executor, PreviewThrows(e)
         PROVE  SamePreview /\ SameTables
    BY <2>5 DEF TypeOK, PreviewThrows, FailedJob, Stop, Continue, Idle, NoItems, discord
  <2>6. ASSUME NEW e \in Executor, BeginExecution(e)
         PROVE  SamePreview /\ SameTables
    BY <2>6
  <2>7. ASSUME NEW e \in Executor, NEW m \in Message, SkipMissing(e, m)
         PROVE  SamePreview /\ SameTables
    <3>1. SamePreview
      BY <2>7, SnapItem, ItemsAfterKeepsTable DEF SkipMissing, Skip, Item, Run
    <3>2. SameTables
      BY <2>7 DEF TypeOK, SkipMissing, Skip, Continue, NoItems
    <3>3. QED
      BY <3>1, <3>2
  <2>8. ASSUME NEW e \in Executor, NEW m \in Message, SkipUnreadable(e, m)
         PROVE  SamePreview /\ SameTables
    <3>1. SamePreview
      BY <2>8, SnapItem, ItemsAfterKeepsTable DEF SkipUnreadable, Skip, Item, Run
    <3>2. SameTables
      BY <2>8 DEF TypeOK, SkipUnreadable, Skip, Continue, NoItems
    <3>3. QED
      BY <3>1, <3>2
  <2>9. ASSUME NEW e \in Executor, NEW m \in Message, SkipChanged(e, m)
         PROVE  SamePreview /\ SameTables
    <3>1. SamePreview
      BY <2>9, SnapItem, ItemsAfterKeepsTable DEF SkipChanged, Skip, Item, Run
    <3>2. SameTables
      BY <2>9 DEF TypeOK, SkipChanged, Skip, Continue, NoItems
    <3>3. QED
      BY <3>1, <3>2
  <2>10. ASSUME NEW e \in Executor, NEW m \in Message, ReuseEvidence(e, m)
         PROVE  SamePreview /\ SameTables
    BY <2>10 DEF TypeOK, ReuseEvidence, Continue, NoItems, discord
  <2>11. ASSUME NEW e \in Executor, NEW m \in Message, StartPreserving(e, m)
         PROVE  SamePreview /\ SameTables
    BY <2>11 DEF TypeOK, StartPreserving, Continue, NoItems, discord
  <2>12. ASSUME NEW e \in Executor, NEW m \in Message, Record(e, m)
         PROVE  SamePreview /\ SameTables
    <3>1. SamePreview
      BY <2>12, ExecutorTyped, ItemsAfterKeepsTable DEF Record, Skip, Item, Run
    <3>2. SameTables
      BY <2>12 DEF TypeOK, Record, Continue, Run, NoItems
    <3>3. QED
      BY <3>1, <3>2
  <2>13. ASSUME NEW e \in Executor, PostEvidence(e)
         PROVE  SamePreview /\ SameTables
    BY <2>13 DEF TypeOK, PostEvidence, Continue, NoItems, discord
  <2>14. ASSUME NEW e \in Executor, PostEvidenceFails(e)
         PROVE  SamePreview /\ SameTables
    <3>1. SamePreview
      BY <2>14, ExecutorTyped, ItemsAfterKeepsTable DEF PostEvidenceFails, Skip, Item, Run
    <3>2. SameTables
      BY <2>14 DEF TypeOK, PostEvidenceFails, Continue, NoItems
    <3>3. QED
      BY <3>1, <3>2
  <2>15. ASSUME NEW e \in Executor, MarkPreserved(e)
         PROVE  SamePreview /\ SameTables
    <3>1. SamePreview
      BY <2>15, MarkKeepsTable DEF MarkPreserved
    <3>2. SameTables
      BY <2>15 DEF TypeOK, MarkPreserved, Continue, NoItems
    <3>3. QED
      BY <3>1, <3>2
  <2>16. ASSUME NEW e \in Executor, MarkThrows(e)
         PROVE  SamePreview /\ SameTables
    <3>1. SamePreview
      BY <2>16, ExecutorTyped, ItemsAfterKeepsTable DEF MarkThrows, Skip, Item, Run
    <3>2. SameTables
      BY <2>16 DEF TypeOK, MarkThrows, Continue, NoItems
    <3>3. QED
      BY <3>1, <3>2
  <2>17. ASSUME NEW e \in Executor, NEW batch \in SUBSET Message, Delete(e, batch)
         PROVE  SamePreview /\ SameTables
    BY <2>17 DEF TypeOK, Delete, Continue, NoItems, discord
  <2>18. ASSUME NEW e \in Executor, NEW batch \in SUBSET Message, DeleteFails(e, batch)
         PROVE  SamePreview /\ SameTables
    BY <2>18 DEF TypeOK, DeleteFails, Continue, NoItems, discord
  <2>19. ASSUME NEW e \in Executor, CompleteJob(e)
         PROVE  SamePreview /\ SameTables
    BY <2>19 DEF TypeOK, CompleteJob, Stop, Continue, Idle, NoItems, discord
  <2>20. ASSUME NEW e \in Executor, ExecutionThrows(e)
         PROVE  SamePreview /\ SameTables
    <3>1. SamePreview
      BY <2>20, ExecutorTyped, ItemsAfterKeepsTable DEF ExecutionThrows, Skip, Item, Run, FailedJob
    <3>2. SameTables
      BY <2>20 DEF TypeOK, ExecutionThrows, Stop, Continue, Idle, FailedJob, NoItems
    <3>3. QED
      BY <3>1, <3>2
  <2>21. ASSUME NEW e \in Executor, Crash(e)
         PROVE  SamePreview /\ SameTables
    BY <2>21 DEF TypeOK, Crash, Stop, Continue, Idle, NoItems, discord
  <2>22. ASSUME NEW m \in Message, EditMessage(m)
         PROVE  SamePreview /\ SameTables
    BY <2>22 DEF TypeOK, EditMessage, NoItems, discord
  <2>23. ASSUME NEW m \in Message, AuthorDeletes(m)
         PROVE  SamePreview /\ SameTables
    BY <2>23 DEF TypeOK, AuthorDeletes, NoItems, discord
  <2>24. ASSUME ModerateCase
         PROVE  SamePreview /\ SameTables
    BY <2>24 DEF TypeOK, ModerateCase, NoItems, discord
  <2>25. CASE UNCHANGED vars
    BY <2>25 DEF vars, TypeOK
  <2>26. QED
    BY <2>1, <2>2, <2>3, <2>4, <2>5, <2>6, <2>7, <2>8,
       <2>9, <2>10, <2>11, <2>12, <2>13, <2>14, <2>15, <2>16,
       <2>17, <2>18, <2>19, <2>20, <2>21, <2>22, <2>23, <2>24,
       <2>25 DEF Next, PreviewStep, ExecutionStep
<1>2. QED
  BY <1>1

\* SnapInv is kept by every step.
LEMMA SnapKept ==
  ASSUME TypeOK, SnapInv, [Next]_vars
  PROVE  SnapInv'
<1>1. ASSUME NEW e \in Executor, NEW found \in SUBSET Message, StorePreview(e, found)
      PROVE  SnapInv'
  <2>1. job'.gen = job.gen + 1 /\ job.gen \in Nat
    BY <1>1, CleanupAssumption DEF StorePreview, TypeOK
  <2>2. \A d \in Executor : run'[d].gen <= job.gen
    BY <1>1, <2>1 DEF StorePreview, Stop, Continue, Idle, TypeOK, SnapInv
  <2>3. \A d \in Executor : run'[d].gen \in Nat
    BY <1>1, CleanupAssumption DEF StorePreview, Stop, Continue, Idle, TypeOK, Run
  <2>4. QED
    BY <2>1, <2>2, <2>3 DEF SnapInv
<1>2. ASSUME NEW e \in Executor, BeginExecution(e)
      PROVE  SnapInv'
  <2>1. job'.gen = job.gen /\ items' = items /\ job.gen \in Nat
    BY <1>2, CleanupAssumption DEF BeginExecution, TypeOK
  <2>2. run'[e].gen = job.gen /\ run'[e].snap = items
    BY <1>2 DEF BeginExecution, Continue, Idle, TypeOK
  <2>3. \A d \in Executor \ {e} : run'[d] = run[d]
    BY <1>2 DEF BeginExecution, Continue, TypeOK
  <2>4. QED
    BY <2>1, <2>2, <2>3 DEF SnapInv
<1>3. CASE /\ \A e \in Executor, found \in SUBSET Message : ~StorePreview(e, found)
           /\ \A e \in Executor : ~BeginExecution(e)
  <2>1. /\ job'.gen = job.gen
        /\ DOMAIN items' = DOMAIN items
        /\ \A m \in DOMAIN items : items'[m].rev = items[m].rev
        /\ \A d \in Executor :
             \/ run'[d].gen = run[d].gen /\ run'[d].snap = run[d].snap
             \/ run'[d].gen = 0 /\ run'[d].snap = NoItems
    BY <1>3, PreviewIsFrozen
  <2>2. job.gen \in Nat
    BY CleanupAssumption DEF TypeOK
  <2>3. QED
    BY <2>1, <2>2, NoItemsIsTable DEF SnapInv
<1>4. QED
  BY <1>1, <1>2, <1>3

-----------------------------------------------------------------------------
(* From the copy to the delete call *)

\* In the record r of a call, whatever is marked, prepared for deletion or
\* answered has its copy among the copies ev.
Copied(r, ev) ==
  /\ \A m \in DOMAIN r.snap :
       r.snap[m].evidence = "preserved" => <<m, r.snap[m].rev>> \in ev
  /\ \A m \in r.prepared \cup r.answered : <<m, r.snap[m].rev>> \in ev
  /\ r.pc = "marking" => \A m \in r.cur : <<m, r.snap[m].rev>> \in ev
  /\ r.cur = {} \/ \E m \in Message : r.cur = {m} /\ r.seen = r.snap[m].rev

\* The inductive invariant behind the ledger.
CopyInv ==
  /\ PreservedIsThePreview
  /\ \A e \in Executor : Copied(run[e], evidence)

\* More copies never hurt.
LEMMA CopiedGrows ==
  ASSUME NEW r, NEW ev, NEW more, ev \subseteq more, Copied(r, ev)
  PROVE  Copied(r, more)
  BY DEF Copied

\* An idle executor has nothing to answer for.
LEMMA IdleCopied ==
  ASSUME NEW ev
  PROVE  Copied(Idle, ev)
  BY NoItemsIsTable DEF Copied, Idle

\* Recording an outcome keeps the marks truthful if it marks only copied items.
LEMMA OutcomeKeepsMarks ==
  ASSUME TypeOK, PreservedIsThePreview, NEW e \in Executor,
         NEW ms \in SUBSET Message, NEW o \in Outcome,
         NEW v \in {"pending", "preserved", "failed"},
         items' = ItemsAfter(e, ms, o, v), evidence \subseteq evidence',
         v = "preserved" =>
           \A m \in ms \cap DOMAIN items : Open(e, m) => <<m, items[m].rev>> \in evidence
  PROVE  PreservedIsThePreview'
<1>1. /\ DOMAIN items' = DOMAIN items
      /\ \A m \in DOMAIN items : items'[m].rev = items[m].rev
  <2>1. /\ DOMAIN ItemsAfter(e, ms, o, v) = DOMAIN items
        /\ \A m \in DOMAIN items : ItemsAfter(e, ms, o, v)[m].rev = items[m].rev
    BY ItemsAfterKeepsTable
  <2> QED
    BY <2>1
<1>2. ASSUME NEW m \in DOMAIN items, items'[m].evidence = "preserved"
      PROVE  <<m, items[m].rev>> \in evidence
  <2>1. items[m] \in Item
    BY DEF TypeOK, ItemTable
  <2>2. CASE m \in ms /\ Open(e, m)
    <3>1. items'[m].evidence = v
      BY <2>1, <2>2 DEF ItemsAfter, Item
    <3>2. QED
      BY <1>2, <2>2, <3>1
  <2>3. CASE ~(m \in ms /\ Open(e, m))
    <3>1. items'[m] = items[m]
      BY <2>3 DEF ItemsAfter
    <3>2. QED
      BY <1>2, <3>1 DEF PreservedIsThePreview
  <2>4. QED
    BY <2>2, <2>3
<1>3. QED
  BY <1>1, <1>2 DEF PreservedIsThePreview

\* An executor's reading of an open item is of the stored preview.
LEMMA OpenIsPreviewed ==
  ASSUME SnapInv, NEW e \in Executor, NEW m, Open(e, m)
  PROVE  m \in DOMAIN run[e].snap /\ run[e].snap[m].rev = items[m].rev
  BY DEF SnapInv, Open

\* A step of one executor's call keeps every call copied.
LEMMA CallCopied ==
  ASSUME TypeOK, CopyInv, NEW e \in Executor, NEW r, Continue(e, r),
         evidence \subseteq evidence', Copied(r, evidence')
  PROVE  \A d \in Executor : Copied(run'[d], evidence')
<1>1. run'[e] = r /\ \A d \in Executor \ {e} : run'[d] = run[d]
  BY DEF Continue, TypeOK
<1>2. \A d \in Executor \ {e} : Copied(run[d], evidence')
  BY CopiedGrows DEF CopyInv
<1>3. QED
  BY <1>1, <1>2

\* Calls stay copied: a message enters "prepared" only with its copy, either
\* marked in the item that was read or just posted.
LEMMA CallsStayCopied ==
  ASSUME TypeOK, CopyInv, [Next]_vars
  PROVE  \A d \in Executor : Copied(run'[d], evidence')
<1> DEFINE Goal == \A d \in Executor : Copied(run'[d], evidence')
<1>1. ASSUME NEW e \in Executor, RejectPreview(e)
       PROVE  Goal
  BY <1>1 DEF RejectPreview, CopyInv, discord
<1>2. ASSUME NEW e \in Executor, BeginPreview(e)
       PROVE  Goal
  <3> DEFINE r == [Idle EXCEPT !.pc = "discovering"]
    <3>2. Copied(r, evidence') /\ evidence \subseteq evidence'
      BY <1>2, NoItemsIsTable DEF Copied, Idle, discord, CopyInv, PreservedIsThePreview, BeginPreview
    <3>3. Continue(e, r)
      BY <1>2 DEF BeginPreview
    <3> HIDE DEF r
    <3>4. QED
      BY <3>2, <3>3, CallCopied
<1>3. ASSUME NEW e \in Executor, NEW found \in SUBSET Message, StorePreview(e, found)
       PROVE  Goal
  BY <1>3, IdleCopied, CallCopied DEF StorePreview, Stop, discord
<1>4. ASSUME NEW e \in Executor, PreviewOvertaken(e)
       PROVE  Goal
  BY <1>4, IdleCopied, CallCopied DEF PreviewOvertaken, Stop, discord
<1>5. ASSUME NEW e \in Executor, PreviewThrows(e)
       PROVE  Goal
  BY <1>5, IdleCopied, CallCopied DEF PreviewThrows, Stop, discord
<1>6. ASSUME NEW e \in Executor, BeginExecution(e)
       PROVE  Goal
  <3> DEFINE r == [Idle EXCEPT !.pc = "preparing", !.gen = job.gen, !.snap = items,
                         !.todo = {m \in DOMAIN items : items[m].status = "pending"}]
    <3>2. Copied(r, evidence') /\ evidence \subseteq evidence'
      BY <1>6, NoItemsIsTable DEF Copied, Idle, discord, CopyInv, PreservedIsThePreview, BeginExecution
    <3>3. Continue(e, r)
      BY <1>6 DEF BeginExecution
    <3> HIDE DEF r
    <3>4. QED
      BY <3>2, <3>3, CallCopied
<1>7. ASSUME NEW e \in Executor, NEW m \in Message, SkipMissing(e, m)
       PROVE  Goal
  <3> DEFINE r == [run[e] EXCEPT !.todo = @ \ {m}]
    <3>1. Copied(run[e], evidence)
      BY DEF CopyInv
    <3>2. Copied(r, evidence') /\ evidence \subseteq evidence'
      BY <1>7, <3>1, ExecutorTyped DEF Copied, Run, discord, Copies, SkipMissing, Skip
    <3>3. Continue(e, r)
      BY <1>7 DEF SkipMissing, Skip
    <3> HIDE DEF r
    <3>4. QED
      BY <3>2, <3>3, CallCopied
<1>8. ASSUME NEW e \in Executor, NEW m \in Message, SkipUnreadable(e, m)
       PROVE  Goal
  <3> DEFINE r == [run[e] EXCEPT !.todo = @ \ {m}]
    <3>1. Copied(run[e], evidence)
      BY DEF CopyInv
    <3>2. Copied(r, evidence') /\ evidence \subseteq evidence'
      BY <1>8, <3>1, ExecutorTyped DEF Copied, Run, discord, Copies, SkipUnreadable, Skip
    <3>3. Continue(e, r)
      BY <1>8 DEF SkipUnreadable, Skip
    <3> HIDE DEF r
    <3>4. QED
      BY <3>2, <3>3, CallCopied
<1>9. ASSUME NEW e \in Executor, NEW m \in Message, SkipChanged(e, m)
       PROVE  Goal
  <3> DEFINE r == [run[e] EXCEPT !.todo = @ \ {m}]
    <3>1. Copied(run[e], evidence)
      BY DEF CopyInv
    <3>2. Copied(r, evidence') /\ evidence \subseteq evidence'
      BY <1>9, <3>1, ExecutorTyped DEF Copied, Run, discord, Copies, SkipChanged, Skip
    <3>3. Continue(e, r)
      BY <1>9 DEF SkipChanged, Skip
    <3> HIDE DEF r
    <3>4. QED
      BY <3>2, <3>3, CallCopied
<1>10. ASSUME NEW e \in Executor, NEW m \in Message, ReuseEvidence(e, m)
       PROVE  Goal
  <3> DEFINE r == [run[e] EXCEPT !.todo = @ \ {m}, !.prepared = @ \cup {m}]
    <3>1. Copied(run[e], evidence)
      BY DEF CopyInv
    <3>2. Copied(r, evidence') /\ evidence \subseteq evidence'
      BY <1>10, <3>1, ExecutorTyped, SnapItem DEF Copied, Run, discord, Copies, ReuseEvidence, Fetched
    <3>3. Continue(e, r)
      BY <1>10 DEF ReuseEvidence
    <3> HIDE DEF r
    <3>4. QED
      BY <3>2, <3>3, CallCopied
<1>11. ASSUME NEW e \in Executor, NEW m \in Message, StartPreserving(e, m)
       PROVE  Goal
  <3> DEFINE r == [run[e] EXCEPT !.pc = "preserving", !.cur = {m}, !.seen = rev[m],
                          !.todo = @ \ {m}]
    <3>1. Copied(run[e], evidence)
      BY DEF CopyInv
    <3>2. Copied(r, evidence') /\ evidence \subseteq evidence'
      BY <1>11, <3>1, ExecutorTyped DEF Copied, Run, discord, Copies, StartPreserving, Fetched
    <3>3. Continue(e, r)
      BY <1>11 DEF StartPreserving
    <3> HIDE DEF r
    <3>4. QED
      BY <3>2, <3>3, CallCopied
<1>12. ASSUME NEW e \in Executor, NEW m \in Message, Record(e, m)
       PROVE  Goal
  <3> DEFINE r == [run[e] EXCEPT !.answered = @ \ {m}]
    <3>1. Copied(run[e], evidence)
      BY DEF CopyInv
    <3>2. Copied(r, evidence') /\ evidence \subseteq evidence'
      BY <1>12, <3>1, ExecutorTyped DEF Copied, Run, discord, Copies, Record
    <3>3. Continue(e, r)
      BY <1>12 DEF Record
    <3> HIDE DEF r
    <3>4. QED
      BY <3>2, <3>3, CallCopied
<1>13. ASSUME NEW e \in Executor, PostEvidence(e)
       PROVE  Goal
  <3> DEFINE r == [run[e] EXCEPT !.pc = "marking"]
    <3>1. Copied(run[e], evidence)
      BY DEF CopyInv
    <3>2. Copied(r, evidence') /\ evidence \subseteq evidence'
      BY <1>13, <3>1, ExecutorTyped DEF Copied, Run, discord, Copies, PostEvidence
    <3>3. Continue(e, r)
      BY <1>13 DEF PostEvidence
    <3> HIDE DEF r
    <3>4. QED
      BY <3>2, <3>3, CallCopied
<1>14. ASSUME NEW e \in Executor, PostEvidenceFails(e)
       PROVE  Goal
  <3> DEFINE r == [run[e] EXCEPT !.pc = "preparing", !.cur = {}]
    <3>1. Copied(run[e], evidence)
      BY DEF CopyInv
    <3>2. Copied(r, evidence') /\ evidence \subseteq evidence'
      BY <1>14, <3>1, ExecutorTyped DEF Copied, Run, discord, Copies, PostEvidenceFails
    <3>3. Continue(e, r)
      BY <1>14 DEF PostEvidenceFails
    <3> HIDE DEF r
    <3>4. QED
      BY <3>2, <3>3, CallCopied
<1>15. ASSUME NEW e \in Executor, MarkPreserved(e)
       PROVE  Goal
  <3> DEFINE r == [run[e] EXCEPT !.pc = "preparing", !.cur = {},
                           !.prepared = @ \cup run[e].cur]
    <3>1. Copied(run[e], evidence)
      BY DEF CopyInv
    <3>2. Copied(r, evidence') /\ evidence \subseteq evidence'
      BY <1>15, <3>1, ExecutorTyped DEF Copied, Run, discord, Copies, MarkPreserved
    <3>3. Continue(e, r)
      BY <1>15 DEF MarkPreserved
    <3> HIDE DEF r
    <3>4. QED
      BY <3>2, <3>3, CallCopied
<1>16. ASSUME NEW e \in Executor, MarkThrows(e)
       PROVE  Goal
  <3> DEFINE r == [run[e] EXCEPT !.pc = "preparing", !.cur = {}]
    <3>1. Copied(run[e], evidence)
      BY DEF CopyInv
    <3>2. Copied(r, evidence') /\ evidence \subseteq evidence'
      BY <1>16, <3>1, ExecutorTyped DEF Copied, Run, discord, Copies, MarkThrows
    <3>3. Continue(e, r)
      BY <1>16 DEF MarkThrows
    <3> HIDE DEF r
    <3>4. QED
      BY <3>2, <3>3, CallCopied
<1>17. ASSUME NEW e \in Executor, NEW batch \in SUBSET Message, Delete(e, batch)
       PROVE  Goal
  <3> DEFINE r == [run[e] EXCEPT !.prepared = @ \ batch,
                           !.answered = batch, !.outcome = "deleted"]
    <3>1. Copied(run[e], evidence)
      BY DEF CopyInv
    <3>2. Copied(r, evidence') /\ evidence \subseteq evidence'
      BY <1>17, <3>1, ExecutorTyped DEF Copied, Run, discord, Copies, Delete
    <3>3. Continue(e, r)
      BY <1>17 DEF Delete
    <3> HIDE DEF r
    <3>4. QED
      BY <3>2, <3>3, CallCopied
<1>18. ASSUME NEW e \in Executor, NEW batch \in SUBSET Message, DeleteFails(e, batch)
       PROVE  Goal
  <3> DEFINE r == [run[e] EXCEPT !.prepared = @ \ batch,
                           !.answered = batch, !.outcome = "not_deleted"]
    <3>1. Copied(run[e], evidence)
      BY DEF CopyInv
    <3>2. Copied(r, evidence') /\ evidence \subseteq evidence'
      BY <1>18, <3>1, ExecutorTyped DEF Copied, Run, discord, Copies, DeleteFails
    <3>3. Continue(e, r)
      BY <1>18 DEF DeleteFails
    <3> HIDE DEF r
    <3>4. QED
      BY <3>2, <3>3, CallCopied
<1>19. ASSUME NEW e \in Executor, CompleteJob(e)
       PROVE  Goal
  BY <1>19, IdleCopied, CallCopied DEF CompleteJob, Stop, discord
<1>20. ASSUME NEW e \in Executor, ExecutionThrows(e)
       PROVE  Goal
  BY <1>20, IdleCopied, CallCopied DEF ExecutionThrows, Stop, discord
<1>21. ASSUME NEW e \in Executor, Crash(e)
       PROVE  Goal
  BY <1>21, IdleCopied, CallCopied DEF Crash, Stop, discord
<1>22. ASSUME NEW m \in Message, EditMessage(m)
       PROVE  Goal
  BY <1>22 DEF EditMessage, CopyInv, discord
<1>23. ASSUME NEW m \in Message, AuthorDeletes(m)
       PROVE  Goal
  BY <1>23 DEF AuthorDeletes, CopyInv, discord
<1>24. ASSUME ModerateCase
       PROVE  Goal
  BY <1>24 DEF ModerateCase, CopyInv, discord
<1>25. CASE UNCHANGED vars
  BY <1>25 DEF vars, CopyInv
<1>26. QED
  BY <1>1, <1>2, <1>3, <1>4, <1>5, <1>6, <1>7, <1>8,
     <1>9, <1>10, <1>11, <1>12, <1>13, <1>14, <1>15, <1>16,
     <1>17, <1>18, <1>19, <1>20, <1>21, <1>22, <1>23, <1>24,
     <1>25 DEF Next, PreviewStep, ExecutionStep

\* Marks stay truthful: an outcome written with the evidence status "preserved"
\* is one of a copied message.
LEMMA MarksStayTruthful ==
  ASSUME TypeOK, SnapInv, CopyInv, [Next]_vars
  PROVE  PreservedIsThePreview'
<1> USE DEF Outcome
<1>1. ASSUME NEW e \in Executor, RejectPreview(e)
       PROVE  PreservedIsThePreview'
  BY <1>1 DEF RejectPreview, CopyInv, PreservedIsThePreview, discord
<1>2. ASSUME NEW e \in Executor, BeginPreview(e)
       PROVE  PreservedIsThePreview'
  BY <1>2 DEF BeginPreview, CopyInv, PreservedIsThePreview, discord
<1>3. ASSUME NEW e \in Executor, NEW found \in SUBSET Message, StorePreview(e, found)
       PROVE  PreservedIsThePreview'
  <2>1. items' \in ItemsFound(found)
    BY <1>3 DEF StorePreview
  <2>2. \A m \in DOMAIN items' : items'[m].evidence = "pending"
    BY <2>1, PreviewIsTable
  <2>3. QED
    BY <2>2 DEF PreservedIsThePreview
<1>4. ASSUME NEW e \in Executor, PreviewOvertaken(e)
       PROVE  PreservedIsThePreview'
  BY <1>4 DEF PreviewOvertaken, CopyInv, PreservedIsThePreview, discord
<1>5. ASSUME NEW e \in Executor, PreviewThrows(e)
       PROVE  PreservedIsThePreview'
  BY <1>5 DEF PreviewThrows, CopyInv, PreservedIsThePreview, discord
<1>6. ASSUME NEW e \in Executor, BeginExecution(e)
       PROVE  PreservedIsThePreview'
  BY <1>6 DEF BeginExecution, CopyInv, PreservedIsThePreview, discord
<1>7. ASSUME NEW e \in Executor, NEW m \in Message, SkipMissing(e, m)
       PROVE  PreservedIsThePreview'
  <3>1. m \in run[e].todo /\ items' = ItemsAfter(e, {m}, "already_missing", run[e].snap[m].evidence)
      BY <1>7 DEF SkipMissing, Skip
    <3>2. run[e].snap[m].evidence \in {"pending", "preserved", "failed"}
      BY <3>1, SnapItem DEF Item
    <3>3. ASSUME run[e].snap[m].evidence = "preserved", Open(e, m)
          PROVE  <<m, items[m].rev>> \in evidence
      BY <3>3, OpenIsPreviewed DEF CopyInv, Copied
    <3>4. evidence' = evidence
      BY <1>7 DEF SkipMissing, Skip, discord
    <3>5. QED
      BY <3>1, <3>2, <3>3, <3>4, OutcomeKeepsMarks DEF CopyInv
<1>8. ASSUME NEW e \in Executor, NEW m \in Message, SkipUnreadable(e, m)
       PROVE  PreservedIsThePreview'
  <3>1. m \in run[e].todo /\ items' = ItemsAfter(e, {m}, "not_deleted", run[e].snap[m].evidence)
      BY <1>8 DEF SkipUnreadable, Skip
    <3>2. run[e].snap[m].evidence \in {"pending", "preserved", "failed"}
      BY <3>1, SnapItem DEF Item
    <3>3. ASSUME run[e].snap[m].evidence = "preserved", Open(e, m)
          PROVE  <<m, items[m].rev>> \in evidence
      BY <3>3, OpenIsPreviewed DEF CopyInv, Copied
    <3>4. evidence' = evidence
      BY <1>8 DEF SkipUnreadable, Skip, discord
    <3>5. QED
      BY <3>1, <3>2, <3>3, <3>4, OutcomeKeepsMarks DEF CopyInv
<1>9. ASSUME NEW e \in Executor, NEW m \in Message, SkipChanged(e, m)
       PROVE  PreservedIsThePreview'
  <3>1. m \in run[e].todo /\ items' = ItemsAfter(e, {m}, "changed", run[e].snap[m].evidence)
      BY <1>9 DEF SkipChanged, Skip
    <3>2. run[e].snap[m].evidence \in {"pending", "preserved", "failed"}
      BY <3>1, SnapItem DEF Item
    <3>3. ASSUME run[e].snap[m].evidence = "preserved", Open(e, m)
          PROVE  <<m, items[m].rev>> \in evidence
      BY <3>3, OpenIsPreviewed DEF CopyInv, Copied
    <3>4. evidence' = evidence
      BY <1>9 DEF SkipChanged, Skip, discord
    <3>5. QED
      BY <3>1, <3>2, <3>3, <3>4, OutcomeKeepsMarks DEF CopyInv
<1>10. ASSUME NEW e \in Executor, NEW m \in Message, ReuseEvidence(e, m)
       PROVE  PreservedIsThePreview'
  BY <1>10 DEF ReuseEvidence, CopyInv, PreservedIsThePreview, discord
<1>11. ASSUME NEW e \in Executor, NEW m \in Message, StartPreserving(e, m)
       PROVE  PreservedIsThePreview'
  BY <1>11 DEF StartPreserving, CopyInv, PreservedIsThePreview, discord
<1>12. ASSUME NEW e \in Executor, NEW m \in Message, Record(e, m)
       PROVE  PreservedIsThePreview'
  <3>1. m \in run[e].answered
          /\ items' = ItemsAfter(e, {m}, run[e].outcome, "preserved") /\ evidence' = evidence
      BY <1>12 DEF Record, discord
    <3> DEFINE arrived == {m}
    <3>2. arrived \in SUBSET Message /\ arrived \subseteq run[e].answered /\ run[e].outcome \in Outcome
      BY <3>1, ExecutorTyped DEF Run
    <3>3. ASSUME NEW n \in arrived, Open(e, n)
          PROVE  <<n, items[n].rev>> \in evidence
      <4>1. <<n, run[e].snap[n].rev>> \in evidence
        BY <3>2 DEF CopyInv, Copied
      <4>2. QED
        BY <3>3, <4>1, OpenIsPreviewed
    <3>4. QED
      BY <3>1, <3>2, <3>3, OutcomeKeepsMarks DEF CopyInv
<1>13. ASSUME NEW e \in Executor, PostEvidence(e)
       PROVE  PreservedIsThePreview'
  BY <1>13 DEF PostEvidence, CopyInv, PreservedIsThePreview, discord
<1>14. ASSUME NEW e \in Executor, PostEvidenceFails(e)
       PROVE  PreservedIsThePreview'
  <3>1. items' = ItemsAfter(e, run[e].cur, "evidence_failed", "failed") /\ evidence \subseteq evidence'
      BY <1>14 DEF PostEvidenceFails, discord
    <3>2. QED
      BY <3>1, ExecutorTyped, OutcomeKeepsMarks DEF CopyInv, Run
<1>15. ASSUME NEW e \in Executor, MarkPreserved(e)
       PROVE  PreservedIsThePreview'
  <3>1. /\ DOMAIN items' = DOMAIN items
          /\ \A m \in DOMAIN items : items'[m].rev = items[m].rev
      BY <1>15, MarkKeepsTable DEF MarkPreserved
    <3>2. ASSUME NEW m \in DOMAIN items, items'[m].evidence = "preserved"
          PROVE  <<m, items[m].rev>> \in evidence
      <4>1. CASE m \in run[e].cur /\ Open(e, m)
        <5>1. <<m, run[e].snap[m].rev>> \in evidence
          BY <1>15, <4>1 DEF MarkPreserved, CopyInv, Copied
        <5>2. QED
          BY <4>1, <5>1, OpenIsPreviewed
      <4>2. CASE ~(m \in run[e].cur /\ Open(e, m))
        BY <1>15, <3>2, <4>2 DEF MarkPreserved, CopyInv, PreservedIsThePreview
      <4>3. QED
        BY <4>1, <4>2
    <3>3. QED
      BY <1>15, <3>1, <3>2 DEF MarkPreserved, PreservedIsThePreview, discord
<1>16. ASSUME NEW e \in Executor, MarkThrows(e)
       PROVE  PreservedIsThePreview'
  <3>1. items' = ItemsAfter(e, run[e].cur, "evidence_failed", "failed") /\ evidence \subseteq evidence'
      BY <1>16 DEF MarkThrows, discord
    <3>2. QED
      BY <3>1, ExecutorTyped, OutcomeKeepsMarks DEF CopyInv, Run
<1>17. ASSUME NEW e \in Executor, NEW batch \in SUBSET Message, Delete(e, batch)
       PROVE  PreservedIsThePreview'
  BY <1>17 DEF Delete, CopyInv, PreservedIsThePreview, discord
<1>18. ASSUME NEW e \in Executor, NEW batch \in SUBSET Message, DeleteFails(e, batch)
       PROVE  PreservedIsThePreview'
  BY <1>18 DEF DeleteFails, CopyInv, PreservedIsThePreview, discord
<1>19. ASSUME NEW e \in Executor, CompleteJob(e)
       PROVE  PreservedIsThePreview'
  BY <1>19 DEF CompleteJob, CopyInv, PreservedIsThePreview, discord
<1>20. ASSUME NEW e \in Executor, ExecutionThrows(e)
       PROVE  PreservedIsThePreview'
  <3>1. PICK arrived \in SUBSET run[e].answered :
            items' = ItemsAfter(e, arrived, run[e].outcome, "preserved") /\ evidence' = evidence
      BY <1>20 DEF ExecutionThrows, discord
    <3>2. arrived \in SUBSET Message /\ arrived \subseteq run[e].answered /\ run[e].outcome \in Outcome
      BY <3>1, ExecutorTyped DEF Run
    <3>3. ASSUME NEW n \in arrived, Open(e, n)
          PROVE  <<n, items[n].rev>> \in evidence
      <4>1. <<n, run[e].snap[n].rev>> \in evidence
        BY <3>2 DEF CopyInv, Copied
      <4>2. QED
        BY <3>3, <4>1, OpenIsPreviewed
    <3>4. QED
      BY <3>1, <3>2, <3>3, OutcomeKeepsMarks DEF CopyInv
<1>21. ASSUME NEW e \in Executor, Crash(e)
       PROVE  PreservedIsThePreview'
  BY <1>21 DEF Crash, CopyInv, PreservedIsThePreview, discord
<1>22. ASSUME NEW m \in Message, EditMessage(m)
       PROVE  PreservedIsThePreview'
  BY <1>22 DEF EditMessage, CopyInv, PreservedIsThePreview, discord
<1>23. ASSUME NEW m \in Message, AuthorDeletes(m)
       PROVE  PreservedIsThePreview'
  BY <1>23 DEF AuthorDeletes, CopyInv, PreservedIsThePreview, discord
<1>24. ASSUME ModerateCase
       PROVE  PreservedIsThePreview'
  BY <1>24 DEF ModerateCase, CopyInv, PreservedIsThePreview, discord
<1>25. CASE UNCHANGED vars
  BY <1>25 DEF vars, CopyInv, PreservedIsThePreview
<1>26. QED
  BY <1>1, <1>2, <1>3, <1>4, <1>5, <1>6, <1>7, <1>8,
     <1>9, <1>10, <1>11, <1>12, <1>13, <1>14, <1>15, <1>16,
     <1>17, <1>18, <1>19, <1>20, <1>21, <1>22, <1>23, <1>24,
     <1>25 DEF Next, PreviewStep, ExecutionStep

\* The three invariants together are inductive.
LEMMA CleanupInvariant == Spec => [](SnapInv /\ CopyInv)
<1>1. Init => SnapInv /\ CopyInv
  BY IdleCopied, NoItemsIsTable
  DEF Init, SnapInv, CopyInv, PreservedIsThePreview, Idle
<1>2. TypeOK /\ SnapInv /\ CopyInv /\ [Next]_vars => (SnapInv /\ CopyInv)'
  <2> SUFFICES ASSUME TypeOK, SnapInv, CopyInv, [Next]_vars
               PROVE  (SnapInv /\ CopyInv)'
    OBVIOUS
  <2>1. SnapInv'
    BY SnapKept
  <2>2. CopyInv'
    BY CallsStayCopied, MarksStayTruthful DEF CopyInv
  <2>3. QED
    BY <2>1, <2>2
<1>3. QED
  BY <1>1, <1>2, CleanupTypeCorrect, PTL DEF Spec

\* An item marked preserved has a copy of the revision that was previewed.
THEOREM MarksAreTruthful == Spec => []PreservedIsThePreview
<1>1. CopyInv => PreservedIsThePreview
  BY DEF CopyInv
<1>2. QED
  BY <1>1, CleanupInvariant, PTL

\* Every step of a cleanup job is a step of the ledger or a stutter: copies are
\* added one message at a time, and what a delete call removes has been copied.
THEOREM CleanupImplementsLedger == Spec => LedgerSpec
<1> DEFINE kept == {m \in Message : \E r \in 0..MaxRev : <<m, r>> \in evidence}
           gone == {m \in Message : \E r \in 0..MaxRev : <<m, r>> \in destroyed}
<1>1. Init => Ledger!Init
  BY DEF Init, Ledger!Init
<1>2. TypeOK /\ CopyInv /\ [Next]_vars => [Ledger!Next]_(Ledger!vars)
  <2> SUFFICES ASSUME TypeOK, CopyInv, [Next]_vars
               PROVE  Ledger!Next \/ UNCHANGED Ledger!vars
    OBVIOUS
  <2>1. ASSUME NEW e \in Executor, PostEvidence(e) \/ PostEvidenceFails(e)
        PROVE  Ledger!Next \/ UNCHANGED Ledger!vars
    <3>1. CASE evidence' = evidence
      BY <2>1, <3>1 DEF PostEvidence, PostEvidenceFails, Ledger!vars
    <3>2. CASE evidence' # evidence
      <4>1. evidence' = evidence \cup Copies(e) /\ destroyed' = destroyed
        BY <2>1, <3>2 DEF PostEvidence, PostEvidenceFails
      <4>2. PICK m \in Message : run[e].cur = {m}
        BY <3>2, <4>1 DEF CopyInv, Copied, Copies
      <4>3. Copies(e) = {<<m, run[e].seen>>} /\ run[e].seen \in 0..MaxRev
        BY <4>2, ExecutorTyped DEF Copies, Run
      <4>4. kept' = kept \cup {m} /\ gone' = gone
        BY <4>1, <4>3
      <4>5. QED
        BY <4>4 DEF Ledger!Next, Ledger!Preserve
    <3>3. QED
      BY <3>1, <3>2
  <2>2. ASSUME NEW e \in Executor, NEW batch \in SUBSET Message,
               Delete(e, batch) \/ DeleteFails(e, batch)
        PROVE  Ledger!Next \/ UNCHANGED Ledger!vars
    <3>1. PICK D \in SUBSET batch : Destroy(D)
      BY <2>2 DEF Delete, DeleteFails
    <3>2. batch \subseteq run[e].prepared /\ evidence' = evidence
      BY <2>2 DEF Delete, DeleteFails
    <3>3. D \subseteq kept
      <4> SUFFICES ASSUME NEW m \in D
                   PROVE  m \in kept
        OBVIOUS
      <4>1. <<m, run[e].snap[m].rev>> \in evidence
        BY <3>2 DEF CopyInv, Copied
      <4>2. run[e].snap[m].rev \in 0..MaxRev
        BY <3>2, SnapItem DEF Item
      <4>3. QED
        BY <4>1, <4>2
    <3>4. gone' = gone \cup D /\ kept' = kept
      BY <3>1, <3>2 DEF Destroy, TypeOK
    <3>5. QED
      BY <3>3, <3>4 DEF Ledger!Next, Ledger!Destroy
  <2>3. CASE UNCHANGED <<evidence, destroyed>>
    BY <2>3 DEF Ledger!vars
  <2>4. CASE Next
    <3>1. CASE \E e \in Executor : PreviewStep(e) \/ BeginExecution(e) \/ Crash(e)
      <4>1. PICK e \in Executor : PreviewStep(e) \/ BeginExecution(e) \/ Crash(e)
        BY <3>1
      <4>2. UNCHANGED <<evidence, destroyed>>
        <5>1. CASE PreviewStep(e)
          BY <5>1 DEF PreviewStep, RejectPreview, BeginPreview, StorePreview,
             PreviewOvertaken, PreviewThrows, discord
        <5>2. CASE BeginExecution(e)
          BY <5>2 DEF BeginExecution, discord
        <5>3. CASE Crash(e)
          BY <5>3 DEF Crash, discord
        <5>4. QED
          BY <4>1, <5>1, <5>2, <5>3
      <4>3. QED
        BY <2>3, <4>2
    <3>2. CASE \E e \in Executor : ExecutionStep(e)
      <4>1. PICK e \in Executor : ExecutionStep(e)
        BY <3>2
      <4>2. CASE PostEvidence(e) \/ PostEvidenceFails(e)
        BY <2>1, <4>2
      <4>3. CASE \E batch \in SUBSET Message : Delete(e, batch) \/ DeleteFails(e, batch)
        BY <2>2, <4>3
      <4>4. CASE \E m \in Message : SkipMissing(e, m) \/ SkipUnreadable(e, m) \/ SkipChanged(e, m)
        BY <2>3, <4>4 DEF SkipMissing, SkipUnreadable, SkipChanged, Skip, discord
      <4>5. CASE \E m \in Message : ReuseEvidence(e, m) \/ StartPreserving(e, m) \/ Record(e, m)
        BY <2>3, <4>5 DEF ReuseEvidence, StartPreserving, Record, discord
      <4>6. CASE MarkPreserved(e) \/ MarkThrows(e)
        BY <2>3, <4>6 DEF MarkPreserved, MarkThrows, discord
      <4>7. CASE CompleteJob(e) \/ ExecutionThrows(e)
        BY <2>3, <4>7 DEF CompleteJob, ExecutionThrows, discord
      <4>8. QED
        BY <4>1, <4>2, <4>3, <4>4, <4>5, <4>6, <4>7 DEF ExecutionStep
    <3>3. CASE (\E m \in Message : EditMessage(m) \/ AuthorDeletes(m)) \/ ModerateCase
      BY <2>3, <3>3 DEF EditMessage, AuthorDeletes, ModerateCase, discord
    <3>4. QED
      BY <2>4, <3>1, <3>2, <3>3 DEF Next
  <2>5. CASE UNCHANGED vars
    BY <2>3, <2>5 DEF vars
  <2>6. QED
    BY <2>4, <2>5
<1>3. QED
  BY <1>1, <1>2, CleanupTypeCorrect, CleanupInvariant, PTL DEF Spec, LedgerSpec, Ledger!Spec

-----------------------------------------------------------------------------
(* Outcomes *)

\* What an update of outcomes writes: only open items, and what it is told to.
LEMMA ItemsAfterWrites ==
  ASSUME TypeOK, NEW e \in Executor, NEW ms, NEW o, NEW v, items' = ItemsAfter(e, ms, o, v)
  PROVE  /\ DOMAIN items' = DOMAIN items
         /\ \A m \in DOMAIN items :
              IF m \in ms /\ Open(e, m)
              THEN items'[m].status = o /\ items'[m].evidence = v
              ELSE items'[m] = items[m]
<1>1. \A m \in DOMAIN items : items[m] \in Item
  BY DEF TypeOK, ItemTable
<1>2. QED
  BY <1>1 DEF ItemsAfter, Item

\* The calls that write outcomes, with the messages, the outcome and the evidence
\* status that they write.
Writes(e, ms, o, v) == items' = ItemsAfter(e, ms, o, v)
WritesOutcome(e) ==
  \/ \E ms \in SUBSET Message, o \in Outcome \ {"deleted"}, v \in {"pending", "preserved", "failed"} :
       Writes(e, ms, o, v)
  \/ \E ms \in SUBSET run[e].answered : Writes(e, ms, run[e].outcome, "preserved")
Marks(e) ==
  items' = [m \in DOMAIN items |->
              IF m \in run[e].cur /\ Open(e, m)
              THEN [items[m] EXCEPT !.evidence = "preserved"]
              ELSE items[m]]

\* Every step stores a preview, leaves the items alone, or writes to them as one
\* of the executors that are in a call.
LEMMA ItemWrites ==
  ASSUME TypeOK, [Next]_vars
  PROVE  \/ \E e \in Executor, found \in SUBSET Message : StorePreview(e, found)
         \/ job'.gen = job.gen /\ items' = items
         \/ job'.gen = job.gen /\ \E e \in Executor : WritesOutcome(e) \/ Marks(e)
<1> DEFINE Goal ==
      \/ \E e \in Executor, found \in SUBSET Message : StorePreview(e, found)
      \/ job'.gen = job.gen /\ items' = items
      \/ job'.gen = job.gen /\ \E e \in Executor : WritesOutcome(e) \/ Marks(e)
<1>1. ASSUME NEW e \in Executor, PreviewStep(e) PROVE Goal
  BY <1>1 DEF PreviewStep, RejectPreview, BeginPreview, PreviewOvertaken, PreviewThrows,
     FailedJob, TypeOK
<1>2. ASSUME NEW e \in Executor, BeginExecution(e) \/ Crash(e) PROVE Goal
  BY <1>2 DEF BeginExecution, Crash, TypeOK
<1>3. ASSUME NEW m \in Message, EditMessage(m) \/ AuthorDeletes(m) PROVE Goal
  BY <1>3 DEF EditMessage, AuthorDeletes
<1>4. ASSUME ModerateCase \/ UNCHANGED vars PROVE Goal
  BY <1>4 DEF ModerateCase, vars
<1>5. ASSUME NEW e \in Executor, NEW m \in Message,
             SkipMissing(e, m) \/ SkipUnreadable(e, m) \/ SkipChanged(e, m)
      PROVE  Goal
  <2>1. m \in run[e].todo
    BY <1>5 DEF SkipMissing, SkipUnreadable, SkipChanged, Skip
  <2>2. run[e].snap[m].evidence \in {"pending", "preserved", "failed"}
    BY <2>1, SnapItem DEF Item
  <2>3. /\ \E o \in Outcome \ {"deleted"} : Writes(e, {m}, o, run[e].snap[m].evidence)
        /\ job' = job
    BY <1>5 DEF SkipMissing, SkipUnreadable, SkipChanged, Skip, Writes, Outcome
  <2>4. {m} \in SUBSET Message
    OBVIOUS
  <2>5. QED
    BY <2>2, <2>3, <2>4 DEF WritesOutcome
<1>6. ASSUME NEW e \in Executor, NEW m \in Message, ReuseEvidence(e, m) \/ StartPreserving(e, m)
      PROVE  Goal
  BY <1>6 DEF ReuseEvidence, StartPreserving
<1>7. ASSUME NEW e \in Executor, NEW m \in Message, Record(e, m) PROVE Goal
  <2>1. {m} \in SUBSET run[e].answered /\ Writes(e, {m}, run[e].outcome, "preserved") /\ job' = job
    BY <1>7 DEF Record, Writes
  <2>2. QED
    BY <2>1 DEF WritesOutcome
<1>8. ASSUME NEW e \in Executor, PostEvidence(e) \/ CompleteJob(e) PROVE Goal
  BY <1>8 DEF PostEvidence, CompleteJob, TypeOK
<1>9. ASSUME NEW e \in Executor, PostEvidenceFails(e) \/ MarkThrows(e) PROVE Goal
  <2>1. run[e].cur \in SUBSET Message
    BY ExecutorTyped DEF Run
  <2>2. "evidence_failed" \in Outcome \ {"deleted"}
    BY DEF Outcome
  <2>3. Writes(e, run[e].cur, "evidence_failed", "failed") /\ job' = job
    BY <1>9 DEF PostEvidenceFails, MarkThrows, Writes
  <2>4. QED
    BY <2>1, <2>2, <2>3 DEF WritesOutcome
<1>10. ASSUME NEW e \in Executor, MarkPreserved(e) PROVE Goal
  BY <1>10 DEF MarkPreserved, Marks
<1>11. ASSUME NEW e \in Executor, NEW batch \in SUBSET Message, Delete(e, batch) \/ DeleteFails(e, batch)
       PROVE  Goal
  BY <1>11 DEF Delete, DeleteFails
<1>12. ASSUME NEW e \in Executor, ExecutionThrows(e) PROVE Goal
  <2>1. /\ \E ms \in SUBSET run[e].answered : Writes(e, ms, run[e].outcome, "preserved")
        /\ job' = FailedJob
    BY <1>12 DEF ExecutionThrows, Writes
  <2>2. job'.gen = job.gen
    BY <2>1 DEF FailedJob, TypeOK
  <2>3. QED
    BY <2>1, <2>2 DEF WritesOutcome
<1>13. QED
  <2> HIDE DEF Goal
  <2>1. Goal
    BY <1>1, <1>2, <1>3, <1>4, <1>5, <1>6, <1>7, <1>8, <1>9, <1>10, <1>11, <1>12
       DEF Next, ExecutionStep
  <2>2. QED
    BY <2>1 DEF Goal

\* A recorded outcome is not rewritten within a preview, for any number of executors,
\* exclusive or not: a late writer finds the item closed, or of another preview.
LEMMA RecordedStays ==
  ASSUME TypeOK, [Next]_vars, NEW m \in DOMAIN items,
         job'.gen = job.gen, items[m].status # "pending"
  PROVE  m \in DOMAIN items' /\ items'[m] = items[m]
<1>1. ASSUME NEW e \in Executor, NEW found \in SUBSET Message, StorePreview(e, found) PROVE FALSE
  <2>1. job'.gen = job.gen + 1 /\ job.gen \in Nat
    BY <1>1, CleanupAssumption DEF StorePreview, TypeOK
  <2>2. QED
    BY <2>1
<1>2. ASSUME NEW e \in Executor, WritesOutcome(e) PROVE m \in DOMAIN items' /\ items'[m] = items[m]
  <2>1. PICK ms, o, v : items' = ItemsAfter(e, ms, o, v)
    BY <1>2 DEF WritesOutcome, Writes
  <2>2. ~Open(e, m)
    BY DEF Open
  <2>3. QED
    BY <2>1, <2>2, ItemsAfterWrites
<1>3. ASSUME NEW e \in Executor, Marks(e) PROVE m \in DOMAIN items' /\ items'[m] = items[m]
  BY <1>3 DEF Marks, Open
<1>4. QED
  BY <1>1, <1>2, <1>3, ItemWrites

\* Within one preview no recorded outcome is ever rewritten.
THEOREM OutcomesAreFinal == Spec => OutcomeIsFinal
<1>1. TypeOK /\ [Next]_vars =>
        [\A m \in DOMAIN items :
           job'.gen = job.gen /\ items[m].status # "pending" => items'[m] = items[m]]_vars
  BY RecordedStays
<1>2. QED
  BY <1>1, CleanupTypeCorrect, PTL DEF Spec, OutcomeIsFinal

-----------------------------------------------------------------------------
(* What is recorded as deleted is gone *)

\* The messages of a delete call that was answered are gone, before their outcome is
\* recorded; the author cannot bring them back.
AnswersAreGone ==
  \A e \in Executor : run[e].outcome = "deleted" => run[e].answered \cap present = {}

\* No message comes back.
LEMMA NothingComesBack ==
  ASSUME TypeOK, [Next]_vars
  PROVE  present' \subseteq present
<1>1. ASSUME NEW e \in Executor, PreviewStep(e) PROVE present' \subseteq present
  BY <1>1 DEF PreviewStep, RejectPreview, BeginPreview, StorePreview, PreviewOvertaken,
     PreviewThrows, discord
<1>2. ASSUME NEW e \in Executor, NEW batch \in SUBSET Message, Delete(e, batch) \/ DeleteFails(e, batch)
      PROVE  present' \subseteq present
  BY <1>2 DEF Delete, DeleteFails, Destroy
<1>3. ASSUME NEW e \in Executor, NEW m \in Message,
             \/ SkipMissing(e, m) \/ SkipUnreadable(e, m) \/ SkipChanged(e, m)
             \/ ReuseEvidence(e, m) \/ StartPreserving(e, m) \/ Record(e, m)
      PROVE  present' \subseteq present
  BY <1>3 DEF SkipMissing, SkipUnreadable, SkipChanged, Skip, ReuseEvidence, StartPreserving,
     Record, discord
<1>4. ASSUME NEW e \in Executor,
             \/ BeginExecution(e) \/ PostEvidence(e) \/ PostEvidenceFails(e) \/ MarkPreserved(e)
             \/ MarkThrows(e) \/ CompleteJob(e) \/ ExecutionThrows(e) \/ Crash(e)
      PROVE  present' \subseteq present
  BY <1>4 DEF BeginExecution, PostEvidence, PostEvidenceFails, MarkPreserved, MarkThrows,
     CompleteJob, ExecutionThrows, Crash, discord
<1>5. ASSUME NEW m \in Message, EditMessage(m) \/ AuthorDeletes(m) PROVE present' \subseteq present
  BY <1>5 DEF EditMessage, AuthorDeletes
<1>6. CASE ModerateCase \/ UNCHANGED vars
  BY <1>6 DEF ModerateCase, vars, discord
<1>7. QED
  BY <1>1, <1>2, <1>3, <1>4, <1>5, <1>6 DEF Next, ExecutionStep

\* Outside of a delete call an executor has no more to record than before.
Answers(e, r) ==
  \/ r.answered = {}
  \/ r.outcome = run[e].outcome /\ r.answered \subseteq run[e].answered

\* How the calls change what executors have to record.
LEMMA AnswersRecorded ==
  ASSUME TypeOK, [Next]_vars, NEW d \in Executor
  PROVE  \/ Answers(d, run'[d])
         \/ run'[d].outcome # "deleted"
         \/ run'[d].answered \cap present' = {}
<1> DEFINE Goal ==
      \/ Answers(d, run'[d])
      \/ run'[d].outcome # "deleted"
      \/ run'[d].answered \cap present' = {}
<1>1. ASSUME NEW e \in Executor, NEW r, Continue(e, r),
             Answers(e, r) \/ r.outcome # "deleted" \/ r.answered \cap present' = {}
      PROVE  Goal
  BY <1>1 DEF Continue, TypeOK, Answers
<1>2. CASE run' = run
  BY <1>2 DEF Answers
<1>3. ASSUME NEW e \in Executor, PreviewStep(e) \/ BeginExecution(e) PROVE Goal
  <2>1. CASE RejectPreview(e)
    BY <1>2, <2>1 DEF RejectPreview
  <2>2. CASE BeginPreview(e)
    <3>1. [Idle EXCEPT !.pc = "discovering"].answered = {}
      BY DEF Idle
    <3>2. QED
      BY <1>1, <2>2, <3>1 DEF BeginPreview, Answers
  <2>3. CASE BeginExecution(e)
    <3> DEFINE r == [Idle EXCEPT !.pc = "preparing", !.gen = job.gen, !.snap = items,
                       !.todo = {m \in DOMAIN items : items[m].status = "pending"}]
    <3>1. r.answered = {} /\ Continue(e, r)
      BY <2>3 DEF Idle, BeginExecution
    <3> HIDE DEF r
    <3>2. QED
      BY <1>1, <3>1 DEF Answers
  <2>4. CASE \/ \E found \in SUBSET Message : StorePreview(e, found)
             \/ PreviewOvertaken(e) \/ PreviewThrows(e)
    <3>1. Continue(e, Idle) /\ Idle.answered = {}
      BY <2>4 DEF StorePreview, PreviewOvertaken, PreviewThrows, Stop, Idle
    <3>2. QED
      BY <1>1, <3>1 DEF Answers
  <2>5. QED
    BY <1>3, <2>1, <2>2, <2>3, <2>4 DEF PreviewStep
<1>4. ASSUME NEW e \in Executor, CompleteJob(e) \/ ExecutionThrows(e) \/ Crash(e) PROVE Goal
  <2>1. Continue(e, Idle) /\ Idle.answered = {}
    BY <1>4 DEF CompleteJob, ExecutionThrows, Crash, Stop, Idle
  <2>2. QED
    BY <1>1, <2>1 DEF Answers
<1>5. ASSUME NEW e \in Executor, NEW r \in Run, Continue(e, r),
             r.answered \subseteq run[e].answered, r.outcome = run[e].outcome
      PROVE  Goal
  BY <1>1, <1>5 DEF Answers
<1>6. ASSUME NEW e \in Executor, NEW m \in Message,
             \/ SkipMissing(e, m) \/ SkipUnreadable(e, m) \/ SkipChanged(e, m)
             \/ ReuseEvidence(e, m) \/ StartPreserving(e, m) \/ Record(e, m)
      PROVE  Goal
  <2>1. /\ run'[e].answered \subseteq run[e].answered
        /\ run'[e].outcome = run[e].outcome
        /\ \A c \in Executor \ {e} : run'[c] = run[c]
    <3>1. run[e] \in Run /\ run \in [Executor -> Run]
      BY DEF TypeOK
    <3>2. CASE SkipMissing(e, m) \/ SkipUnreadable(e, m) \/ SkipChanged(e, m)
      BY <3>1, <3>2 DEF SkipMissing, SkipUnreadable, SkipChanged, Skip, Continue, Run
    <3>3. CASE ReuseEvidence(e, m)
      BY <3>1, <3>3 DEF ReuseEvidence, Continue, Run
    <3>4. CASE StartPreserving(e, m)
      BY <3>1, <3>4 DEF StartPreserving, Continue, Run
    <3>5. CASE Record(e, m)
      BY <3>1, <3>5 DEF Record, Continue, Run
    <3>6. QED
      BY <1>6, <3>2, <3>3, <3>4, <3>5
  <2>2. QED
    BY <2>1 DEF Answers
<1>7. ASSUME NEW e \in Executor,
             PostEvidence(e) \/ PostEvidenceFails(e) \/ MarkPreserved(e) \/ MarkThrows(e)
      PROVE  Goal
  <2>1. /\ run'[e].answered = run[e].answered /\ run'[e].outcome = run[e].outcome
        /\ \A c \in Executor \ {e} : run'[c] = run[c]
    <3>1. run[e] \in Run /\ run \in [Executor -> Run]
      BY DEF TypeOK
    <3>2. CASE PostEvidence(e)
      BY <3>1, <3>2 DEF PostEvidence, Continue, Run
    <3>3. CASE PostEvidenceFails(e)
      BY <3>1, <3>3 DEF PostEvidenceFails, Continue, Run
    <3>4. CASE MarkPreserved(e)
      BY <3>1, <3>4 DEF MarkPreserved, Continue, Run
    <3>5. CASE MarkThrows(e)
      BY <3>1, <3>5 DEF MarkThrows, Continue, Run
    <3>6. QED
      BY <1>7, <3>2, <3>3, <3>4, <3>5
  <2>2. QED
    BY <2>1 DEF Answers
<1>8. ASSUME NEW e \in Executor, NEW batch \in SUBSET Message, Delete(e, batch) PROVE Goal
  <2>1. run'[e].answered = batch /\ \A c \in Executor \ {e} : run'[c] = run[c]
    BY <1>8 DEF Delete, Continue, TypeOK, Run
  <2>2. present' = present \ (batch \cap present)
    BY <1>8 DEF Delete, Destroy
  <2>3. QED
    BY <2>1, <2>2 DEF Answers
<1>9. ASSUME NEW e \in Executor, NEW batch \in SUBSET Message, DeleteFails(e, batch) PROVE Goal
  <2>1. run'[e].outcome = "not_deleted" /\ \A c \in Executor \ {e} : run'[c] = run[c]
    BY <1>9 DEF DeleteFails, Continue, TypeOK, Run
  <2>2. QED
    BY <2>1 DEF Answers
<1>10. ASSUME NEW m \in Message, EditMessage(m) \/ AuthorDeletes(m) PROVE Goal
  <2>1. run' = run
    BY <1>10 DEF EditMessage, AuthorDeletes
  <2>2. QED
    BY <1>2, <2>1
<1>11. ASSUME ModerateCase \/ UNCHANGED vars PROVE Goal
  BY <1>2, <1>11 DEF ModerateCase, vars
<1>12. QED
  <2> HIDE DEF Goal
  <2>1. Goal
    BY <1>3, <1>4, <1>6, <1>7, <1>8, <1>9, <1>10, <1>11 DEF Next, ExecutionStep
  <2>2. QED
    BY <2>1 DEF Goal

\* An item recorded as deleted is gone from Discord and has its copy.
THEOREM DeletedAreGone == Spec => []DeletedIsGone
<1>1. Init => AnswersAreGone /\ DeletedIsGone
  BY DEF Init, AnswersAreGone, DeletedIsGone, Idle, NoItems
<1>2. TypeOK /\ AnswersAreGone /\ DeletedIsGone /\ [Next]_vars
        => AnswersAreGone' /\ DeletedIsGone'
  <2> SUFFICES ASSUME TypeOK, AnswersAreGone, DeletedIsGone, [Next]_vars
               PROVE  AnswersAreGone' /\ DeletedIsGone'
    OBVIOUS
  <2>1. present' \subseteq present
    BY NothingComesBack
  <2>2. AnswersAreGone'
    <3> SUFFICES ASSUME NEW d \in Executor, run'[d].outcome = "deleted"
                 PROVE  run'[d].answered \cap present' = {}
      BY DEF AnswersAreGone
    <3>1. CASE Answers(d, run'[d])
      BY <2>1, <3>1 DEF Answers, AnswersAreGone
    <3>2. CASE ~Answers(d, run'[d])
      BY <3>2, AnswersRecorded
    <3>3. QED
      BY <3>1, <3>2
  <2>3. ASSUME NEW m \in DOMAIN items', items'[m].status = "deleted"
        PROVE  m \notin present' /\ items'[m].evidence = "preserved"
    <3>1. CASE items' = items
      BY <2>1, <2>3, <3>1 DEF DeletedIsGone
    <3>2. ASSUME NEW e \in Executor, NEW found \in SUBSET Message, StorePreview(e, found)
          PROVE  FALSE
      BY <2>3, <3>2 DEF StorePreview, ItemsFound
    <3>3. ASSUME NEW e \in Executor, NEW ms \in SUBSET Message,
                 NEW o \in Outcome \ {"deleted"}, NEW v, Writes(e, ms, o, v)
          PROVE  m \notin present' /\ items'[m].evidence = "preserved"
      BY <2>1, <2>3, <3>3, ItemsAfterWrites DEF DeletedIsGone, Writes
    <3>4. ASSUME NEW e \in Executor, NEW ms \in SUBSET run[e].answered,
                 Writes(e, ms, run[e].outcome, "preserved")
          PROVE  m \notin present' /\ items'[m].evidence = "preserved"
      <4>1. /\ m \in DOMAIN items
            /\ IF m \in ms /\ Open(e, m)
               THEN items'[m].status = run[e].outcome /\ items'[m].evidence = "preserved"
               ELSE items'[m] = items[m]
        BY <2>3, <3>4, ItemsAfterWrites DEF Writes
      <4>2. CASE m \in ms /\ Open(e, m)
        BY <2>1, <2>3, <4>1, <4>2 DEF AnswersAreGone
      <4>3. CASE ~(m \in ms /\ Open(e, m))
        BY <2>1, <2>3, <4>1, <4>3 DEF DeletedIsGone
      <4>4. QED
        BY <4>2, <4>3
    <3>5. ASSUME NEW e \in Executor, Marks(e)
          PROVE  m \notin present' /\ items'[m].evidence = "preserved"
      <4>1. \A k \in DOMAIN items : items[k] \in Item
        BY DEF TypeOK, ItemTable
      <4>2. m \in DOMAIN items /\ items'[m] = items[m]
        BY <2>3, <3>5, <4>1 DEF Marks, Open, Item
      <4>3. QED
        BY <2>1, <2>3, <4>2 DEF DeletedIsGone
    <3>6. QED
      BY <3>1, <3>2, <3>3, <3>4, <3>5, ItemWrites DEF WritesOutcome
  <2>4. QED
    BY <2>2, <2>3 DEF DeletedIsGone
<1>3. QED
  BY <1>1, <1>2, CleanupTypeCorrect, PTL DEF Spec

-----------------------------------------------------------------------------
(* A completed job is settled *)

\* Exclusive execution: at most one executor is in a call.
OnlyOne == \A d, e \in Executor : run[d].pc # "idle" /\ run[e].pc # "idle" => d = e

\* An execution works on the stored preview, and has still to deal with whatever has
\* no outcome in it: no item falls between its lists.
AtWork(e) == run[e].pc \in {"preparing", "preserving", "marking"}
Covers(e) ==
  /\ ~AtWork(e) => run[e].answered = {}
  /\ AtWork(e) =>
    /\ run[e].gen = job.gen
    /\ run[e].pc = "preparing" => run[e].cur = {}
    /\ \A m \in DOMAIN items : items[m].status = "pending" =>
         m \in run[e].todo \cup run[e].cur \cup run[e].prepared \cup run[e].answered

\* The inductive invariant behind completion.
SettleInv == OnlyOne /\ (\A e \in Executor : Covers(e)) /\ CompletedIsSettled

\* What an executor of the stored preview writes is settled.
LEMMA WrittenIsSettled ==
  ASSUME TypeOK, NEW e \in Executor, run[e].gen = job.gen,
         NEW ms, NEW o \in Outcome, NEW v, items' = ItemsAfter(e, ms, o, v),
         NEW m \in DOMAIN items', items'[m].status = "pending"
  PROVE  m \in DOMAIN items /\ items[m].status = "pending" /\ m \notin ms
<1>1. /\ m \in DOMAIN items
      /\ IF m \in ms /\ Open(e, m) THEN items'[m].status = o ELSE items'[m] = items[m]
  BY ItemsAfterWrites
<1>2. o # "pending"
  BY DEF Outcome
<1>3. items'[m] = items[m] /\ ~(m \in ms /\ Open(e, m))
  BY <1>1, <1>2
<1>4. QED
  BY <1>1, <1>3 DEF Open

\* The call of one executor goes on, or begins when there is no other.
LEMMA CallSettles ==
  ASSUME TypeOK, Exclusive, SettleInv, NEW e \in Executor, May(e) \/ run[e].pc # "idle",
         NEW r, Continue(e, r),
         r.pc \notin {"preparing", "preserving", "marking"} => r.answered = {},
         r.pc \in {"preparing", "preserving", "marking"} =>
           /\ r.gen = job'.gen
           /\ r.pc = "preparing" => r.cur = {}
           /\ \A m \in DOMAIN items' : items'[m].status = "pending" =>
                m \in r.todo \cup r.cur \cup r.prepared \cup r.answered
  PROVE  OnlyOne' /\ \A d \in Executor : Covers(d)'
<1>1. run'[e] = r /\ \A d \in Executor : d # e => run'[d] = run[d]
  BY DEF Continue, TypeOK
<1>2. \A d \in Executor : d # e => run[d].pc = "idle"
  BY DEF May, SettleInv, OnlyOne
<1>3. \A d \in Executor : d # e => run'[d].pc = "idle"
  BY <1>1, <1>2
<1>4. OnlyOne'
  BY <1>3 DEF OnlyOne
<1>5. Covers(e)'
  BY <1>1 DEF Covers, AtWork
<1>6. \A d \in Executor : d # e => Covers(d)'
  <2>1. \A d \in Executor : d # e => run'[d].answered = {}
    BY <1>1, <1>2 DEF SettleInv, Covers, AtWork
  <2>2. QED
    BY <1>3, <2>1 DEF Covers, AtWork
<1>7. QED
  BY <1>4, <1>5, <1>6

\* An executor that stops leaves nothing to cover.
LEMMA StopSettles ==
  ASSUME TypeOK, Exclusive, SettleInv, NEW e \in Executor, run[e].pc # "idle", Stop(e)
  PROVE  OnlyOne' /\ \A d \in Executor : Covers(d)'
<1>1. Continue(e, Idle) /\ Idle.pc = "idle" /\ Idle.answered = {}
  BY DEF Stop, Idle
<1>2. QED
  BY <1>1, CallSettles

\* A step that leaves calls, items and the preview alone.
LEMMA CallsUnchanged ==
  ASSUME SettleInv, run' = run, items' = items, job'.gen = job.gen
  PROVE  OnlyOne' /\ \A d \in Executor : Covers(d)'
  BY DEF SettleInv, OnlyOne, Covers, AtWork

\* Every step of an execution takes items off its lists only with an outcome.
LEMMA ExecutionCovers ==
  ASSUME TypeOK, Exclusive, SettleInv, NEW e \in Executor, ExecutionStep(e)
  PROVE  OnlyOne' /\ \A d \in Executor : Covers(d)'
<1> DEFINE Goal == OnlyOne' /\ \A d \in Executor : Covers(d)'
<1>0. run[e] \in Run /\ Covers(e)
  BY DEF TypeOK, SettleInv
<1>1. ASSUME NEW r, Continue(e, r), AtWork(e), r.gen = run[e].gen, job'.gen = job.gen,
             r.pc \in {"preparing", "preserving", "marking"},
             r.pc = "preparing" => r.cur = {},
             \A m \in DOMAIN items' : items'[m].status = "pending" =>
               m \in r.todo \cup r.cur \cup r.prepared \cup r.answered
      PROVE  Goal
  <2>1. run[e].pc # "idle" /\ r.gen = job'.gen
    BY <1>0, <1>1 DEF Covers, AtWork
  <2>2. QED
    BY <1>1, <2>1, CallSettles
<1>2. ASSUME NEW m \in Message, SkipMissing(e, m) \/ SkipUnreadable(e, m) \/ SkipChanged(e, m)
      PROVE  Goal
  <2> DEFINE r == [run[e] EXCEPT !.todo = @ \ {m}]
  <2>1. /\ run[e].pc = "preparing" /\ Continue(e, r) /\ job' = job
        /\ \E o \in Outcome : \E v : items' = ItemsAfter(e, {m}, o, v)
    BY <1>2 DEF SkipMissing, SkipUnreadable, SkipChanged, Skip, Outcome
  <2>2. AtWork(e) /\ run[e].gen = job.gen /\ run[e].cur = {}
    BY <1>0, <2>1 DEF Covers, AtWork
  <2>3. /\ r.gen = run[e].gen /\ r.cur = run[e].cur /\ r.todo = run[e].todo \ {m}
        /\ r.prepared = run[e].prepared /\ r.answered = run[e].answered /\ r.pc = "preparing"
    BY <1>0, <2>1 DEF Run
  <2>4. ASSUME NEW k \in DOMAIN items', items'[k].status = "pending"
        PROVE  k \in r.todo \cup r.cur \cup r.prepared \cup r.answered
    <3>1. k \in DOMAIN items /\ items[k].status = "pending" /\ k # m
      <4>1. PICK o \in Outcome : \E v : items' = ItemsAfter(e, {m}, o, v)
        BY <2>1
      <4>2. PICK v : items' = ItemsAfter(e, {m}, o, v)
        BY <4>1
      <4>3. k \in DOMAIN items /\ items[k].status = "pending" /\ k \notin {m}
        BY <2>2, <2>4, <4>2, WrittenIsSettled
      <4>4. QED
        BY <4>3
    <3>2. QED
      BY <1>0, <2>2, <2>3, <3>1 DEF Covers
  <2> HIDE DEF r
  <2>5. QED
    BY <1>1, <2>1, <2>2, <2>3, <2>4
<1>3. ASSUME NEW m \in Message, ReuseEvidence(e, m) PROVE Goal
  <2> DEFINE r == [run[e] EXCEPT !.todo = @ \ {m}, !.prepared = @ \cup {m}]
  <2>1. run[e].pc = "preparing" /\ Continue(e, r) /\ job' = job /\ items' = items
    BY <1>3 DEF ReuseEvidence, Fetched
  <2>2. AtWork(e) /\ run[e].cur = {}
    BY <1>0, <2>1 DEF Covers, AtWork
  <2>3. /\ r.gen = run[e].gen /\ r.cur = run[e].cur /\ r.todo = run[e].todo \ {m}
        /\ r.prepared = run[e].prepared \cup {m} /\ r.answered = run[e].answered
        /\ r.pc = "preparing"
    BY <1>0, <2>1 DEF Run
  <2>4. ASSUME NEW k \in DOMAIN items', items'[k].status = "pending"
        PROVE  k \in r.todo \cup r.cur \cup r.prepared \cup r.answered
    BY <1>0, <2>1, <2>2, <2>3, <2>4 DEF Covers
  <2> HIDE DEF r
  <2>5. QED
    BY <1>1, <2>1, <2>2, <2>3, <2>4
<1>4. ASSUME NEW m \in Message, StartPreserving(e, m) PROVE Goal
  <2> DEFINE r == [run[e] EXCEPT !.pc = "preserving", !.cur = {m}, !.seen = rev[m],
                                 !.todo = @ \ {m}]
  <2>1. run[e].pc = "preparing" /\ Continue(e, r) /\ job' = job /\ items' = items
    BY <1>4 DEF StartPreserving, Fetched
  <2>2. AtWork(e) /\ run[e].cur = {}
    BY <1>0, <2>1 DEF Covers, AtWork
  <2>3. /\ r.gen = run[e].gen /\ r.cur = {m} /\ r.todo = run[e].todo \ {m}
        /\ r.prepared = run[e].prepared /\ r.answered = run[e].answered /\ r.pc = "preserving"
    BY <1>0 DEF Run
  <2>4. ASSUME NEW k \in DOMAIN items', items'[k].status = "pending"
        PROVE  k \in r.todo \cup r.cur \cup r.prepared \cup r.answered
    BY <1>0, <2>1, <2>2, <2>3, <2>4 DEF Covers
  <2> HIDE DEF r
  <2>5. QED
    BY <1>1, <2>1, <2>2, <2>3, <2>4
<1>5. ASSUME NEW m \in Message, Record(e, m) PROVE Goal
  <2> DEFINE r == [run[e] EXCEPT !.answered = @ \ {m}]
  <2>1. m \in run[e].answered /\ Continue(e, r) /\ job' = job
        /\ items' = ItemsAfter(e, {m}, run[e].outcome, "preserved")
    BY <1>5 DEF Record
  <2>2. run[e].outcome \in Outcome
    BY <1>0 DEF Run, Outcome
  <2>3. /\ r.gen = run[e].gen /\ r.cur = run[e].cur /\ r.todo = run[e].todo
        /\ r.prepared = run[e].prepared /\ r.answered = run[e].answered \ {m} /\ r.pc = run[e].pc
    BY <1>0 DEF Run
  <2>4. AtWork(e) /\ run[e].gen = job.gen /\ (r.pc = "preparing" => r.cur = {})
    BY <1>0, <2>1, <2>3 DEF Covers
  <2>5. ASSUME NEW k \in DOMAIN items', items'[k].status = "pending"
        PROVE  k \in r.todo \cup r.cur \cup r.prepared \cup r.answered
    <3>1. k \in DOMAIN items /\ items[k].status = "pending" /\ k # m
      BY <2>1, <2>2, <2>4, <2>5, WrittenIsSettled
    <3>2. QED
      BY <1>0, <2>3, <2>4, <3>1 DEF Covers
  <2>6. r.pc \in {"preparing", "preserving", "marking"}
    BY <2>3, <2>4 DEF AtWork
  <2> HIDE DEF r
  <2>7. QED
    BY <1>1, <2>1, <2>3, <2>4, <2>5, <2>6
<1>6. ASSUME PostEvidence(e) PROVE Goal
  <2> DEFINE r == [run[e] EXCEPT !.pc = "marking"]
  <2>1. run[e].pc = "preserving" /\ Continue(e, r) /\ job' = job /\ items' = items
    BY <1>6 DEF PostEvidence
  <2>2. /\ r.gen = run[e].gen /\ r.cur = run[e].cur /\ r.todo = run[e].todo
        /\ r.prepared = run[e].prepared /\ r.answered = run[e].answered /\ r.pc = "marking"
    BY <1>0 DEF Run
  <2>3. AtWork(e)
    BY <2>1 DEF AtWork
  <2>4. ASSUME NEW k \in DOMAIN items', items'[k].status = "pending"
        PROVE  k \in r.todo \cup r.cur \cup r.prepared \cup r.answered
    BY <1>0, <2>1, <2>2, <2>3, <2>4 DEF Covers
  <2> HIDE DEF r
  <2>5. QED
    BY <1>1, <2>1, <2>2, <2>3, <2>4
<1>7. ASSUME PostEvidenceFails(e) \/ MarkThrows(e) PROVE Goal
  <2> DEFINE r == [run[e] EXCEPT !.pc = "preparing", !.cur = {}]
  <2>1. /\ run[e].pc \in {"preserving", "marking"} /\ Continue(e, r) /\ job' = job
        /\ items' = ItemsAfter(e, run[e].cur, "evidence_failed", "failed")
    BY <1>7 DEF PostEvidenceFails, MarkThrows
  <2>2. /\ r.gen = run[e].gen /\ r.cur = {} /\ r.todo = run[e].todo
        /\ r.prepared = run[e].prepared /\ r.answered = run[e].answered /\ r.pc = "preparing"
    BY <1>0 DEF Run
  <2>3. AtWork(e) /\ run[e].gen = job.gen /\ "evidence_failed" \in Outcome
    BY <1>0, <2>1 DEF AtWork, Covers, Outcome
  <2>4. ASSUME NEW k \in DOMAIN items', items'[k].status = "pending"
        PROVE  k \in r.todo \cup r.cur \cup r.prepared \cup r.answered
    <3>1. k \in DOMAIN items /\ items[k].status = "pending" /\ k \notin run[e].cur
      BY <2>1, <2>3, <2>4, WrittenIsSettled
    <3>2. QED
      BY <1>0, <2>2, <2>3, <3>1 DEF Covers
  <2> HIDE DEF r
  <2>5. QED
    BY <1>1, <2>1, <2>2, <2>3, <2>4
<1>8. ASSUME MarkPreserved(e) PROVE Goal
  <2> DEFINE r == [run[e] EXCEPT !.pc = "preparing", !.cur = {}, !.prepared = @ \cup run[e].cur]
  <2>1. /\ run[e].pc = "marking" /\ Continue(e, r) /\ job' = job /\ Marks(e)
    BY <1>8 DEF MarkPreserved, Marks
  <2>2. /\ r.gen = run[e].gen /\ r.cur = {} /\ r.todo = run[e].todo
        /\ r.prepared = run[e].prepared \cup run[e].cur /\ r.answered = run[e].answered
        /\ r.pc = "preparing"
    BY <1>0 DEF Run
  <2>3. AtWork(e)
    BY <2>1 DEF AtWork
  <2>4. ASSUME NEW k \in DOMAIN items', items'[k].status = "pending"
        PROVE  k \in r.todo \cup r.cur \cup r.prepared \cup r.answered
    <3>1. \A m \in DOMAIN items : items[m] \in Item
      BY DEF TypeOK, ItemTable
    <3>2. k \in DOMAIN items /\ items[k].status = "pending"
      BY <2>1, <2>4, <3>1 DEF Marks, Item
    <3>3. QED
      BY <1>0, <2>2, <2>3, <3>2 DEF Covers
  <2> HIDE DEF r
  <2>5. QED
    BY <1>1, <2>1, <2>2, <2>3, <2>4
<1>9. ASSUME NEW batch \in SUBSET Message, NEW o, Deleting(e),
             Continue(e, [run[e] EXCEPT !.prepared = @ \ batch, !.answered = batch,
                                        !.outcome = o]),
             job' = job, items' = items
      PROVE  Goal
  <2> DEFINE r == [run[e] EXCEPT !.prepared = @ \ batch, !.answered = batch, !.outcome = o]
  <2>1. run[e].pc = "preparing" /\ run[e].answered = {}
    BY <1>9 DEF Deleting
  <2>2. /\ r.gen = run[e].gen /\ r.cur = run[e].cur /\ r.todo = run[e].todo
        /\ r.prepared = run[e].prepared \ batch /\ r.answered = batch /\ r.pc = "preparing"
    BY <1>0, <2>1 DEF Run
  <2>3. AtWork(e) /\ run[e].cur = {}
    BY <1>0, <2>1 DEF AtWork, Covers
  <2>4. ASSUME NEW k \in DOMAIN items', items'[k].status = "pending"
        PROVE  k \in r.todo \cup r.cur \cup r.prepared \cup r.answered
    BY <1>0, <1>9, <2>1, <2>2, <2>3, <2>4 DEF Covers
  <2>5. Continue(e, r) /\ job' = job
    BY <1>9
  <2> HIDE DEF r
  <2>6. QED
    BY <1>1, <2>2, <2>3, <2>4, <2>5
<1>10. ASSUME NEW batch \in SUBSET Message, Delete(e, batch) \/ DeleteFails(e, batch) PROVE Goal
  BY <1>9, <1>10 DEF Delete, DeleteFails
<1>11. ASSUME CompleteJob(e) \/ ExecutionThrows(e) PROVE Goal
  <2>1. Stop(e) /\ run[e].pc # "idle"
    BY <1>11 DEF CompleteJob, Deleting, ExecutionThrows
  <2>2. QED
    BY <2>1, StopSettles
<1>12. QED
  <2> HIDE DEF Goal
  <2>1. Goal
    BY <1>2, <1>3, <1>4, <1>5, <1>6, <1>7, <1>8, <1>10, <1>11 DEF ExecutionStep
  <2>2. QED
    BY <2>1 DEF Goal

\* A job becomes completed only by the executor that went through its lists.
LEMMA CompletedBy ==
  ASSUME TypeOK, [Next]_vars, job'.status = "completed", job.status # "completed"
  PROVE  \E e \in Executor : CompleteJob(e) /\ items' = items
<1>1. \A e \in Executor : ~PreviewStep(e)
  BY DEF PreviewStep, RejectPreview, BeginPreview, StorePreview, PreviewOvertaken, PreviewThrows,
     FailedJob, TypeOK
<1>2. \A e \in Executor : ~BeginExecution(e) /\ ~Crash(e) /\ ~ExecutionThrows(e)
  BY DEF BeginExecution, Crash, ExecutionThrows, FailedJob, TypeOK
<1>3. \A e \in Executor, m \in Message :
        /\ ~SkipMissing(e, m) /\ ~SkipUnreadable(e, m) /\ ~SkipChanged(e, m)
        /\ ~ReuseEvidence(e, m) /\ ~StartPreserving(e, m) /\ ~Record(e, m)
  BY DEF SkipMissing, SkipUnreadable, SkipChanged, Skip, ReuseEvidence, StartPreserving, Record
<1>4. \A e \in Executor : /\ ~PostEvidence(e) /\ ~PostEvidenceFails(e)
                          /\ ~MarkPreserved(e) /\ ~MarkThrows(e)
  BY DEF PostEvidence, PostEvidenceFails, MarkPreserved, MarkThrows
<1>5. \A e \in Executor, batch \in SUBSET Message : ~Delete(e, batch) /\ ~DeleteFails(e, batch)
  BY DEF Delete, DeleteFails
<1>6. \A m \in Message : ~EditMessage(m) /\ ~AuthorDeletes(m)
  BY DEF EditMessage, AuthorDeletes
<1>7. ~ModerateCase /\ ~UNCHANGED vars
  BY DEF ModerateCase, vars
<1>8. \E e \in Executor : CompleteJob(e)
  BY <1>1, <1>2, <1>3, <1>4, <1>5, <1>6, <1>7 DEF Next, ExecutionStep
<1>9. QED
  BY <1>8 DEF CompleteJob

\* SettleInv is inductive.
LEMMA SettleKept ==
  ASSUME TypeOK, Exclusive, SettleInv, [Next]_vars
  PROVE  SettleInv'
<1> DEFINE Goal == OnlyOne' /\ \A d \in Executor : Covers(d)'
<1>1. ASSUME NEW e \in Executor, PreviewStep(e) PROVE Goal
  <2>1. CASE RejectPreview(e)
    <3>1. run' = run /\ items' = items /\ job'.gen = job.gen
      BY <2>1 DEF RejectPreview, FailedJob, TypeOK
    <3>2. QED
      BY <3>1, CallsUnchanged
  <2>2. CASE BeginPreview(e)
    <3> DEFINE r == [Idle EXCEPT !.pc = "discovering"]
    <3>1. May(e) /\ Continue(e, r) /\ r.pc = "discovering" /\ r.answered = {}
      BY <2>2 DEF BeginPreview, Idle
    <3> HIDE DEF r
    <3>2. QED
      BY <3>1, CallSettles
  <2>3. CASE \/ \E found \in SUBSET Message : StorePreview(e, found)
             \/ PreviewOvertaken(e) \/ PreviewThrows(e)
    <3>1. Stop(e) /\ run[e].pc # "idle"
      BY <2>3 DEF StorePreview, PreviewOvertaken, PreviewThrows
    <3>2. QED
      BY <3>1, StopSettles
  <2>4. QED
    BY <1>1, <2>1, <2>2, <2>3 DEF PreviewStep
<1>2. ASSUME NEW e \in Executor, BeginExecution(e) PROVE Goal
  <2> DEFINE open == {m \in DOMAIN items : items[m].status = "pending"}
             r == [Idle EXCEPT !.pc = "preparing", !.gen = job.gen, !.snap = items, !.todo = open]
  <2>1. May(e) /\ Continue(e, r) /\ items' = items /\ job'.gen = job.gen
    BY <1>2 DEF BeginExecution, TypeOK
  <2>2. r.gen = job.gen /\ r.cur = {} /\ r.todo = open /\ r.pc = "preparing"
    BY DEF Idle
  <2>3. \A m \in DOMAIN items' : items'[m].status = "pending" => m \in r.todo
    BY <2>1, <2>2
  <2> HIDE DEF r
  <2>4. QED
    BY <2>1, <2>2, <2>3, CallSettles
<1>3. ASSUME NEW e \in Executor, ExecutionStep(e) PROVE Goal
  BY <1>3, ExecutionCovers
<1>4. ASSUME NEW e \in Executor, Crash(e) PROVE Goal
  BY <1>4, StopSettles DEF Crash
<1>5. ASSUME \/ \E m \in Message : EditMessage(m) \/ AuthorDeletes(m)
             \/ ModerateCase \/ UNCHANGED vars
      PROVE  Goal
  <2>1. run' = run /\ items' = items /\ job' = job
    BY <1>5 DEF EditMessage, AuthorDeletes, ModerateCase, vars
  <2>2. QED
    BY <2>1, CallsUnchanged
<1>6. CompletedIsSettled'
  <2> SUFFICES ASSUME job'.status = "completed", NEW m \in DOMAIN items'
               PROVE  items'[m].status # "pending"
    BY DEF CompletedIsSettled
  <2>1. CASE job.status = "completed"
    <3>1. \A k \in DOMAIN items : items[k].status # "pending"
      BY <2>1 DEF SettleInv, CompletedIsSettled
    <3>2. \A e \in Executor, found \in SUBSET Message : ~StorePreview(e, found)
      BY <2>1 DEF StorePreview
    <3>3. job'.gen = job.gen /\ DOMAIN items' = DOMAIN items
      <4>1. CASE items' = items
        BY <3>2, <4>1, ItemWrites, ItemsAfterWrites DEF WritesOutcome, Writes, Marks
      <4>2. ASSUME NEW e \in Executor, WritesOutcome(e) \/ Marks(e)
            PROVE  DOMAIN items' = DOMAIN items
        BY <4>2, ItemsAfterWrites DEF WritesOutcome, Writes, Marks
      <4>3. QED
        BY <3>2, <4>1, <4>2, ItemWrites
    <3>4. QED
      BY <3>1, <3>3, RecordedStays
  <2>2. CASE job.status # "completed"
    <3>1. PICK e \in Executor : CompleteJob(e) /\ items' = items
      BY <2>2, CompletedBy
    <3>2. /\ AtWork(e) /\ run[e].todo = {} /\ run[e].prepared = {} /\ run[e].answered = {}
          /\ run[e].pc = "preparing"
      BY <3>1 DEF CompleteJob, Deleting, AtWork
    <3>3. QED
      BY <3>1, <3>2 DEF SettleInv, Covers
  <2>3. QED
    BY <2>1, <2>2
<1>7. Goal
  <2> HIDE DEF Goal
  <2>1. QED
    BY <1>1, <1>2, <1>3, <1>4, <1>5 DEF Next
<1>8. QED
  BY <1>6, <1>7 DEF SettleInv

\* With exclusive execution, which OneHandlerPerCase of the request queue provides, a
\* completed job has an outcome for every candidate of its preview.
THEOREM CompletedAreSettled ==
  ASSUME Exclusive
  PROVE  Spec => []CompletedIsSettled
<1>1. Init => SettleInv
  BY DEF Init, SettleInv, OnlyOne, Covers, AtWork, CompletedIsSettled, Idle, NoItems
<1>2. TypeOK /\ SettleInv /\ [Next]_vars => SettleInv'
  BY SettleKept
<1>3. SettleInv => CompletedIsSettled
  BY DEF SettleInv
<1>4. QED
  BY <1>1, <1>2, <1>3, CleanupTypeCorrect, PTL DEF Spec
=============================================================================
