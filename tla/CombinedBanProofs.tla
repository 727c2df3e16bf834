------------------------- MODULE CombinedBanProofs -------------------------
(***************************************************************************)
(* Proofs about CombinedBan, for every set of jobs, every set of other      *)
(* writers of the case row and every number of crashes and failures:        *)
(* types, the order of the steps in the durable rows, and that a durable    *)
(* ban is kept.                                                             *)
(*                                                                          *)
(* The argument is that of a resumable procedure: at each place the handler *)
(* can be, what it knows from the job row it read when it was started is    *)
(* still true of the row, because nobody else writes the row meanwhile.     *)
(***************************************************************************)
EXTENDS CombinedBan, TLAPS

\* Places of the handler before it touched the ban, while the ban is not
\* durable, and while the case is being finalized.
Reading == {"mark", "writeMark"}
Banning == {"banPending", "ban", "banSucceeded"}
Cleaning == {"cleanup", "deleting"}
Finalizing == {"finPending", "finRead", "finWrite", "finMark", "finMarkWrite", "finSucceeded"}

\* What the handler relies on at each of its places.
WorkInv ==
  /\ work.pc \in Reading => work.snap.ban = job[work.id].ban
  /\ work.pc \in Reading \cup Banning \cup Cleaning => work.snap.fin = job[work.id].fin
  /\ work.pc \in Banning => job[work.id].ban # "succeeded"
  /\ work.pc \in Cleaning => job[work.id].ban = "succeeded"
  /\ work.pc = "deleting" => job[work.id].status = "executing"
  /\ work.pc \in Finalizing => job[work.id].status = "completed" /\ job[work.id].fin # "succeeded"
  /\ work.pc = "complete" => job[work.id].fin = "succeeded"
  /\ work.pc = "undo" =>
       /\ "ban" \in work.undo => job[work.id].ban # "succeeded"
       /\ "fin" \in work.undo => job[work.id].status = "completed" /\ job[work.id].fin # "succeeded"

IInv == TypeOK /\ StepsInOrder /\ WorkInv

\* The handler's record, for citing.
WorkRow == [pc : Pc, id : Job \cup {NoJob}, snap : JobRow, seen : Row, undo : SUBSET Undo]

\* At first every variable has its type.
LEMMA InitTyped == Init => TypeOK
<1> SUFFICES ASSUME Init PROVE TypeOK
  OBVIOUS
<1>1. Unmarked \in Row /\ NewJob \in JobRow
  BY DEF Row, JobRow, NewJob, Unmarked
<1>2. Idle \in WorkRow /\ Idle.pc = "idle"
  BY <1>1 DEF Idle, WorkRow, Pc
<1>3. NoWriter \in [kind : WriterKind \cup {"none"}, seen : Row]
  BY <1>1 DEF NoWriter
<1>4. QED
  BY <1>1, <1>2, <1>3 DEF Init, TypeOK, WorkRow

\* Every step keeps the types.
LEMMA NextTyped == TypeOK /\ [Next]_vars => TypeOK'
<1> SUFFICES ASSUME TypeOK, [Next]_vars PROVE TypeOK'
  OBVIOUS
<1> USE DEF WorkRow
<1>a. /\ work \in WorkRow
      /\ work.pc \in Pc /\ work.id \in Job \cup {NoJob} /\ work.snap \in JobRow
      /\ work.seen \in Row /\ work.undo \subseteq Undo
  BY DEF TypeOK
<1>b. Idle \in WorkRow /\ Idle.pc = "idle"
  BY DEF Idle, JobRow, NewJob, Row, Unmarked, Pc, Undo
<1>c. ASSUME NEW pc \in Pc
      PROVE  [work EXCEPT !.pc = pc] \in WorkRow /\ [work EXCEPT !.pc = pc].id = work.id
  BY <1>a
<1>d. ASSUME NEW what \in SUBSET Undo
      PROVE  /\ [work EXCEPT !.pc = "undo", !.undo = what] \in WorkRow
             /\ [work EXCEPT !.pc = "undo", !.undo = what].id = work.id
  BY <1>a DEF Pc
<1>e. ASSUME NEW r \in JobRow
      PROVE  /\ \A v \in {"ready", "executing", "completed", "failed"} : [r EXCEPT !.status = v] \in JobRow
             /\ \A v \in {"not_requested", "pending", "succeeded", "failed"} : [r EXCEPT !.ban = v] \in JobRow
             /\ \A v \in {"not_started", "pending", "succeeded", "failed"} : [r EXCEPT !.fin = v] \in JobRow
  BY DEF JobRow
<1>f. ASSUME NEW r \in Row, NEW id \in Job \cup {NoJob}, NEW f \in BOOLEAN
      PROVE  [r EXCEPT !.marker = id, !.final = f] \in Row
  BY DEF Row
<1>g. ASSUME NEW r \in Row, NEW s \in {"pending", "banned", "resolved"}
      PROVE  [r EXCEPT !.status = s] \in Row
  BY DEF Row
<1>h. AfterMark \in Pc /\ AfterCleanup \in Pc
  BY DEF AfterMark, AfterCleanup, Pc
<1>1. CASE \E j \in Job : Submit(j)
  BY <1>1 DEF TypeOK, Submit, discord
<1>2. CASE Claim
  <2>1. request \in Job /\ job[request] \in JobRow
    BY <1>2 DEF TypeOK, Claim
  <2>2. work' \in WorkRow /\ work'.id \in Job
    BY <1>2, <1>b, <2>1 DEF Claim, Pc, Idle
  <2>3. QED
    BY <1>2, <2>2 DEF TypeOK, Claim, discord
<1>3. CASE Reject \/ MarkRefused \/ Undone \/ ThrowsUncaught
  BY <1>3, <1>b DEF TypeOK, Reject, MarkRefused, Undone, ThrowsUncaught, FailRequest, Mishap, discord
<1>4. CASE MarkAlreadySet \/ ReadUnmarked
  <2>1. work' \in WorkRow /\ work'.id = work.id
    <3>1. PICK pc \in Pc : Goto(pc)
      BY <1>4, <1>h DEF MarkAlreadySet, ReadUnmarked, Pc
    <3>2. QED
      BY <3>1, <1>c DEF Goto
  <2>2. work.id \in Job
    BY <1>4 DEF TypeOK, MarkAlreadySet, ReadUnmarked, At
  <2>3. QED
    BY <1>4, <2>1, <2>2 DEF TypeOK, MarkAlreadySet, ReadUnmarked, discord
<1>5. CASE WriteMark \/ WriteFinal
  <2>1. work.id \in Job
    BY <1>5 DEF TypeOK, WriteMark, WriteFinal, At
  <2>2. work' \in WorkRow /\ work'.id = work.id
    <3>1. PICK pc \in Pc : Goto(pc)
      BY <1>5, <1>h DEF WriteMark, WriteFinal, Pc
    <3>2. QED
      BY <3>1, <1>c DEF Goto
  <2>3. row' \in Row
    <3>1. row \in Row
      BY DEF TypeOK
    <3>2. PICK f \in BOOLEAN : row' = [row EXCEPT !.marker = work.id, !.final = f]
      BY <1>5 DEF WriteMark, WriteFinal
    <3>3. QED
      BY <3>1, <3>2, <1>f, <2>1
  <2>4. QED
    BY <1>5, <2>1, <2>2, <2>3 DEF TypeOK, WriteMark, WriteFinal, discord
<1>6. CASE SetBanPending \/ SetBanSucceeded \/ BeginCleanup \/ FinishCleanup
           \/ SetFinPending \/ SetFinSucceeded
  <2>1. work.id \in Job
    BY <1>6 DEF TypeOK, SetBanPending, SetBanSucceeded, BeginCleanup, FinishCleanup,
       SetFinPending, SetFinSucceeded, At
  <2>2. work' \in WorkRow /\ work'.id = work.id
    <3>1. PICK pc \in Pc : Goto(pc)
      BY <1>6, <1>h DEF SetBanPending, SetBanSucceeded, BeginCleanup, FinishCleanup,
         SetFinPending, SetFinSucceeded, Pc
    <3>2. QED
      BY <3>1, <1>c DEF Goto
  <2>3. job' \in [Job -> JobRow]
    <3>1. job \in [Job -> JobRow] /\ job[work.id] \in JobRow
      BY <2>1 DEF TypeOK
    <3>2. CASE SetBanPending \/ SetBanSucceeded
      BY <3>1, <3>2, <1>e DEF SetBanPending, SetBanSucceeded, SetJob
    <3>3. CASE BeginCleanup \/ FinishCleanup
      BY <3>1, <3>3, <1>e DEF BeginCleanup, FinishCleanup, SetJob
    <3>4. CASE SetFinPending \/ SetFinSucceeded
      BY <3>1, <3>4, <1>e DEF SetFinPending, SetFinSucceeded, SetJob
    <3>5. QED
      BY <1>6, <3>2, <3>3, <3>4
  <2>4. QED
    BY <1>6, <2>1, <2>2, <2>3 DEF TypeOK, SetBanPending, SetBanSucceeded, BeginCleanup,
       FinishCleanup, SetFinPending, SetFinSucceeded, discord
<1>7. CASE Ban
  <2>1. work' \in WorkRow /\ work'.id = work.id /\ work.id \in Job
    BY <1>7, <1>c DEF TypeOK, Ban, Goto, At, Pc
  <2>2. QED
    BY <1>7, <2>1 DEF TypeOK, Ban
<1>8. CASE BanFails
  <2>1. work' \in WorkRow /\ work'.id = work.id /\ work.id \in Job
    BY <1>8, <1>d DEF TypeOK, BanFails, Rollback, At, Undo
  <2>2. banned' \in BOOLEAN /\ echo' \in BOOLEAN
    BY <1>8 DEF TypeOK, BanFails, discord
  <2>3. mishaps' \in Nat
    BY <1>8 DEF TypeOK, BanFails, Mishap
  <2>4. QED
    BY <1>8, <2>1, <2>2, <2>3 DEF TypeOK, BanFails
<1>9. CASE CleanupAlreadyDone \/ ReadBanned \/ ReadFinal \/ ReadMarked
  <2>1. work' \in WorkRow /\ work'.id = work.id
    <3>1. PICK pc \in Pc : Goto(pc)
      BY <1>9, <1>h DEF CleanupAlreadyDone, ReadBanned, ReadFinal, ReadMarked, Pc
    <3>2. QED
      BY <3>1, <1>c DEF Goto
  <2>2. work.id \in Job
    BY <1>9 DEF TypeOK, CleanupAlreadyDone, ReadBanned, ReadFinal, ReadMarked, At
  <2>3. QED
    BY <1>9, <2>1, <2>2 DEF TypeOK, CleanupAlreadyDone, ReadBanned, ReadFinal, ReadMarked, discord
<1>10. CASE CleanupRefused \/ FinalizeRefused \/ MarkMissing \/ FinalizeThrows
  <2>1. work' \in WorkRow /\ work'.id = work.id
    BY <1>10, <1>d DEF CleanupRefused, FinalizeRefused, MarkMissing, FinalizeThrows, Rollback, Undo
  <2>2. work.id \in Job
    BY <1>10 DEF TypeOK, CleanupRefused, FinalizeRefused, MarkMissing, FinalizeThrows, At
  <2>3. QED
    BY <1>10, <2>1, <2>2 DEF TypeOK, CleanupRefused, FinalizeRefused, MarkMissing,
       FinalizeThrows, Mishap, discord
<1>11. CASE CleanupThrows
  <2>1. work' \in WorkRow /\ work'.id = work.id /\ work.id \in Job
    BY <1>11, <1>d DEF TypeOK, CleanupThrows, Rollback, At, Undo
  <2>2. job' \in [Job -> JobRow]
    BY <1>11, <1>e, <2>1 DEF TypeOK, CleanupThrows, SetJob
  <2>3. QED
    BY <1>11, <2>1, <2>2 DEF TypeOK, CleanupThrows, Mishap, discord
<1>12. CASE ReadPending
  <2>1. work' \in WorkRow /\ work'.id = work.id /\ work.id \in Job
    BY <1>12, <1>a DEF TypeOK, ReadPending, At, Pc
  <2>2. QED
    BY <1>12, <2>1 DEF TypeOK, ReadPending, discord
<1>13. CASE WriteBanned
  <2>1. work' \in WorkRow /\ work'.id = work.id /\ work.id \in Job
    BY <1>13, <1>c DEF TypeOK, WriteBanned, Goto, At, Pc
  <2>2. row' \in Row
    BY <1>13, <1>a, <1>g DEF WriteBanned
  <2>3. QED
    BY <1>13, <2>1, <2>2 DEF TypeOK, WriteBanned, discord
<1>14. CASE Complete
  <2>1. work' \in WorkRow /\ work'.id = work.id /\ work.id \in Job
    BY <1>14, <1>c DEF TypeOK, Complete, Goto, At, Pc
  <2>2. QED
    BY <1>14, <2>1 DEF TypeOK, Complete, discord
<1>15. CASE ClearAfterComplete
  BY <1>15, <1>b, <1>f DEF TypeOK, ClearAfterComplete, ClearedRow, discord
<1>16. CASE \E field \in Undo : UndoStatus(field)
  <2>1. PICK field \in Undo : UndoStatus(field)
    BY <1>16
  <2>2. work' \in WorkRow /\ work'.id = work.id /\ work.id \in Job
    BY <2>1, <1>a DEF TypeOK, UndoStatus, At
  <2>3. field \in {"ban", "fin"}
    BY <2>1 DEF UndoStatus, Undo
  <2>4. job' \in [Job -> JobRow]
    BY <2>1, <2>2, <2>3, <1>e DEF TypeOK, UndoStatus, SetJob
  <2>5. QED
    BY <2>1, <2>2, <2>4 DEF TypeOK, UndoStatus, discord
<1>17. CASE UndoMarker
  <2>1. work' \in WorkRow /\ work'.id = work.id /\ work.id \in Job
    BY <1>17, <1>a DEF TypeOK, UndoMarker, At
  <2>2. row' \in Row
    BY <1>17, <1>f DEF TypeOK, UndoMarker, ClearedRow
  <2>3. QED
    BY <1>17, <2>1, <2>2 DEF TypeOK, UndoMarker, discord
<1>18. CASE ClearThrows \/ Crash
  BY <1>18, <1>b DEF TypeOK, ClearThrows, Crash, Mishap, discord
<1>19. CASE ExternalBan \/ Unban \/ IgnoreBan
  <2>1. outside' \in Nat
    BY <1>19 DEF TypeOK, ExternalBan, Unban, IgnoreBan, Outside
  <2>2. banned' \in BOOLEAN /\ echo' \in BOOLEAN
    BY <1>19 DEF TypeOK, ExternalBan, Unban, IgnoreBan
  <2>3. QED
    BY <1>19, <2>1, <2>2 DEF TypeOK, ExternalBan, Unban, IgnoreBan
<1>20. CASE Reopen
  <2>1. row' \in Row
    BY <1>20, <1>g DEF TypeOK, Reopen
  <2>2. outside' \in Nat
    BY <1>20 DEF TypeOK, Reopen, Outside
  <2>3. QED
    BY <1>20, <2>1, <2>2 DEF TypeOK, Reopen, discord
<1>21. CASE \E kind \in WriterKind : ReadRow(kind)
  BY <1>21 DEF TypeOK, ReadRow, Outside
<1>22. CASE WriteRow
  <2>1. writer.seen \in Row
    BY DEF TypeOK
  <2>2. Written \in Row
    BY <2>1, <1>g DEF Written, Row
  <2>3. NoWriter \in [kind : WriterKind \cup {"none"}, seen : Row]
    BY DEF NoWriter, Unmarked, Row
  <2>4. QED
    BY <1>22, <2>2, <2>3 DEF TypeOK, WriteRow, discord
<1>23. CASE UNCHANGED vars
  BY <1>23 DEF TypeOK, vars, discord
<1>24. QED
  BY <1>1, <1>2, <1>3, <1>4, <1>5, <1>6, <1>7, <1>8, <1>9, <1>10, <1>11, <1>12, <1>13,
     <1>14, <1>15, <1>16, <1>17, <1>18, <1>19, <1>20, <1>21, <1>22, <1>23 DEF Next, HandlerStep

\* Every variable of the model has its type (TypeOK), whatever interrupts the
\* handler and whoever else writes the case row.
THEOREM CombinedBanTypeCorrect == Spec => []TypeOK
  BY InitTyped, NextTyped, PTL DEF Spec

-----------------------------------------------------------------------------
(* The steps are in order in the durable rows *)

\* At first the invariant holds.
LEMMA InitInv == Init => IInv
<1> SUFFICES ASSUME Init PROVE IInv
  OBVIOUS
<1>1. StepsInOrder
  BY DEF Init, StepsInOrder, NewJob
<1>2. WorkInv
  BY DEF Init, WorkInv, Idle, Reading, Banning, Cleaning, Finalizing
<1>3. QED
  BY <1>1, <1>2, InitTyped DEF IInv

\* Where the handler waits and which job it is at say all the invariant needs
\* of a step that writes no job.
LEMMA RowsUntouched ==
  ASSUME IInv, job' = job, done' = done,
         \/ work'.pc = "idle"
         \/ /\ work'.pc = work.pc /\ work'.id = work.id /\ work'.snap = work.snap
            /\ work'.undo \subseteq work.undo
  PROVE  StepsInOrder' /\ WorkInv'
<1>1. StepsInOrder'
  BY DEF IInv, StepsInOrder
<1>2. CASE work'.pc = "idle"
  BY <1>1, <1>2 DEF WorkInv, Reading, Banning, Cleaning, Finalizing
<1>3. CASE /\ work'.pc = work.pc /\ work'.id = work.id /\ work'.snap = work.snap
           /\ work'.undo \subseteq work.undo
  BY <1>1, <1>3 DEF IInv, WorkInv, Reading, Banning, Cleaning, Finalizing
<1>4. QED
  BY <1>2, <1>3

\* Every step keeps the invariant.
LEMMA NextInv == IInv /\ [Next]_vars => IInv'
<1> SUFFICES ASSUME IInv, [Next]_vars PROVE StepsInOrder' /\ WorkInv'
  BY NextTyped DEF IInv
<1> USE DEF Reading, Banning, Cleaning, Finalizing
<1>a. /\ TypeOK /\ StepsInOrder /\ WorkInv
      /\ work \in WorkRow /\ job \in [Job -> JobRow]
  BY DEF IInv, TypeOK, WorkRow
<1>b. ASSUME NEW pc \in Pc, Goto(pc)
      PROVE  /\ work'.pc = pc /\ work'.id = work.id /\ work'.snap = work.snap
             /\ work'.undo = work.undo
  BY <1>a, <1>b DEF Goto, WorkRow
<1>c. ASSUME NEW what \in SUBSET Undo, Rollback(what)
      PROVE  /\ work'.pc = "undo" /\ work'.id = work.id /\ work'.snap = work.snap
             /\ work'.undo = what
  BY <1>a, <1>c DEF Rollback, WorkRow
<1>d. ASSUME NEW field \in {"status", "ban", "fin"}, NEW value, SetJob(field, value), work.id \in Job
      PROVE  /\ job'[work.id] = [job[work.id] EXCEPT ![field] = value]
             /\ \A j \in Job : j # work.id => job'[j] = job[j]
  BY <1>a, <1>d DEF SetJob
<1>1. CASE \/ \E j \in Job : Submit(j)
           \/ Reject \/ MarkRefused \/ Undone \/ ThrowsUncaught
           \/ ClearAfterComplete \/ ClearThrows \/ Crash
           \/ ExternalBan \/ Unban \/ IgnoreBan \/ Reopen
           \/ (\E kind \in WriterKind : ReadRow(kind)) \/ WriteRow
  <2>1. job' = job /\ done' = done /\ (work' = work \/ work' = Idle)
    BY <1>1 DEF Submit, Reject, MarkRefused, Undone, ThrowsUncaught, FailRequest,
       ClearAfterComplete, ClearThrows, Crash, ExternalBan, Unban, IgnoreBan, Reopen,
       ReadRow, WriteRow
  <2>2. QED
    BY <2>1, RowsUntouched DEF Idle
<1>2. CASE UndoMarker
  <2>1. /\ work'.pc = work.pc /\ work'.id = work.id /\ work'.snap = work.snap
        /\ work'.undo \subseteq work.undo
    BY <1>2, <1>a DEF UndoMarker, WorkRow
  <2>2. QED
    BY <1>2, <2>1, RowsUntouched DEF UndoMarker
<1>3. CASE Claim
  <2>1. /\ job' = job /\ done' = done
        /\ work'.pc = "mark" /\ work'.snap = job[work'.id]
    BY <1>3, <1>a DEF TypeOK, Claim, Idle
  <2>2. QED
    BY <1>a, <2>1 DEF StepsInOrder, WorkInv
<1>4. CASE MarkAlreadySet \/ ReadUnmarked \/ WriteMark
  <2>1. /\ job' = job /\ done' = done /\ work.pc \in Reading
        /\ Goto(AfterMark) \/ Goto("writeMark")
    BY <1>4 DEF MarkAlreadySet, ReadUnmarked, WriteMark, At
  <2>2. /\ work'.pc \in {AfterMark, "writeMark"}
        /\ work'.id = work.id /\ work'.snap = work.snap
    BY <2>1, <1>b DEF AfterMark, Pc
  <2>3. QED
    BY <1>a, <2>1, <2>2 DEF StepsInOrder, WorkInv, AfterMark
<1>5. CASE SetBanPending
  <2>1. work.id \in Job /\ work.pc = "banPending" /\ done' = done
    BY <1>5, <1>a DEF TypeOK, SetBanPending, At
  <2>2. work'.pc = "ban" /\ work'.id = work.id /\ work'.snap = work.snap
    BY <1>5, <1>b DEF SetBanPending, Pc
  <2>3. /\ job'[work.id] = [job[work.id] EXCEPT !.ban = "pending"]
        /\ \A j \in Job : j # work.id => job'[j] = job[j]
    BY <1>5, <1>d, <2>1 DEF SetBanPending
  <2>4. job[work.id] \in JobRow
    BY <1>a, <2>1
  <2>5. QED
    BY <1>a, <2>1, <2>2, <2>3, <2>4 DEF StepsInOrder, WorkInv, JobRow
<1>6. CASE Ban
  <2>1. /\ job' = job /\ done' = done /\ work.pc = "ban"
        /\ work'.pc = "banSucceeded" /\ work'.id = work.id /\ work'.snap = work.snap
    BY <1>6, <1>b DEF Ban, At, Pc
  <2>2. QED
    BY <1>a, <2>1 DEF StepsInOrder, WorkInv
<1>7. CASE BanFails
  <2>1. /\ job' = job /\ done' = done /\ work.pc = "ban"
        /\ work'.pc = "undo" /\ work'.id = work.id /\ work'.undo = {"ban", "marker"}
    BY <1>7, <1>c DEF BanFails, At, Undo
  <2>2. QED
    BY <1>a, <2>1 DEF StepsInOrder, WorkInv
<1>8. CASE SetBanSucceeded
  <2>1. work.id \in Job /\ work.pc = "banSucceeded" /\ done' = done
    BY <1>8, <1>a DEF TypeOK, SetBanSucceeded, At
  <2>2. work'.pc = "cleanup" /\ work'.id = work.id /\ work'.snap = work.snap
    BY <1>8, <1>b DEF SetBanSucceeded, Pc
  <2>3. /\ job'[work.id] = [job[work.id] EXCEPT !.ban = "succeeded"]
        /\ \A j \in Job : j # work.id => job'[j] = job[j]
    BY <1>8, <1>d, <2>1 DEF SetBanSucceeded
  <2>4. job[work.id] \in JobRow
    BY <1>a, <2>1
  <2>5. QED
    BY <1>a, <2>1, <2>2, <2>3, <2>4 DEF StepsInOrder, WorkInv, JobRow
<1>9. CASE CleanupAlreadyDone
  <2>1. /\ job' = job /\ done' = done /\ work.pc = "cleanup"
        /\ job[work.id].status = "completed"
        /\ work'.pc = AfterCleanup /\ work'.id = work.id /\ work'.snap = work.snap
    BY <1>9, <1>b DEF CleanupAlreadyDone, At, AfterCleanup, Pc
  <2>2. QED
    BY <1>a, <2>1 DEF StepsInOrder, WorkInv, AfterCleanup
<1>10. CASE BeginCleanup
  <2>1. /\ work.id \in Job /\ work.pc = "cleanup" /\ done' = done
        /\ job[work.id].status \in {"ready", "executing"}
    BY <1>10, <1>a DEF TypeOK, BeginCleanup, At
  <2>2. work'.pc = "deleting" /\ work'.id = work.id /\ work'.snap = work.snap
    BY <1>10, <1>b DEF BeginCleanup, Pc
  <2>3. /\ job'[work.id] = [job[work.id] EXCEPT !.status = "executing"]
        /\ \A j \in Job : j # work.id => job'[j] = job[j]
    BY <1>10, <1>d, <2>1 DEF BeginCleanup
  <2>4. job[work.id] \in JobRow
    BY <1>a, <2>1
  <2>5. QED
    BY <1>a, <2>1, <2>2, <2>3, <2>4 DEF StepsInOrder, WorkInv, JobRow
<1>11. CASE CleanupRefused
  <2>1. /\ job' = job /\ done' = done
        /\ work'.pc = "undo" /\ work'.undo = {"marker"}
    BY <1>11, <1>c DEF CleanupRefused, Undo
  <2>2. QED
    BY <1>a, <2>1 DEF StepsInOrder, WorkInv
<1>12. CASE FinishCleanup
  <2>1. work.id \in Job /\ work.pc = "deleting" /\ done' = done
    BY <1>12, <1>a DEF TypeOK, FinishCleanup, At
  <2>2. work'.pc = AfterCleanup /\ work'.id = work.id /\ work'.snap = work.snap
    BY <1>12, <1>b DEF FinishCleanup, AfterCleanup, Pc
  <2>3. /\ job'[work.id] = [job[work.id] EXCEPT !.status = "completed"]
        /\ \A j \in Job : j # work.id => job'[j] = job[j]
    BY <1>12, <1>d, <2>1 DEF FinishCleanup
  <2>4. job[work.id] \in JobRow
    BY <1>a, <2>1
  <2>5. QED
    BY <1>a, <2>1, <2>2, <2>3, <2>4 DEF StepsInOrder, WorkInv, JobRow, AfterCleanup
<1>13. CASE CleanupThrows
  <2>1. work.id \in Job /\ work.pc = "deleting" /\ done' = done
    BY <1>13, <1>a DEF TypeOK, CleanupThrows, At
  <2>2. work'.pc = "undo" /\ work'.id = work.id /\ work'.undo = {"marker"}
    BY <1>13, <1>c DEF CleanupThrows, Undo
  <2>3. /\ job'[work.id] = [job[work.id] EXCEPT !.status = "failed"]
        /\ \A j \in Job : j # work.id => job'[j] = job[j]
    BY <1>13, <1>d, <2>1 DEF CleanupThrows
  <2>4. job[work.id] \in JobRow
    BY <1>a, <2>1
  <2>5. QED
    BY <1>a, <2>1, <2>2, <2>3, <2>4 DEF StepsInOrder, WorkInv, JobRow
<1>14. CASE SetFinPending
  <2>1. work.id \in Job /\ work.pc = "finPending" /\ done' = done
    BY <1>14, <1>a DEF TypeOK, SetFinPending, At
  <2>2. work'.pc = "finRead" /\ work'.id = work.id
    BY <1>14, <1>b DEF SetFinPending, Pc
  <2>3. /\ job'[work.id] = [job[work.id] EXCEPT !.fin = "pending"]
        /\ \A j \in Job : j # work.id => job'[j] = job[j]
    BY <1>14, <1>d, <2>1 DEF SetFinPending
  <2>4. job[work.id] \in JobRow
    BY <1>a, <2>1
  <2>5. QED
    BY <1>a, <2>1, <2>2, <2>3, <2>4 DEF StepsInOrder, WorkInv, JobRow
<1>15. CASE ReadPending \/ ReadBanned \/ ReadFinal \/ WriteBanned \/ ReadMarked \/ WriteFinal
  <2>1. /\ job' = job /\ done' = done /\ work.pc \in Finalizing
        /\ work'.pc \in Finalizing \ {"finPending"} /\ work'.id = work.id
    BY <1>15, <1>a, <1>b DEF ReadPending, ReadBanned, ReadFinal, WriteBanned, ReadMarked,
       WriteFinal, At, Pc, WorkRow
  <2>2. QED
    BY <1>a, <2>1 DEF StepsInOrder, WorkInv
<1>16. CASE FinalizeRefused \/ MarkMissing \/ FinalizeThrows
  <2>1. /\ job' = job /\ done' = done /\ work.pc \in Finalizing
        /\ work'.pc = "undo" /\ work'.id = work.id /\ work'.undo = {"fin", "marker"}
    BY <1>16, <1>c DEF FinalizeRefused, MarkMissing, FinalizeThrows, At, Undo
  <2>2. QED
    BY <1>a, <2>1 DEF StepsInOrder, WorkInv
<1>17. CASE SetFinSucceeded
  <2>1. work.id \in Job /\ work.pc = "finSucceeded" /\ done' = done
    BY <1>17, <1>a DEF TypeOK, SetFinSucceeded, At
  <2>2. work'.pc = "complete" /\ work'.id = work.id
    BY <1>17, <1>b DEF SetFinSucceeded, Pc
  <2>3. /\ job'[work.id] = [job[work.id] EXCEPT !.fin = "succeeded"]
        /\ \A j \in Job : j # work.id => job'[j] = job[j]
    BY <1>17, <1>d, <2>1 DEF SetFinSucceeded
  <2>4. job[work.id] \in JobRow
    BY <1>a, <2>1
  <2>5. QED
    BY <1>a, <2>1, <2>2, <2>3, <2>4 DEF StepsInOrder, WorkInv, JobRow
<1>18. CASE Complete
  <2>1. /\ job' = job /\ done' = done \cup {work.id} /\ work.pc = "complete"
        /\ work'.pc = "clear"
    BY <1>18, <1>b DEF Complete, At, Pc
  <2>2. QED
    BY <1>a, <2>1 DEF StepsInOrder, WorkInv
<1>19. CASE \E field \in Undo : UndoStatus(field)
  <2>1. PICK field \in Undo : UndoStatus(field)
    BY <1>19
  <2>2. /\ work.id \in Job /\ work.pc = "undo" /\ done' = done
        /\ field \in {"ban", "fin"} /\ field \in work.undo
    BY <2>1, <1>a DEF TypeOK, UndoStatus, At, Undo
  <2>3. work'.pc = "undo" /\ work'.id = work.id /\ work'.undo = work.undo \ {field}
    BY <2>1, <2>2, <1>a DEF UndoStatus, WorkRow
  <2>4. /\ job'[work.id] = [job[work.id] EXCEPT ![field] = "failed"]
        /\ \A j \in Job : j # work.id => job'[j] = job[j]
    BY <2>1, <2>2, <1>d DEF UndoStatus
  <2>5. job[work.id] \in JobRow
    BY <1>a, <2>2
  <2>6. CASE field = "ban"
    BY <1>a, <2>2, <2>3, <2>4, <2>5, <2>6 DEF StepsInOrder, WorkInv, JobRow
  <2>7. CASE field = "fin"
    BY <1>a, <2>2, <2>3, <2>4, <2>5, <2>7 DEF StepsInOrder, WorkInv, JobRow
  <2>8. QED
    BY <2>2, <2>6, <2>7
<1>20. CASE UNCHANGED vars
  BY <1>20, RowsUntouched DEF vars
<1>21. QED
  BY <1>1, <1>2, <1>3, <1>4, <1>5, <1>6, <1>7, <1>8, <1>9, <1>10, <1>11, <1>12, <1>13,
     <1>14, <1>15, <1>16, <1>17, <1>18, <1>19, <1>20 DEF Next, HandlerStep

\* No deletion was begun before the ban was durable, no finalization before the
\* deletion was complete, and no request was completed before the finalization.
THEOREM BansFirst == Spec => []StepsInOrder
<1>1. Spec => []IInv
  BY InitInv, NextInv, PTL DEF Spec
<1>2. IInv => StepsInOrder
  BY DEF IInv
<1>3. QED
  BY <1>1, <1>2, PTL

\* A ban that was recorded as carried out stays so: only SetBanPending and the
\* rollback of a failed ban write another value, and both follow a reading of
\* the job row that said otherwise.
THEOREM DurableBanStays == Spec => DurableBanIsKept
<1>1. Spec => []IInv
  BY InitInv, NextInv, PTL DEF Spec
<1>2. IInv /\ [Next]_vars =>
        [\A j \in Job : job[j].ban = "succeeded" => job'[j].ban = "succeeded"]_vars
  <2> SUFFICES ASSUME IInv, [Next]_vars, NEW j \in Job, job[j].ban = "succeeded"
               PROVE  job'[j].ban = "succeeded"
    OBVIOUS
  <2>a. job \in [Job -> JobRow] /\ job[j] \in JobRow
    BY DEF IInv, TypeOK
  <2>1. CASE job' = job
    BY <2>1
  <2>2. CASE SetJob("ban", "succeeded")
    BY <2>2, <2>a DEF SetJob, JobRow
  <2>3. CASE \E v \in {"executing", "completed", "failed"} : SetJob("status", v)
    BY <2>3, <2>a DEF SetJob, JobRow
  <2>4. CASE \E v \in {"pending", "succeeded", "failed"} : SetJob("fin", v)
    BY <2>4, <2>a DEF SetJob, JobRow
  <2>5. CASE j # work.id /\ \E v \in {"pending", "failed"} : SetJob("ban", v)
    BY <2>5, <2>a DEF SetJob
  <2>6. ~SetBanPending \/ j # work.id
    BY DEF IInv, WorkInv, SetBanPending, At, Banning
  <2>7. \A field \in Undo : UndoStatus(field) => field = "fin" \/ j # work.id
    BY DEF IInv, WorkInv, UndoStatus, At, Undo
  <2>8. CASE \E field \in Undo : UndoStatus(field)
    <3>1. PICK field \in Undo : UndoStatus(field)
      BY <2>8
    <3>2. SetJob(field, "failed") /\ field \in {"ban", "fin"}
      BY <3>1 DEF UndoStatus, Undo
    <3>3. QED
      BY <3>1, <3>2, <2>4, <2>5, <2>7
  <2>9. CASE SetBanPending
    BY <2>9, <2>5, <2>6 DEF SetBanPending
  <2>10. CASE SetBanSucceeded \/ BeginCleanup \/ FinishCleanup \/ CleanupThrows
              \/ SetFinPending \/ SetFinSucceeded
    BY <2>10, <2>2, <2>3, <2>4 DEF SetBanSucceeded, BeginCleanup, FinishCleanup,
       CleanupThrows, SetFinPending, SetFinSucceeded
  <2>11. CASE \/ (\E i \in Job : Submit(i)) \/ Claim \/ Reject
              \/ MarkAlreadySet \/ ReadUnmarked \/ MarkRefused \/ WriteMark
              \/ Ban \/ BanFails \/ CleanupAlreadyDone \/ CleanupRefused
              \/ ReadPending \/ ReadBanned \/ ReadFinal \/ FinalizeRefused
              \/ WriteBanned \/ ReadMarked \/ MarkMissing \/ WriteFinal
    BY <2>11, <2>1 DEF Submit, Claim, Reject, MarkAlreadySet, ReadUnmarked, MarkRefused,
       WriteMark, Ban, BanFails, CleanupAlreadyDone, CleanupRefused, ReadPending,
       ReadBanned, ReadFinal, FinalizeRefused, WriteBanned, ReadMarked, MarkMissing,
       WriteFinal
  <2>12. CASE \/ Complete \/ ClearAfterComplete \/ UndoMarker \/ Undone
              \/ ThrowsUncaught \/ FinalizeThrows \/ ClearThrows \/ Crash
              \/ ExternalBan \/ Unban \/ IgnoreBan \/ Reopen
              \/ (\E kind \in WriterKind : ReadRow(kind)) \/ WriteRow
    BY <2>12, <2>1 DEF Complete, ClearAfterComplete, UndoMarker, Undone, ThrowsUncaught,
       FinalizeThrows, ClearThrows, Crash, ExternalBan, Unban, IgnoreBan, Reopen, ReadRow,
       WriteRow
  <2>13. CASE UNCHANGED vars
    BY <2>13, <2>1 DEF vars
  <2>14. QED
    BY <2>8, <2>9, <2>10, <2>11, <2>12, <2>13 DEF Next, HandlerStep
<1>3. QED
  BY <1>1, <1>2, PTL DEF Spec, DurableBanIsKept
=============================================================================
