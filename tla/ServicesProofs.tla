--------------------------- MODULE ServicesProofs ---------------------------
(***************************************************************************)
(* Proofs about the services, for every value of the constants: the claim   *)
(* of an alert, the intake of a report, the lockdown of channels, the        *)
(* alerts of scans, the quarantine of roles, the reminders of a case, and    *)
(* the memory of recent messages.                                            *)
(* An invariant of one service is one of all their behaviours: the others    *)
(* leave its variables as they are.                                          *)
(***************************************************************************)
EXTENDS MCServices, Sequences, FiniteSetTheorems, SequenceTheorems, WellFoundedInduction,
        TLAPS

---------------------------------------------------------------------------
(* The claim of an observed alert *)

\* m holds a claim of a lasting action: it carries it out, records or releases it.
Holding(m) ==
  /\ moderator[m].kind \in Detection!Lasting
  /\ moderator[m].at \in {"act", "record", "release"}

\* a ban or a kick that Discord has carried out
CarriedOut(m) == moderator[m].at = "record" /\ moderator[m].kind \in {"ban", "kick"}

NothingCarried == \A pair \in carried : pair[2] \notin Detection!Lasting

\* The claim of a holder is the alert's, so that there is one holder at most.
HolderIsClaimant ==
  \A m \in Mod : Holding(m) => meta.by = m /\ meta.action = moderator[m].kind

\* Nothing was carried out before a holder's own action.
HolderIsFirst ==
  \A m \in Mod : Holding(m) =>
    IF CarriedOut(m) THEN <<m, moderator[m].kind>> \in carried ELSE NothingCarried

CarriedIsClaimed ==
  \A pair \in carried : pair[2] \in Detection!Lasting =>
    pair[1] = meta.by /\ pair[2] = meta.action

\* A claim whose holder is gone was carried out, or its handler stopped.
ClaimHasReason ==
  meta.action \in Detection!Lasting =>
    \/ <<meta.by, meta.action>> \in carried \cup stuck
    \/ meta.by \in Mod /\ Holding(meta.by) /\ moderator[meta.by].kind = meta.action

\* An undo has read a dismissal.
UndoesDismissal ==
  \A m \in Mod :
    moderator[m].kind = "undo" /\ moderator[m].at \in {"clear", "record", "rollback"}
      => moderator[m].old.action \in Detection!Dismissal

\* What a change of the accounting makes of the metadata it read, as to the claim.
FollowsFrom(data, old) ==
  \/ data.action = old.action /\ data.by = old.by
  \/ data.action = "none" /\ old.action = "false_positive"

\* Nobody wrote since a change of the accounting read, but itself: then writing
\* back what it read takes no lasting claim away and makes none.
AccountingIsExact ==
  \A m \in Mod : moderator[m].kind \in Detection!Accounting =>
    /\ moderator[m].at = "update" =>
         /\ moderator[m].seen <= writes
         /\ moderator[m].seen = writes => meta = moderator[m].old
    /\ moderator[m].at \in {"record", "rollback"} =>
         /\ moderator[m].seen + 1 <= writes
         /\ moderator[m].seen + 1 = writes => FollowsFrom(meta, moderator[m].old)

\* The steps of a handler fit its kind.
StepsFitKind ==
  \A m \in Mod :
    /\ moderator[m].at \in {"claim", "release"} => moderator[m].kind \in Detection!Claim
    /\ moderator[m].at = "act" => moderator[m].kind \in Detection!Lasting
    /\ moderator[m].at = "clear" => moderator[m].kind = "undo"
    /\ moderator[m].at = "update" => moderator[m].kind \in Detection!Accounting
    /\ moderator[m].at = "rollback" => moderator[m].kind \in {"undo"} \cup Detection!Accounting

ClaimInv ==
  /\ HolderIsClaimant /\ HolderIsFirst /\ CarriedIsClaimed /\ ClaimHasReason
  /\ UndoesDismissal /\ AccountingIsExact

DetectionInv == Detection!TypeOK /\ StepsFitKind /\ (clobbered \/ ClaimInv)

\* A step is one of the service's own, or leaves its variables as they are.
LEMMA DetectionSteps ==
  ASSUME [Next]_vars
  PROVE  Detection!Next \/ UNCHANGED detectionVars
<1>1. CASE UNCHANGED vars
  BY <1>1 DEF vars
<1>2. CASE Next
  BY <1>2 DEF Next, QuarantineNext, DetectionNext, IntakeNext, ReminderNext,
              FrequencyNext, PipelineNext, LockdownNext, ActionsNext
<1> QED
  BY <1>1, <1>2

DetectionKinds ==
  /\ Detection!Lasting = {"open_case", "ban", "kick"}
  /\ Detection!Dismissal = {"dismiss", "false_positive"}
  /\ Detection!Claim = {"open_case", "ban", "kick", "dismiss", "false_positive"}
  /\ Detection!Accounting = {"exclude", "restore"}
  /\ Detection!Kind = {"open_case", "ban", "kick", "dismiss", "false_positive", "undo",
                       "exclude", "restore"}

\* The kinds of handlers, and the records the model is built from, one by one.
LEMMA DetectionData ==
  /\ DetectionKinds
  /\ Detection!Unclaimed \in Detection!Metadata
  /\ Detection!Unclaimed.action = "none" /\ Detection!Unclaimed.by = Nobody
  /\ Detection!Idle \in Detection!Handler
  /\ Detection!Idle.at = "idle" /\ Detection!Idle.kind = "undo"
<1>1. DetectionKinds
  BY DEF DetectionKinds, Detection!Lasting, Detection!Dismissal, Detection!Claim,
         Detection!Accounting, Detection!Kind
<1>2. /\ Detection!Unclaimed \in Detection!Metadata
      /\ Detection!Unclaimed.action = "none" /\ Detection!Unclaimed.by = Nobody
  BY DEF Detection!Unclaimed, Detection!Metadata
<1>3. /\ Detection!Idle \in Detection!Handler
      /\ Detection!Idle.at = "idle" /\ Detection!Idle.kind = "undo"
  BY <1>1, <1>2 DEF DetectionKinds, Detection!Idle, Detection!Handler
<1> QED
  BY <1>1, <1>2, <1>3

\* what remains of everybody's handler but m's
OthersKept(m) == \A n \in Mod \ {m} : moderator'[n] = moderator[n]

DetectionStep == {"idle", "read", "claim", "act", "record", "release", "clear", "update", "rollback"}

\* A handler goes on: it keeps its kind and what it has read.
LEMMA DetectionGoto ==
  ASSUME moderator \in [Mod -> Detection!Handler], NEW m \in Mod,
         NEW step \in DetectionStep, Detection!Goto(m, step)
  PROVE  /\ moderator' \in [Mod -> Detection!Handler]
         /\ moderator'[m].at = step /\ moderator'[m].kind = moderator[m].kind
         /\ moderator'[m].old = moderator[m].old /\ moderator'[m].seen = moderator[m].seen
         /\ OthersKept(m)
<1>1. moderator'[m] = [moderator[m] EXCEPT !.at = step] /\ OthersKept(m)
  BY DEF Detection!Goto, OthersKept
<1>2. [moderator[m] EXCEPT !.at = step] \in Detection!Handler
  BY DEF Detection!Handler, DetectionStep
<1>3. moderator' \in [Mod -> Detection!Handler]
  BY <1>2 DEF Detection!Goto
<1>4. /\ moderator'[m].at = step /\ moderator'[m].kind = moderator[m].kind
      /\ moderator'[m].old = moderator[m].old /\ moderator'[m].seen = moderator[m].seen
  BY <1>1 DEF Detection!Handler
<1> QED
  BY <1>1, <1>3, <1>4

\* A handler that has read the metadata goes on with them.
LEMMA DetectionHold ==
  ASSUME moderator \in [Mod -> Detection!Handler], NEW m \in Mod,
         NEW step \in DetectionStep, Detection!Hold(m, step),
         meta \in Detection!Metadata, writes \in Nat
  PROVE  /\ moderator' \in [Mod -> Detection!Handler]
         /\ moderator'[m].at = step /\ moderator'[m].kind = moderator[m].kind
         /\ moderator'[m].old = meta /\ moderator'[m].seen = writes
         /\ OthersKept(m)
<1> DEFINE held1 == [moderator[m] EXCEPT !.old = meta]
           held2 == [held1 EXCEPT !.seen = writes]
           held3 == [held2 EXCEPT !.at = step]
<1>1. moderator'[m] = held3 /\ OthersKept(m)
  BY DEF Detection!Hold, OthersKept
<1>2. held1 \in Detection!Handler /\ held1.old = meta /\ held1.kind = moderator[m].kind
  BY DEF Detection!Handler
<1>3. /\ held2 \in Detection!Handler /\ held2.old = meta /\ held2.kind = moderator[m].kind
      /\ held2.seen = writes
  <2> HIDE DEF held1
  <2> QED BY <1>2 DEF Detection!Handler
<1>4. /\ held3 \in Detection!Handler /\ held3.old = meta /\ held3.kind = moderator[m].kind
      /\ held3.seen = writes /\ held3.at = step
  <2> HIDE DEF held2
  <2> QED BY <1>3 DEF Detection!Handler, DetectionStep
<1>5. moderator' = [moderator EXCEPT ![m] = held3]
  BY DEF Detection!Hold
<1> HIDE DEF held3
<1>6. moderator' \in [Mod -> Detection!Handler]
  BY <1>4, <1>5
<1> QED
  BY <1>1, <1>4, <1>6

\* A handler that returns is idle.
LEMMA DetectionReturn ==
  ASSUME moderator \in [Mod -> Detection!Handler], NEW m \in Mod, Detection!Return(m)
  PROVE  /\ moderator' \in [Mod -> Detection!Handler]
         /\ moderator'[m].at = "idle" /\ moderator'[m].kind = "undo"
         /\ OthersKept(m)
BY DetectionData DEF Detection!Return, OthersKept

\* A handler that starts has its kind and reads first.
LEMMA DetectionStart ==
  ASSUME moderator \in [Mod -> Detection!Handler], NEW m \in Mod,
         NEW kd \in Detection!Kind, Detection!Start(m, kd)
  PROVE  /\ moderator' \in [Mod -> Detection!Handler]
         /\ moderator'[m].at = "read" /\ moderator'[m].kind = kd
         /\ OthersKept(m)
<1> DEFINE new == [[Detection!Idle EXCEPT !.kind = kd] EXCEPT !.at = "read"]
<1>1. new \in Detection!Handler /\ new.kind = kd /\ new.at = "read"
  <2> DEFINE kinded == [Detection!Idle EXCEPT !.kind = kd]
  <2>1. kinded \in Detection!Handler /\ kinded.kind = kd
    BY DetectionData DEF Detection!Handler
  <2>2. [kinded EXCEPT !.at = "read"] \in Detection!Handler
    <3> HIDE DEF kinded
    <3> QED BY <2>1 DEF Detection!Handler
  <2>3. [kinded EXCEPT !.at = "read"].kind = kd /\ [kinded EXCEPT !.at = "read"].at = "read"
    <3> HIDE DEF kinded
    <3> QED BY <2>1 DEF Detection!Handler
  <2> QED BY <2>2, <2>3
<1>2. moderator' = [moderator EXCEPT ![m] = new]
  BY DEF Detection!Start
<1> HIDE DEF new
<1> QED
  BY <1>1, <1>2 DEF OthersKept

DetectionStepOf(m) ==
  \/ \E k \in Detection!Kind : Detection!Start(m, k)
  \/ Detection!ReadToClaim(m) \/ Detection!ReadToUndo(m) \/ Detection!ReadToAccount(m)
  \/ Detection!ClaimAction(m) \/ Detection!OpenCase(m) \/ Detection!BanOrKick(m)
  \/ Detection!FailAct(m) \/ Detection!Record(m) \/ Detection!FailRecord(m)
  \/ Detection!Release(m) \/ Detection!ClearAction(m) \/ Detection!UpdateAccounting(m)
  \/ Detection!Rollback(m) \/ Detection!Crash(m)

\* What is left of metadata is metadata without an action.
LEMMA DetectionCleared ==
  ASSUME meta \in Detection!Metadata
  PROVE  /\ Detection!Cleared(meta) \in Detection!Metadata
         /\ Detection!Cleared(meta).action = "none"
BY DetectionData DEF Detection!Cleared, Detection!Metadata

\* The handlers' part of the types is kept by a step.
LEMMA DetectionHandlerTypes ==
  ASSUME Detection!TypeOK, NEW m \in Mod, DetectionStepOf(m)
  PROVE  moderator' \in [Mod -> Detection!Handler]
<1> USE DetectionData, DetectionGoto, DetectionHold, DetectionReturn
    DEF Detection!TypeOK, DetectionStep, DetectionKinds
<1>1. CASE \E k \in Detection!Kind : Detection!Start(m, k)
  <2>1. PICK k \in Detection!Kind : Detection!Start(m, k)
    BY <1>1
  <2> QED
    BY <2>1, DetectionStart
<1>2. CASE Detection!ReadToClaim(m)
  BY <1>2 DEF Detection!ReadToClaim
<1>3. CASE Detection!ReadToUndo(m)
  BY <1>3 DEF Detection!ReadToUndo
<1>4. CASE Detection!ReadToAccount(m)
  BY <1>4 DEF Detection!ReadToAccount
<1>5. CASE Detection!ClaimAction(m)
  BY <1>5 DEF Detection!ClaimAction
<1>6. CASE Detection!OpenCase(m) \/ Detection!BanOrKick(m) \/ Detection!FailAct(m)
  BY <1>6 DEF Detection!OpenCase, Detection!BanOrKick, Detection!FailAct
<1>7. CASE Detection!Record(m) \/ Detection!Release(m) \/ Detection!Rollback(m)
        \/ Detection!Crash(m)
  BY <1>7 DEF Detection!Record, Detection!Release, Detection!Rollback, Detection!Crash
<1>8. CASE Detection!FailRecord(m)
  BY <1>8 DEF Detection!FailRecord
<1>9. CASE Detection!ClearAction(m)
  BY <1>9 DEF Detection!ClearAction
<1>10. CASE Detection!UpdateAccounting(m)
  BY <1>10 DEF Detection!UpdateAccounting
<1> QED
  BY <1>1, <1>2, <1>3, <1>4, <1>5, <1>6, <1>7, <1>8, <1>9, <1>10 DEF DetectionStepOf

\* The other types are kept by a step.  A claim is made by handlers of a claim's kind.
LEMMA DetectionOtherTypes ==
  ASSUME ServicesAssumption, Detection!TypeOK, StepsFitKind, NEW m \in Mod, DetectionStepOf(m)
  PROVE  /\ meta' \in Detection!Metadata /\ writes' \in Nat
         /\ latest' \in {"none", "false_positive", "undo"}
         /\ carried' \subseteq Mod \X Detection!Claim /\ stuck' \subseteq Mod \X Detection!Kind
         /\ clobbered' \in BOOLEAN
         /\ starts' \in 0..DetectionStarts /\ odFaults' \in 0..DetectionFaults
<1> USE DetectionData DEF Detection!TypeOK, DetectionKinds, Detection!counters
<1>a. DetectionStarts \in Nat /\ DetectionFaults \in Nat
  BY DEF ServicesAssumption, Detection!ObservedDetectionAssumption
<1>h. /\ moderator[m].kind \in Detection!Kind /\ moderator[m].old \in Detection!Metadata
      /\ moderator[m] \in Detection!Handler
  BY DEF Detection!Handler
<1>f. ASSUME Detection!Fault
      PROVE  odFaults' \in 0..DetectionFaults
  BY <1>a, <1>f DEF Detection!Fault
<1>1. CASE \E k \in Detection!Kind : Detection!Start(m, k)
  BY <1>1, <1>a DEF Detection!Start
<1>2. CASE \/ Detection!ReadToClaim(m) \/ Detection!ReadToUndo(m) \/ Detection!ReadToAccount(m)
           \/ Detection!OpenCase(m)
  BY <1>2 DEF Detection!ReadToClaim, Detection!ReadToUndo, Detection!ReadToAccount,
              Detection!OpenCase
<1>3. CASE Detection!ClaimAction(m)
  <2>1. moderator[m].kind \in Detection!Claim
    BY <1>3 DEF Detection!ClaimAction, Detection!At, StepsFitKind
  <2>2. meta.excluded \in BOOLEAN
    BY DEF Detection!Metadata
  <2>3. [action |-> moderator[m].kind, by |-> m,
         excluded |-> meta.excluded \/ moderator[m].kind = "false_positive"] \in Detection!Metadata
    BY <2>1, <2>2 DEF Detection!Metadata
  <2> QED
    BY <1>3, <2>3 DEF Detection!ClaimAction, Detection!Write, Detection!Keep
<1>4. CASE Detection!BanOrKick(m)
  BY <1>4 DEF Detection!BanOrKick
<1>5. CASE Detection!FailAct(m) \/ Detection!FailRecord(m)
  BY <1>5, <1>f DEF Detection!FailAct, Detection!FailRecord
<1>6. CASE Detection!Record(m)
  BY <1>6 DEF Detection!Record
<1>7. CASE Detection!Release(m)
  BY <1>7, DetectionCleared DEF Detection!Release, Detection!Write, Detection!Keep
<1>8. CASE Detection!ClearAction(m)
  BY <1>8, DetectionCleared DEF Detection!ClearAction, Detection!Write, Detection!Keep
<1>9. CASE Detection!UpdateAccounting(m)
  <2>1. /\ [meta EXCEPT !.excluded = TRUE] \in Detection!Metadata
        /\ [meta EXCEPT !.excluded = FALSE] \in Detection!Metadata
    BY DEF Detection!Metadata
  <2> QED
    BY <1>9, <2>1 DEF Detection!UpdateAccounting, Detection!Write
<1>10. CASE Detection!Rollback(m)
  <2>1. [[meta EXCEPT !.action = moderator[m].old.action] EXCEPT !.by = moderator[m].old.by]
          \in Detection!Metadata
    BY <1>h DEF Detection!Metadata
  <2>2. meta' \in Detection!Metadata /\ writes' \in Nat
    <3>1. CASE moderator[m].kind # "undo"
      BY <1>10, <1>h, <3>1 DEF Detection!Rollback, Detection!Write
    <3>2. CASE moderator[m].kind = "undo" /\ meta.action = "none"
      BY <1>10, <2>1, <3>2 DEF Detection!Rollback, Detection!Write
    <3>3. CASE moderator[m].kind = "undo" /\ meta.action # "none"
      BY <1>10, <3>3 DEF Detection!Rollback, Detection!Keep
    <3> QED
      BY <3>1, <3>2, <3>3
  <2>3. clobbered' \in BOOLEAN
    BY <1>10, Zenon DEF Detection!Rollback
  <2> QED
    BY <1>10, <2>2, <2>3 DEF Detection!Rollback
<1>11. CASE Detection!Crash(m)
  BY <1>11, <1>f, <1>h DEF Detection!Crash
<1> QED
  BY <1>1, <1>2, <1>3, <1>4, <1>5, <1>6, <1>7, <1>8, <1>9, <1>10, <1>11 DEF DetectionStepOf

\* Steps go on fitting the kind of their handler.
LEMMA StepsFitKept ==
  ASSUME Detection!TypeOK, StepsFitKind, NEW m \in Mod, DetectionStepOf(m)
  PROVE  StepsFitKind'
<1>t. /\ moderator \in [Mod -> Detection!Handler] /\ meta \in Detection!Metadata
      /\ writes \in Nat
      /\ \A n \in Mod : moderator[n].kind \in Detection!Kind
  BY DEF Detection!TypeOK, Detection!Handler
<1> USE DetectionData, DetectionGoto, DetectionHold, DetectionReturn
    DEF DetectionKinds, StepsFitKind, OthersKept, DetectionStep, Detection!At
<1>1. CASE \E k \in Detection!Kind : Detection!Start(m, k)
  <2>1. PICK k \in Detection!Kind : Detection!Start(m, k)
    BY <1>1
  <2> QED
    BY <1>t, <2>1, DetectionStart
<1>2. CASE Detection!ReadToClaim(m) \/ Detection!ReadToUndo(m) \/ Detection!ReadToAccount(m)
  BY <1>2, <1>t DEF Detection!ReadToClaim, Detection!ReadToUndo, Detection!ReadToAccount
<1>3. CASE Detection!ClaimAction(m)
  BY <1>3, <1>t DEF Detection!ClaimAction
<1>4. CASE Detection!OpenCase(m) \/ Detection!BanOrKick(m) \/ Detection!FailAct(m)
  BY <1>4, <1>t DEF Detection!OpenCase, Detection!BanOrKick, Detection!FailAct
<1>5. CASE \/ Detection!Record(m) \/ Detection!Release(m) \/ Detection!Rollback(m)
           \/ Detection!Crash(m)
  BY <1>5, <1>t DEF Detection!Record, Detection!Release, Detection!Rollback, Detection!Crash
<1>6. CASE Detection!FailRecord(m)
  BY <1>6, <1>t DEF Detection!FailRecord
<1>7. CASE Detection!ClearAction(m) \/ Detection!UpdateAccounting(m)
  BY <1>7, <1>t DEF Detection!ClearAction, Detection!UpdateAccounting
<1> QED
  BY <1>1, <1>2, <1>3, <1>4, <1>5, <1>6, <1>7 DEF DetectionStepOf

\* The claim's invariant is kept by a step that puts nothing back over others' writes.
LEMMA ClaimInvKept ==
  ASSUME Detection!TypeOK, StepsFitKind, ClaimInv, NEW m \in Mod, DetectionStepOf(m), ~clobbered'
  PROVE  ClaimInv'
<1> USE DetectionData DEF DetectionKinds
<1>h. \A n \in Mod : /\ moderator[n].kind \in Detection!Kind /\ moderator[n].seen \in Nat
                     /\ moderator[n].old \in Detection!Metadata
  BY DEF Detection!TypeOK, Detection!Handler
<1>t. /\ moderator \in [Mod -> Detection!Handler] /\ meta \in Detection!Metadata
      /\ writes \in Nat /\ carried \subseteq Mod \X Detection!Claim
  BY DEF Detection!TypeOK
<1> USE DEF ClaimInv, HolderIsClaimant, HolderIsFirst, CarriedIsClaimed, ClaimHasReason,
            UndoesDismissal, AccountingIsExact, StepsFitKind, Holding, CarriedOut,
            NothingCarried, OthersKept, DetectionStep, Detection!At
<1>1. CASE \E k \in Detection!Kind : Detection!Start(m, k)
  <2>1. PICK k \in Detection!Kind : Detection!Start(m, k)
    BY <1>1
  <2>2. /\ moderator'[m].at = "read" /\ moderator[m].at = "idle" /\ OthersKept(m)
        /\ UNCHANGED <<meta, carried, writes, stuck>>
    BY <1>t, <2>1, DetectionStart DEF Detection!Start
  <2> QED
    BY <1>t, <1>h, <2>2
<1>2. CASE Detection!ReadToClaim(m)
  BY <1>2, <1>t, <1>h, DetectionHold, DetectionReturn DEF Detection!ReadToClaim
<1>3. CASE Detection!ReadToUndo(m)
  BY <1>3, <1>t, <1>h, DetectionHold, DetectionReturn DEF Detection!ReadToUndo
<1>4. CASE Detection!ReadToAccount(m)
  BY <1>4, <1>t, <1>h, DetectionHold DEF Detection!ReadToAccount
<1>5. CASE Detection!ClaimAction(m)
  BY <1>5, <1>t, <1>h, DetectionGoto, DetectionReturn DEF Detection!ClaimAction, Detection!Write, Detection!Keep
<1>6. CASE Detection!OpenCase(m)
  BY <1>6, <1>t, <1>h, DetectionGoto DEF Detection!OpenCase
<1>7. CASE Detection!BanOrKick(m)
  BY <1>7, <1>t, <1>h, DetectionGoto DEF Detection!BanOrKick
<1>8. CASE Detection!FailAct(m)
  BY <1>8, <1>t, <1>h, DetectionGoto DEF Detection!FailAct
<1>9. CASE Detection!Record(m)
  BY <1>9, <1>t, <1>h, DetectionReturn DEF Detection!Record
<1>10. CASE Detection!FailRecord(m)
  BY <1>10, <1>t, <1>h, DetectionGoto, DetectionReturn DEF Detection!FailRecord
<1>11. CASE Detection!Release(m)
  BY <1>11, <1>t, <1>h, DetectionCleared, DetectionReturn DEF Detection!Release, Detection!Write, Detection!Keep
<1>12. CASE Detection!ClearAction(m)
  BY <1>12, <1>t, <1>h, DetectionCleared, DetectionGoto, DetectionReturn DEF Detection!ClearAction, Detection!Write, Detection!Keep
<1>13. CASE Detection!UpdateAccounting(m)
  <2>1. moderator[m].kind \in Detection!Accounting /\ moderator[m].at = "update"
    BY <1>13 DEF Detection!UpdateAccounting
  <2>2. /\ moderator'[m].at = "record" /\ moderator'[m].kind = moderator[m].kind
        /\ moderator'[m].old = moderator[m].old /\ moderator'[m].seen = moderator[m].seen
        /\ OthersKept(m)
    BY <1>13, <1>t, DetectionGoto DEF Detection!UpdateAccounting
  <2>3. writes' = writes + 1 /\ carried' = carried /\ stuck' = stuck
    BY <1>13 DEF Detection!UpdateAccounting, Detection!Write
  <2>4. \/ meta'.action = meta.action /\ meta'.by = meta.by
        \/ meta.action = "false_positive" /\ meta'.action = "none"
    <3>1. /\ [meta EXCEPT !.excluded = TRUE].action = meta.action
          /\ [meta EXCEPT !.excluded = TRUE].by = meta.by
          /\ [meta EXCEPT !.excluded = FALSE].action = meta.action
          /\ [meta EXCEPT !.excluded = FALSE].by = meta.by
      BY <1>t DEF Detection!Metadata
    <3> QED
      BY <1>13, <3>1 DEF Detection!UpdateAccounting, Detection!Write
  <2>5. HolderIsClaimant' /\ HolderIsFirst' /\ CarriedIsClaimed' /\ ClaimHasReason'
    BY <1>h, <2>1, <2>2, <2>3, <2>4
  <2>6. AccountingIsExact'
    BY <1>t, <1>h, <2>1, <2>2, <2>3, <2>4 DEF FollowsFrom
  <2>7. UndoesDismissal'
    BY <1>h, <2>1, <2>2
  <2> QED
    BY <2>5, <2>6, <2>7
<1>14. CASE Detection!Rollback(m)
  <2>1. moderator[m].at = "rollback"
    BY <1>14 DEF Detection!Rollback
  <2>2. moderator'[m].at = "idle" /\ moderator'[m].kind = "undo" /\ OthersKept(m)
    BY <1>14, <1>t, DetectionReturn DEF Detection!Rollback
  <2>3. carried' = carried /\ stuck' = stuck
    BY <1>14 DEF Detection!Rollback
  <2>4. \/ writes' = writes + 1
        \/ writes' = writes /\ meta' = meta
    BY <1>14 DEF Detection!Rollback, Detection!Write, Detection!Keep
  <2>5. \/ meta'.action = meta.action /\ meta'.by = meta.by
        \/ meta.action \notin Detection!Lasting /\ meta'.action \notin Detection!Lasting
    <3>1. CASE moderator[m].kind # "undo"
      <4>1. meta' = moderator[m].old /\ writes = moderator[m].seen + 1
        BY <1>14, <1>t, <1>h, <3>1, Zenon DEF Detection!Rollback, Detection!Write
      <4>2. FollowsFrom(meta, moderator[m].old)
        BY <2>1, <3>1, <4>1, <1>h
      <4> QED
        BY <4>1, <4>2 DEF FollowsFrom
    <3>2. CASE moderator[m].kind = "undo" /\ meta.action = "none"
      <4>1. meta' = [[meta EXCEPT !.action = moderator[m].old.action]
                       EXCEPT !.by = moderator[m].old.by]
        BY <1>14, <3>2 DEF Detection!Rollback, Detection!Write
      <4>2. meta'.action = moderator[m].old.action
        BY <1>t, <1>h, <4>1 DEF Detection!Metadata
      <4>3. moderator[m].old.action \in Detection!Dismissal
        BY <2>1, <3>2
      <4> QED
        BY <3>2, <4>2, <4>3
    <3>3. CASE moderator[m].kind = "undo" /\ meta.action # "none"
      BY <1>14, <3>3 DEF Detection!Rollback, Detection!Keep
    <3> QED
      BY <3>1, <3>2, <3>3
  <2>6. HolderIsClaimant' /\ HolderIsFirst' /\ CarriedIsClaimed' /\ ClaimHasReason'
    BY <1>t, <1>h, <2>1, <2>2, <2>3, <2>5
  <2>7. AccountingIsExact'
    BY <1>t, <1>h, <2>1, <2>2, <2>4
  <2>8. UndoesDismissal'
    BY <1>h, <2>1, <2>2
  <2> QED
    BY <2>6, <2>7, <2>8
<1>15. CASE Detection!Crash(m)
  BY <1>15, <1>t, <1>h, DetectionReturn DEF Detection!Crash
<1> QED
  BY <1>1, <1>2, <1>3, <1>4, <1>5, <1>6, <1>7, <1>8, <1>9, <1>10, <1>11, <1>12, <1>13,
     <1>14, <1>15 DEF DetectionStepOf

\* The invariant of the observed alert, in every behaviour of the services.
LEMMA DetectionKept ==
  ASSUME ServicesAssumption
  PROVE  Spec => []DetectionInv
<1>1. Init => DetectionInv
  <2> SUFFICES ASSUME Detection!Init
               PROVE  DetectionInv
    BY DEF Init
  <2>1. Detection!TypeOK
    <3>1. DetectionStarts \in Nat /\ DetectionFaults \in Nat
      BY DEF ServicesAssumption, Detection!ObservedDetectionAssumption
    <3>2. moderator \in [Mod -> Detection!Handler]
      BY DetectionData DEF Detection!Init
    <3>3. clobbered \in BOOLEAN
      BY Zenon DEF Detection!Init
    <3>4. /\ meta \in Detection!Metadata /\ latest \in {"none", "false_positive", "undo"}
          /\ writes \in Nat /\ carried \subseteq Mod \X Detection!Claim
          /\ stuck \subseteq Mod \X Detection!Kind
          /\ starts \in 0..DetectionStarts /\ odFaults \in 0..DetectionFaults
      BY <3>1, DetectionData DEF Detection!Init
    <3> QED
      BY <3>2, <3>3, <3>4, Zenon DEF Detection!TypeOK
  <2>2. /\ \A m \in Mod : moderator[m].at = "idle"
        /\ meta.action = "none" /\ carried = {}
    BY DetectionData DEF Detection!Init
  <2>3. ClaimInv /\ StepsFitKind
    BY <2>2, DetectionData DEF DetectionKinds, ClaimInv, HolderIsClaimant, HolderIsFirst,
       CarriedIsClaimed, ClaimHasReason, UndoesDismissal, AccountingIsExact, StepsFitKind, Holding
  <2> QED
    BY <2>1, <2>3 DEF DetectionInv
<1>2. DetectionInv /\ [Next]_vars => DetectionInv'
  <2> SUFFICES ASSUME DetectionInv, [Next]_vars
               PROVE  DetectionInv'
    OBVIOUS
  <2>1. CASE UNCHANGED detectionVars
    BY <2>1 DEF detectionVars, DetectionInv, Detection!TypeOK, ClaimInv, HolderIsClaimant,
       HolderIsFirst, CarriedIsClaimed, ClaimHasReason, UndoesDismissal, AccountingIsExact,
       StepsFitKind, Holding, CarriedOut, NothingCarried
  <2>2. CASE Detection!Next
    <3>1. PICK m \in Mod : DetectionStepOf(m)
      BY <2>2 DEF Detection!Next, DetectionStepOf
    <3>2. Detection!TypeOK'
      BY <3>1, DetectionHandlerTypes, DetectionOtherTypes DEF DetectionInv, Detection!TypeOK
    <3>3. StepsFitKind'
      BY <3>1, StepsFitKept DEF DetectionInv
    <3>4. clobbered' \/ ClaimInv'
      <4>1. clobbered => clobbered'
        BY <3>1, Zenon DEF DetectionStepOf, Detection!Start, Detection!ReadToClaim, Detection!ReadToUndo, Detection!ReadToAccount, Detection!ClaimAction, Detection!OpenCase, Detection!BanOrKick, Detection!FailAct, Detection!Record, Detection!FailRecord, Detection!Release, Detection!ClearAction, Detection!UpdateAccounting, Detection!Rollback, Detection!Crash
      <4> QED
        BY <3>1, <4>1, ClaimInvKept DEF DetectionInv
    <3> QED
      BY <3>2, <3>3, <3>4 DEF DetectionInv
  <2> QED
    BY <2>1, <2>2, DetectionSteps
<1> QED
  BY <1>1, <1>2, PTL DEF Spec

\* The claim of an alert is true, for any number of moderators: two never both open a
\* case for, ban or kick its member, and a claim whose action failed is released
\* (ObservedDetection).
THEOREM ClaimStaysTrue ==
  ASSUME ServicesAssumption
  PROVE  Spec => []ClaimIsTrue
<1>1. DetectionInv => ClaimIsTrue
  BY DetectionData DEF DetectionInv, DetectionKinds, ClaimInv, CarriedIsClaimed, ClaimHasReason,
     Holding, ClaimIsTrue, Detection!ClaimIsTrue, Detection!At, Detection!TypeOK
<1> QED
  BY <1>1, DetectionKept, PTL

---------------------------------------------------------------------------
(* The report of an intake *)

Submitted == Intake!Reviewed \cup {"submitted"}

\* A confirmation that went through: it files its report, or has filed it.
Confirmed(h) ==
  /\ intake[h].kind = "confirm"
  /\ intake[h].at = "submit" \/ (intake[h].at \in {"read", "write"} /\ intake[h].to = "submitted")

\* a handler with the metadata it has read in hand
Reading(h) == intake[h].at \in {"prompt", "target", "write"}

\* The target is the confirmed one.
ConfirmedIsTarget ==
  \A h \in IntakeHandler : Confirmed(h) => intake[h].goal \in Cand /\ row.target = intake[h].goal

\* A confirmation is at the row's end of its way only after its report.
ConfirmsThrough ==
  \A h \in IntakeHandler : intake[h].kind = "confirm" =>
    /\ intake[h].at \in {"read", "target", "submit", "write"}
    /\ intake[h].at = "write" => intake[h].to = "submitted"
    /\ intake[h].goal \in Cand

OthersAreNoTargets ==
  \A h \in IntakeHandler : intake[h].at \in {"target", "submit"} => intake[h].kind = "confirm"

\* Whoever is about to write that the report is in knows of one.
SubmitsFiled ==
  /\ \A h \in IntakeHandler : intake[h].to \in Submitted => filed # {}
  /\ alert # "none" => filed # {}

ReportInv ==
  /\ Intake!OneReport /\ ConfirmedIsTarget /\ ConfirmsThrough /\ OthersAreNoTargets
  /\ SubmitsFiled

\* What the reporter said is in the metadata ...
Remembers(data) == said \subseteq data.rejected /\ said \cap data.suggested = {}

\* ... and in those that a handler has read and nobody has replaced since.
SaidIsRemembered ==
  /\ Remembers(row.data)
  /\ \A h \in IntakeHandler :
       Reading(h) /\ intake[h].seen = riWrites => Remembers(intake[h].data)

ReadsThePast ==
  \A h \in IntakeHandler :
    /\ Reading(h) => intake[h].seen <= riWrites
    /\ intake[h].at = "target" => intake[h].goal \in intake[h].data.suggested

IntakeInv ==
  Intake!TypeOK /\ ReportInv /\ ReadsThePast /\ (raced \/ SaidIsRemembered)

\* A step is one of the intake's own, or leaves its variables as they are.
LEMMA IntakeSteps ==
  ASSUME [Next]_vars
  PROVE  Intake!Next \/ UNCHANGED intakeVars
<1>1. CASE UNCHANGED vars
  BY <1>1 DEF vars
<1>2. CASE Next
  BY <1>2 DEF Next, QuarantineNext, DetectionNext, IntakeNext, ReminderNext,
              FrequencyNext, PipelineNext, LockdownNext, ActionsNext
<1> QED
  BY <1>1, <1>2

\* The records the intake is built from, one by one.
LEMMA IntakeData ==
  /\ Intake!NoMetadata \in Intake!Metadata
  /\ Intake!NoMetadata.suggested = {} /\ Intake!NoMetadata.rejected = {}
  /\ Intake!Idle \in Intake!Local
  /\ Intake!Idle.at = "idle" /\ Intake!Idle.kind = "close" /\ Intake!Idle.to = "keep"
  /\ Intake!Idle.goal = NoCand /\ Intake!Idle.cands = {}
<1>1. /\ Intake!NoMetadata \in Intake!Metadata
      /\ Intake!NoMetadata.suggested = {} /\ Intake!NoMetadata.rejected = {}
  BY DEF Intake!NoMetadata, Intake!Metadata
<1>2. /\ Intake!Idle \in Intake!Local
      /\ Intake!Idle.at = "idle" /\ Intake!Idle.kind = "close" /\ Intake!Idle.to = "keep"
      /\ Intake!Idle.goal = NoCand /\ Intake!Idle.cands = {}
  BY <1>1 DEF Intake!Idle, Intake!Local, Intake!Kind
<1> QED
  BY <1>1, <1>2

IntakeStep == {"idle", "create", "activate", "read", "prompt", "write", "target", "submit"}

\* what remains of every handler but h
IntakesKept(h) == \A g \in IntakeHandler \ {h} : intake'[g] = intake[g]

\* what the step leaves of h that its later steps go by
HeldKept(h) ==
  /\ intake'[h].kind = intake[h].kind /\ intake'[h].data = intake[h].data
  /\ intake'[h].seen = intake[h].seen /\ intake'[h].goal = intake[h].goal
  /\ intake'[h].cands = intake[h].cands

\* A handler goes on with what it has.
LEMMA IntakeGoto ==
  ASSUME intake \in [IntakeHandler -> Intake!Local], NEW h \in IntakeHandler,
         NEW step \in IntakeStep, Intake!Goto(h, step)
  PROVE  /\ intake' \in [IntakeHandler -> Intake!Local] /\ IntakesKept(h)
         /\ HeldKept(h) /\ intake'[h].to = intake[h].to /\ intake'[h].at = step
<1> DEFINE new == [intake[h] EXCEPT !.at = step]
<1>1. intake' = [intake EXCEPT ![h] = new]
  BY DEF Intake!Goto
<1>2. /\ new \in Intake!Local /\ new.at = step /\ new.kind = intake[h].kind
      /\ new.data = intake[h].data /\ new.seen = intake[h].seen
  BY DEF Intake!Local, IntakeStep
<1>3. new.goal = intake[h].goal /\ new.cands = intake[h].cands /\ new.to = intake[h].to
  BY DEF Intake!Local, IntakeStep
<1> HIDE DEF new
<1> QED
  BY <1>1, <1>2, <1>3 DEF IntakesKept, HeldKept

\* A handler that returns is idle.
LEMMA IntakeReturn ==
  ASSUME intake \in [IntakeHandler -> Intake!Local], NEW h \in IntakeHandler, Intake!Return(h)
  PROVE  /\ intake' \in [IntakeHandler -> Intake!Local] /\ IntakesKept(h)
         /\ intake'[h].at = "idle" /\ intake'[h].kind = "close" /\ intake'[h].to = "keep"
BY IntakeData DEF Intake!Return, IntakesKept

\* A handler goes on with the row's metadata, and with the status it means to write.
LEMMA IntakeHold ==
  ASSUME intake \in [IntakeHandler -> Intake!Local], NEW h \in IntakeHandler,
         NEW step \in IntakeStep, NEW status \in Intake!Status \cup {"keep"},
         row.data \in Intake!Metadata, riWrites \in Nat, Intake!Hold(h, step, status)
  PROVE  /\ intake' \in [IntakeHandler -> Intake!Local] /\ IntakesKept(h)
         /\ intake'[h].kind = intake[h].kind /\ intake'[h].goal = intake[h].goal
         /\ intake'[h].data = row.data /\ intake'[h].seen = riWrites
         /\ intake'[h].at = step /\ intake'[h].to = status
<1> DEFINE one == [intake[h] EXCEPT !.data = row.data]
           two == [one EXCEPT !.seen = riWrites]
           three == [two EXCEPT !.at = step]
           four == [three EXCEPT !.to = status]
<1>1. intake' = [intake EXCEPT ![h] = four]
  BY DEF Intake!Hold
<1>2. /\ one \in Intake!Local /\ one.data = row.data
      /\ one.kind = intake[h].kind /\ one.goal = intake[h].goal
  BY DEF Intake!Local
<1>3. /\ two \in Intake!Local /\ two.data = row.data /\ two.seen = riWrites
      /\ two.kind = intake[h].kind /\ two.goal = intake[h].goal
  <2> HIDE DEF one
  <2> QED BY <1>2 DEF Intake!Local
<1>4. /\ three \in Intake!Local /\ three.data = row.data /\ three.seen = riWrites
      /\ three.kind = intake[h].kind /\ three.goal = intake[h].goal /\ three.at = step
  <2> HIDE DEF two
  <2> QED BY <1>3 DEF Intake!Local, IntakeStep
<1>5. /\ four \in Intake!Local /\ four.data = row.data /\ four.seen = riWrites
      /\ four.kind = intake[h].kind /\ four.goal = intake[h].goal /\ four.at = step
      /\ four.to = status
  <2> HIDE DEF three
  <2> QED BY <1>4 DEF Intake!Local
<1> HIDE DEF four
<1> QED
  BY <1>1, <1>5 DEF IntakesKept

\* A handler begins with its kind and what was pressed or found.
LEMMA IntakeBegin ==
  ASSUME intake \in [IntakeHandler -> Intake!Local], NEW h \in IntakeHandler,
         NEW kd \in Intake!Kind, NEW c \in Cand \cup {NoCand}, NEW S \in SUBSET Cand,
         NEW status \in Intake!Status \cup {"keep"}, Intake!Begin(h, kd, c, S, status)
  PROVE  /\ intake' \in [IntakeHandler -> Intake!Local] /\ IntakesKept(h)
         /\ intake'[h].kind = kd /\ intake'[h].goal = c /\ intake'[h].to = status
         /\ intake'[h].at = IF kd = "open" THEN "create" ELSE "read"
<1> DEFINE first == IF kd = "open" THEN "create" ELSE "read"
           one == [Intake!Idle EXCEPT !.kind = kd]
           two == [one EXCEPT !.goal = c]
           three == [two EXCEPT !.cands = S]
           four == [three EXCEPT !.to = status]
           five == [four EXCEPT !.at = first]
<1>1. intake' = [intake EXCEPT ![h] = five]
  BY DEF Intake!Begin
<1>2. one \in Intake!Local /\ one.kind = kd
  BY IntakeData DEF Intake!Local
<1>3. two \in Intake!Local /\ two.kind = kd /\ two.goal = c
  <2> HIDE DEF one
  <2> QED BY <1>2 DEF Intake!Local
<1>4. three \in Intake!Local /\ three.kind = kd /\ three.goal = c
  <2> HIDE DEF two
  <2> QED BY <1>3 DEF Intake!Local
<1>5. four \in Intake!Local /\ four.kind = kd /\ four.goal = c /\ four.to = status
  <2> HIDE DEF three
  <2> QED BY <1>4 DEF Intake!Local
<1>6. five \in Intake!Local /\ five.kind = kd /\ five.goal = c /\ five.to = status
      /\ five.at = first
  <2>1. first \in {"create", "read"}
    OBVIOUS
  <2> HIDE DEF four, first
  <2> QED BY <1>5, <2>1 DEF Intake!Local
<1> HIDE DEF five
<1> QED
  BY <1>1, <1>6 DEF IntakesKept

\* The question asked: what is suggested was not rejected, what was rejected stays so.
LEMMA IntakePrompt ==
  ASSUME intake \in [IntakeHandler -> Intake!Local], NEW h \in IntakeHandler, Intake!Prompt(h)
  PROVE  /\ intake' \in [IntakeHandler -> Intake!Local] /\ IntakesKept(h)
         /\ intake'[h].kind = intake[h].kind /\ intake'[h].goal = intake[h].goal
         /\ intake'[h].seen = intake[h].seen /\ intake'[h].at = "write"
         /\ \/ intake'[h].to = intake[h].to
            \/ intake'[h].to = "needs_reporter_confirmation"
         /\ intake'[h].data.rejected = intake[h].data.rejected
         /\ intake'[h].data.suggested \cap intake[h].data.rejected = {}
         /\ asked' \subseteq asked \cup SUBSET Cand
<1> DEFINE data == intake[h].data
           merged == (data.suggested \cup intake[h].cands) \ data.rejected
           new == merged # {} /\ merged # data.current
           prompt == IF new THEN merged ELSE data.prompt
           current == IF new THEN merged ELSE data.current
           status == IF intake[h].to = "collecting_evidence" /\ merged # {}
                     THEN "needs_reporter_confirmation" ELSE intake[h].to
           d1 == [data EXCEPT !.suggested = merged]
           d2 == [d1 EXCEPT !.prompt = prompt]
           d3 == [d2 EXCEPT !.current = current]
           one == [intake[h] EXCEPT !.at = "write"]
           two == [one EXCEPT !.data = d3]
           three == [two EXCEPT !.to = status]
<1>1. /\ data \in Intake!Metadata /\ merged \in SUBSET Cand
      /\ prompt \in SUBSET Cand /\ current \in SUBSET Cand
      /\ status \in Intake!Status \cup {"keep"}
      /\ merged \cap data.rejected = {}
      /\ status = intake[h].to \/ status = "needs_reporter_confirmation"
  BY DEF Intake!Local, Intake!Metadata, Intake!Status, Intake!OpenStatus
<1>2. intake' = [intake EXCEPT ![h] = three] /\ asked' \subseteq asked \cup {merged}
  BY DEF Intake!Prompt
<1>3. d3 \in Intake!Metadata /\ d3.rejected = data.rejected /\ d3.suggested = merged
  <2> HIDE DEF data, merged, prompt, current
  <2>1. d1 \in Intake!Metadata /\ d1.rejected = data.rejected /\ d1.suggested = merged
    BY <1>1 DEF Intake!Metadata
  <2>2. d2 \in Intake!Metadata /\ d2.rejected = data.rejected /\ d2.suggested = merged
    <3> HIDE DEF d1
    <3> QED BY <1>1, <2>1 DEF Intake!Metadata
  <2> HIDE DEF d2
  <2> QED
    BY <1>1, <2>2 DEF Intake!Metadata
<1> HIDE DEF d3, merged, status
<1>4. /\ one \in Intake!Local /\ one.kind = intake[h].kind /\ one.goal = intake[h].goal
      /\ one.seen = intake[h].seen /\ one.at = "write"
  BY DEF Intake!Local
<1> HIDE DEF one
<1>5. /\ two \in Intake!Local /\ two.kind = intake[h].kind /\ two.goal = intake[h].goal
      /\ two.seen = intake[h].seen /\ two.at = "write" /\ two.data = d3
  BY <1>3, <1>4 DEF Intake!Local
<1> HIDE DEF two
<1>6. /\ three \in Intake!Local /\ three.kind = intake[h].kind /\ three.goal = intake[h].goal
      /\ three.seen = intake[h].seen /\ three.at = "write" /\ three.data = d3
      /\ three.to = status
  BY <1>1, <1>5 DEF Intake!Local
<1> HIDE DEF three
<1> QED
  BY <1>1, <1>2, <1>3, <1>6 DEF IntakesKept

\* Once the report is filed the handler reads again.
LEMMA IntakeSubmit ==
  ASSUME intake \in [IntakeHandler -> Intake!Local], NEW h \in IntakeHandler, Intake!Submit(h)
  PROVE  /\ intake' \in [IntakeHandler -> Intake!Local] /\ IntakesKept(h)
         /\ HeldKept(h) /\ intake'[h].to = "submitted" /\ intake'[h].at = "read"
<1> DEFINE one == [intake[h] EXCEPT !.at = "read"]
           two == [one EXCEPT !.to = "submitted"]
<1>1. intake' = [intake EXCEPT ![h] = two]
  BY DEF Intake!Submit
<1>2. /\ one \in Intake!Local /\ one.at = "read" /\ one.kind = intake[h].kind
      /\ one.data = intake[h].data /\ one.seen = intake[h].seen
      /\ one.goal = intake[h].goal /\ one.cands = intake[h].cands
  BY DEF Intake!Local
<1> HIDE DEF one
<1>3. /\ two \in Intake!Local /\ two.at = "read" /\ two.kind = intake[h].kind
      /\ two.data = intake[h].data /\ two.seen = intake[h].seen
      /\ two.goal = intake[h].goal /\ two.cands = intake[h].cands /\ two.to = "submitted"
  BY <1>2 DEF Intake!Local, Intake!Status
<1> HIDE DEF two
<1> QED
  BY <1>1, <1>3 DEF IntakesKept, HeldKept

\* What a handler writes is metadata; a rejection takes the suggestions back.
LEMMA IntakeWritten ==
  ASSUME intake \in [IntakeHandler -> Intake!Local], NEW h \in IntakeHandler
  PROVE  /\ Intake!Written(h) \in Intake!Metadata
         /\ intake[h].kind # "reject" => Intake!Written(h) = intake[h].data
         /\ intake[h].kind = "reject" =>
              /\ Intake!Written(h).rejected = intake[h].data.rejected \cup intake[h].cands
              /\ Intake!Written(h).suggested = intake[h].data.suggested \ intake[h].cands
<1> DEFINE data == intake[h].data
           cands == intake[h].cands
           d1 == [data EXCEPT !.suggested = data.suggested \ cands]
           d2 == [d1 EXCEPT !.rejected = data.rejected \cup cands]
           d3 == [d2 EXCEPT !.current = {}]
<1>1. data \in Intake!Metadata /\ cands \in SUBSET Cand
  BY DEF Intake!Local
<1>2. Intake!Written(h) = IF intake[h].kind # "reject" THEN data ELSE d3
  BY DEF Intake!Written
<1> HIDE DEF data, cands
<1>3. /\ d1 \in Intake!Metadata /\ d1.suggested = data.suggested \ cands
      /\ d1.rejected = data.rejected
  BY <1>1 DEF Intake!Metadata
<1>4. /\ d2 \in Intake!Metadata /\ d2.suggested = data.suggested \ cands
      /\ d2.rejected = data.rejected \cup cands
  <2> HIDE DEF d1
  <2> QED BY <1>1, <1>3 DEF Intake!Metadata
<1>5. /\ d3 \in Intake!Metadata /\ d3.suggested = data.suggested \ cands
      /\ d3.rejected = data.rejected \cup cands
  <2> HIDE DEF d2
  <2> QED BY <1>1, <1>4 DEF Intake!Metadata
<1> HIDE DEF d3
<1> QED
  BY <1>1, <1>2, <1>5 DEF data, cands

IntakeTypes ==
  /\ row.status \in Intake!Status /\ row.target \in Cand \cup {NoCand}
  /\ row.data \in Intake!Metadata
  /\ row.data.suggested \in SUBSET Cand /\ row.data.rejected \in SUBSET Cand
  /\ asked \subseteq SUBSET Cand
  /\ alert \in {"none", "open"} \cup Intake!Reviewed
  /\ intake \in [IntakeHandler -> Intake!Local]
  /\ filed \subseteq Cand /\ said \subseteq Cand
  /\ riWrites \in Nat
  /\ riStarts \in 0..IntakeStarts /\ riFaults \in 0..IntakeFaults

\* A handler begins: nothing it knows of the report is untrue.
LEMMA IntakeBeginKept ==
  ASSUME ServicesAssumption, IntakeInv, IntakeTypes, NEW h \in IntakeHandler,
         NEW kd \in Intake!Kind, NEW c \in Cand \cup {NoCand}, NEW S \in SUBSET Cand,
         NEW status \in Intake!Status \cup {"keep"}, Intake!Begin(h, kd, c, S, status),
         alert' \in {"none", "open"} \cup Intake!Reviewed,
         alert' # "none" => filed # {},
         status \in Submitted => filed # {},
         kd = "confirm" => c \in Cand /\ status = "keep"
  PROVE  IntakeInv'
<1>1. /\ intake' \in [IntakeHandler -> Intake!Local] /\ IntakesKept(h)
      /\ intake'[h].kind = kd /\ intake'[h].goal = c /\ intake'[h].to = status
      /\ intake'[h].at = IF kd = "open" THEN "create" ELSE "read"
  BY IntakeBegin DEF IntakeTypes
<1>2. row' = row /\ riWrites' = riWrites /\ raced' = raced /\ asked' = asked /\ filed' = filed
      /\ said' = said /\ riFaults' = riFaults
  BY DEF Intake!Begin, Intake!Rows
<1>3. riStarts' \in 0..IntakeStarts
  BY DEF Intake!Begin, IntakeTypes, ServicesAssumption, Intake!ReportIntakeAssumption
<1>4. Intake!TypeOK'
  BY <1>1, <1>2, <1>3 DEF IntakeInv, Intake!TypeOK
<1>5. ReportInv'
  <2>1. Intake!OneReport'
    BY <1>2 DEF IntakeInv, ReportInv, Intake!OneReport
  <2>2. ConfirmedIsTarget' /\ ConfirmsThrough' /\ OthersAreNoTargets'
    BY <1>1, <1>2 DEF IntakeInv, ReportInv, ConfirmedIsTarget, ConfirmsThrough,
       OthersAreNoTargets, Confirmed, IntakesKept
  <2>3. SubmitsFiled'
    BY <1>1, <1>2 DEF IntakeInv, ReportInv, SubmitsFiled, IntakesKept
  <2> QED
    BY <2>1, <2>2, <2>3 DEF ReportInv
<1>6. ReadsThePast' /\ (raced' \/ SaidIsRemembered')
  BY <1>1, <1>2 DEF IntakeInv, ReadsThePast, SaidIsRemembered, Remembers, Reading, IntakesKept
<1> QED
  BY <1>4, <1>5, <1>6 DEF IntakeInv

IntakeStart(h) ==
  \/ \E S \in SUBSET Cand : Intake!StartMessage(h, S) \/ Intake!StartAnalysis(h, S)
  \/ \E c \in Cand : Intake!StartConfirm(h, c)
  \/ \E P \in asked : Intake!StartReject(h, P)
  \/ Intake!StartClose(h) \/ Intake!StartOpen(h) \/ Intake!StartAlert(h)

\* The ways to begin.
LEMMA IntakeStartsKept ==
  ASSUME ServicesAssumption, IntakeInv, IntakeTypes, NEW h \in IntakeHandler,
         IntakeStart(h)
  PROVE  IntakeInv'
<1> USE DEF Intake!Kind
<1>a. /\ "keep" \in Intake!Status \cup {"keep"} /\ "keep" \notin Submitted
      /\ {} \in SUBSET Cand /\ NoCand \in Cand \cup {NoCand}
      /\ "submitted" \in Intake!Status
      /\ Intake!Reviewed \subseteq Intake!Status /\ "none" \notin Intake!Reviewed
  BY DEF Submitted, Intake!Reviewed, Intake!Status, Intake!OpenStatus
<1>b. alert # "none" => filed # {}
  BY DEF IntakeInv, ReportInv, SubmitsFiled
<1>1. ASSUME NEW S \in SUBSET Cand, Intake!StartMessage(h, S)
      PROVE  IntakeInv'
  <2>1. alert' = alert
    BY <1>1 DEF Intake!StartMessage
  <2>2. CASE Intake!Begin(h, "message", NoCand, S, "keep")
    BY <1>a, <1>b, <2>1, <2>2, IntakeBeginKept DEF IntakeTypes
  <2>3. CASE Intake!Begin(h, "close_text", NoCand, {}, "keep")
    BY <1>a, <1>b, <2>1, <2>3, IntakeBeginKept DEF IntakeTypes
  <2> QED
    BY <1>1, <2>2, <2>3 DEF Intake!StartMessage
<1>2. ASSUME NEW S \in SUBSET Cand, Intake!StartAnalysis(h, S)
      PROVE  IntakeInv'
  BY <1>2, <1>a, <1>b, IntakeBeginKept DEF Intake!StartAnalysis, IntakeTypes
<1>3. ASSUME NEW c \in Cand, Intake!StartConfirm(h, c)
      PROVE  IntakeInv'
  BY <1>3, <1>a, <1>b, IntakeBeginKept DEF Intake!StartConfirm, IntakeTypes
<1>4. ASSUME NEW P \in asked, Intake!StartReject(h, P)
      PROVE  IntakeInv'
  <2>1. P \in SUBSET Cand
    BY DEF IntakeTypes
  <2> QED
    BY <1>4, <2>1, <1>a, <1>b, IntakeBeginKept DEF Intake!StartReject, IntakeTypes
<1>5. ASSUME Intake!StartClose(h)
      PROVE  IntakeInv'
  BY <1>5, <1>a, <1>b, IntakeBeginKept DEF Intake!StartClose, IntakeTypes
<1>6. ASSUME Intake!StartOpen(h)
      PROVE  IntakeInv'
  BY <1>6, <1>a, <1>b, IntakeBeginKept DEF Intake!StartOpen, IntakeTypes
<1>7. ASSUME Intake!StartAlert(h)
      PROVE  IntakeInv'
  <2>1. CASE /\ alert = "open" /\ alert' \in Intake!Reviewed
             /\ Intake!Begin(h, "alert", NoCand, {}, alert')
    <3>1. ASSUME NEW status \in Intake!Reviewed, alert' = status,
                 Intake!Begin(h, "alert", NoCand, {}, status)
          PROVE  IntakeInv'
      BY <1>a, <1>b, <2>1, <3>1, IntakeBeginKept
    <3> QED
      BY <2>1, <3>1
  <2>2. CASE /\ alert \in {"dismissed", "false_positive"} /\ alert' = "open"
             /\ Intake!Begin(h, "undo", NoCand, {}, "submitted")
    BY <1>a, <1>b, <2>2, IntakeBeginKept DEF IntakeTypes
  <2> QED
    BY <1>7, <2>1, <2>2 DEF Intake!StartAlert
<1> QED
  BY <1>1, <1>2, <1>3, <1>4, <1>5, <1>6, <1>7 DEF IntakeStart

IntakeReads(h) ==
  \/ Intake!ReadToSuggest(h) \/ Intake!ReadToClose(h) \/ Intake!ReadToConfirm(h)
  \/ Intake!ReadToSubmit(h) \/ Intake!ReadToReject(h) \/ Intake!ReadLinked(h)

\* A handler leaves the row, the reports and what was said alone.
QuietIntake ==
  /\ row' = row /\ riWrites' = riWrites /\ raced' = raced /\ filed' = filed /\ said' = said
  /\ alert' = alert /\ asked' = asked

\* A step that changes nothing but a handler, which returns or goes on by the row.
LEMMA IntakeQuietKept ==
  ASSUME IntakeInv, IntakeTypes, QuietIntake, NEW h \in IntakeHandler,
         riStarts' = riStarts, riFaults' \in 0..IntakeFaults,
         \/ Intake!Return(h)
         \/ \E step \in {"write", "prompt", "target"} :
              \E status \in Intake!Status \cup {"keep"} :
                /\ Intake!Hold(h, step, status)
                /\ status \in Submitted => filed # {}
                /\ intake[h].kind = "confirm" =>
                     /\ step \in {"write", "target"}
                     /\ step = "write" => status = "submitted" /\ Confirmed(h)
                     /\ step = "target" => intake[h].goal \in row.data.suggested
                /\ step = "target" => intake[h].kind = "confirm"
  PROVE  IntakeInv'
<1>1. CASE Intake!Return(h)
  <2>1. /\ intake' \in [IntakeHandler -> Intake!Local] /\ IntakesKept(h)
        /\ intake'[h].at = "idle" /\ intake'[h].kind = "close" /\ intake'[h].to = "keep"
    BY <1>1, IntakeReturn DEF IntakeTypes
  <2>2. Intake!TypeOK'
    BY <2>1 DEF IntakeInv, Intake!TypeOK, QuietIntake
  <2>3. ReportInv'
    BY <2>1 DEF IntakeInv, ReportInv, Intake!OneReport, ConfirmedIsTarget, ConfirmsThrough,
       OthersAreNoTargets, SubmitsFiled, Submitted, Confirmed, IntakesKept, QuietIntake,
       Intake!Reviewed
  <2>4. ReadsThePast' /\ (raced' \/ SaidIsRemembered')
    BY <2>1 DEF IntakeInv, ReadsThePast, SaidIsRemembered, Remembers, Reading, IntakesKept,
       QuietIntake
  <2> QED
    BY <2>2, <2>3, <2>4 DEF IntakeInv
<1>2. ASSUME NEW step \in {"write", "prompt", "target"},
             NEW status \in Intake!Status \cup {"keep"},
             Intake!Hold(h, step, status),
             status \in Submitted => filed # {},
             intake[h].kind = "confirm" =>
               /\ step \in {"write", "target"}
               /\ step = "write" => status = "submitted" /\ Confirmed(h)
               /\ step = "target" => intake[h].goal \in row.data.suggested,
             step = "target" => intake[h].kind = "confirm"
      PROVE  IntakeInv'
  <2>1. /\ intake' \in [IntakeHandler -> Intake!Local] /\ IntakesKept(h)
        /\ intake'[h].kind = intake[h].kind /\ intake'[h].goal = intake[h].goal
        /\ intake'[h].data = row.data /\ intake'[h].seen = riWrites
        /\ intake'[h].at = step /\ intake'[h].to = status
    BY <1>2, IntakeHold DEF IntakeTypes, IntakeStep
  <2>2. Intake!TypeOK'
    BY <2>1 DEF IntakeInv, Intake!TypeOK, QuietIntake
  <2>3. Intake!OneReport' /\ SubmitsFiled'
    BY <1>2, <2>1 DEF IntakeInv, ReportInv, Intake!OneReport, SubmitsFiled, IntakesKept, QuietIntake
  <2>4. ConfirmsThrough' /\ OthersAreNoTargets'
    BY <1>2, <2>1 DEF IntakeInv, ReportInv, ConfirmsThrough, OthersAreNoTargets, IntakesKept
  <2>5. ConfirmedIsTarget'
    <3> SUFFICES ASSUME NEW g \in IntakeHandler, Confirmed(g)'
                 PROVE  intake'[g].goal \in Cand /\ row'.target = intake'[g].goal
      BY DEF ConfirmedIsTarget
    <3>1. Confirmed(g)
      BY <1>2, <2>1 DEF Confirmed, IntakesKept
    <3> QED
      BY <3>1, <2>1 DEF IntakeInv, ReportInv, ConfirmedIsTarget, IntakesKept, QuietIntake
  <2>6. ReadsThePast'
    BY <1>2, <2>1 DEF IntakeInv, ReadsThePast, Reading, IntakesKept, QuietIntake, IntakeTypes
  <2>7. raced' \/ SaidIsRemembered'
    BY <2>1 DEF IntakeInv, SaidIsRemembered, Remembers, Reading, IntakesKept, QuietIntake
  <2> QED
    BY <2>2, <2>3, <2>4, <2>5, <2>6, <2>7 DEF IntakeInv, ReportInv
<1> QED
  BY <1>1, <1>2

\* What each handler decides by the row it reads.
LEMMA IntakeReadsKept ==
  ASSUME IntakeInv, IntakeTypes, NEW h \in IntakeHandler, IntakeReads(h)
  PROVE  IntakeInv'
<1>q. /\ QuietIntake /\ riStarts' = riStarts /\ riFaults' \in 0..IntakeFaults
      /\ intake[h].at = "read"
  BY DEF IntakeReads, QuietIntake, Intake!ReadToSuggest, Intake!ReadToClose,
     Intake!ReadToConfirm, Intake!ReadToSubmit, Intake!ReadToReject, Intake!ReadLinked,
     Intake!Reads, Intake!Rows, Intake!counters, Intake!At, IntakeTypes
<1>s. /\ row.status \in Intake!Status
      /\ intake[h].to \in Intake!Status \cup {"keep"}
      /\ intake[h].to \in Submitted => filed # {}
      /\ row.status \in Submitted => filed # {}
      /\ intake[h].kind = "confirm" /\ intake[h].to = "submitted" => Confirmed(h)
  BY <1>q DEF IntakeInv, ReportInv, SubmitsFiled, Intake!OneReport, Submitted, Confirmed,
     IntakeTypes, Intake!Local
<1> USE DEF Intake!Status, Intake!OpenStatus, Intake!Reviewed, Submitted, Intake!Reads
<1>1. CASE Intake!ReadToSuggest(h)
  BY <1>1, <1>q, <1>s, IntakeQuietKept DEF Intake!ReadToSuggest
<1>2. CASE Intake!ReadToClose(h)
  BY <1>2, <1>q, <1>s, IntakeQuietKept DEF Intake!ReadToClose
<1>3. CASE Intake!ReadToConfirm(h)
  BY <1>3, <1>q, <1>s, IntakeQuietKept DEF Intake!ReadToConfirm
<1>4. CASE Intake!ReadToSubmit(h)
  BY <1>4, <1>q, <1>s, IntakeQuietKept DEF Intake!ReadToSubmit
<1>5. CASE Intake!ReadToReject(h)
  BY <1>5, <1>q, <1>s, IntakeQuietKept DEF Intake!ReadToReject
<1>6. CASE Intake!ReadLinked(h)
  BY <1>6, <1>q, <1>s, IntakeQuietKept DEF Intake!ReadLinked
<1> QED
  BY <1>1, <1>2, <1>3, <1>4, <1>5, <1>6 DEF IntakeReads

\* The row's type, field by field.
LEMMA IntakeRow ==
  ASSUME NEW r, r \in [status : Intake!Status, target : Cand \cup {NoCand}, data : Intake!Metadata],
         NEW s \in Intake!Status
  PROVE  /\ [r EXCEPT !.status = s]
              \in [status : Intake!Status, target : Cand \cup {NoCand}, data : Intake!Metadata]
         /\ [r EXCEPT !.status = s].status = s
         /\ [r EXCEPT !.status = s].target = r.target /\ [r EXCEPT !.status = s].data = r.data
OBVIOUS

\* The steps at the beginning, the question, the filing and the end.
LEMMA IntakeWorkKept ==
  ASSUME ServicesAssumption, IntakeInv, IntakeTypes, NEW h \in IntakeHandler,
         \/ Intake!CreateIntake(h) \/ Intake!Activate(h) \/ Intake!Prompt(h)
         \/ Intake!Submit(h) \/ Intake!Stop(h)
  PROVE  IntakeInv'
<1>f. /\ riFaults \in 0..IntakeFaults
      /\ riFaults < IntakeFaults /\ riFaults' = riFaults + 1 => riFaults' \in 0..IntakeFaults
  BY DEF IntakeTypes, ServicesAssumption, Intake!ReportIntakeAssumption
<1>1. CASE Intake!CreateIntake(h)
  <2>1. /\ intake' \in [IntakeHandler -> Intake!Local] /\ IntakesKept(h)
        /\ HeldKept(h) /\ intake'[h].to = intake[h].to /\ intake'[h].at = "activate"
        /\ intake[h].at = "create"
    BY <1>1, IntakeGoto DEF IntakeTypes, IntakeStep, Intake!CreateIntake, Intake!At
  <2>2. /\ row' \in [status : Intake!Status, target : Cand \cup {NoCand}, data : Intake!Metadata]
        /\ row'.status = "collecting_evidence" /\ row'.target = row.target
        /\ row'.data = row.data
    BY <1>1, IntakeRow DEF IntakeInv, Intake!TypeOK, Intake!CreateIntake, Intake!Status,
       Intake!OpenStatus
  <2>3. /\ riWrites' = riWrites + 1 /\ asked' = asked /\ alert' = alert /\ filed' = filed
        /\ raced' = raced /\ said' = said /\ riStarts' = riStarts /\ riFaults' = riFaults
    BY <1>1 DEF Intake!CreateIntake, Intake!counters
  <2>4. Intake!TypeOK'
    BY <2>1, <2>2, <2>3 DEF IntakeInv, Intake!TypeOK
  <2>5. Intake!OneReport' /\ SubmitsFiled'
    BY <2>1, <2>2, <2>3 DEF IntakeInv, ReportInv, Intake!OneReport, SubmitsFiled, IntakesKept,
       Intake!Reviewed
  <2>6. ConfirmedIsTarget' /\ ConfirmsThrough' /\ OthersAreNoTargets'
    BY <2>1, <2>2 DEF IntakeInv, ReportInv, ConfirmedIsTarget, ConfirmsThrough,
       OthersAreNoTargets, Confirmed, IntakesKept, HeldKept
  <2>7. ReadsThePast' /\ (raced' \/ SaidIsRemembered')
    BY <2>1, <2>2, <2>3 DEF IntakeInv, ReadsThePast, SaidIsRemembered, Remembers, Reading,
       IntakesKept, HeldKept, IntakeTypes, Intake!Local
  <2> QED
    BY <2>4, <2>5, <2>6, <2>7 DEF IntakeInv, ReportInv
<1>2. CASE Intake!Activate(h)
  <2>1. QuietIntake /\ riStarts' = riStarts /\ riFaults' \in 0..IntakeFaults
    BY <1>2, <1>f DEF Intake!Activate, QuietIntake, Intake!Rows
  <2>2. "expired" \in Intake!Status \cup {"keep"} /\ "expired" \notin Submitted
    BY DEF Intake!Status, Submitted, Intake!Reviewed
  <2>3. intake[h].kind # "confirm"
    BY <1>2 DEF Intake!Activate, Intake!At, IntakeInv, ReportInv, ConfirmsThrough
  <2> QED
    BY <1>2, <2>1, <2>2, <2>3, IntakeQuietKept DEF Intake!Activate
<1>3. CASE Intake!Prompt(h)
  <2>1. /\ intake' \in [IntakeHandler -> Intake!Local] /\ IntakesKept(h)
        /\ intake'[h].kind = intake[h].kind /\ intake'[h].goal = intake[h].goal
        /\ intake'[h].seen = intake[h].seen /\ intake'[h].at = "write"
        /\ \/ intake'[h].to = intake[h].to
           \/ intake'[h].to = "needs_reporter_confirmation"
        /\ intake'[h].data.rejected = intake[h].data.rejected
        /\ intake'[h].data.suggested \cap intake[h].data.rejected = {}
        /\ asked' \subseteq asked \cup SUBSET Cand
    BY <1>3, IntakePrompt DEF IntakeTypes
  <2>2. /\ intake[h].at = "prompt" /\ intake[h].kind # "confirm"
        /\ row' = row /\ riWrites' = riWrites /\ raced' = raced /\ filed' = filed /\ said' = said
        /\ alert' = alert /\ riStarts' = riStarts /\ riFaults' = riFaults
    BY <1>3 DEF Intake!Prompt, Intake!At, Intake!Rows, Intake!counters, IntakeInv, ReportInv,
       ConfirmsThrough
  <2>3. Intake!TypeOK'
    BY <2>1, <2>2 DEF IntakeInv, Intake!TypeOK, IntakeTypes
  <2>4. Intake!OneReport' /\ SubmitsFiled'
    BY <2>1, <2>2 DEF IntakeInv, ReportInv, Intake!OneReport, SubmitsFiled, IntakesKept,
       Intake!Reviewed, Submitted
  <2>5. ConfirmedIsTarget' /\ ConfirmsThrough' /\ OthersAreNoTargets'
    BY <2>1, <2>2 DEF IntakeInv, ReportInv, ConfirmedIsTarget, ConfirmsThrough,
       OthersAreNoTargets, Confirmed, IntakesKept
  <2>6. ReadsThePast' /\ (raced' \/ SaidIsRemembered')
    BY <2>1, <2>2 DEF IntakeInv, ReadsThePast, SaidIsRemembered, Remembers, Reading, IntakesKept
  <2> QED
    BY <2>3, <2>4, <2>5, <2>6 DEF IntakeInv, ReportInv
<1>4. CASE Intake!Submit(h)
  <2>1. /\ intake' \in [IntakeHandler -> Intake!Local] /\ IntakesKept(h)
        /\ HeldKept(h) /\ intake'[h].to = "submitted" /\ intake'[h].at = "read"
    BY <1>4, IntakeSubmit DEF IntakeTypes
  <2>2. /\ intake[h].at = "submit" /\ intake[h].kind = "confirm"
        /\ row' = row /\ riWrites' = riWrites /\ raced' = raced /\ said' = said
        /\ asked' = asked /\ riStarts' = riStarts /\ riFaults' = riFaults
    BY <1>4 DEF Intake!Submit, Intake!At, Intake!Rows, Intake!counters, IntakeInv, ReportInv,
       OthersAreNoTargets
  <2>3. filed' = filed \cup {intake[h].goal} /\ alert' \in {"open", alert}
    BY <1>4 DEF Intake!Submit, Intake!AlertAfter
  <2>4. intake[h].goal \in Cand /\ row.target = intake[h].goal
    BY <2>2 DEF IntakeInv, ReportInv, ConfirmedIsTarget, Confirmed
  <2>5. Intake!TypeOK'
    BY <2>1, <2>2, <2>3, <2>4 DEF IntakeInv, Intake!TypeOK
  <2>6. Intake!OneReport' /\ SubmitsFiled'
    BY <2>2, <2>3, <2>4 DEF IntakeInv, ReportInv, Intake!OneReport, SubmitsFiled
  <2>7. ConfirmedIsTarget' /\ ConfirmsThrough' /\ OthersAreNoTargets'
    BY <2>1, <2>2, <2>4 DEF IntakeInv, ReportInv, ConfirmedIsTarget, ConfirmsThrough,
       OthersAreNoTargets, Confirmed, IntakesKept, HeldKept
  <2>8. ReadsThePast' /\ (raced' \/ SaidIsRemembered')
    BY <2>1, <2>2 DEF IntakeInv, ReadsThePast, SaidIsRemembered, Remembers, Reading,
       IntakesKept, HeldKept
  <2> QED
    BY <2>5, <2>6, <2>7, <2>8 DEF IntakeInv, ReportInv
<1>5. CASE Intake!Stop(h)
  <2>1. QuietIntake /\ riStarts' = riStarts /\ riFaults' \in 0..IntakeFaults
    BY <1>5, <1>f DEF Intake!Stop, QuietIntake, Intake!Rows
  <2> QED
    BY <1>5, <2>1, IntakeQuietKept DEF Intake!Stop
<1> QED
  BY <1>1, <1>2, <1>3, <1>4, <1>5

\* A handler writes the row.
LEMMA IntakeWriteKept ==
  ASSUME IntakeInv, IntakeTypes, NEW h \in IntakeHandler, Intake!Write(h)
  PROVE  IntakeInv' /\ row'.target = row.target
<1>1. /\ intake' \in [IntakeHandler -> Intake!Local] /\ IntakesKept(h)
      /\ intake'[h].at = "idle" /\ intake'[h].kind = "close" /\ intake'[h].to = "keep"
      /\ intake[h].at = "write"
  BY IntakeReturn DEF IntakeTypes, Intake!Write, Intake!At
<1>2. /\ row'.status = (IF intake[h].to = "keep" THEN row.status ELSE intake[h].to)
      /\ row'.target = (IF intake[h].kind = "confirm" THEN intake[h].goal ELSE row.target)
      /\ row'.data = Intake!Written(h)
      /\ row' = [status |-> row'.status, target |-> row'.target, data |-> row'.data]
  BY DEF Intake!Write
<1>3. /\ riWrites' = riWrites + 1 /\ asked' = asked /\ alert' = alert /\ filed' = filed
      /\ riStarts' = riStarts /\ riFaults' = riFaults
      /\ said' = IF intake[h].kind = "reject" THEN said \cup intake[h].cands ELSE said
  BY DEF Intake!Write, Intake!counters
<1>4. raced' = (raced \/ riWrites # intake[h].seen)
  BY Zenon DEF Intake!Write
<1>5. row'.target = row.target
  BY <1>1, <1>2 DEF IntakeInv, ReportInv, ConfirmedIsTarget, ConfirmsThrough, Confirmed
<1>6. /\ intake[h].to \in Intake!Status \cup {"keep"} /\ intake[h].cands \in SUBSET Cand
      /\ intake[h].data \in Intake!Metadata /\ intake[h].seen \in Nat
  BY DEF IntakeTypes, Intake!Local
<1>w. /\ Intake!Written(h) \in Intake!Metadata
      /\ intake[h].kind # "reject" => Intake!Written(h) = intake[h].data
      /\ intake[h].kind = "reject" =>
           /\ Intake!Written(h).rejected = intake[h].data.rejected \cup intake[h].cands
           /\ Intake!Written(h).suggested = intake[h].data.suggested \ intake[h].cands
  BY IntakeWritten DEF IntakeTypes
<1>7. Intake!TypeOK'
  <2>1. row'.status \in Intake!Status /\ row'.target \in Cand \cup {NoCand}
    BY <1>2, <1>5, <1>6 DEF IntakeTypes
  <2>2. row' \in [status : Intake!Status, target : Cand \cup {NoCand}, data : Intake!Metadata]
    BY <2>1, <1>2, <1>w
  <2>3. raced' \in BOOLEAN
    BY <1>4, Zenon
  <2>4. riWrites' \in Nat /\ said' \subseteq Cand
    BY <1>3, <1>6 DEF IntakeTypes
  <2> QED
    BY <2>2, <2>3, <2>4, <1>1, <1>3 DEF IntakeInv, Intake!TypeOK
<1>8. Intake!OneReport' /\ SubmitsFiled'
  BY <1>1, <1>2, <1>3, <1>5 DEF IntakeInv, ReportInv, Intake!OneReport, SubmitsFiled,
     IntakesKept, Intake!Reviewed, Submitted
<1>9. ConfirmedIsTarget' /\ ConfirmsThrough' /\ OthersAreNoTargets'
  BY <1>1, <1>5 DEF IntakeInv, ReportInv, ConfirmedIsTarget, ConfirmsThrough,
     OthersAreNoTargets, Confirmed, IntakesKept
<1>10. ReadsThePast'
  BY <1>1, <1>3 DEF IntakeInv, ReadsThePast, Reading, IntakesKept, IntakeTypes, Intake!Local
<1>11. ASSUME ~raced'
       PROVE  SaidIsRemembered'
  <2>1. ~raced /\ intake[h].seen = riWrites
    BY <1>4, <1>11
  <2>2. Remembers(row.data) /\ Remembers(intake[h].data)
    BY <2>1, <1>1 DEF IntakeInv, SaidIsRemembered, Reading
  <2>3. Remembers(row.data)'
    BY <2>2, <1>2, <1>3, <1>w DEF Remembers
  <2>4. ASSUME NEW g \in IntakeHandler, Reading(g)', intake'[g].seen = riWrites'
        PROVE  FALSE
    <3>1. g # h /\ intake'[g] = intake[g] /\ Reading(g)
      BY <2>4, <1>1 DEF Reading, IntakesKept
    <3>2. intake[g].seen <= riWrites /\ intake[g].seen \in Nat
      BY <3>1 DEF IntakeInv, ReadsThePast, IntakeTypes, Intake!Local
    <3> QED
      BY <2>4, <3>1, <3>2, <1>3 DEF IntakeTypes
  <2> QED
    BY <2>3, <2>4 DEF SaidIsRemembered
<1> QED
  BY <1>5, <1>7, <1>8, <1>9, <1>10, <1>11 DEF IntakeInv, ReportInv

\* A target is confirmed: it is one of those suggested when the handler read, and the
\* reporter has not rejected it since, unless a handler writes over others.
LEMMA IntakeConfirmKept ==
  ASSUME ServicesAssumption, IntakeInv, IntakeTypes, NEW h \in IntakeHandler,
         Intake!ConfirmTarget(h)
  PROVE  IntakeInv' /\ (row'.target # row.target => row'.target \notin said \/ raced')
<1>1. intake[h].at = "target" /\ intake[h].kind = "confirm" /\ intake[h].goal \in Cand
  BY DEF Intake!ConfirmTarget, Intake!At, IntakeInv, ReportInv, OthersAreNoTargets, ConfirmsThrough
<1>2. CASE ~(row.status = "needs_reporter_confirmation" /\ row.target = NoCand)
  <2>1. QuietIntake /\ riStarts' = riStarts /\ riFaults' \in 0..IntakeFaults /\ Intake!Return(h)
    BY <1>2 DEF Intake!ConfirmTarget, QuietIntake, Intake!Rows, Intake!counters, IntakeTypes
  <2>2. IntakeInv'
    BY <2>1, IntakeQuietKept
  <2> QED
    BY <2>1, <2>2 DEF QuietIntake
<1>3. CASE row.status = "needs_reporter_confirmation" /\ row.target = NoCand
  <2>1. /\ intake' \in [IntakeHandler -> Intake!Local] /\ IntakesKept(h)
        /\ HeldKept(h) /\ intake'[h].to = intake[h].to /\ intake'[h].at = "submit"
    BY <1>3, IntakeGoto DEF IntakeTypes, IntakeStep, Intake!ConfirmTarget
  <2> DEFINE targeted == [row EXCEPT !.target = intake[h].goal]
             data == intake[h].data
  <2>2. row' = [targeted EXCEPT !.data = data]
    BY <1>3 DEF Intake!ConfirmTarget
  <2>3. /\ riWrites' = riWrites + 1 /\ asked' = asked /\ alert' = alert /\ filed' = filed
        /\ said' = said /\ riStarts' = riStarts /\ riFaults' = riFaults
    BY <1>3 DEF Intake!ConfirmTarget, Intake!counters
  <2>4. raced' = (raced \/ riWrites # intake[h].seen)
    BY <1>3, Zenon DEF Intake!ConfirmTarget
  <2>5. data \in Intake!Metadata /\ intake[h].seen \in Nat
    BY DEF IntakeTypes, Intake!Local
  <2>6. /\ row' \in [status : Intake!Status, target : Cand \cup {NoCand}, data : Intake!Metadata]
        /\ row'.status = row.status /\ row'.target = intake[h].goal /\ row'.data = data
    <3>1. /\ targeted \in [status : Intake!Status, target : Cand \cup {NoCand},
                           data : Intake!Metadata]
          /\ targeted.status = row.status /\ targeted.target = intake[h].goal
      BY <1>1 DEF IntakeInv, Intake!TypeOK
    <3> HIDE DEF targeted, data
    <3> QED
      BY <2>2, <2>5, <3>1
  <2> HIDE DEF targeted, data
  <2>7. filed = {}
    BY <1>3 DEF IntakeInv, ReportInv, Intake!OneReport, ServicesAssumption,
       Intake!ReportIntakeAssumption, IntakeTypes
  <2>8. \A g \in IntakeHandler : ~Confirmed(g)
    BY <1>3 DEF IntakeInv, ReportInv, ConfirmedIsTarget, ServicesAssumption,
       Intake!ReportIntakeAssumption
  <2>9. Intake!TypeOK'
    <3>1. raced' \in BOOLEAN
      BY <2>4, Zenon
    <3>2. riWrites' \in Nat
      BY <2>3 DEF IntakeTypes
    <3> QED
      BY <2>1, <2>3, <2>6, <3>1, <3>2 DEF IntakeInv, Intake!TypeOK
  <2>10. Intake!OneReport' /\ SubmitsFiled'
    BY <2>1, <2>3, <2>6, <2>7 DEF IntakeInv, ReportInv, Intake!OneReport, SubmitsFiled, IntakesKept
  <2>11. ConfirmedIsTarget' /\ ConfirmsThrough' /\ OthersAreNoTargets'
    BY <1>1, <2>1, <2>6, <2>8 DEF IntakeInv, ReportInv, ConfirmedIsTarget, ConfirmsThrough,
       OthersAreNoTargets, Confirmed, IntakesKept, HeldKept
  <2>12. ReadsThePast'
    BY <1>1, <2>1, <2>3 DEF IntakeInv, ReadsThePast, Reading, IntakesKept, IntakeTypes, Intake!Local
  <2>13. ASSUME ~raced'
         PROVE  SaidIsRemembered' /\ row'.target \notin said
    <3>1. ~raced /\ intake[h].seen = riWrites
      BY <2>4, <2>13
    <3>2. Remembers(data) /\ intake[h].goal \in data.suggested
      BY <1>1, <3>1 DEF IntakeInv, SaidIsRemembered, Reading, ReadsThePast, data
    <3>3. Remembers(row.data)' /\ row'.target \notin said
      BY <2>3, <2>6, <3>2 DEF Remembers
    <3>4. ASSUME NEW g \in IntakeHandler, Reading(g)', intake'[g].seen = riWrites'
          PROVE  FALSE
      <4>1. g # h /\ intake'[g] = intake[g] /\ Reading(g)
        BY <3>4, <2>1 DEF Reading, IntakesKept
      <4>2. intake[g].seen <= riWrites /\ intake[g].seen \in Nat
        BY <4>1 DEF IntakeInv, ReadsThePast, IntakeTypes, Intake!Local
      <4> QED
        BY <3>4, <4>1, <4>2, <2>3 DEF IntakeTypes
    <3> QED
      BY <3>3, <3>4 DEF SaidIsRemembered
  <2> QED
    BY <2>9, <2>10, <2>11, <2>12, <2>13 DEF IntakeInv, ReportInv
<1> QED
  BY <1>2, <1>3

\* The dashboard closes a submitted report.
LEMMA IntakeReviewKept ==
  ASSUME ServicesAssumption, IntakeInv, IntakeTypes, NEW status \in Intake!Reviewed,
         Intake!Review(status)
  PROVE  IntakeInv' /\ row'.target = row.target
<1>1. /\ row' \in [status : Intake!Status, target : Cand \cup {NoCand}, data : Intake!Metadata]
      /\ row'.status = status /\ row'.target = row.target /\ row'.data = row.data
      /\ row.status = "submitted"
  BY IntakeRow DEF IntakeInv, Intake!TypeOK, Intake!Review, Intake!Status
<1>2. /\ riWrites' = riWrites + 1 /\ intake' = intake /\ asked' = asked /\ alert' = alert
      /\ filed' = filed /\ raced' = raced /\ said' = said /\ riFaults' = riFaults
  BY DEF Intake!Review
<1>3. riStarts' \in 0..IntakeStarts
  BY DEF Intake!Review, IntakeTypes, ServicesAssumption, Intake!ReportIntakeAssumption
<1>4. Intake!TypeOK'
  BY <1>1, <1>2, <1>3 DEF IntakeInv, Intake!TypeOK
<1>5. Intake!OneReport' /\ SubmitsFiled'
  BY <1>1, <1>2 DEF IntakeInv, ReportInv, Intake!OneReport, SubmitsFiled
<1>6. ConfirmedIsTarget' /\ ConfirmsThrough' /\ OthersAreNoTargets'
  BY <1>1, <1>2 DEF IntakeInv, ReportInv, ConfirmedIsTarget, ConfirmsThrough,
     OthersAreNoTargets, Confirmed
<1>7. ReadsThePast' /\ (raced' \/ SaidIsRemembered')
  BY <1>1, <1>2 DEF IntakeInv, ReadsThePast, SaidIsRemembered, Remembers, Reading, IntakeTypes,
     Intake!Local
<1> QED
  BY <1>1, <1>4, <1>5, <1>6, <1>7 DEF IntakeInv, ReportInv

\* The types, unfolded.
LEMMA IntakeTyped ==
  ASSUME IntakeInv
  PROVE  IntakeTypes
BY DEF IntakeInv, Intake!TypeOK, IntakeTypes, Intake!Metadata

\* A step of the intake keeps the invariant, and makes no rejected member the target.
LEMMA IntakeNextKept ==
  ASSUME ServicesAssumption, IntakeInv, Intake!Next
  PROVE  IntakeInv' /\ (row'.target # row.target => row'.target \notin said \/ raced')
<1> USE IntakeTyped
<1>1. ASSUME NEW h \in IntakeHandler, IntakeStart(h)
      PROVE  IntakeInv' /\ row' = row
  <2>1. row' = row
    BY <1>1 DEF IntakeStart, Intake!StartMessage, Intake!StartAnalysis, Intake!StartConfirm,
       Intake!StartReject, Intake!StartClose, Intake!StartOpen, Intake!StartAlert,
       Intake!Begin, Intake!Rows
  <2> QED
    BY <1>1, <2>1, IntakeStartsKept
<1>2. ASSUME NEW h \in IntakeHandler, IntakeReads(h)
      PROVE  IntakeInv' /\ row' = row
  <2>1. row' = row
    BY <1>2 DEF IntakeReads, Intake!ReadToSuggest, Intake!ReadToClose, Intake!ReadToConfirm,
       Intake!ReadToSubmit, Intake!ReadToReject, Intake!ReadLinked, Intake!Reads, Intake!Rows
  <2> QED
    BY <1>2, <2>1, IntakeReadsKept
<1>3. ASSUME NEW h \in IntakeHandler,
             \/ Intake!CreateIntake(h) \/ Intake!Activate(h) \/ Intake!Prompt(h)
             \/ Intake!Submit(h) \/ Intake!Stop(h)
      PROVE  IntakeInv' /\ row'.target = row.target
  <2>1. CASE Intake!CreateIntake(h)
    BY <1>3, <2>1, IntakeWorkKept, IntakeRow DEF Intake!CreateIntake, IntakeInv, Intake!TypeOK,
       Intake!Status, Intake!OpenStatus
  <2>2. CASE ~Intake!CreateIntake(h)
    <3>1. row' = row
      BY <1>3, <2>2 DEF Intake!Activate, Intake!Prompt, Intake!Submit, Intake!Stop, Intake!Rows
    <3> QED
      BY <1>3, <3>1, IntakeWorkKept
  <2> QED
    BY <2>1, <2>2
<1>4. ASSUME NEW h \in IntakeHandler, Intake!Write(h)
      PROVE  IntakeInv' /\ row'.target = row.target
  BY <1>4, IntakeWriteKept
<1>5. ASSUME NEW h \in IntakeHandler, Intake!ConfirmTarget(h)
      PROVE  IntakeInv' /\ (row'.target # row.target => row'.target \notin said \/ raced')
  BY <1>5, IntakeConfirmKept
<1>6. ASSUME NEW status \in Intake!Reviewed, Intake!Review(status)
      PROVE  IntakeInv' /\ row'.target = row.target
  BY <1>6, IntakeReviewKept
<1>7. \/ \E h \in IntakeHandler :
           \/ IntakeStart(h) \/ IntakeReads(h)
           \/ Intake!CreateIntake(h) \/ Intake!Activate(h) \/ Intake!Prompt(h)
           \/ Intake!Submit(h) \/ Intake!Stop(h)
           \/ Intake!Write(h) \/ Intake!ConfirmTarget(h)
      \/ \E status \in Intake!Reviewed : Intake!Review(status)
  BY DEF Intake!Next, IntakeStart, IntakeReads
<1> QED
  BY <1>1, <1>2, <1>3, <1>4, <1>5, <1>6, <1>7

\* A rejected member does not become the target.
TargetKeeps == row'.target # row.target => row'.target \notin said \/ raced'

\* The invariant of the intake, in every behaviour of the services.
LEMMA IntakeKept ==
  ASSUME ServicesAssumption
  PROVE  Spec => []IntakeInv /\ [][TargetKeeps]_(Intake!vars)
<1>1. Init => IntakeInv
  <2> SUFFICES ASSUME Intake!Init
               PROVE  IntakeInv
    BY DEF Init
  <2>1. IntakeStarts \in Nat /\ IntakeFaults \in Nat
    BY DEF ServicesAssumption, Intake!ReportIntakeAssumption
  <2>2. /\ row \in [status : Intake!Status, target : Cand \cup {NoCand}, data : Intake!Metadata]
        /\ row.status = "none" /\ row.data.suggested = {} /\ row.data.rejected = {}
    BY IntakeData DEF Intake!Init, Intake!Status
  <2>3. /\ intake \in [IntakeHandler -> Intake!Local]
        /\ \A h \in IntakeHandler : /\ intake[h].at = "idle" /\ intake[h].kind = "close"
                                    /\ intake[h].to = "keep"
    BY IntakeData DEF Intake!Init
  <2>4. raced \in BOOLEAN
    BY Zenon DEF Intake!Init
  <2>5. /\ asked = {} /\ alert = "none" /\ filed = {} /\ said = {} /\ riWrites = 0
        /\ riStarts = 0 /\ riFaults = 0
    BY DEF Intake!Init
  <2>6. Intake!TypeOK
    BY <2>1, <2>2, <2>3, <2>4, <2>5 DEF Intake!TypeOK
  <2>7. ReportInv
    BY <2>2, <2>3, <2>5 DEF ReportInv, Intake!OneReport, ConfirmedIsTarget, ConfirmsThrough,
       OthersAreNoTargets, SubmitsFiled, Submitted, Confirmed, Intake!Reviewed
  <2>8. ReadsThePast /\ SaidIsRemembered
    BY <2>2, <2>3, <2>5 DEF ReadsThePast, SaidIsRemembered, Remembers, Reading
  <2> QED
    BY <2>6, <2>7, <2>8 DEF IntakeInv
<1>2. IntakeInv /\ [Next]_vars => IntakeInv' /\ [TargetKeeps]_(Intake!vars)
  <2> SUFFICES ASSUME IntakeInv, [Next]_vars
               PROVE  IntakeInv' /\ [TargetKeeps]_(Intake!vars)
    OBVIOUS
  <2>1. CASE UNCHANGED intakeVars
    BY <2>1 DEF intakeVars, Intake!vars, IntakeInv, Intake!TypeOK, ReportInv,
       Intake!OneReport, ConfirmedIsTarget, ConfirmsThrough, OthersAreNoTargets, SubmitsFiled,
       Confirmed, ReadsThePast, SaidIsRemembered, Remembers, Reading
  <2>2. CASE Intake!Next
    BY <2>2, IntakeNextKept DEF TargetKeeps
  <2> QED
    BY <2>1, <2>2, IntakeSteps
<1> QED
  BY <1>1, <1>2, PTL DEF Spec

\* For any number of handlers and of members the reporter may mean, reports are filed about
\* the confirmed target only, submitted intakes have one, and a rejected member does not
\* become the target (ReportIntake).
THEOREM ReportsStayOnTarget ==
  ASSUME ServicesAssumption
  PROVE  Spec => ReportIsOfTarget
<1> DEFINE Targets == part = "intake" => Intake!OneReport
<1>1. IntakeInv => Targets
  BY DEF IntakeInv, ReportInv
<1>2. ReportIsOfTarget <=> []Targets /\ [][TargetKeeps]_(Intake!vars)
  BY DEF ReportIsOfTarget, Intake!RejectedStaysRejected, TargetKeeps
<1> QED
  BY <1>1, <1>2, IntakeKept, PTL

---------------------------------------------------------------------------
(* The lockdown of channels *)

\* Administrators have left a channel and its category alone.
Untouched(c) == {c, parent[c]} \cap disturbed = {}

\* No category comes to allow the case role.
GrantsAreOld == \A k \in Category : access[k].caseRole = "allow" => k \in granting

\* A channel that was given overwrites of its own allows the case role.
OwnAreAllowed ==
  run.at \in {"plan", "unsync", "replan"} =>
    \A c \in run.own : c \notin disturbed => access[c].caseRole = "allow"

\* Channels are closed that are not allowed.
PlannedAreClosed ==
  run.at = "apply" =>
    \A c \in Channel : Untouched(c) =>
      /\ c \in run.todo => ~Lockdown!Open(c)
      /\ parent[c] \in run.todo \cap Category => parent[c] \notin allowed

\* An allowed channel follows a category that is about to be closed only if the category
\* allowed the case role itself.
AllowedAreApart ==
  run.at = "apply" =>
    \A c \in Channel \cap allowed :
      Untouched(c) /\ parent[c] \in run.todo /\ Lockdown!Synced(c) => parent[c] \in granting

\* What is not allowed is closed, or is going to be.
AllAreClosed ==
  run.at \in {"apply", "enable", "refresh"} /\ ~run.failed =>
    \A c \in Channel : Untouched(c) =>
      \/ Lockdown!Open(c) \/ Lockdown!Denied(c)
      \/ /\ run.at = "apply"
         /\ c \in run.todo \/ (parent[c] \in run.todo /\ Lockdown!Synced(c))

LockdownInv ==
  /\ Lockdown!TypeOK
  /\ GrantsAreOld /\ OwnAreAllowed /\ PlannedAreClosed /\ AllowedAreApart /\ AllAreClosed

\* A step is one of the lockdown's own, or leaves its variables as they are.
LEMMA LockdownSteps ==
  ASSUME [Next]_vars
  PROVE  Lockdown!Next \/ UNCHANGED lockdownVars
<1>1. CASE UNCHANGED vars
  BY <1>1 DEF vars, actionable
<1>2. CASE Next
  BY <1>2 DEF Next, QuarantineNext, DetectionNext, IntakeNext, ReminderNext,
              FrequencyNext, PipelineNext, LockdownNext, ActionsNext, actionable
<1> QED
  BY <1>1, <1>2

LockdownStep == {"plan", "unsync", "replan", "apply", "enable", "refresh", "done"}

\* what a step of an application leaves of it
RunKept ==
  /\ run'.todo = run.todo /\ run'.own = run.own
  /\ run'.failed = run.failed /\ run'.applied = run.applied

\* An application goes on with what it has.
LEMMA LockdownGoto ==
  ASSUME run \in Lockdown!Run, NEW step \in LockdownStep, Lockdown!Goto(step)
  PROVE  run' \in Lockdown!Run /\ run'.at = step /\ RunKept
BY DEF Lockdown!Goto, Lockdown!Run, LockdownStep, RunKept

\* An application that found what to edit, or that there is nothing to edit.
LEMMA LockdownApplying ==
  ASSUME run \in Lockdown!Run, run' = Lockdown!Applying
  PROVE  /\ run' \in Lockdown!Run /\ run'.own = run.own /\ run'.failed = run.failed
         /\ IF Lockdown!Planned = {} THEN run'.at = "enable"
            ELSE run'.at = "apply" /\ run'.todo = Lockdown!Planned
<1>1. CASE Lockdown!Planned = {}
  <2> DEFINE one == [run EXCEPT !.at = "enable"]
             two == [one EXCEPT !.applied = TRUE]
  <2>1. run' = two
    BY <1>1 DEF Lockdown!Applying
  <2>2. one \in Lockdown!Run /\ one.at = "enable" /\ one.own = run.own /\ one.failed = run.failed
    BY DEF Lockdown!Run
  <2> HIDE DEF one
  <2>3. two \in Lockdown!Run /\ two.at = "enable" /\ two.own = run.own /\ two.failed = run.failed
    BY <2>2 DEF Lockdown!Run
  <2> QED
    BY <1>1, <2>1, <2>3
<1>2. CASE Lockdown!Planned # {}
  <2> DEFINE plan == Lockdown!Planned
             one == [run EXCEPT !.at = "apply"]
             two == [one EXCEPT !.todo = plan]
  <2>1. run' = two
    BY <1>2 DEF Lockdown!Applying
  <2>2. plan \in SUBSET Lockdown!Place
    BY DEF Lockdown!Planned, Lockdown!Place
  <2>3. one \in Lockdown!Run /\ one.at = "apply" /\ one.own = run.own /\ one.failed = run.failed
    BY DEF Lockdown!Run
  <2> HIDE DEF one, plan
  <2>4. /\ two \in Lockdown!Run /\ two.at = "apply" /\ two.own = run.own
        /\ two.failed = run.failed /\ two.todo = plan
    BY <2>2, <2>3 DEF Lockdown!Run
  <2> QED
    BY <1>2, <2>1, <2>4 DEF plan
<1> QED
  BY <1>1, <1>2

\* An application that begins to give channels overwrites of their own.
LEMMA LockdownUnsyncing ==
  ASSUME run \in Lockdown!Run,
         run' = [run EXCEPT !.at = "unsync", !.todo = Lockdown!SyncedAllowed]
  PROVE  /\ run' \in Lockdown!Run /\ run'.own = run.own /\ run'.failed = run.failed
         /\ run'.at = "unsync"
<1> DEFINE them == Lockdown!SyncedAllowed
           one == [run EXCEPT !.at = "unsync"]
           two == [one EXCEPT !.todo = them]
<1>1. run' = two
  OBVIOUS
<1>2. them \in SUBSET Lockdown!Place
  BY DEF Lockdown!SyncedAllowed, Lockdown!Place
<1>3. one \in Lockdown!Run /\ one.at = "unsync" /\ one.own = run.own /\ one.failed = run.failed
  BY DEF Lockdown!Run
<1> HIDE DEF one, them
<1>4. two \in Lockdown!Run /\ two.at = "unsync" /\ two.own = run.own /\ two.failed = run.failed
  BY <1>2, <1>3 DEF Lockdown!Run
<1> QED
  BY <1>1, <1>4

\* An application goes on with the next of its places, or with what comes after the last.
LEMMA LockdownNextChannel ==
  ASSUME run \in Lockdown!Run, NEW place, NEW after \in Lockdown!Run, after.todo = run.todo,
         Lockdown!NextChannel(place, after)
  PROVE  /\ run' \in Lockdown!Run /\ run'.todo = run.todo \ {place}
         /\ run'.own = after.own /\ run'.failed = after.failed
         /\ run'.at = IF run.todo # {place} THEN after.at
                      ELSE IF after.at = "unsync" THEN "replan"
                      ELSE IF after.applied THEN "enable" ELSE "refresh"
<1> DEFINE rest == after.todo \ {place}
           one == [after EXCEPT !.todo = rest]
           step == IF run.todo # {place} THEN one.at
                   ELSE IF one.at = "unsync" THEN "replan"
                   ELSE IF after.applied THEN "enable" ELSE "refresh"
           two == [one EXCEPT !.at = step]
<1>1. run' = two
  BY DEF Lockdown!NextChannel
<1>2. /\ one \in Lockdown!Run /\ one.todo = rest /\ one.own = after.own
      /\ one.failed = after.failed /\ one.at = after.at
  BY DEF Lockdown!Run
<1>3. step \in LockdownStep
  <2> HIDE DEF one
  <2> QED BY <1>2 DEF Lockdown!Run, LockdownStep
<1> HIDE DEF one
<1>4. step = IF run.todo # {place} THEN after.at
             ELSE IF after.at = "unsync" THEN "replan"
             ELSE IF after.applied THEN "enable" ELSE "refresh"
  BY <1>2
<1> HIDE DEF step, rest
<1>5. /\ two \in Lockdown!Run /\ two.todo = rest /\ two.own = after.own
      /\ two.failed = after.failed /\ two.at = step
  BY <1>2, <1>3 DEF Lockdown!Run, LockdownStep
<1> QED
  BY <1>1, <1>4, <1>5 DEF rest

\* Denying the case role in a place closes it and its synced channels, and nothing else.
LEMMA LockdownDeny ==
  ASSUME ServicesAssumption, Lockdown!TypeOK, NEW place \in Lockdown!Place,
         access' = Lockdown!AfterDeny(place)
  PROVE  /\ access' \in [Lockdown!Place -> Lockdown!Access]
         /\ access'[place].caseRole = "deny"
         /\ \A c \in Channel : parent[c] = place /\ Lockdown!Synced(c)
                                 => access'[c].caseRole = "deny"
         /\ \A c \in Channel : c # place /\ ~(parent[c] = place /\ Lockdown!Synced(c))
                                 => access'[c] = access[c]
         /\ \A k \in Category \ {place} : access'[k] = access[k]
<1>1. Category \cap Channel = {} /\ access \in [Lockdown!Place -> Lockdown!Access]
  BY DEF ServicesAssumption, Lockdown!RoleLockdownAssumption, Lockdown!TypeOK
<1>2. /\ Lockdown!Closed(place) \in Lockdown!Access
      /\ Lockdown!Closed(place).caseRole = "deny"
  <2>1. access[place] \in Lockdown!Access
    BY <1>1
  <2> QED
    BY <2>1 DEF Lockdown!Closed, Lockdown!Access
<1>3. \A p \in Lockdown!Place :
        access'[p] = IF p = place THEN Lockdown!Closed(place)
                     ELSE IF p \in Channel /\ parent[p] = place /\ Lockdown!Synced(p)
                          THEN Lockdown!Closed(place)
                     ELSE access[p]
  BY DEF Lockdown!AfterDeny
<1>4. Category \subseteq Lockdown!Place /\ Channel \subseteq Lockdown!Place
  BY DEF Lockdown!Place
<1>5. access' \in [Lockdown!Place -> Lockdown!Access]
  <2> DEFINE value(p) ==
        IF p = place THEN Lockdown!Closed(place)
        ELSE IF p \in Channel /\ parent[p] = place /\ Lockdown!Synced(p)
             THEN Lockdown!Closed(place)
        ELSE access[p]
  <2>1. access' = [p \in Lockdown!Place |-> value(p)]
    BY DEF Lockdown!AfterDeny
  <2>2. \A p \in Lockdown!Place : value(p) \in Lockdown!Access
    BY <1>1, <1>2
  <2> HIDE DEF value
  <2> QED
    BY <2>1, <2>2
<1> QED
  BY <1>1, <1>2, <1>3, <1>4, <1>5

\* What an application plans closes what is not allowed, and leaves alone what is.
LEMMA LockdownPlans ==
  ASSUME ServicesAssumption, LockdownInv, Lockdown!SyncedAllowed = {},
         run.at \in {"plan", "replan"}, run' = Lockdown!Applying,
         UNCHANGED <<parent, access, allowed, enabled, granting, disturbed, edits, lkFaults>>
  PROVE  LockdownInv'
<1>1. /\ NoCategory \notin Category /\ Category \cap Channel = {}
      /\ run \in Lockdown!Run /\ parent \in [Channel -> Category \cup {NoCategory}]
  BY DEF ServicesAssumption, Lockdown!RoleLockdownAssumption, LockdownInv, Lockdown!TypeOK
<1>2. /\ run' \in Lockdown!Run /\ run'.own = run.own /\ run'.failed = run.failed
      /\ IF Lockdown!Planned = {} THEN run'.at = "enable"
         ELSE run'.at = "apply" /\ run'.todo = Lockdown!Planned
  BY <1>1, LockdownApplying
<1>3. Lockdown!TypeOK' /\ GrantsAreOld' /\ OwnAreAllowed'
  BY <1>2 DEF LockdownInv, Lockdown!TypeOK, GrantsAreOld, OwnAreAllowed
<1>4. \A c \in Channel : c \in Lockdown!Planned => ~Lockdown!Open(c)
  BY <1>1 DEF Lockdown!Planned
<1>5. \A k \in Category : k \in Lockdown!Planned <=> k \notin allowed /\ ~Lockdown!Denied(k)
  BY <1>1 DEF Lockdown!Planned
<1>6. \A c \in Channel : Lockdown!Synced(c) =>
        parent[c] \in Category /\ access[c] = access[parent[c]]
  BY <1>1 DEF Lockdown!Synced
<1>7. PlannedAreClosed'
  BY <1>2, <1>4, <1>5 DEF PlannedAreClosed, Untouched, Lockdown!Open
<1>8. AllowedAreApart'
  <2> SUFFICES ASSUME run'.at = "apply", NEW c \in Channel \cap allowed, Untouched(c),
                      parent[c] \in Lockdown!Planned, Lockdown!Synced(c)
               PROVE  parent[c] \in granting
    BY <1>2 DEF AllowedAreApart, Untouched, Lockdown!Synced
  <2>1. parent[c] \in Category /\ parent[c] \notin allowed /\ access[c] = access[parent[c]]
    BY <1>5, <1>6
  <2>2. c \in run.own
    BY <2>1 DEF Lockdown!SyncedAllowed
  <2>3. access[c].caseRole = "allow"
    BY <2>2 DEF LockdownInv, OwnAreAllowed, Untouched
  <2> QED
    BY <2>1, <2>3 DEF LockdownInv, GrantsAreOld
<1>9. AllAreClosed'
  <2>1. ASSUME NEW c \in Channel, ~Lockdown!Open(c), ~Lockdown!Denied(c)
        PROVE  \/ c \in Lockdown!Planned
               \/ parent[c] \in Lockdown!Planned /\ Lockdown!Synced(c)
    <3>1. CASE ~Lockdown!Synced(c)
      BY <2>1, <3>1 DEF Lockdown!Planned
    <3>2. CASE Lockdown!Synced(c)
      BY <1>5, <1>6, <2>1, <3>2 DEF Lockdown!Open, Lockdown!Denied
    <3> QED
      BY <3>1, <3>2
  <2> QED
    BY <1>2, <2>1 DEF AllAreClosed, Lockdown!Open, Lockdown!Denied, Lockdown!Synced
<1> QED
  BY <1>3, <1>7, <1>8, <1>9 DEF LockdownInv

\* A step that leaves the guild as it is and ends the application, or makes it go on.
LEMMA LockdownRunKept ==
  ASSUME ServicesAssumption, LockdownInv,
         Lockdown!Plan \/ Lockdown!Replan \/ Lockdown!Enable \/ Lockdown!Refresh
           \/ Lockdown!Interrupt
  PROVE  LockdownInv'
<1> USE DEF LockdownInv
<1>1. run \in Lockdown!Run /\ lkFaults \in 0..LockdownFaults /\ LockdownFaults \in Nat
  BY DEF Lockdown!TypeOK, ServicesAssumption, Lockdown!RoleLockdownAssumption
<1>2. ASSUME Lockdown!Return, UNCHANGED <<parent, access, allowed, granting, disturbed, edits>>,
             enabled' = enabled, lkFaults' \in 0..LockdownFaults
      PROVE  LockdownInv'
  <2>1. run' \in Lockdown!Run /\ run'.at = "done"
    BY <1>1, <1>2, LockdownGoto DEF Lockdown!Return, LockdownStep
  <2>2. Lockdown!TypeOK'
    BY <1>2, <2>1 DEF Lockdown!TypeOK
  <2> QED
    BY <1>2, <2>1, <2>2 DEF GrantsAreOld, OwnAreAllowed, PlannedAreClosed, AllowedAreApart,
       AllAreClosed
<1>3. CASE Lockdown!Plan
  <2> USE <1>3 DEF Lockdown!Plan, Lockdown!guild, Lockdown!history
  <2>1. CASE Lockdown!Return
    BY <1>1, <1>2, <2>1
  <2>2. CASE Lockdown!SyncedAllowed = {} /\ run' = Lockdown!Applying
    BY <2>2, LockdownPlans
  <2>3. CASE run' = [run EXCEPT !.at = "unsync", !.todo = Lockdown!SyncedAllowed]
    <3>1. run' \in Lockdown!Run /\ run'.own = run.own /\ run'.at = "unsync"
      BY <1>1, <2>3, LockdownUnsyncing
    <3>2. Lockdown!TypeOK'
      BY <3>1 DEF Lockdown!TypeOK
    <3> QED
      BY <3>1, <3>2 DEF GrantsAreOld, OwnAreAllowed, PlannedAreClosed, AllowedAreApart,
         AllAreClosed
  <2> QED
    BY <2>1, <2>2, <2>3
<1>4. CASE Lockdown!Replan
  <2> USE <1>4 DEF Lockdown!Replan, Lockdown!guild, Lockdown!history
  <2>1. CASE Lockdown!Return
    BY <1>1, <1>2, <2>1
  <2>2. CASE Lockdown!SyncedAllowed = {} /\ run' = Lockdown!Applying
    BY <2>2, LockdownPlans
  <2> QED
    BY <2>1, <2>2
<1>5. CASE Lockdown!Enable
  <2> USE <1>5 DEF Lockdown!Enable, Lockdown!guild, Lockdown!history
  <2>1. run' \in Lockdown!Run /\ run'.at = "refresh" /\ run'.failed = run.failed
    BY <1>1, LockdownGoto DEF LockdownStep, RunKept
  <2>2. Lockdown!TypeOK'
    BY <2>1 DEF Lockdown!TypeOK
  <2> QED
    BY <2>1, <2>2 DEF GrantsAreOld, OwnAreAllowed, PlannedAreClosed, AllowedAreApart,
       AllAreClosed, Untouched, Lockdown!Open, Lockdown!Denied
<1>6. CASE Lockdown!Refresh
  BY <1>1, <1>2, <1>6 DEF Lockdown!Refresh, Lockdown!guild, Lockdown!history
<1>7. CASE Lockdown!Interrupt
  BY <1>1, <1>2, <1>7 DEF Lockdown!Interrupt, Lockdown!Fault, Lockdown!guild, Lockdown!history
<1> QED
  BY <1>3, <1>4, <1>5, <1>6, <1>7

\* A channel given overwrites of its own allows the case role, and is still no category.
LEMMA LockdownUnsyncKept ==
  ASSUME ServicesAssumption, LockdownInv, NEW c \in Channel,
         Lockdown!Unsync(c) \/ Lockdown!FailUnsync(c)
  PROVE  LockdownInv'
<1> USE DEF LockdownInv
<1>1. /\ run \in Lockdown!Run /\ run.at = "unsync"
      /\ Category \cap Channel = {} /\ NoCategory \notin Category
      /\ parent \in [Channel -> Category \cup {NoCategory}]
      /\ access \in [Lockdown!Place -> Lockdown!Access]
      /\ lkFaults \in 0..LockdownFaults /\ LockdownFaults \in Nat
  BY DEF Lockdown!TypeOK, ServicesAssumption, Lockdown!RoleLockdownAssumption,
     Lockdown!Unsync, Lockdown!FailUnsync
<1>2. CASE Lockdown!Unsync(c)
  <2> DEFINE after == [run EXCEPT !.own = @ \cup {c}]
             value == [access[parent[c]] EXCEPT !.caseRole = "allow"]
  <2>1. /\ after \in Lockdown!Run /\ after.todo = run.todo /\ after.at = "unsync"
        /\ after.own = run.own \cup {c}
    BY <1>1 DEF Lockdown!Run
  <2>2. value \in Lockdown!Access /\ value.caseRole = "allow"
    <3>1. access[parent[c]] \in Lockdown!Access
      BY <1>1, <1>2 DEF Lockdown!Unsync, Lockdown!Place
    <3> QED
      BY <3>1 DEF Lockdown!Access
  <2>3. access' = [access EXCEPT ![c] = value] /\ Lockdown!NextChannel(c, after)
    BY <1>2 DEF Lockdown!Unsync
  <2> HIDE DEF after, value
  <2>4. /\ run' \in Lockdown!Run /\ run'.own = run.own \cup {c}
        /\ run'.at \in {"unsync", "replan"}
    BY <1>1, <2>1, <2>3, LockdownNextChannel
  <2>5. access' \in [Lockdown!Place -> Lockdown!Access]
    BY <1>1, <2>2, <2>3
  <2>6. /\ access'[c].caseRole = "allow"
        /\ \A p \in Lockdown!Place \ {c} : access'[p] = access[p]
    BY <1>1, <2>2, <2>3 DEF Lockdown!Place
  <2>7. UNCHANGED <<parent, allowed, enabled, granting, disturbed, edits, lkFaults>>
    BY <1>2 DEF Lockdown!Unsync, Lockdown!history
  <2>8. Lockdown!TypeOK'
    BY <2>4, <2>5, <2>7 DEF Lockdown!TypeOK
  <2>9. GrantsAreOld'
    BY <1>1, <2>6, <2>7 DEF GrantsAreOld, Lockdown!Place
  <2>10. OwnAreAllowed'
    <3>1. run.own \subseteq Channel
      BY <1>1 DEF Lockdown!Run
    <3> QED
      BY <1>1, <2>4, <2>6, <2>7, <3>1 DEF OwnAreAllowed, Lockdown!Place
  <2> QED
    BY <2>4, <2>8, <2>9, <2>10 DEF PlannedAreClosed, AllowedAreApart, AllAreClosed
<1>3. CASE Lockdown!FailUnsync(c)
  <2> DEFINE after == [run EXCEPT !.failed = TRUE]
  <2>1. /\ after \in Lockdown!Run /\ after.todo = run.todo /\ after.at = "unsync"
        /\ after.own = run.own
    BY <1>1 DEF Lockdown!Run
  <2>2. Lockdown!NextChannel(c, after)
    BY <1>3 DEF Lockdown!FailUnsync
  <2> HIDE DEF after
  <2>3. run' \in Lockdown!Run /\ run'.own = run.own /\ run'.at \in {"unsync", "replan"}
    BY <1>1, <2>1, <2>2, LockdownNextChannel
  <2>4. /\ UNCHANGED <<parent, access, allowed, enabled, granting, disturbed, edits>>
        /\ lkFaults' \in 0..LockdownFaults
    BY <1>1, <1>3 DEF Lockdown!FailUnsync, Lockdown!Fault, Lockdown!guild, Lockdown!history
  <2>5. Lockdown!TypeOK'
    BY <2>3, <2>4 DEF Lockdown!TypeOK
  <2> QED
    BY <1>1, <2>3, <2>4, <2>5 DEF GrantsAreOld, OwnAreAllowed, PlannedAreClosed,
       AllowedAreApart, AllAreClosed
<1> QED
  BY <1>2, <1>3

\* Closing a planned place keeps the rest of the plan what it was.
LEMMA LockdownApplyKept ==
  ASSUME ServicesAssumption, LockdownInv, NEW place \in Lockdown!Place, Lockdown!Apply(place)
  PROVE  LockdownInv'
<1> USE DEF LockdownInv
<1>1. /\ run \in Lockdown!Run /\ run.at = "apply" /\ place \in run.todo
      /\ Category \cap Channel = {} /\ NoCategory \notin Category
      /\ parent \in [Channel -> Category \cup {NoCategory}]
  BY DEF Lockdown!TypeOK, ServicesAssumption, Lockdown!RoleLockdownAssumption, Lockdown!Apply
<1> DEFINE after == [run EXCEPT !.applied = TRUE]
<1>2. /\ after \in Lockdown!Run /\ after.todo = run.todo /\ after.at = "apply"
      /\ after.own = run.own /\ after.failed = run.failed /\ after.applied
  BY <1>1 DEF Lockdown!Run
<1>3. Lockdown!NextChannel(place, after)
  BY DEF Lockdown!Apply
<1> HIDE DEF after
<1>4. /\ run' \in Lockdown!Run /\ run'.todo = run.todo \ {place} /\ run'.failed = run.failed
      /\ run'.at = IF run.todo # {place} THEN "apply" ELSE "enable"
  BY <1>1, <1>2, <1>3, LockdownNextChannel
<1>5. UNCHANGED <<parent, allowed, enabled, granting, disturbed, edits, lkFaults>>
  BY DEF Lockdown!Apply, Lockdown!history
<1>6. /\ access' \in [Lockdown!Place -> Lockdown!Access]
      /\ access'[place].caseRole = "deny"
      /\ \A c \in Channel : parent[c] = place /\ Lockdown!Synced(c)
                              => access'[c].caseRole = "deny"
      /\ \A c \in Channel : c # place /\ ~(parent[c] = place /\ Lockdown!Synced(c))
                              => access'[c] = access[c]
      /\ \A k \in Category \ {place} : access'[k] = access[k]
  BY LockdownDeny DEF Lockdown!Apply
<1>7. Lockdown!TypeOK'
  BY <1>4, <1>5, <1>6 DEF Lockdown!TypeOK
<1>8. GrantsAreOld'
  BY <1>5, <1>6 DEF GrantsAreOld
<1>9. OwnAreAllowed'
  BY <1>4 DEF OwnAreAllowed
<1>10. PlannedAreClosed'
  BY <1>1, <1>4, <1>5 DEF PlannedAreClosed, Untouched, Lockdown!Open
<1>11. AllowedAreApart'
  <2> SUFFICES ASSUME NEW c \in Channel \cap allowed, Untouched(c), parent[c] \in run.todo,
                      parent[c] # place, Lockdown!Synced(c)'
               PROVE  parent[c] \in granting
    BY <1>4, <1>5 DEF AllowedAreApart, Untouched
  <2>1. parent[c] \in Category /\ access'[c] = access'[parent[c]]
    BY <1>1, <1>5 DEF Lockdown!Synced
  <2>2. c # place
    BY <1>1 DEF PlannedAreClosed, Lockdown!Open
  <2>3. access'[c] = access[c] /\ access'[parent[c]] = access[parent[c]]
    BY <1>6, <2>1, <2>2
  <2>4. Lockdown!Synced(c)
    BY <1>1, <2>1, <2>3 DEF Lockdown!Synced
  <2> QED
    BY <1>1, <2>4 DEF AllowedAreApart
<1>12. AllAreClosed'
  <2> SUFFICES ASSUME ~run.failed, NEW c \in Channel, Untouched(c), ~Lockdown!Open(c),
                      access'[c].caseRole # "deny"
               PROVE  /\ run.todo # {place}
                      /\ \/ c \in run.todo \ {place}
                         \/ parent[c] \in run.todo \ {place} /\ Lockdown!Synced(c)'
    BY <1>4, <1>5 DEF AllAreClosed, Untouched, Lockdown!Open, Lockdown!Denied
  <2>1. c # place /\ ~(parent[c] = place /\ Lockdown!Synced(c))
    BY <1>6
  <2>2. access'[c] = access[c]
    BY <1>6, <2>1
  <2>3. c \in run.todo \/ (parent[c] \in run.todo /\ Lockdown!Synced(c))
    BY <1>1, <2>2 DEF AllAreClosed, Lockdown!Denied
  <2>4. CASE c \in run.todo
    BY <2>1, <2>4
  <2>5. CASE parent[c] \in run.todo /\ Lockdown!Synced(c)
    <3>1. parent[c] \in Category \ {place} /\ access[c] = access[parent[c]]
      BY <1>1, <2>1, <2>5 DEF Lockdown!Synced
    <3>2. access'[c] = access'[parent[c]]
      BY <1>6, <2>2, <3>1
    <3> QED
      BY <1>5, <2>1, <2>5, <3>1, <3>2 DEF Lockdown!Synced
  <2> QED
    BY <2>3, <2>4, <2>5
<1> QED
  BY <1>7, <1>8, <1>9, <1>10, <1>11, <1>12

\* A call that fails leaves the guild as it is, and the report says so.
LEMMA LockdownFailKept ==
  ASSUME ServicesAssumption, LockdownInv, NEW place \in Lockdown!Place, Lockdown!FailApply(place)
  PROVE  LockdownInv'
<1> USE DEF LockdownInv
<1>1. /\ run \in Lockdown!Run /\ run.at = "apply"
      /\ lkFaults \in 0..LockdownFaults /\ LockdownFaults \in Nat
  BY DEF Lockdown!TypeOK, ServicesAssumption, Lockdown!RoleLockdownAssumption,
     Lockdown!FailApply
<1> DEFINE after == [run EXCEPT !.failed = TRUE]
<1>2. after \in Lockdown!Run /\ after.todo = run.todo /\ after.at = "apply" /\ after.failed
  BY <1>1 DEF Lockdown!Run
<1>3. Lockdown!NextChannel(place, after)
  BY DEF Lockdown!FailApply
<1> HIDE DEF after
<1>4. /\ run' \in Lockdown!Run /\ run'.todo = run.todo \ {place} /\ run'.failed
      /\ run'.at \in {"apply", "enable", "refresh"}
  BY <1>1, <1>2, <1>3, LockdownNextChannel
<1>5. /\ UNCHANGED <<parent, access, allowed, enabled, granting, disturbed, edits>>
      /\ lkFaults' \in 0..LockdownFaults
  BY <1>1 DEF Lockdown!FailApply, Lockdown!Fault, Lockdown!guild, Lockdown!history
<1>6. Lockdown!TypeOK'
  BY <1>4, <1>5 DEF Lockdown!TypeOK
<1>7. GrantsAreOld' /\ OwnAreAllowed' /\ AllAreClosed'
  BY <1>4, <1>5 DEF GrantsAreOld, OwnAreAllowed, AllAreClosed
<1>8. PlannedAreClosed'
  BY <1>1, <1>4, <1>5 DEF PlannedAreClosed, Untouched, Lockdown!Open
<1>9. AllowedAreApart'
  BY <1>1, <1>4, <1>5 DEF AllowedAreApart, Untouched, Lockdown!Synced
<1> QED
  BY <1>6, <1>7, <1>8, <1>9

\* What administrators change is not promised any more; the rest is as it was.
LEMMA LockdownEditKept ==
  ASSUME ServicesAssumption, LockdownInv, NEW place \in Lockdown!Place,
         \/ place \in Channel /\ (Lockdown!Move(place) \/ Lockdown!Overwrite(place))
         \/ Lockdown!Allow(place)
  PROVE  LockdownInv' /\ edits' # edits
<1> USE DEF LockdownInv
<1>1. /\ NoCategory \notin Category /\ Category \cap Channel = {} /\ MaxEdits \in Nat
      /\ parent \in [Channel -> Category \cup {NoCategory}]
      /\ access \in [Lockdown!Place -> Lockdown!Access]
      /\ allowed \subseteq Lockdown!Place /\ disturbed \subseteq Lockdown!Place
      /\ edits \in 0..MaxEdits
  BY DEF ServicesAssumption, Lockdown!RoleLockdownAssumption, Lockdown!TypeOK
<1>2. /\ edits' \in 0..MaxEdits /\ edits' # edits /\ disturbed' = disturbed \cup {place}
      /\ run' = run /\ granting' = granting /\ lkFaults' = lkFaults /\ enabled' = enabled
  BY <1>1 DEF Lockdown!Move, Lockdown!Overwrite, Lockdown!Allow, Lockdown!Edit
<1>3. /\ parent' \in [Channel -> Category \cup {NoCategory}]
      /\ \A c \in Channel \ {place} : parent'[c] = parent[c]
  BY <1>1 DEF Lockdown!Move, Lockdown!Overwrite, Lockdown!Allow
<1>4. /\ access' \in [Lockdown!Place -> Lockdown!Access]
      /\ \A p \in Lockdown!Place : p # place \/ p \in Category => access'[p] = access[p]
  <2>1. CASE access' = access
    BY <1>1, <2>1
  <2>2. CASE place \in Channel /\ Lockdown!Overwrite(place)
    BY <1>1, <2>2 DEF Lockdown!Overwrite
  <2> QED
    BY <2>1, <2>2 DEF Lockdown!Move, Lockdown!Allow
<1>5. /\ allowed' \subseteq Lockdown!Place
      /\ \A p : p # place => (p \in allowed' <=> p \in allowed)
  BY <1>1 DEF Lockdown!Move, Lockdown!Overwrite, Lockdown!Allow
<1>6. \A c \in Channel : Untouched(c)' =>
        /\ Untouched(c) /\ c # place /\ parent[c] # place /\ parent'[c] = parent[c]
        /\ access'[c] = access[c]
        /\ Lockdown!Open(c)' <=> Lockdown!Open(c)
        /\ c \in allowed' <=> c \in allowed
        /\ parent[c] \in allowed' <=> parent[c] \in allowed
  <2> SUFFICES ASSUME NEW c \in Channel, Untouched(c)'
               PROVE  /\ Untouched(c) /\ c # place /\ parent[c] # place
                      /\ parent'[c] = parent[c] /\ access'[c] = access[c]
                      /\ Lockdown!Open(c)' <=> Lockdown!Open(c)
                      /\ c \in allowed' <=> c \in allowed
                      /\ parent[c] \in allowed' <=> parent[c] \in allowed
    OBVIOUS
  <2>1. c \notin disturbed \cup {place} /\ parent'[c] \notin disturbed \cup {place}
    BY <1>2 DEF Untouched
  <2>2. c # place /\ parent'[c] = parent[c]
    BY <1>3, <2>1
  <2>3. Untouched(c) /\ parent[c] # place
    BY <2>1, <2>2 DEF Untouched
  <2>4. access'[c] = access[c]
    BY <1>4, <2>2 DEF Lockdown!Place
  <2>5. /\ c \in allowed' <=> c \in allowed
        /\ parent[c] \in allowed' <=> parent[c] \in allowed
    BY <1>5, <2>2, <2>3
  <2>6. Lockdown!Open(c)' <=> Lockdown!Open(c)
    BY <2>2, <2>5 DEF Lockdown!Open
  <2> QED
    BY <2>2, <2>3, <2>4, <2>5, <2>6
<1>7. \A c \in Channel : Untouched(c)' => (Lockdown!Synced(c)' <=> Lockdown!Synced(c))
  <2> SUFFICES ASSUME NEW c \in Channel, Untouched(c)', parent[c] # NoCategory
               PROVE  access'[c] = access[c] /\ access'[parent[c]] = access[parent[c]]
    BY <1>6 DEF Lockdown!Synced
  <2>1. parent[c] \in Category
    BY <1>1
  <2> QED
    BY <1>4, <1>6, <2>1 DEF Lockdown!Place
<1>8. Lockdown!TypeOK'
  BY <1>1, <1>2, <1>3, <1>4, <1>5 DEF Lockdown!TypeOK
<1>9. GrantsAreOld'
  BY <1>2, <1>4 DEF GrantsAreOld, Lockdown!Place
<1>10. OwnAreAllowed'
  <2>1. run.own \subseteq Channel
    BY DEF Lockdown!TypeOK, Lockdown!Run
  <2> QED
    BY <1>2, <1>4, <2>1 DEF OwnAreAllowed, Lockdown!Place
<1>11. PlannedAreClosed'
  BY <1>2, <1>6 DEF PlannedAreClosed
<1>12. AllowedAreApart'
  BY <1>2, <1>6, <1>7 DEF AllowedAreApart
<1>13. AllAreClosed'
  BY <1>2, <1>6, <1>7 DEF AllAreClosed, Lockdown!Denied
<1> QED
  BY <1>2, <1>8, <1>9, <1>10, <1>11, <1>12, <1>13

\* What a step may do to a channel that administrators have left alone.
LockdownStays ==
  run.at # "done" /\ edits' = edits =>
    \A c \in Channel : {c, parent[c]} \cap disturbed = {} =>
      /\ Lockdown!Open(c) /\ ~Lockdown!Denied(c)
           => access'[c].caseRole # "deny" \/ parent[c] \in granting
      /\ run.at = "refresh" /\ ~run.failed /\ run'.at = "done"
           => Lockdown!Open(c) \/ Lockdown!Denied(c)

\* Every step of the lockdown keeps the invariant, and closes what it should.
LEMMA LockdownNextKept ==
  ASSUME ServicesAssumption, LockdownInv, Lockdown!Next
  PROVE  LockdownInv' /\ LockdownStays
<1> USE DEF LockdownInv
<1>1. \A c \in Channel : run.at = "refresh" /\ ~run.failed /\ Untouched(c)
                           => Lockdown!Open(c) \/ Lockdown!Denied(c)
  BY DEF AllAreClosed
<1>2. ASSUME access' = access
      PROVE  LockdownStays
  BY <1>1, <1>2 DEF LockdownStays, Untouched, Lockdown!Denied
<1>3. CASE Lockdown!Plan \/ Lockdown!Replan \/ Lockdown!Enable \/ Lockdown!Refresh
             \/ Lockdown!Interrupt
  <2>1. access' = access
    BY <1>3 DEF Lockdown!Plan, Lockdown!Replan, Lockdown!Enable, Lockdown!Refresh,
       Lockdown!Interrupt, Lockdown!guild
  <2> QED
    BY <1>2, <1>3, <2>1, LockdownRunKept
<1>4. ASSUME NEW c \in Channel, Lockdown!Unsync(c)
      PROVE  LockdownInv' /\ LockdownStays
  <2>1. LockdownInv'
    BY <1>4, LockdownUnsyncKept
  <2>2. /\ access \in [Lockdown!Place -> Lockdown!Access]
        /\ parent \in [Channel -> Category \cup {NoCategory}]
        /\ run.at = "unsync" /\ parent[c] # NoCategory
    BY <1>4 DEF Lockdown!TypeOK, Lockdown!Unsync
  <2>3. access[parent[c]] \in Lockdown!Access
    BY <2>2 DEF Lockdown!Place
  <2>4. /\ access'[c].caseRole = "allow"
        /\ \A d \in Channel \ {c} : access'[d] = access[d]
    BY <1>4, <2>2, <2>3 DEF Lockdown!Unsync, Lockdown!Place, Lockdown!Access
  <2>5. LockdownStays
    BY <2>2, <2>4 DEF LockdownStays, Lockdown!Denied
  <2> QED
    BY <2>1, <2>5
<1>5. ASSUME NEW c \in Channel, Lockdown!FailUnsync(c)
      PROVE  LockdownInv' /\ LockdownStays
  <2>1. access' = access
    BY <1>5 DEF Lockdown!FailUnsync, Lockdown!guild
  <2> QED
    BY <1>2, <1>5, <2>1, LockdownUnsyncKept
<1>6. ASSUME NEW place \in Lockdown!Place, Lockdown!Apply(place)
      PROVE  LockdownInv' /\ LockdownStays
  <2>1. LockdownInv'
    BY <1>6, LockdownApplyKept
  <2>2. /\ run.at = "apply" /\ place \in run.todo /\ access' = Lockdown!AfterDeny(place)
        /\ parent \in [Channel -> Category \cup {NoCategory}]
    BY <1>6 DEF Lockdown!Apply, Lockdown!TypeOK
  <2>3. \A c \in Channel : c # place /\ ~(parent[c] = place /\ Lockdown!Synced(c))
                             => access'[c] = access[c]
    BY <2>2, LockdownDeny
  <2>4. ASSUME NEW c \in Channel, Untouched(c), Lockdown!Open(c), ~Lockdown!Denied(c),
               access'[c].caseRole = "deny"
        PROVE  parent[c] \in granting
    <3>1. c # place
      BY <2>2, <2>4 DEF PlannedAreClosed
    <3>2. parent[c] = place /\ Lockdown!Synced(c)
      BY <2>3, <2>4, <3>1 DEF Lockdown!Denied
    <3>3. place \in run.todo \cap Category
      BY <2>2, <3>2 DEF Lockdown!Synced
    <3>4. c \in allowed
      BY <2>2, <2>4, <3>2, <3>3 DEF PlannedAreClosed, Lockdown!Open
    <3> QED
      BY <2>2, <2>4, <3>2, <3>4 DEF AllowedAreApart
  <2>5. LockdownStays
    BY <2>2, <2>4 DEF LockdownStays, Untouched
  <2> QED
    BY <2>1, <2>5
<1>7. ASSUME NEW place \in Lockdown!Place, Lockdown!FailApply(place)
      PROVE  LockdownInv' /\ LockdownStays
  <2>1. access' = access
    BY <1>7 DEF Lockdown!FailApply, Lockdown!guild
  <2> QED
    BY <1>2, <1>7, <2>1, LockdownFailKept
<1>8. ASSUME NEW place \in Lockdown!Place,
             \/ place \in Channel /\ (Lockdown!Move(place) \/ Lockdown!Overwrite(place))
             \/ Lockdown!Allow(place)
      PROVE  LockdownInv' /\ LockdownStays
  BY <1>8, LockdownEditKept DEF LockdownStays
<1>9. Channel \subseteq Lockdown!Place
  BY DEF Lockdown!Place
<1> QED
  BY <1>3, <1>4, <1>5, <1>6, <1>7, <1>8, <1>9 DEF Lockdown!Next

\* The invariant of the lockdown, in every behaviour of the services.
LEMMA LockdownKept ==
  ASSUME ServicesAssumption
  PROVE  Spec => []LockdownInv /\ [][LockdownStays]_(Lockdown!vars)
<1>1. Init => LockdownInv
  <2> SUFFICES ASSUME Lockdown!Init
               PROVE  LockdownInv
    BY DEF Init
  <2>1. MaxEdits \in Nat /\ LockdownFaults \in Nat
    BY DEF ServicesAssumption, Lockdown!RoleLockdownAssumption
  <2>2. run \in Lockdown!Run /\ run.at = "plan" /\ run.own = {}
    BY DEF Lockdown!Init, Lockdown!NoRun, Lockdown!Run
  <2>3. /\ parent \in [Channel -> Category \cup {NoCategory}]
        /\ access \in [Lockdown!Place -> Lockdown!Access]
        /\ allowed \subseteq Lockdown!Place /\ enabled = FALSE
        /\ granting = {k \in Category : access[k].caseRole = "allow"} /\ disturbed = {}
        /\ edits = 0 /\ lkFaults = 0
    BY DEF Lockdown!Init
  <2>4. Lockdown!TypeOK
    <3>1. granting \subseteq Category /\ disturbed \subseteq Lockdown!Place
      BY <2>3
    <3>2. edits \in 0..MaxEdits /\ lkFaults \in 0..LockdownFaults
      BY <2>1, <2>3
    <3>3. enabled \in BOOLEAN
      BY <2>3, Zenon
    <3> QED
      BY <2>2, <2>3, <3>1, <3>2, <3>3, Zenon DEF Lockdown!TypeOK
  <2>5. GrantsAreOld
    BY <2>3 DEF GrantsAreOld
  <2>6. OwnAreAllowed /\ PlannedAreClosed /\ AllowedAreApart /\ AllAreClosed
    BY <2>2 DEF OwnAreAllowed, PlannedAreClosed, AllowedAreApart, AllAreClosed
  <2> QED
    BY <2>4, <2>5, <2>6 DEF LockdownInv
<1>2. LockdownInv /\ [Next]_vars => LockdownInv' /\ [LockdownStays]_(Lockdown!vars)
  <2> SUFFICES ASSUME LockdownInv, [Next]_vars
               PROVE  LockdownInv' /\ [LockdownStays]_(Lockdown!vars)
    OBVIOUS
  <2>1. CASE UNCHANGED lockdownVars
    BY <2>1 DEF lockdownVars, Lockdown!vars, LockdownInv, Lockdown!TypeOK, GrantsAreOld,
       OwnAreAllowed, PlannedAreClosed, AllowedAreApart, AllAreClosed, Untouched,
       Lockdown!Open, Lockdown!Synced, Lockdown!Denied
  <2>2. CASE Lockdown!Next
    BY <2>2, LockdownNextKept
  <2> QED
    BY <2>1, <2>2, LockdownSteps
<1> QED
  BY <1>1, <1>2, PTL DEF Spec

\* For any categories, channels and overwrites, an application denies the case role in every
\* channel that is not allowed, unless a call failed, and never newly in one that is, those
\* apart that administrators change meanwhile, and the channels of a category that allows
\* the case role itself (RoleLockdown).
THEOREM LockdownStaysExact ==
  ASSUME ServicesAssumption
  PROVE  Spec => LockdownIsExact
<1>1. LockdownIsExact <=> [][LockdownStays]_(Lockdown!vars)
  BY DEF LockdownIsExact, Lockdown!LockdownIsExact, LockdownStays
<1> QED
  BY <1>1, LockdownKept, PTL

---------------------------------------------------------------------------
(* The alert of a detection *)

\* the scans that are past their alert
Past == {s \in Pipeline!Scan : scan[s].at \in {"stamp", "done"}}

\* The row of a scan that is not done names no alert yet.
RowsComeLast ==
  \A s \in Pipeline!Scan : scan[s].at # "done" =>
    detected[s].alert = 0 /\ s \notin unrecorded

\* A scan that has made no row has none.
RowsAreMade ==
  \A s \in Pipeline!Scan : scan[s].at \in {"new", "past", "create"} => detected[s].rank = 0

\* A scan has one alert at most.
AlertsAreFew == Len(alerts) <= Cardinality(Past)

PipelineInv ==
  /\ Pipeline!TypeOK /\ RowsComeLast /\ RowsAreMade /\ AlertsAreFew /\ AlertIsTracked
\* A step is one of the scans' own, or leaves their variables as they are.
LEMMA PipelineSteps ==
  ASSUME [Next]_vars
  PROVE  Pipeline!Next \/ UNCHANGED pipelineVars
<1>1. CASE UNCHANGED vars
  BY <1>1 DEF vars, scanVars
<1>2. CASE Next
  BY <1>2 DEF Next, QuarantineNext, DetectionNext, IntakeNext, ReminderNext,
              FrequencyNext, PipelineNext, LockdownNext, ActionsNext, scanVars
<1> QED
  BY <1>1, <1>2

PipelineTypes ==
  /\ profile \in Profile /\ clock \in 0..LastScanMoment
  /\ scan \in [Pipeline!Scan -> Pipeline!ScanState]
  /\ detected \in [Pipeline!Scan -> Pipeline!Event]
  /\ alerts \in Seq([event : Pipeline!Scan, open : BOOLEAN])
  /\ unrecorded \subseteq Pipeline!Scan

\* How many scans there are, and how many past their alert.
LEMMA PipelineCounts ==
  ASSUME ServicesAssumption
  PROVE  /\ MaxScans \in Nat
         /\ Pipeline!Scan = 1..MaxScans /\ IsFiniteSet(Pipeline!Scan)
         /\ Cardinality(Pipeline!Scan) = MaxScans
         /\ \A S \in SUBSET Pipeline!Scan :
              IsFiniteSet(S) /\ Cardinality(S) \in 0..MaxScans
         /\ \A S \in SUBSET Pipeline!Scan : \A s \in Pipeline!Scan \ S :
              Cardinality(S) + 1 <= MaxScans /\ Cardinality(S \cup {s}) = Cardinality(S) + 1
         /\ \A S, T \in SUBSET Pipeline!Scan : S \subseteq T => Cardinality(S) <= Cardinality(T)
<1>1. MaxScans \in Nat /\ Pipeline!Scan = 1..MaxScans
  BY DEF ServicesAssumption, Pipeline!DetectionPipelineAssumption, Pipeline!Scan
<1>2. IsFiniteSet(Pipeline!Scan) /\ Cardinality(Pipeline!Scan) = MaxScans
  BY <1>1, FS_Interval
<1>3. ASSUME NEW S \in SUBSET Pipeline!Scan
      PROVE  IsFiniteSet(S) /\ Cardinality(S) \in 0..MaxScans
  <2>1. IsFiniteSet(S) /\ Cardinality(S) <= MaxScans
    BY <1>2, FS_Subset
  <2> QED
    BY <1>1, <2>1, FS_CardinalityType
<1>4. ASSUME NEW S \in SUBSET Pipeline!Scan, NEW s \in Pipeline!Scan \ S
      PROVE  Cardinality(S) + 1 <= MaxScans /\ Cardinality(S \cup {s}) = Cardinality(S) + 1
  <2>1. Cardinality(S \cup {s}) = Cardinality(S) + 1
    BY <1>3, FS_AddElement
  <2>2. Cardinality(S \cup {s}) \in 0..MaxScans
    <3>1. S \cup {s} \in SUBSET Pipeline!Scan
      OBVIOUS
    <3> QED
      BY <3>1, <1>3
  <2> QED
    BY <1>1, <2>1, <2>2
<1>5. ASSUME NEW S \in SUBSET Pipeline!Scan, NEW T \in SUBSET Pipeline!Scan, S \subseteq T
      PROVE  Cardinality(S) <= Cardinality(T)
  BY <1>3, <1>5, FS_Subset
<1> QED
  BY <1>1, <1>2, <1>3, <1>4, <1>5

\* The other scans.
ScansKept(s) == \A x \in Pipeline!Scan \ {s} : scan'[x] = scan[x]

\* A scan that is done.
LEMMA PipelineDone ==
  ASSUME ServicesAssumption, PipelineTypes, NEW s \in Pipeline!Scan, Pipeline!Done(s)
  PROVE  scan' \in [Pipeline!Scan -> Pipeline!ScanState] /\ ScansKept(s) /\ scan'[s].at = "done"
<1>1. [Pipeline!NewScan EXCEPT !.at = "done"] \in Pipeline!ScanState
  BY PipelineCounts DEF Pipeline!NewScan, Pipeline!ScanState, Pipeline!Acted
<1>2. [Pipeline!NewScan EXCEPT !.at = "done"].at = "done"
  BY DEF Pipeline!NewScan
<1> QED
  BY <1>1, <1>2 DEF Pipeline!Done, ScansKept, PipelineTypes

\* A scan that goes on.
LEMMA PipelineOn ==
  ASSUME PipelineTypes, NEW s \in Pipeline!Scan,
         NEW data \in Pipeline!ScanState, Pipeline!On(s, data)
  PROVE  scan' \in [Pipeline!Scan -> Pipeline!ScanState] /\ ScansKept(s) /\ scan'[s] = data
BY DEF Pipeline!On, ScansKept, PipelineTypes

\* The confidence of a score is at most all of it.
LEMMA ConfidenceInRange ==
  ASSUME NEW score \in Int
  PROVE  Pipeline!Confidence(score) \in 0..100
BY DEF Pipeline!Confidence, Pipeline!Distance

\* the alert a, as AlertIsTracked has it
Tracked(a) ==
  LET e == alerts[a].event IN
  \/ detected[e].alert = a
  \/ Pipeline!At(e, "stamp") /\ scan[e].alert = a
  \/ e \in unrecorded

\* No alert is about a scan that has not posted one.
LEMMA AlertsScan ==
  ASSUME PipelineInv, NEW a \in DOMAIN alerts
  PROVE  /\ Tracked(a) /\ a \in Nat \ {0} /\ alerts[a].event \in Pipeline!Scan
         /\ scan[alerts[a].event].at \in {"stamp", "done"}
<1>1. Tracked(a)
  BY DEF PipelineInv, AlertIsTracked, Pipeline!AlertIsTracked, Tracked
<1>2. a \in Nat \ {0} /\ alerts[a].event \in Pipeline!Scan
  <2> DEFINE Alert == [event : Pipeline!Scan, open : BOOLEAN]
  <2>1. alerts \in Seq(Alert)
    BY DEF PipelineInv, Pipeline!TypeOK
  <2>2. \A x \in Alert : x.event \in Pipeline!Scan
    OBVIOUS
  <2> HIDE DEF Alert
  <2>3. alerts[a] \in Alert /\ a \in Nat \ {0}
    BY <2>1
  <2> QED
    BY <2>2, <2>3
<1>3. scan[alerts[a].event].at \in {"stamp", "done"}
  BY <1>1, <1>2 DEF PipelineInv, RowsComeLast, Tracked, Pipeline!At
<1> QED
  BY <1>1, <1>2, <1>3

\* Scans past their alert stay so.
LEMMA PastGrows ==
  ASSUME ServicesAssumption, PipelineTypes, AlertsAreFew, NEW s \in Pipeline!Scan, ScansKept(s),
         scan[s].at \in {"stamp", "done"} => scan'[s].at \in {"stamp", "done"},
         Len(alerts') = Len(alerts)
  PROVE  AlertsAreFew'
<1>1. Past \in SUBSET Pipeline!Scan /\ Past' \in SUBSET Pipeline!Scan /\ Past \subseteq Past'
  BY DEF Past, ScansKept, Pipeline!Scan
<1>2. Cardinality(Past) <= Cardinality(Past')
  BY <1>1, PipelineCounts
<1>3. Cardinality(Past) \in Nat /\ Cardinality(Past') \in Nat /\ Len(alerts) \in Nat
  BY <1>1, PipelineCounts DEF PipelineTypes
<1> QED
  BY <1>2, <1>3 DEF AlertsAreFew

\* The bounds of the scans' times.
LEMMA LastMoments ==
  ASSUME ServicesAssumption
  PROVE  LastScanMoment \in Nat /\ 0 \in 0..LastScanMoment /\ AlertWindow \in Nat
BY DEF ServicesAssumption, Pipeline!DetectionPipelineAssumption

\* A scan changes its own state before its alert: what the rows and the alerts say is
\* as before.
LEMMA PipelineScanKept ==
  ASSUME ServicesAssumption, PipelineInv, PipelineTypes, NEW s \in Pipeline!Scan,
         scan' \in [Pipeline!Scan -> Pipeline!ScanState], ScansKept(s),
         scan[s].at \notin {"stamp", "done"},
         scan'[s].at \in {"new", "past", "create"} => scan[s].at \in {"new", "past", "create"},
         profile' = profile, clock' = clock, detected' = detected, alerts' = alerts,
         unrecorded' = unrecorded
  PROVE  PipelineInv'
<1>1. Pipeline!TypeOK'
  BY DEF PipelineInv, Pipeline!TypeOK
<1>2. RowsComeLast' /\ RowsAreMade'
  BY DEF PipelineInv, RowsComeLast, RowsAreMade, ScansKept
<1>3. AlertsAreFew'
  BY PastGrows DEF PipelineInv
<1>4. AlertIsTracked'
  <2> SUFFICES ASSUME NEW a \in DOMAIN alerts
               PROVE  Tracked(a)'
    BY DEF AlertIsTracked, Pipeline!AlertIsTracked, Tracked
  <2>1. Tracked(a) /\ alerts[a].event \in Pipeline!Scan /\ alerts[a].event # s
    BY AlertsScan DEF PipelineInv
  <2> QED
    BY <2>1 DEF Tracked, Pipeline!At, ScansKept
<1> QED
  BY <1>1, <1>2, <1>3, <1>4 DEF PipelineInv

\* A verdict makes the scan go on to its row, or be done.
LEMMA PipelineJudged ==
  ASSUME ServicesAssumption, PipelineTypes, NEW s \in Pipeline!Scan, NEW score \in Int,
         Pipeline!Judged(s, score)
  PROVE  /\ scan' \in [Pipeline!Scan -> Pipeline!ScanState] /\ ScansKept(s)
         /\ scan'[s].at \in {"create", "done"}
<1> DEFINE conf == Pipeline!Confidence(score)
           one == [scan[s] EXCEPT !.at = "create"]
           two == [one EXCEPT !.confidence = conf]
<1>1. CASE score >= 50
  <2>1. conf \in 0..100
    BY ConfidenceInRange
  <2>2. one \in Pipeline!ScanState /\ one.at = "create"
    <3>1. scan[s] \in Pipeline!ScanState
      BY DEF PipelineTypes
    <3> QED
      BY <3>1 DEF Pipeline!ScanState
  <2>3. Pipeline!On(s, two)
    BY <1>1 DEF Pipeline!Judged
  <2> HIDE DEF conf, one
  <2>4. two \in Pipeline!ScanState /\ two.at = "create"
    BY <2>1, <2>2 DEF Pipeline!ScanState
  <2> HIDE DEF two
  <2> QED
    BY <2>3, <2>4, PipelineOn
<1>2. CASE ~(score >= 50)
  BY <1>2, PipelineDone DEF Pipeline!Judged
<1> QED
  BY <1>1, <1>2

\* Arrivals and scores.
LEMMA PipelineScoresKept ==
  ASSUME ServicesAssumption, PipelineInv, PipelineTypes, NEW s \in Pipeline!Scan,
         Pipeline!Arrive(s) \/ Pipeline!ScoreMessage(s) \/ Pipeline!ScoreJoin(s)
  PROVE  PipelineInv'
<1>1. CASE Pipeline!Arrive(s)
  <2>0. /\ scan[s].at = "new" /\ profile' = profile /\ clock' = clock
        /\ detected' = detected /\ alerts' = alerts /\ unrecorded' = unrecorded
    BY <1>1 DEF Pipeline!Arrive, Pipeline!At, Pipeline!outside
  <2> DEFINE one == [Pipeline!NewScan EXCEPT !.at = "create"]
             two == [one EXCEPT !.confidence = 100]
             past == [Pipeline!NewScan EXCEPT !.at = "past"]
  <2>2. Pipeline!NewScan \in Pipeline!ScanState
    BY PipelineCounts DEF Pipeline!NewScan, Pipeline!ScanState, Pipeline!Acted
  <2>3. one \in Pipeline!ScanState /\ past \in Pipeline!ScanState /\ past.at = "past"
        /\ one.at = "create"
    BY <2>2 DEF Pipeline!ScanState
  <2>4. two \in Pipeline!ScanState /\ two.at = "create"
    <3> HIDE DEF one
    <3> QED BY <2>3 DEF Pipeline!ScanState
  <2>5. Pipeline!Done(s) \/ Pipeline!On(s, two) \/ Pipeline!On(s, past)
    BY <1>1 DEF Pipeline!Arrive
  <2> HIDE DEF one, two, past
  <2>6. /\ scan' \in [Pipeline!Scan -> Pipeline!ScanState] /\ ScansKept(s)
    BY <2>3, <2>4, <2>5, PipelineDone, PipelineOn
  <2> QED
    BY <2>0, <2>6, PipelineScanKept
<1>2. CASE Pipeline!ScoreMessage(s)
  <2>1. \E score \in Int : Pipeline!Judged(s, score)
    <3>1. PICK heuristic \in BOOLEAN :
            LET score == Pipeline!Points(Pipeline!Repeated, 40) + Pipeline!Points(heuristic, 50)
                         + Pipeline!Points(Pipeline!NewAccount, 20)
                         + Pipeline!Points(Pipeline!NewMember, 10)
                         + Pipeline!Rounding(Pipeline!Repeated, heuristic)
            IN  \/ Pipeline!Judged(s, score)
                \/ \E final \in Pipeline!WithGpt(score) : Pipeline!Judged(s, final)
      BY <1>2 DEF Pipeline!ScoreMessage
    <3> DEFINE score == Pipeline!Points(Pipeline!Repeated, 40) + Pipeline!Points(heuristic, 50)
                        + Pipeline!Points(Pipeline!NewAccount, 20)
                        + Pipeline!Points(Pipeline!NewMember, 10)
                        + Pipeline!Rounding(Pipeline!Repeated, heuristic)
    <3>2. score \in Int
      <4>1. /\ Pipeline!Points(Pipeline!Repeated, 40) \in Int
            /\ Pipeline!Points(heuristic, 50) \in Int
            /\ Pipeline!Points(Pipeline!NewAccount, 20) \in Int
            /\ Pipeline!Points(Pipeline!NewMember, 10) \in Int
        BY DEF Pipeline!Points
      <4>2. Pipeline!Rounding(Pipeline!Repeated, heuristic) \in Int
        BY DEF Pipeline!Rounding
      <4> QED
        BY <4>1, <4>2
    <3> HIDE DEF score
    <3>3. Pipeline!WithGpt(score) \subseteq Int
      BY <3>2 DEF Pipeline!WithGpt, Pipeline!Larger
    <3> QED
      BY <3>1, <3>2, <3>3 DEF score
  <2>2. /\ scan' \in [Pipeline!Scan -> Pipeline!ScanState] /\ ScansKept(s)
        /\ scan'[s].at \in {"create", "done"}
    BY <2>1, PipelineJudged
  <2>3. /\ scan[s].at = "past" /\ profile' = profile /\ clock' = clock
        /\ detected' = detected /\ alerts' = alerts /\ unrecorded' = unrecorded
    BY <1>2 DEF Pipeline!ScoreMessage, Pipeline!At, Pipeline!outside
  <2> QED
    BY <2>2, <2>3, PipelineScanKept
<1>3. CASE Pipeline!ScoreJoin(s)
  <2>1. PICK suspicious \in BOOLEAN :
          Pipeline!Judged(s, Pipeline!Points(Pipeline!NewAccount, 40) + Pipeline!Points(suspicious, 70))
    BY <1>3 DEF Pipeline!ScoreJoin
  <2>2. Pipeline!Points(Pipeline!NewAccount, 40) + Pipeline!Points(suspicious, 70) \in Int
    BY DEF Pipeline!Points
  <2>3. /\ scan' \in [Pipeline!Scan -> Pipeline!ScanState] /\ ScansKept(s)
        /\ scan'[s].at \in {"create", "done"}
    BY <2>1, <2>2, PipelineJudged
  <2>4. /\ scan[s].at = "past" /\ profile' = profile /\ clock' = clock
        /\ detected' = detected /\ alerts' = alerts /\ unrecorded' = unrecorded
    BY <1>3 DEF Pipeline!ScoreJoin, Pipeline!At, Pipeline!outside
  <2> QED
    BY <2>3, <2>4, PipelineScanKept
<1> QED
  BY <1>1, <1>2, <1>3

\* A row is made: it is the scan's first.
LEMMA PipelineCreateKept ==
  ASSUME ServicesAssumption, PipelineInv, PipelineTypes, NEW s \in Pipeline!Scan,
         Pipeline!CreateEvent(s)
  PROVE  PipelineInv'
<1>1. /\ scan[s].at = "create" /\ profile' = profile /\ clock' = clock
      /\ alerts' = alerts /\ unrecorded' = unrecorded
  BY DEF Pipeline!CreateEvent, Pipeline!At, Pipeline!outside
<1>2. /\ scan' \in [Pipeline!Scan -> Pipeline!ScanState] /\ ScansKept(s)
      /\ scan'[s].at \in {"look", "done"}
  <2>1. /\ [Pipeline!NewScan EXCEPT !.at = "look"] \in Pipeline!ScanState
        /\ [Pipeline!NewScan EXCEPT !.at = "look"].at = "look"
    BY PipelineCounts DEF Pipeline!NewScan, Pipeline!ScanState, Pipeline!Acted
  <2>2. Pipeline!On(s, [Pipeline!NewScan EXCEPT !.at = "look"]) \/ Pipeline!Done(s)
    BY DEF Pipeline!CreateEvent
  <2> QED
    BY <2>1, <2>2, PipelineOn, PipelineDone
<1> DEFINE ranked == [Pipeline!NoEvent EXCEPT !.rank = Pipeline!Made + 1]
           fresh == [ranked EXCEPT !.confidence = scan[s].confidence]
<1>3. Pipeline!Made + 1 \in 0..MaxScans
  <2> DEFINE Rows == {e \in Pipeline!Scan : detected[e].rank # 0}
  <2>1. Rows \in SUBSET Pipeline!Scan /\ s \in Pipeline!Scan \ Rows
    BY <1>1 DEF PipelineInv, RowsAreMade
  <2>2. Pipeline!Made = Cardinality(Rows)
    BY Zenon DEF Pipeline!Made, Pipeline!Cardinality, Cardinality
  <2> HIDE DEF Rows
  <2> QED
    BY <2>1, <2>2, PipelineCounts
<1>4. fresh \in Pipeline!Event /\ fresh.alert = 0
  <2>1. scan[s].confidence \in 0..100
    BY DEF PipelineTypes, Pipeline!ScanState
  <2>2. Pipeline!NoEvent \in Pipeline!Event /\ Pipeline!NoEvent.alert = 0
    BY PipelineCounts, LastMoments DEF Pipeline!NoEvent, Pipeline!Event, Pipeline!Acted
  <2>3. ranked \in Pipeline!Event /\ ranked.alert = 0
    BY <1>3, <2>2 DEF Pipeline!Event
  <2> HIDE DEF ranked
  <2> QED
    BY <2>1, <2>3 DEF Pipeline!Event
<1>5. detected' = [detected EXCEPT ![s] = fresh]
  BY DEF Pipeline!CreateEvent
<1> HIDE DEF fresh
<1>6. Pipeline!TypeOK'
  BY <1>1, <1>2, <1>4, <1>5 DEF PipelineInv, Pipeline!TypeOK
<1>7. RowsComeLast' /\ RowsAreMade'
  BY <1>1, <1>2, <1>4, <1>5 DEF PipelineInv, RowsComeLast, RowsAreMade, ScansKept, PipelineTypes
<1>8. AlertsAreFew'
  BY <1>1, <1>2, PastGrows DEF PipelineInv
<1>9. AlertIsTracked'
  <2> SUFFICES ASSUME NEW a \in DOMAIN alerts
               PROVE  Tracked(a)'
    BY <1>1 DEF AlertIsTracked, Pipeline!AlertIsTracked, Tracked
  <2>1. Tracked(a) /\ alerts[a].event \in Pipeline!Scan /\ alerts[a].event # s
    BY <1>1, AlertsScan
  <2> QED
    BY <1>1, <1>2, <1>5, <2>1 DEF Tracked, Pipeline!At, ScansKept, PipelineTypes
<1> QED
  BY <1>6, <1>7, <1>8, <1>9 DEF PipelineInv

\* A set of numbers has a least one.
LEMMA LeastNumber ==
  ASSUME NEW T \in SUBSET Nat, T # {}
  PROVE  \E m \in T : \A k \in T : m <= k
<1>1. PICK m \in T : \A k \in T : <<k, m>> \notin OpToRel(<, Nat)
  BY NatLessThanWellFounded, WFMin, Zenon
<1>2. \A k \in T : ~(k < m)
  BY <1>1, Zenon DEF OpToRel
<1> QED
  BY <1>2

\* The alert to reuse is one of a row, or none.
LEMMA ReusedIsAlert ==
  ASSUME ServicesAssumption, PipelineTypes
  PROVE  Pipeline!AlertToReuse \in 0..MaxScans
<1> DEFINE IsNewest(e) == \A x \in Pipeline!Reusable : detected[x].rank <= detected[e].rank
           Newest == CHOOSE e \in Pipeline!Reusable : IsNewest(e)
<1>1. MaxScans \in Nat /\ Pipeline!Reusable \subseteq Pipeline!Scan
  BY PipelineCounts DEF Pipeline!Reusable
<1>2. CASE Pipeline!Reusable = {}
  BY <1>1, <1>2 DEF Pipeline!AlertToReuse
<1>3. CASE Pipeline!Reusable # {}
  <2> DEFINE Behind == {MaxScans - detected[e].rank : e \in Pipeline!Reusable}
  <2>1. \A e \in Pipeline!Reusable : detected[e].rank \in 0..MaxScans
    BY <1>1 DEF PipelineTypes, Pipeline!Event
  <2>2. Behind \in SUBSET Nat /\ Behind # {}
    BY <1>1, <1>3, <2>1
  <2>3. PICK m \in Behind : \A k \in Behind : m <= k
    <3> HIDE DEF Behind
    <3> QED BY <2>2, LeastNumber
  <2>4. PICK e \in Pipeline!Reusable : m = MaxScans - detected[e].rank
    BY <2>3
  <2>5. IsNewest(e)
    <3> SUFFICES ASSUME NEW x \in Pipeline!Reusable
                 PROVE  detected[x].rank <= detected[e].rank
      OBVIOUS
    <3>1. MaxScans - detected[x].rank \in Behind
      OBVIOUS
    <3> HIDE DEF Behind
    <3> QED
      BY <1>1, <2>1, <2>3, <2>4, <3>1
  <2> HIDE DEF IsNewest
  <2>6. Newest \in Pipeline!Reusable
    BY <2>5
  <2>7. Pipeline!AlertToReuse = detected[Newest].alert
    BY <1>3 DEF Pipeline!AlertToReuse, IsNewest
  <2> HIDE DEF Newest
  <2> QED
    BY <1>1, <2>6, <2>7 DEF PipelineTypes, Pipeline!Event
<1> QED
  BY <1>2, <1>3

\* The alert is looked for.
LEMMA PipelineLookKept ==
  ASSUME ServicesAssumption, PipelineInv, PipelineTypes, NEW s \in Pipeline!Scan,
         Pipeline!LookForAlert(s)
  PROVE  PipelineInv'
<1> DEFINE reuse == Pipeline!AlertToReuse
           posting == [scan[s] EXCEPT !.at = "post"]
           known == [posting EXCEPT !.alert = reuse]
           read == [known EXCEPT !.acted = detected[s].acted]
<1>1. /\ scan[s].at = "look" /\ profile' = profile /\ clock' = clock
      /\ detected' = detected /\ alerts' = alerts /\ unrecorded' = unrecorded
      /\ Pipeline!On(s, read)
  BY DEF Pipeline!LookForAlert, Pipeline!At, Pipeline!outside
<1>2. reuse \in 0..MaxScans
  BY ReusedIsAlert
<1>3. detected[s].acted \in Pipeline!Acted
  BY DEF PipelineTypes, Pipeline!Event
<1>4. posting \in Pipeline!ScanState /\ posting.at = "post"
  <2>1. scan[s] \in Pipeline!ScanState
    BY DEF PipelineTypes
  <2> QED
    BY <2>1 DEF Pipeline!ScanState
<1> HIDE DEF reuse, posting
<1>5. known \in Pipeline!ScanState /\ known.at = "post"
  BY <1>2, <1>4 DEF Pipeline!ScanState
<1> HIDE DEF known
<1>6. read \in Pipeline!ScanState /\ read.at = "post"
  BY <1>3, <1>5 DEF Pipeline!ScanState
<1> HIDE DEF read
<1>7. scan' \in [Pipeline!Scan -> Pipeline!ScanState] /\ ScansKept(s) /\ scan'[s] = read
  BY <1>1, <1>6, PipelineOn
<1> QED
  BY <1>1, <1>6, <1>7, PipelineScanKept

\* The alert is posted, as a new message or in place of the one found.
LEMMA PipelinePostKept ==
  ASSUME ServicesAssumption, PipelineInv, PipelineTypes, NEW s \in Pipeline!Scan,
         Pipeline!PostAlert(s)
  PROVE  PipelineInv'
<1> DEFINE Alert == [event : Pipeline!Scan, open : BOOLEAN]
           buttons == [event |-> s, open |-> TRUE]
           stamping == [scan[s] EXCEPT !.at = "stamp"]
           numbered == [stamping EXCEPT !.alert = Len(alerts) + 1]
<1>1. /\ scan[s].at = "post" /\ profile' = profile /\ clock' = clock
      /\ detected' = detected /\ unrecorded' = unrecorded
  BY DEF Pipeline!PostAlert, Pipeline!At, Pipeline!outside
<1>2. buttons \in Alert /\ buttons.event = s /\ alerts \in Seq(Alert)
  BY DEF PipelineTypes
<1>3. /\ stamping \in Pipeline!ScanState /\ stamping.at = "stamp"
      /\ stamping.alert = scan[s].alert /\ scan[s].alert \in 0..MaxScans
  <2>1. scan[s] \in Pipeline!ScanState
    BY DEF PipelineTypes
  <2> QED
    BY <2>1 DEF Pipeline!ScanState
<1>4. MaxScans \in Nat /\ Len(alerts) \in Nat
  BY <1>2, PipelineCounts
\* the scan was not past its alert, and is now
<1>5. /\ Past \in SUBSET Pipeline!Scan /\ s \in Pipeline!Scan \ Past
      /\ Cardinality(Past) + 1 <= MaxScans /\ Cardinality(Past \cup {s}) = Cardinality(Past) + 1
      /\ Cardinality(Past) \in Nat
  <2>1. Past \in SUBSET Pipeline!Scan /\ s \in Pipeline!Scan \ Past
    BY <1>1 DEF Past, Pipeline!Scan
  <2>2. Cardinality(Past) + 1 <= MaxScans /\ Cardinality(Past \cup {s}) = Cardinality(Past) + 1
    BY <2>1, PipelineCounts
  <2>3. Cardinality(Past) \in 0..MaxScans
    BY <2>1, PipelineCounts
  <2> QED
    BY <1>4, <2>1, <2>2, <2>3
<1>6. Len(alerts) + 1 <= MaxScans
  BY <1>4, <1>5 DEF PipelineInv, AlertsAreFew
<1>7. numbered \in Pipeline!ScanState /\ numbered.at = "stamp" /\ numbered.alert = Len(alerts) + 1
  <2> DEFINE n == Len(alerts) + 1
  <2>1. n \in 0..MaxScans
    BY <1>4, <1>6
  <2> HIDE DEF stamping, n
  <2>2. /\ [stamping EXCEPT !.alert = n] \in Pipeline!ScanState
        /\ [stamping EXCEPT !.alert = n].at = "stamp" /\ [stamping EXCEPT !.alert = n].alert = n
    BY <1>3, <2>1 DEF Pipeline!ScanState
  <2> QED
    BY <2>2 DEF n
<1>8. ASSUME NEW data \in Pipeline!ScanState, Pipeline!On(s, data), data.at = "stamp",
             alerts' \in Seq(Alert), Len(alerts') <= Len(alerts) + 1,
             \A a \in DOMAIN alerts' :
               \/ a \in DOMAIN alerts /\ alerts'[a] = alerts[a]
               \/ a = data.alert /\ alerts'[a].event = s
      PROVE  PipelineInv'
  <2>1. /\ scan' \in [Pipeline!Scan -> Pipeline!ScanState] /\ ScansKept(s) /\ scan'[s] = data
    BY <1>8, PipelineOn
  <2>2. Pipeline!TypeOK'
    BY <1>1, <1>8, <2>1 DEF PipelineInv, Pipeline!TypeOK
  <2>3. RowsComeLast' /\ RowsAreMade'
    BY <1>1, <1>8, <2>1 DEF PipelineInv, RowsComeLast, RowsAreMade, ScansKept
  <2>4. AlertsAreFew'
    <3>1. Past' = Past \cup {s}
      BY <1>8, <2>1 DEF Past, ScansKept, Pipeline!Scan
    <3>2. Len(alerts') \in Nat
      BY <1>8
    <3> QED
      BY <1>4, <1>5, <1>8, <3>1, <3>2 DEF PipelineInv, AlertsAreFew
  <2>5. AlertIsTracked'
    <3> SUFFICES ASSUME NEW a \in DOMAIN alerts'
                 PROVE  Tracked(a)'
      BY DEF AlertIsTracked, Pipeline!AlertIsTracked, Tracked
    <3>1. CASE a \in DOMAIN alerts /\ alerts'[a] = alerts[a]
      <4>1. Tracked(a) /\ alerts[a].event \in Pipeline!Scan /\ alerts[a].event # s
        BY <1>1, <3>1, AlertsScan
      <4> QED
        BY <1>1, <2>1, <3>1, <4>1 DEF Tracked, Pipeline!At, ScansKept
    <3>2. CASE a = data.alert /\ alerts'[a].event = s
      BY <1>8, <2>1, <3>2 DEF Tracked, Pipeline!At
    <3> QED
      BY <1>8, <3>1, <3>2
  <2> QED
    BY <2>2, <2>3, <2>4, <2>5 DEF PipelineInv
<1>9. CASE scan[s].alert # 0
  <2>1. alerts' = [alerts EXCEPT ![scan[s].alert] = buttons] /\ Pipeline!On(s, stamping)
    BY <1>9 DEF Pipeline!PostAlert
  <2> HIDE DEF Alert, buttons, stamping
  <2>2. /\ alerts' \in Seq(Alert) /\ Len(alerts') = Len(alerts) /\ DOMAIN alerts' = DOMAIN alerts
        /\ \A a \in DOMAIN alerts' : a # scan[s].alert => alerts'[a] = alerts[a]
        /\ scan[s].alert \in DOMAIN alerts => alerts'[scan[s].alert] = buttons
    <3> DEFINE i == scan[s].alert
    <3>1. alerts' = [alerts EXCEPT ![i] = buttons] /\ buttons \in Alert /\ alerts \in Seq(Alert)
      BY <1>2, <2>1
    <3> HIDE DEF i
    <3>2. /\ alerts' \in Seq(Alert) /\ Len(alerts') = Len(alerts)
          /\ DOMAIN alerts' = DOMAIN alerts
          /\ \A a \in DOMAIN alerts' : a # i => alerts'[a] = alerts[a]
          /\ i \in DOMAIN alerts => alerts'[i] = buttons
      <4> DEFINE n == Len(alerts)
      <4>1. alerts \in [1..n -> Alert] /\ n \in Nat
        BY <3>1
      <4> HIDE DEF n
      <4>2. alerts' \in [1..n -> Alert]
        BY <3>1, <4>1
      <4>3. alerts' \in Seq(Alert) /\ Len(alerts') = n
        BY <4>1, <4>2
      <4>4. Len(alerts') = Len(alerts)
        BY <4>3 DEF n
      <4> QED
        BY <3>1, <4>1, <4>2, <4>3, <4>4
    <3> QED
      BY <3>2 DEF i
  <2>3. \A a \in DOMAIN alerts' :
           \/ a \in DOMAIN alerts /\ alerts'[a] = alerts[a]
           \/ a = stamping.alert /\ alerts'[a].event = s
    BY <1>2, <1>3, <2>2
  <2> QED
    BY <1>3, <1>4, <1>8, <2>1, <2>2, <2>3
<1>10. CASE scan[s].alert = 0
  <2>1. alerts' = Append(alerts, buttons) /\ Pipeline!On(s, [[scan[s] EXCEPT !.at = "stamp"] EXCEPT !.alert = Len(alerts) + 1])
    BY <1>10 DEF Pipeline!PostAlert
  <2>2. Pipeline!On(s, numbered)
    BY <2>1
  <2> HIDE DEF Alert, buttons, numbered
  <2>3. /\ alerts' \in Seq(Alert) /\ Len(alerts') = Len(alerts) + 1
        /\ \A a \in DOMAIN alerts : alerts'[a] = alerts[a]
        /\ alerts'[Len(alerts) + 1] = buttons
        /\ DOMAIN alerts' = DOMAIN alerts \cup {Len(alerts) + 1}
    BY <1>2, <2>1
  <2>4. \A a \in DOMAIN alerts' :
           \/ a \in DOMAIN alerts /\ alerts'[a] = alerts[a]
           \/ a = numbered.alert /\ alerts'[a].event = s
    BY <1>2, <1>7, <2>3
  <2> QED
    BY <1>4, <1>7, <1>8, <2>2, <2>3, <2>4
<1> QED
  BY <1>9, <1>10

\* The row names the alert.
LEMMA PipelineStampKept ==
  ASSUME ServicesAssumption, PipelineInv, PipelineTypes, NEW s \in Pipeline!Scan,
         Pipeline!Stamp(s)
  PROVE  PipelineInv'
<1> DEFINE one == [detected[s] EXCEPT !.alert = scan[s].alert]
           two == [one EXCEPT !.notified = clock]
           three == [two EXCEPT !.acted = scan[s].acted]
<1>1. /\ scan[s].at = "stamp" /\ profile' = profile /\ clock' = clock
      /\ alerts' = alerts /\ unrecorded' = unrecorded /\ Pipeline!Done(s)
      /\ detected' = [detected EXCEPT ![s] = three]
  BY DEF Pipeline!Stamp, Pipeline!At, Pipeline!outside
<1>2. scan[s].alert \in 0..MaxScans /\ scan[s].acted \in Pipeline!Acted /\ clock \in 0..LastScanMoment
  BY DEF PipelineTypes, Pipeline!ScanState
<1>3. one \in Pipeline!Event /\ one.alert = scan[s].alert
  <2>1. detected[s] \in Pipeline!Event
    BY DEF PipelineTypes
  <2> QED
    BY <1>2, <2>1 DEF Pipeline!Event
<1> HIDE DEF one
<1>4. two \in Pipeline!Event /\ two.alert = scan[s].alert
  BY <1>2, <1>3 DEF Pipeline!Event
<1> HIDE DEF two
<1>5. three \in Pipeline!Event /\ three.alert = scan[s].alert
  BY <1>2, <1>4 DEF Pipeline!Event
<1> HIDE DEF three
<1>6. scan' \in [Pipeline!Scan -> Pipeline!ScanState] /\ ScansKept(s) /\ scan'[s].at = "done"
  BY <1>1, PipelineDone
<1>7. Pipeline!TypeOK'
  BY <1>1, <1>5, <1>6 DEF PipelineInv, Pipeline!TypeOK
<1>8. RowsComeLast' /\ RowsAreMade'
  BY <1>1, <1>6 DEF PipelineInv, RowsComeLast, RowsAreMade, ScansKept, PipelineTypes
<1>9. AlertsAreFew'
  BY <1>1, <1>6, PastGrows DEF PipelineInv
<1>10. AlertIsTracked'
  <2> SUFFICES ASSUME NEW a \in DOMAIN alerts
               PROVE  Tracked(a)'
    BY <1>1 DEF AlertIsTracked, Pipeline!AlertIsTracked, Tracked
  <2>1. Tracked(a) /\ a \in Nat \ {0} /\ alerts[a].event \in Pipeline!Scan
    BY AlertsScan
  <2>2. detected[s].alert = 0 /\ s \notin unrecorded
    BY <1>1 DEF PipelineInv, RowsComeLast
  <2>3. CASE alerts[a].event = s
    BY <1>1, <1>5, <2>1, <2>2, <2>3 DEF Tracked, PipelineTypes
  <2>4. CASE alerts[a].event # s
    BY <1>1, <1>6, <2>1, <2>4 DEF Tracked, Pipeline!At, ScansKept, PipelineTypes
  <2> QED
    BY <2>3, <2>4
<1> QED
  BY <1>7, <1>8, <1>9, <1>10 DEF PipelineInv

\* A scan fails: one that has posted its alert is remembered.
LEMMA PipelineFailKept ==
  ASSUME ServicesAssumption, PipelineInv, PipelineTypes, NEW s \in Pipeline!Scan,
         Pipeline!Fail(s)
  PROVE  PipelineInv'
<1>1. /\ scan[s].at \notin {"new", "done"} /\ profile' = profile /\ clock' = clock
      /\ alerts' = alerts /\ detected' = detected
      /\ unrecorded' = (IF scan[s].at = "stamp" THEN unrecorded \cup {s} ELSE unrecorded)
      /\ Pipeline!Done(s)
  BY DEF Pipeline!Fail, Pipeline!At, Pipeline!outside
<1>2. scan' \in [Pipeline!Scan -> Pipeline!ScanState] /\ ScansKept(s) /\ scan'[s].at = "done"
  BY <1>1, PipelineDone
<1>3. Pipeline!TypeOK'
  BY <1>1, <1>2 DEF PipelineInv, Pipeline!TypeOK
<1>4. RowsComeLast' /\ RowsAreMade'
  BY <1>1, <1>2 DEF PipelineInv, RowsComeLast, RowsAreMade, ScansKept
<1>5. AlertsAreFew'
  BY <1>1, <1>2, PastGrows DEF PipelineInv
<1>6. AlertIsTracked'
  <2> SUFFICES ASSUME NEW a \in DOMAIN alerts
               PROVE  Tracked(a)'
    BY <1>1 DEF AlertIsTracked, Pipeline!AlertIsTracked, Tracked
  <2>1. /\ Tracked(a) /\ alerts[a].event \in Pipeline!Scan
        /\ scan[alerts[a].event].at \in {"stamp", "done"}
    BY AlertsScan
  <2> QED
    BY <1>1, <1>2, <2>1 DEF Tracked, Pipeline!At, ScansKept
<1> QED
  BY <1>3, <1>4, <1>5, <1>6 DEF PipelineInv

\* A moderator acts: the alert shows the detection that names it.
LEMMA PipelineActKept ==
  ASSUME ServicesAssumption, PipelineInv, PipelineTypes, NEW e \in Pipeline!Scan,
         Pipeline!Act(e)
  PROVE  PipelineInv'
<1> DEFINE Alert == [event : Pipeline!Scan, open : BOOLEAN]
           shown == [event |-> e, open |-> FALSE]
<1>1. PICK action \in Pipeline!Acted \ {"none"} :
        /\ detected[e].rank # 0
        /\ detected' = [detected EXCEPT ![e].acted = action]
        /\ alerts' = [a \in DOMAIN alerts |-> IF detected[e].alert = a THEN shown ELSE alerts[a]]
        /\ profile' = profile /\ clock' = clock /\ scan' = scan /\ unrecorded' = unrecorded
  BY DEF Pipeline!Act, Pipeline!outside
<1>2. /\ [detected[e] EXCEPT !.acted = action] \in Pipeline!Event
      /\ [detected[e] EXCEPT !.acted = action].alert = detected[e].alert
      /\ [detected[e] EXCEPT !.acted = action].rank = detected[e].rank
  <2>1. detected[e] \in Pipeline!Event
    BY DEF PipelineTypes
  <2> QED
    BY <2>1 DEF Pipeline!Event
<1>3. /\ detected' \in [Pipeline!Scan -> Pipeline!Event]
      /\ \A x \in Pipeline!Scan : /\ detected'[x].alert = detected[x].alert
                                  /\ detected'[x].rank = detected[x].rank
  BY <1>1, <1>2 DEF PipelineTypes
<1>4. shown \in Alert /\ shown.event = e /\ alerts \in Seq(Alert)
  BY DEF PipelineTypes
<1> HIDE DEF Alert, shown
<1>5. alerts' \in Seq(Alert) /\ Len(alerts') = Len(alerts) /\ DOMAIN alerts' = DOMAIN alerts
  <2> DEFINE n == Len(alerts)
  <2>1. n \in Nat /\ DOMAIN alerts = 1..n /\ \A a \in 1..n : alerts[a] \in Alert
    BY <1>4
  <2> HIDE DEF n
  <2>2. alerts' \in [1..n -> Alert]
    BY <1>1, <1>4, <2>1
  <2>3. alerts' \in Seq(Alert) /\ Len(alerts') = n
    BY <2>1, <2>2
  <2>4. Len(alerts') = Len(alerts)
    BY <2>3 DEF n
  <2> QED
    BY <2>1, <2>2, <2>3, <2>4
<1>6. Pipeline!TypeOK'
  BY <1>1, <1>3, <1>5 DEF PipelineInv, Pipeline!TypeOK, Alert
<1>7. RowsComeLast' /\ RowsAreMade'
  BY <1>1, <1>3 DEF PipelineInv, RowsComeLast, RowsAreMade
<1>8. AlertsAreFew'
  BY <1>1, <1>5, PastGrows DEF PipelineInv, ScansKept
<1>9. AlertIsTracked'
  <2> SUFFICES ASSUME NEW a \in DOMAIN alerts
               PROVE  Tracked(a)'
    BY <1>5 DEF AlertIsTracked, Pipeline!AlertIsTracked, Tracked
  <2>1. Tracked(a) /\ alerts[a].event \in Pipeline!Scan
    BY AlertsScan
  <2>2. CASE detected[e].alert = a
    BY <1>1, <1>3, <1>4, <2>2 DEF Tracked
  <2>3. CASE detected[e].alert # a
    BY <1>1, <1>3, <2>1, <2>3 DEF Tracked, Pipeline!At
  <2> QED
    BY <2>2, <2>3
<1> QED
  BY <1>6, <1>7, <1>8, <1>9 DEF PipelineInv

\* The invariant of the scans, in every behaviour of the services.
LEMMA PipelineKept ==
  ASSUME ServicesAssumption
  PROVE  Spec => []PipelineInv
<1>1. Init => PipelineInv
  <2> SUFFICES ASSUME Pipeline!Init
               PROVE  PipelineInv
    BY DEF Init
  <2>1. Pipeline!NewScan \in Pipeline!ScanState /\ Pipeline!NewScan.at = "new"
    BY PipelineCounts DEF Pipeline!NewScan, Pipeline!ScanState, Pipeline!Acted
  <2>2. /\ Pipeline!NoEvent \in Pipeline!Event
        /\ Pipeline!NoEvent.alert = 0 /\ Pipeline!NoEvent.rank = 0
    BY PipelineCounts, LastMoments DEF Pipeline!NoEvent, Pipeline!Event, Pipeline!Acted
  <2>3. /\ profile \in Profile /\ clock = 0 /\ alerts = <<>> /\ unrecorded = {}
        /\ scan \in [Pipeline!Scan -> Pipeline!ScanState]
        /\ detected \in [Pipeline!Scan -> Pipeline!Event]
        /\ \A s \in Pipeline!Scan : detected[s].alert = 0 /\ detected[s].rank = 0
    BY <2>1, <2>2 DEF Pipeline!Init
  <2>4. Pipeline!TypeOK
    BY <2>3, LastMoments DEF Pipeline!TypeOK
  <2>5. RowsComeLast /\ RowsAreMade /\ AlertIsTracked
    BY <2>3 DEF RowsComeLast, RowsAreMade, AlertIsTracked, Pipeline!AlertIsTracked
  <2>6. AlertsAreFew
    <3>1. Past \in SUBSET Pipeline!Scan
      BY DEF Past
    <3>2. Cardinality(Past) \in 0..MaxScans
      BY <3>1, PipelineCounts
    <3>3. Len(alerts) = 0
      BY <2>3
    <3> QED
      BY <3>2, <3>3 DEF AlertsAreFew
  <2> QED
    BY <2>4, <2>5, <2>6 DEF PipelineInv
<1>2. PipelineInv /\ [Next]_vars => PipelineInv'
  <2> SUFFICES ASSUME PipelineInv, [Next]_vars
               PROVE  PipelineInv'
    OBVIOUS
  <2>0. PipelineTypes
    BY DEF PipelineInv, Pipeline!TypeOK, PipelineTypes
  <2>1. CASE UNCHANGED pipelineVars
    BY <2>1 DEF pipelineVars, PipelineInv, Pipeline!TypeOK, RowsComeLast, RowsAreMade,
       AlertsAreFew, Past, AlertIsTracked, Pipeline!AlertIsTracked, Pipeline!At
  <2>2. CASE Pipeline!Next
    <3>1. CASE Pipeline!Tick
      <4>1. /\ clock' \in 0..LastScanMoment /\ profile' = profile /\ scan' = scan
            /\ detected' = detected /\ alerts' = alerts /\ unrecorded' = unrecorded
        BY <2>0, <3>1, LastMoments DEF Pipeline!Tick, PipelineTypes
      <4> QED
        BY <4>1 DEF PipelineInv, Pipeline!TypeOK, RowsComeLast, RowsAreMade,
           AlertsAreFew, Past, AlertIsTracked, Pipeline!AlertIsTracked, Pipeline!At
    <3>2. CASE \E s \in Pipeline!Scan :
                 Pipeline!Arrive(s) \/ Pipeline!Work(s) \/ Pipeline!Fail(s) \/ Pipeline!Act(s)
      <4>1. PICK s \in Pipeline!Scan :
                 Pipeline!Arrive(s) \/ Pipeline!Work(s) \/ Pipeline!Fail(s) \/ Pipeline!Act(s)
        BY <3>2
      <4> QED
        BY <2>0, <4>1, PipelineScoresKept, PipelineCreateKept, PipelineLookKept, PipelinePostKept,
           PipelineStampKept, PipelineFailKept, PipelineActKept DEF Pipeline!Work
    <3> QED
      BY <2>2, <3>1, <3>2 DEF Pipeline!Next
  <2> QED
    BY <2>1, <2>2, PipelineSteps
<1> QED
  BY <1>1, <1>2, PTL DEF Spec

\* Alerts are tracked, for any number of scans and of moderators' actions: the buttons of
\* an alert belong to a detection whose row names it, but for a scan about to write the
\* row, or stopped there (DetectionPipeline).
THEOREM AlertsStayTracked ==
  ASSUME ServicesAssumption
  PROVE  Spec => []AlertIsTracked
<1>1. PipelineInv => AlertIsTracked
  BY DEF PipelineInv
<1> QED
  BY <1>1, PipelineKept, PTL

---------------------------------------------------------------------------
(* The quarantine of roles *)

\* The active snapshots list what was taken: roles that were there at the beginning.
OneActive == \A s, t \in Quarantine!Active : s = t
ListsAreOld ==
  \A s \in Quarantine!Active :
    snaps[s].removed \subseteq snaps[s].original /\ snaps[s].original \cap late = {}
TakenAreListed ==
  \A r \in taken \ lost : \E s \in Quarantine!Active : r \in snaps[s].removed

\* Before the snapshot is made nothing was removed, and nothing taken is open.
CreatesAlone ==
  /\ flow.at \in {"find", "create"} => flow.done = {}
  /\ flow.at = "create" => Quarantine!Active = {} /\ flow.todo \subseteq flow.original

\* What is removed was listed, and what was taken will be in the list that remains.
RemovesListed ==
  flow.at \in {"remove", "record"} =>
    /\ flow.snap \in Quarantine!Active
    /\ flow.todo \cup flow.done \subseteq snaps[flow.snap].removed
    /\ taken \ lost \subseteq flow.done

\* Only what was listed is given back; a restoration that missed nothing settles all of it.
RestoresListed ==
  flow.at \in {"restore", "restoreRecord"} =>
    /\ flow.snap \in Quarantine!Active
    /\ flow.todo \subseteq snaps[flow.snap].removed
    /\ ~flow.missed => snaps[flow.snap].removed \cap taken \subseteq flow.todo
    /\ flow.at = "restoreRecord" => flow.todo = {}

QuarantineInv ==
  /\ Quarantine!TypeOK
  /\ OneActive /\ ListsAreOld /\ TakenAreListed
  /\ CreatesAlone /\ RemovesListed /\ RestoresListed

\* A step is one of the quarantine's own, or leaves its variables as they are.
LEMMA QuarantineSteps ==
  ASSUME [Next]_vars
  PROVE  Quarantine!Next \/ UNCHANGED quarantineVars
<1>1. CASE UNCHANGED vars
  BY <1>1 DEF vars
<1>2. CASE Next
  BY <1>2 DEF Next, QuarantineNext, DetectionNext, IntakeNext, ReminderNext,
              FrequencyNext, PipelineNext, LockdownNext, ActionsNext
<1> QED
  BY <1>1, <1>2

\* The records the quarantine is built from.
LEMMA QuarantineData ==
  /\ Quarantine!NoFlow \in Quarantine!Flow /\ Quarantine!NoFlow.at = "idle"
  /\ Quarantine!NoFlow.done = {} /\ Quarantine!NoFlow.todo = {} /\ ~Quarantine!NoFlow.missed
  /\ Quarantine!NoWatch \in Quarantine!Watch
  /\ Quarantine!NoSnapshot \in Quarantine!Snapshot /\ Quarantine!NoSnapshot.status = "none"
BY DEF Quarantine!NoFlow, Quarantine!Flow, Quarantine!NoWatch, Quarantine!Watch,
       Quarantine!NoSnapshot, Quarantine!Snapshot

FlowStep == {"idle", "find", "create", "remove", "record", "assign", "restoreFind",
             "restore", "restoreRecord", "abandonFind", "abandon"}

\* what is left as it is of the flow's local variables
FlowKept ==
  /\ flow'.snap = flow.snap /\ flow'.original = flow.original /\ flow'.todo = flow.todo
  /\ flow'.done = flow.done /\ flow'.missed = flow.missed

\* A flow begins at a step of its own.
LEMMA QuarantineBegin ==
  ASSUME NEW step \in FlowStep, flow' = [Quarantine!NoFlow EXCEPT !.at = step]
  PROVE  flow' \in Quarantine!Flow /\ flow'.at = step /\ flow'.done = {}
BY QuarantineData DEF Quarantine!Flow, FlowStep

\* A flow goes on with what it has.
LEMMA QuarantineGoto ==
  ASSUME flow \in Quarantine!Flow, NEW step \in FlowStep, flow' = [flow EXCEPT !.at = step]
  PROVE  flow' \in Quarantine!Flow /\ flow'.at = step /\ FlowKept
BY DEF Quarantine!Flow, FlowStep, FlowKept

\* A flow goes on with the next role, or with what comes after the last.
LEMMA QuarantineNextRole ==
  ASSUME flow \in Quarantine!Flow, NEW r \in flow.todo, NEW done \in SUBSET Role,
         NEW missed \in BOOLEAN, NEW after \in FlowStep,
         Quarantine!NextRole(r, done, missed, after)
  PROVE  /\ flow' \in Quarantine!Flow
         /\ flow'.snap = flow.snap /\ flow'.original = flow.original
         /\ flow'.todo = flow.todo \ {r} /\ flow'.done = done /\ flow'.missed = missed
         /\ \/ flow'.at = flow.at /\ flow.todo # {r}
            \/ flow'.at = after /\ flow.todo = {r}
<1> DEFINE step == IF flow.todo = {r} THEN after ELSE flow.at
           rest == flow.todo \ {r}
           one == [flow EXCEPT !.todo = rest]
           two == [one EXCEPT !.done = done]
           three == [two EXCEPT !.missed = missed]
           four == [three EXCEPT !.at = IF flow.todo = {r} THEN after ELSE @]
<1>1. flow' = four
  BY DEF Quarantine!NextRole
<1>2. step \in FlowStep /\ rest \in SUBSET Role
  BY DEF Quarantine!Flow, FlowStep
<1> HIDE DEF rest
<1>3. /\ one \in Quarantine!Flow /\ one.snap = flow.snap /\ one.original = flow.original
      /\ one.todo = rest /\ one.at = flow.at
  BY <1>2 DEF Quarantine!Flow
<1> HIDE DEF one
<1>4. /\ two \in Quarantine!Flow /\ two.snap = flow.snap /\ two.original = flow.original
      /\ two.todo = rest /\ two.done = done /\ two.at = flow.at
  BY <1>3 DEF Quarantine!Flow
<1> HIDE DEF two
<1>5. /\ three \in Quarantine!Flow /\ three.snap = flow.snap /\ three.original = flow.original
      /\ three.todo = rest /\ three.done = done /\ three.at = flow.at
  BY <1>4 DEF Quarantine!Flow
<1>6. three.missed = missed
  BY <1>4 DEF Quarantine!Flow
<1> HIDE DEF three
<1> DEFINE five == [three EXCEPT !.at = step]
<1>7. four = five
  BY <1>5
<1> HIDE DEF step, four
<1>8. five.at = step /\ five.missed = three.missed
  BY <1>5 DEF Quarantine!Flow
<1>9. /\ five \in Quarantine!Flow /\ five.snap = flow.snap /\ five.original = flow.original
      /\ five.todo = rest /\ five.done = done
  BY <1>2, <1>5 DEF Quarantine!Flow, FlowStep
<1> HIDE DEF five
<1>10. \/ step = flow.at /\ flow.todo # {r}
       \/ step = after /\ flow.todo = {r}
  BY DEF step
<1>11. flow'.missed = missed
  BY <1>1, <1>6, <1>7, <1>8, Zenon
<1>12. /\ flow' \in Quarantine!Flow /\ flow'.snap = flow.snap /\ flow'.original = flow.original
       /\ flow'.todo = rest /\ flow'.done = done /\ flow'.at = step
  BY <1>1, <1>7, <1>8, <1>9
<1> QED
  BY <1>10, <1>11, <1>12 DEF rest

\* The newest of the active snapshots is the only one.
LEMMA QuarantineNewest ==
  ASSUME OneActive, Quarantine!Active # {}
  PROVE  Quarantine!Newest(Quarantine!Active) \in Quarantine!Active
<1>1. PICK s \in Quarantine!Active : TRUE
  OBVIOUS
<1>2. s <= s
  BY <1>1 DEF Quarantine!Active, Quarantine!Snap
<1>3. \E n \in Quarantine!Active : \A t \in Quarantine!Active : t <= n
  BY <1>1, <1>2 DEF OneActive
<1> QED
  BY <1>3 DEF Quarantine!Newest

\* With the snapshots and the history as they were, so is what is said of them.
LEMMA QuarantineListsKept ==
  ASSUME OneActive, ListsAreOld, TakenAreListed, UNCHANGED <<snaps, taken, lost, late>>
  PROVE  OneActive' /\ ListsAreOld' /\ TakenAreListed' /\ Quarantine!Active' = Quarantine!Active
BY DEF OneActive, ListsAreOld, TakenAreListed, Quarantine!Active

\* Whatever others do to the member, and the enforcement with it, the snapshots list what they did.
LEMMA QuarantineOthersKept ==
  ASSUME ServicesAssumption, QuarantineInv,
         \/ Quarantine!Return \/ Quarantine!Look \/ Quarantine!Enforce
         \/ \E r \in Role : Quarantine!Gain(r) \/ Quarantine!Drop(r) \/ Quarantine!Reorder(r)
  PROVE  QuarantineInv' /\ (held' \ held # {} => roleMoves' # roleMoves)
<1> USE DEF QuarantineInv, Quarantine!guild, Quarantine!history, Quarantine!counters
<1>1. /\ MaxSwitches \in Nat /\ MaxRoleMoves \in Nat /\ QuarantineFaults \in Nat
      /\ switches \in 0..MaxSwitches /\ roleMoves \in 0..MaxRoleMoves
      /\ faults \in 0..QuarantineFaults /\ held \subseteq Role /\ high \subseteq Role
      /\ snaps \in [Quarantine!Snap -> Quarantine!Snapshot] /\ flow \in Quarantine!Flow
      /\ taken \subseteq Role /\ lost \subseteq Role /\ late \subseteq Role
  BY DEF ServicesAssumption, Quarantine!RoleQuarantineAssumption, Quarantine!TypeOK
<1>2. caseRole \in BOOLEAN /\ pending \in BOOLEAN /\ present \in BOOLEAN
  BY Zenon DEF Quarantine!TypeOK
<1>3. watch \in Quarantine!Watch
  BY DEF Quarantine!TypeOK
<1>4. /\ UNCHANGED <<snaps, flow, taken, lost>>
      /\ caseRole' = caseRole /\ pending' = pending
      /\ \/ late' = late
         \/ \E r \in Role : /\ late' \in {late \cup {r}, late \ {r}}
                            /\ late' # late \ {r} =>
                                 \A s \in Quarantine!Active : r \notin snaps[s].original
  BY DEF Quarantine!Return, Quarantine!Look, Quarantine!Enforce, Quarantine!Gain,
     Quarantine!Drop, Quarantine!Reorder
<1>5. /\ held' \subseteq Role
      /\ switches' \in 0..MaxSwitches /\ faults' \in 0..QuarantineFaults
  BY <1>1 DEF Quarantine!Return, Quarantine!Look, Quarantine!Enforce, Quarantine!Gain,
     Quarantine!Drop, Quarantine!Reorder, Quarantine!Fault
<1>6. high' \subseteq Role /\ roleMoves' \in 0..MaxRoleMoves
  BY <1>1 DEF Quarantine!Return, Quarantine!Look, Quarantine!Enforce, Quarantine!Gain,
     Quarantine!Drop, Quarantine!Reorder, Quarantine!RoleMove
<1>7. present' \in BOOLEAN
  BY <1>2, Zenon DEF Quarantine!Return, Quarantine!Look, Quarantine!Enforce, Quarantine!Gain,
     Quarantine!Drop, Quarantine!Reorder
<1>8. watch' \in Quarantine!Watch
  <2>1. CASE watch' = watch \/ watch' = Quarantine!NoWatch
    BY <1>3, <2>1, QuarantineData
  <2>2. CASE watch' = [watch EXCEPT !.at = "remove"]
    BY <1>3, <2>2 DEF Quarantine!Watch
  <2>3. CASE \E r \in Role : watch' = [at |-> "look", gained |-> {r}]
    BY <2>3 DEF Quarantine!Watch
  <2> QED
    BY <2>1, <2>2, <2>3 DEF Quarantine!Return, Quarantine!Look, Quarantine!Enforce,
       Quarantine!Gain, Quarantine!Drop, Quarantine!Reorder
<1>9. late' \subseteq Role
  BY <1>1, <1>4
<1>10. Quarantine!TypeOK'
  BY <1>1, <1>2, <1>4, <1>5, <1>6, <1>7, <1>8, <1>9, Zenon DEF Quarantine!TypeOK
<1>11. Quarantine!Active' = Quarantine!Active
  BY <1>4 DEF Quarantine!Active
<1>12. ListsAreOld'
  BY <1>4, <1>11 DEF ListsAreOld
<1>13. OneActive' /\ TakenAreListed'
  BY <1>4, <1>11 DEF OneActive, TakenAreListed
<1>14. CreatesAlone' /\ RemovesListed' /\ RestoresListed'
  BY <1>4, <1>11 DEF CreatesAlone, RemovesListed, RestoresListed
<1>15. held' \ held # {} => roleMoves' # roleMoves
  BY <1>1 DEF Quarantine!Return, Quarantine!Look, Quarantine!Enforce, Quarantine!Gain,
     Quarantine!Drop, Quarantine!Reorder, Quarantine!RoleMove
<1> QED
  BY <1>4, <1>10, <1>12, <1>13, <1>14, <1>15

\* A flow that only finds its way on leaves the lists alone, and goes by what they say.
LEMMA QuarantineFlowKept ==
  ASSUME ServicesAssumption, QuarantineInv,
         \/ Quarantine!Open \/ Quarantine!FindActive \/ Quarantine!AssignCaseRole
         \/ Quarantine!FailAssign \/ Quarantine!Resolve \/ Quarantine!FindRestorable
         \/ Quarantine!Leave \/ Quarantine!FindAbandoned \/ Quarantine!Crash
  PROVE  QuarantineInv' /\ held' \subseteq held
<1> USE DEF QuarantineInv, Quarantine!guild, Quarantine!history, Quarantine!counters
<1>1. /\ MaxSwitches \in Nat /\ QuarantineFaults \in Nat
      /\ switches \in 0..MaxSwitches /\ roleMoves \in 0..MaxRoleMoves
      /\ faults \in 0..QuarantineFaults /\ held \subseteq Role /\ high \subseteq Role
      /\ snaps \in [Quarantine!Snap -> Quarantine!Snapshot] /\ flow \in Quarantine!Flow
      /\ taken \subseteq Role /\ lost \subseteq Role /\ late \subseteq Role
  BY DEF ServicesAssumption, Quarantine!RoleQuarantineAssumption, Quarantine!TypeOK
<1>2. caseRole \in BOOLEAN /\ pending \in BOOLEAN /\ present \in BOOLEAN
  BY Zenon DEF Quarantine!TypeOK
<1>3. watch \in Quarantine!Watch
  BY DEF Quarantine!TypeOK
<1>4. UNCHANGED <<snaps, taken, lost, late, high, roleMoves>> /\ held' \in {held, {}}
  BY DEF Quarantine!Open, Quarantine!FindActive, Quarantine!AssignCaseRole,
     Quarantine!FailAssign, Quarantine!Resolve, Quarantine!FindRestorable, Quarantine!Leave,
     Quarantine!FindAbandoned, Quarantine!Crash
<1>5. switches' \in 0..MaxSwitches /\ faults' \in 0..QuarantineFaults
  <2>1. \/ switches' = switches
        \/ switches < MaxSwitches /\ switches' = switches + 1
    BY DEF Quarantine!Open, Quarantine!FindActive, Quarantine!AssignCaseRole,
       Quarantine!FailAssign, Quarantine!Resolve, Quarantine!FindRestorable, Quarantine!Leave,
       Quarantine!FindAbandoned, Quarantine!Crash
  <2>2. faults' = faults \/ (faults < QuarantineFaults /\ faults' = faults + 1)
    BY DEF Quarantine!Open, Quarantine!FindActive, Quarantine!AssignCaseRole,
       Quarantine!FailAssign, Quarantine!Resolve, Quarantine!FindRestorable, Quarantine!Leave,
       Quarantine!FindAbandoned, Quarantine!Crash, Quarantine!Fault
  <2> QED
    BY <1>1, <2>1, <2>2
<1>6. caseRole' \in BOOLEAN /\ pending' \in BOOLEAN /\ present' \in BOOLEAN
  <2>1. caseRole' \in {caseRole, TRUE, FALSE}
    BY Zenon DEF Quarantine!Open, Quarantine!FindActive, Quarantine!AssignCaseRole,
       Quarantine!FailAssign, Quarantine!Resolve, Quarantine!FindRestorable, Quarantine!Leave,
       Quarantine!FindAbandoned, Quarantine!Crash
  <2>2. pending' \in {pending, TRUE, FALSE}
    BY Zenon DEF Quarantine!Open, Quarantine!FindActive, Quarantine!AssignCaseRole,
       Quarantine!FailAssign, Quarantine!Resolve, Quarantine!FindRestorable, Quarantine!Leave,
       Quarantine!FindAbandoned, Quarantine!Crash
  <2>3. present' \in {present, FALSE}
    BY Zenon DEF Quarantine!Open, Quarantine!FindActive, Quarantine!AssignCaseRole,
       Quarantine!FailAssign, Quarantine!Resolve, Quarantine!FindRestorable, Quarantine!Leave,
       Quarantine!FindAbandoned, Quarantine!Crash
  <2> QED
    BY <1>2, <2>1, <2>2, <2>3, Zenon
<1>7. watch' \in Quarantine!Watch
  BY <1>3, QuarantineData DEF Quarantine!Open, Quarantine!FindActive,
     Quarantine!AssignCaseRole, Quarantine!FailAssign, Quarantine!Resolve,
     Quarantine!FindRestorable, Quarantine!Leave, Quarantine!FindAbandoned, Quarantine!Crash
<1>8. OneActive' /\ ListsAreOld' /\ TakenAreListed' /\ Quarantine!Active' = Quarantine!Active
  BY <1>4, QuarantineListsKept
<1>9. flow' \in Quarantine!Flow /\ CreatesAlone' /\ RemovesListed' /\ RestoresListed'
  <2>1. ASSUME flow' \in Quarantine!Flow,
               flow'.at \in {"idle", "find", "assign", "restoreFind", "abandonFind", "abandon"},
               flow'.at = "find" => flow'.done = {}
        PROVE  flow' \in Quarantine!Flow /\ CreatesAlone' /\ RemovesListed' /\ RestoresListed'
    BY <2>1 DEF CreatesAlone, RemovesListed, RestoresListed
  <2>2. ASSUME NEW step \in {"find", "restoreFind", "abandonFind"},
               flow' = [Quarantine!NoFlow EXCEPT !.at = step]
        PROVE  flow' \in Quarantine!Flow /\ CreatesAlone' /\ RemovesListed' /\ RestoresListed'
    BY <2>1, <2>2, QuarantineBegin DEF FlowStep
  <2>3. CASE flow' = Quarantine!NoFlow
    BY <2>1, <2>3, QuarantineData
  <2>4. CASE Quarantine!Open \/ Quarantine!Resolve \/ Quarantine!Leave
    BY <2>2, <2>4 DEF Quarantine!Open, Quarantine!Resolve, Quarantine!Leave
  <2>5. CASE Quarantine!AssignCaseRole \/ Quarantine!FailAssign \/ Quarantine!Crash
    BY <2>2, <2>3, <2>5 DEF Quarantine!AssignCaseRole, Quarantine!FailAssign, Quarantine!Crash
  <2>6. CASE Quarantine!FindActive
    <3>1. CASE Quarantine!Active # {}
      <4>1. flow' = [flow EXCEPT !.at = "assign"]
        BY <2>6, <3>1 DEF Quarantine!FindActive
      <4> QED
        BY <1>1, <2>1, <4>1, QuarantineGoto DEF FlowStep
    <3>2. CASE Quarantine!Active = {}
      <4> DEFINE them == {r \in held : Quarantine!Removable(r)}
                 one == [flow EXCEPT !.at = "create"]
                 two == [one EXCEPT !.original = held]
                 three == [two EXCEPT !.todo = them]
      <4>1. flow' = three /\ flow.at = "find"
        BY <2>6, <3>2 DEF Quarantine!FindActive
      <4>2. them \subseteq held
        OBVIOUS
      <4> HIDE DEF them
      <4>3. one \in Quarantine!Flow /\ one.at = "create" /\ one.done = flow.done
        BY <1>1 DEF Quarantine!Flow
      <4> HIDE DEF one
      <4>4. two \in Quarantine!Flow /\ two.at = "create" /\ two.done = flow.done
            /\ two.original = held
        BY <1>1, <4>3 DEF Quarantine!Flow
      <4> HIDE DEF two
      <4>5. three \in Quarantine!Flow /\ three.at = "create" /\ three.done = flow.done
            /\ three.original = held /\ three.todo = them
        BY <1>1, <4>2, <4>4 DEF Quarantine!Flow
      <4> HIDE DEF three
      <4> QED
        BY <1>8, <3>2, <4>1, <4>2, <4>5 DEF CreatesAlone, RemovesListed, RestoresListed
    <3> QED
      BY <3>1, <3>2
  <2>7. CASE Quarantine!FindAbandoned /\ Quarantine!Active # {}
    <3> DEFINE s == Quarantine!Newest(Quarantine!Active)
               one == [Quarantine!NoFlow EXCEPT !.at = "abandon"]
               two == [one EXCEPT !.snap = s]
    <3>1. flow' = two
      BY <2>7 DEF Quarantine!FindAbandoned
    <3>2. s \in Quarantine!Snap
      BY <2>7, QuarantineNewest DEF Quarantine!Active
    <3> HIDE DEF s
    <3>3. one \in Quarantine!Flow /\ one.at = "abandon"
      BY QuarantineData DEF Quarantine!Flow
    <3> HIDE DEF one
    <3>4. two \in Quarantine!Flow /\ two.at = "abandon"
      BY <3>2, <3>3 DEF Quarantine!Flow
    <3> QED
      BY <2>1, <3>1, <3>4
  <2>8. CASE Quarantine!FindRestorable /\ Quarantine!Active # {}
    <3> DEFINE s == Quarantine!Newest(Quarantine!Active)
               them == snaps[s].removed
               step == IF them = {} THEN "restoreRecord" ELSE "restore"
               one == [Quarantine!NoFlow EXCEPT !.snap = s]
               two == [one EXCEPT !.todo = them]
               three == [two EXCEPT !.at = step]
    <3>1. flow' = three
      BY <2>8 DEF Quarantine!FindRestorable
    <3>2. s \in Quarantine!Active
      BY <2>8, QuarantineNewest
    <3>3. s \in Quarantine!Snap /\ them \in SUBSET Role
      BY <1>1, <3>2 DEF Quarantine!Active, Quarantine!Snapshot
    <3>4. step \in FlowStep /\ step \in {"restore", "restoreRecord"}
          /\ (step = "restoreRecord" => them = {})
      BY DEF FlowStep
    <3> HIDE DEF s
    <3> HIDE DEF them
    <3> HIDE DEF step
    <3>5. one \in Quarantine!Flow /\ one.snap = s
      BY <3>3, QuarantineData DEF Quarantine!Flow
    <3> HIDE DEF one
    <3>6. two \in Quarantine!Flow /\ two.snap = s /\ two.todo = them
      BY <3>3, <3>5 DEF Quarantine!Flow
    <3> HIDE DEF two
    <3>7. three \in Quarantine!Flow /\ three.snap = s /\ three.todo = them /\ three.at = step
      BY <3>4, <3>6 DEF Quarantine!Flow, FlowStep
    <3> HIDE DEF three
    <3>8. snaps'[s].removed = them
      BY <1>4 DEF them
    <3> QED
      BY <1>8, <3>1, <3>2, <3>4, <3>7, <3>8 DEF CreatesAlone, RemovesListed, RestoresListed
  <2> QED
    BY <2>3, <2>4, <2>5, <2>6, <2>7, <2>8 DEF Quarantine!FindRestorable,
       Quarantine!FindAbandoned
<1>10. Quarantine!TypeOK'
  <2>1. held' \subseteq Role
    BY <1>1, <1>4
  <2> QED
    BY <1>1, <1>4, <1>5, <1>6, <1>7, <1>9, <2>1, Zenon DEF Quarantine!TypeOK
<1> QED
  BY <1>4, <1>8, <1>9, <1>10

\* The roles to remove are listed before the first is removed.
LEMMA QuarantineCreateKept ==
  ASSUME QuarantineInv, Quarantine!CreateSnapshot
  PROVE  QuarantineInv' /\ held' = held
<1> USE DEF QuarantineInv, Quarantine!guild, Quarantine!counters
<1>1. /\ snaps \in [Quarantine!Snap -> Quarantine!Snapshot] /\ flow \in Quarantine!Flow
      /\ late \subseteq Role /\ flow.at = "create" /\ flow.done = {}
      /\ Quarantine!Active = {} /\ flow.todo \subseteq flow.original
      /\ flow.original \in SUBSET Role /\ flow.todo \in SUBSET Role
  BY DEF Quarantine!TypeOK, CreatesAlone, Quarantine!CreateSnapshot, Quarantine!Flow
<1> DEFINE made == [status |-> "active", original |-> flow.original, removed |-> flow.todo]
           step == IF flow.todo = {} THEN "record" ELSE "remove"
<1>2. PICK s \in Quarantine!Snap :
        /\ snaps' = [snaps EXCEPT ![s] = made]
        /\ late' = late \ flow.original
        /\ flow' = [flow EXCEPT !.snap = s, !.at = step]
  BY DEF Quarantine!CreateSnapshot
<1>3. /\ made \in Quarantine!Snapshot /\ made.status = "active"
      /\ made.original = flow.original /\ made.removed = flow.todo
  BY <1>1 DEF Quarantine!Snapshot
<1>4. step \in FlowStep /\ step \in {"record", "remove"}
  BY DEF FlowStep
<1> HIDE DEF made, step
<1>5. /\ snaps' \in [Quarantine!Snap -> Quarantine!Snapshot] /\ snaps'[s] = made
      /\ \A t \in Quarantine!Snap \ {s} : snaps'[t] = snaps[t]
  BY <1>1, <1>2, <1>3
<1>6. Quarantine!Active' = {s}
  BY <1>1, <1>3, <1>5 DEF Quarantine!Active
<1>7. /\ flow' \in Quarantine!Flow /\ flow'.snap = s /\ flow'.todo = flow.todo
      /\ flow'.done = flow.done /\ flow'.at = step
  <2> DEFINE one == [flow EXCEPT !.snap = s]
             two == [one EXCEPT !.at = step]
  <2>1. flow' = two
    BY <1>2
  <2>2. /\ one \in Quarantine!Flow /\ one.snap = s /\ one.todo = flow.todo
        /\ one.done = flow.done
    BY <1>1 DEF Quarantine!Flow
  <2> HIDE DEF one
  <2>3. /\ two \in Quarantine!Flow /\ two.snap = s /\ two.todo = flow.todo
        /\ two.done = flow.done /\ two.at = step
    BY <1>4, <2>2 DEF Quarantine!Flow, FlowStep
  <2> QED
    BY <2>1, <2>3
<1>8. taken' = taken /\ lost' = lost /\ taken \ lost = {} /\ held' = held
  BY <1>1 DEF Quarantine!CreateSnapshot, TakenAreListed
<1>9. late' \subseteq Role /\ flow.original \cap late' = {}
  BY <1>1, <1>2
<1>10. Quarantine!TypeOK'
  BY <1>5, <1>7, <1>8, <1>9, Zenon DEF Quarantine!TypeOK, Quarantine!CreateSnapshot
<1>11. OneActive' /\ ListsAreOld' /\ TakenAreListed'
  BY <1>1, <1>3, <1>5, <1>6, <1>8, <1>9 DEF OneActive, ListsAreOld, TakenAreListed
<1>12. CreatesAlone' /\ RemovesListed' /\ RestoresListed'
  BY <1>1, <1>3, <1>4, <1>5, <1>6, <1>7, <1>8 DEF CreatesAlone, RemovesListed, RestoresListed
<1> QED
  BY <1>8, <1>10, <1>11, <1>12

\* The list is cut down to what was removed: nothing that was taken falls out.
LEMMA QuarantineRecordKept ==
  ASSUME QuarantineInv, Quarantine!RecordRemoved
  PROVE  QuarantineInv' /\ held' = held
<1> USE DEF QuarantineInv, Quarantine!guild, Quarantine!history, Quarantine!counters
<1>1. /\ snaps \in [Quarantine!Snap -> Quarantine!Snapshot] /\ flow \in Quarantine!Flow
      /\ flow.at = "record" /\ flow.snap \in Quarantine!Active
      /\ flow.done \subseteq snaps[flow.snap].removed /\ taken \ lost \subseteq flow.done
      /\ flow.done \in SUBSET Role
  BY DEF Quarantine!TypeOK, RemovesListed, Quarantine!RecordRemoved, Quarantine!Flow
<1>2. flow.snap \in Quarantine!Snap
  BY <1>1 DEF Quarantine!Active
<1> DEFINE s == flow.snap
           snapshot == [snaps[s] EXCEPT !.removed = flow.done]
<1>3. /\ snapshot \in Quarantine!Snapshot /\ snapshot.removed = flow.done
      /\ snapshot.status = snaps[s].status /\ snapshot.original = snaps[s].original
  <2>1. snaps[s] \in Quarantine!Snapshot
    BY <1>1, <1>2
  <2> QED
    BY <1>1, <2>1 DEF Quarantine!Snapshot
<1>4. snaps' = [snaps EXCEPT ![s] = snapshot] /\ flow' = [flow EXCEPT !.at = "assign"]
  BY DEF Quarantine!RecordRemoved
<1> HIDE DEF snapshot
<1>5. /\ snaps' \in [Quarantine!Snap -> Quarantine!Snapshot] /\ snaps'[s] = snapshot
      /\ \A t \in Quarantine!Snap \ {s} : snaps'[t] = snaps[t]
  BY <1>1, <1>2, <1>3, <1>4
<1>6. Quarantine!Active' = Quarantine!Active
  BY <1>2, <1>3, <1>5 DEF Quarantine!Active
<1>7. flow' \in Quarantine!Flow /\ flow'.at = "assign"
  BY <1>1, <1>4, QuarantineGoto DEF FlowStep
<1>8. UNCHANGED <<held, taken, lost, late>>
  BY DEF Quarantine!RecordRemoved
<1>9. Quarantine!TypeOK'
  BY <1>5, <1>7, <1>8, Zenon DEF Quarantine!TypeOK, Quarantine!RecordRemoved
<1>10. Quarantine!Active \subseteq Quarantine!Snap
  BY DEF Quarantine!Active
<1>11. OneActive'
  BY <1>6 DEF OneActive
<1>12. ListsAreOld'
  BY <1>1, <1>3, <1>5, <1>6, <1>8, <1>10 DEF ListsAreOld
<1>13. TakenAreListed'
  BY <1>1, <1>3, <1>5, <1>6, <1>8 DEF TakenAreListed
<1>14. CreatesAlone' /\ RemovesListed' /\ RestoresListed'
  BY <1>7 DEF CreatesAlone, RemovesListed, RestoresListed
<1> QED
  BY <1>8, <1>9, <1>11, <1>12, <1>13, <1>14

\* What is removed was listed; what could not be removed is not missed.
LEMMA QuarantineRemoveKept ==
  ASSUME ServicesAssumption, QuarantineInv, NEW r \in Role, Quarantine!RemoveRole(r)
  PROVE  QuarantineInv' /\ held' \subseteq held
<1> USE DEF QuarantineInv, Quarantine!guild
<1>1. /\ snaps \in [Quarantine!Snap -> Quarantine!Snapshot] /\ flow \in Quarantine!Flow
      /\ held \subseteq Role /\ taken \subseteq Role /\ lost \subseteq Role
      /\ faults \in 0..QuarantineFaults /\ QuarantineFaults \in Nat
      /\ flow.at = "remove" /\ flow.snap \in Quarantine!Active /\ r \in flow.todo
      /\ flow.todo \cup flow.done \subseteq snaps[flow.snap].removed
      /\ taken \ lost \subseteq flow.done /\ flow.done \in SUBSET Role
  BY DEF ServicesAssumption, Quarantine!RoleQuarantineAssumption, Quarantine!TypeOK,
     RemovesListed, Quarantine!RemoveRole, Quarantine!Flow
<1>2. UNCHANGED <<caseRole, present, pending, high, snaps, watch, late, switches, roleMoves>>
  BY DEF Quarantine!RemoveRole
<1>3. /\ held' \subseteq held /\ taken' \subseteq Role /\ lost' \subseteq Role
      /\ faults' \in 0..QuarantineFaults
  <2>1. /\ held' \subseteq held /\ taken' \subseteq taken \cup {r} /\ lost' \subseteq lost \cup {r}
        /\ (faults' = faults \/ Quarantine!Fault)
    BY DEF Quarantine!RemoveRole
  <2>2. faults' \in 0..QuarantineFaults
    BY <1>1, <2>1 DEF Quarantine!Fault
  <2> QED
    BY <1>1, <2>1, <2>2
<1>4. \E done \in SUBSET Role :
        /\ Quarantine!NextRole(r, done, FALSE, "record")
        /\ done \subseteq flow.done \cup {r} /\ taken' \ lost' \subseteq done
  <2>1. flow.done \cup {r} \in SUBSET Role
    BY <1>1
  <2> QED
    BY <1>1, <2>1 DEF Quarantine!RemoveRole
<1>5. PICK done \in SUBSET Role :
        /\ Quarantine!NextRole(r, done, FALSE, "record")
        /\ done \subseteq flow.done \cup {r} /\ taken' \ lost' \subseteq done
  BY <1>4
<1>6. /\ flow' \in Quarantine!Flow /\ flow'.snap = flow.snap
      /\ flow'.todo = flow.todo \ {r} /\ flow'.done = done
      /\ flow'.at \in {"remove", "record"}
  <2>1. FALSE \in BOOLEAN /\ "record" \in FlowStep
    BY DEF FlowStep
  <2> QED
    BY <1>1, <1>5, <2>1, QuarantineNextRole
<1>7. Quarantine!Active' = Quarantine!Active
  BY <1>2 DEF Quarantine!Active
<1>8. Quarantine!TypeOK'
  <2>1. held' \subseteq Role
    BY <1>1, <1>3
  <2> QED
    BY <1>2, <1>3, <1>6, <2>1, Zenon DEF Quarantine!TypeOK
<1>9. OneActive' /\ ListsAreOld'
  BY <1>2, <1>7 DEF OneActive, ListsAreOld
<1>10. RemovesListed'
  BY <1>1, <1>2, <1>5, <1>6, <1>7 DEF RemovesListed
<1>11. TakenAreListed'
  BY <1>1, <1>2, <1>5, <1>6, <1>7 DEF TakenAreListed
<1>12. CreatesAlone' /\ RestoresListed'
  BY <1>6 DEF CreatesAlone, RestoresListed
<1> QED
  BY <1>3, <1>8, <1>9, <1>10, <1>11, <1>12

\* What is given back was listed, and settled with that.
LEMMA QuarantineRestoreKept ==
  ASSUME ServicesAssumption, QuarantineInv, NEW r \in Role, Quarantine!RestoreRole(r)
  PROVE  QuarantineInv' /\ (held' \ held) \cap late = {}
<1> USE DEF QuarantineInv, Quarantine!guild
<1>1. /\ snaps \in [Quarantine!Snap -> Quarantine!Snapshot] /\ flow \in Quarantine!Flow
      /\ held \subseteq Role /\ taken \subseteq Role
      /\ faults \in 0..QuarantineFaults /\ QuarantineFaults \in Nat
      /\ flow.at = "restore" /\ flow.snap \in Quarantine!Active /\ r \in flow.todo
      /\ flow.todo \subseteq snaps[flow.snap].removed
      /\ ~flow.missed => snaps[flow.snap].removed \cap taken \subseteq flow.todo
      /\ flow.done \in SUBSET Role
  BY DEF ServicesAssumption, Quarantine!RoleQuarantineAssumption, Quarantine!TypeOK,
     RestoresListed, Quarantine!RestoreRole, Quarantine!Flow
<1>2. /\ UNCHANGED <<caseRole, present, pending, high, snaps, watch, lost, late, switches, roleMoves>>
      /\ taken' \subseteq taken /\ held' \subseteq held \cup {r}
  BY DEF Quarantine!RestoreRole
<1>3. faults' \in 0..QuarantineFaults
  <2>1. faults' = faults \/ Quarantine!Fault
    BY DEF Quarantine!RestoreRole
  <2> QED
    BY <1>1, <2>1 DEF Quarantine!Fault
<1>4. PICK done \in SUBSET Role, missed \in BOOLEAN :
        /\ Quarantine!NextRole(r, done, missed, "restoreRecord")
        /\ ~missed => ~flow.missed /\ r \notin taken'
  <2>1. flow.done \cup {r} \in SUBSET Role /\ flow.missed \in BOOLEAN /\ TRUE \in BOOLEAN
    BY <1>1 DEF Quarantine!Flow
  <2>2. CASE Quarantine!NextRole(r, flow.done, flow.missed, "restoreRecord")
             /\ taken' = taken \ {r}
    <3>1. r \notin taken'
      BY <2>2
    <3> QED
      BY <1>1, <2>1, <2>2, <3>1
  <2>3. CASE Quarantine!NextRole(r, flow.done \cup {r}, flow.missed, "restoreRecord")
             /\ taken' = taken \ {r}
    <3>1. r \notin taken'
      BY <2>3
    <3> QED
      BY <1>1, <2>1, <2>3, <3>1
  <2>4. CASE Quarantine!NextRole(r, flow.done, TRUE, "restoreRecord")
    BY <1>1, <2>1, <2>4
  <2> QED
    BY <2>2, <2>3, <2>4 DEF Quarantine!RestoreRole
<1>5. /\ flow' \in Quarantine!Flow /\ flow'.snap = flow.snap
      /\ flow'.todo = flow.todo \ {r} /\ flow'.missed = missed
      /\ \/ flow'.at = "restore" /\ flow.todo # {r}
         \/ flow'.at = "restoreRecord" /\ flow.todo = {r}
  <2>1. "restoreRecord" \in FlowStep
    BY DEF FlowStep
  <2> QED
    BY <1>1, <1>4, <2>1, QuarantineNextRole
<1>6. Quarantine!Active' = Quarantine!Active
  BY <1>2 DEF Quarantine!Active
<1>7. Quarantine!TypeOK'
  <2>1. held' \subseteq Role /\ taken' \subseteq Role
    BY <1>1, <1>2
  <2> QED
    BY <1>2, <1>3, <1>5, <2>1, Zenon DEF Quarantine!TypeOK
<1>8. OneActive' /\ ListsAreOld'
  BY <1>2, <1>6 DEF OneActive, ListsAreOld
<1>9. TakenAreListed'
  BY <1>2, <1>6 DEF TakenAreListed
<1>10. RestoresListed'
  <2>1. flow'.at = "restoreRecord" => flow'.todo = {}
    BY <1>5
  <2>2. ~flow'.missed => snaps[flow.snap].removed \cap taken' \subseteq flow.todo \ {r}
    BY <1>1, <1>2, <1>4, <1>5
  <2> QED
    BY <1>1, <1>2, <1>5, <1>6, <2>1, <2>2 DEF RestoresListed
<1>11. CreatesAlone' /\ RemovesListed'
  BY <1>5 DEF CreatesAlone, RemovesListed
<1>12. r \notin late
  BY <1>1 DEF ListsAreOld
<1> QED
  BY <1>2, <1>7, <1>8, <1>9, <1>10, <1>11, <1>12

\* A snapshot is closed when all it lists is settled, or the member is gone.
LEMMA QuarantineSettleKept ==
  ASSUME QuarantineInv, Quarantine!RecordRestored \/ Quarantine!Abandon
  PROVE  QuarantineInv' /\ held' = held
<1> USE DEF QuarantineInv, Quarantine!guild, Quarantine!history, Quarantine!counters
<1> DEFINE s == flow.snap
<1>1. /\ snaps \in [Quarantine!Snap -> Quarantine!Snapshot] /\ flow \in Quarantine!Flow
      /\ taken \subseteq Role
  BY DEF Quarantine!TypeOK
<1>2. PICK status \in {"active", "restored", "abandoned"} :
        /\ snaps' = [snaps EXCEPT ![s].status = status]
        /\ \/ taken' = {} /\ status = "abandoned"
           \/ /\ taken' = taken /\ flow.at = "restoreRecord"
              /\ status = "active" \/ ~flow.missed
  BY DEF Quarantine!RecordRestored, Quarantine!Abandon
<1>3. flow' = Quarantine!NoFlow /\ UNCHANGED <<held, lost, late>>
  BY DEF Quarantine!RecordRestored, Quarantine!Abandon
<1>4. /\ \A t \in Quarantine!Snap \ {s} : snaps'[t] = snaps[t]
      /\ snaps' \in [Quarantine!Snap -> Quarantine!Snapshot]
      /\ s \in Quarantine!Snap =>
           /\ snaps'[s].status = status /\ snaps'[s].removed = snaps[s].removed
           /\ snaps'[s].original = snaps[s].original
  <2> DEFINE snapshot == [snaps[s] EXCEPT !.status = status]
  <2>1. snaps' = [snaps EXCEPT ![s] = snapshot]
    BY <1>2
  <2>2. s \in Quarantine!Snap =>
          /\ snapshot \in Quarantine!Snapshot /\ snapshot.status = status
          /\ snapshot.removed = snaps[s].removed /\ snapshot.original = snaps[s].original
    <3> SUFFICES ASSUME snaps[s] \in Quarantine!Snapshot
                 PROVE  /\ snapshot \in Quarantine!Snapshot /\ snapshot.status = status
                        /\ snapshot.removed = snaps[s].removed /\ snapshot.original = snaps[s].original
      BY <1>1
    <3> QED
      BY <1>2 DEF Quarantine!Snapshot
  <2> HIDE DEF snapshot
  <2> QED
    BY <1>1, <2>1, <2>2
<1>5. flow.at = "restoreRecord" => s \in Quarantine!Active
  BY DEF RestoresListed
<1>6. ASSUME taken' # {}
      PROVE  TakenAreListed'
  <2>1. /\ taken' = taken /\ s \in Quarantine!Active
        /\ flow.at = "restoreRecord" /\ (status = "active" \/ ~flow.missed)
    BY <1>2, <1>5, <1>6
  <2>2. s \in Quarantine!Snap /\ snaps[s].status = "active"
    BY <2>1 DEF Quarantine!Active
  <2>3. CASE status = "active"
    <3>1. Quarantine!Active' = Quarantine!Active
      BY <1>4, <2>2, <2>3 DEF Quarantine!Active
    <3>2. \A t \in Quarantine!Active : snaps'[t].removed = snaps[t].removed
      BY <1>4 DEF Quarantine!Active
    <3> QED
      BY <1>3, <2>1, <3>1, <3>2 DEF TakenAreListed
  <2>4. CASE ~flow.missed
    <3>1. snaps[s].removed \cap taken = {}
      BY <2>1, <2>4 DEF RestoresListed
    <3>2. \A t \in Quarantine!Active : t = s
      BY <2>1 DEF OneActive
    <3>3. taken \ lost = {}
      BY <3>1, <3>2 DEF TakenAreListed
    <3> QED
      BY <1>3, <2>1, <3>3 DEF TakenAreListed
  <2> QED
    BY <2>1, <2>3, <2>4
<1>7. TakenAreListed'
  <2>1. CASE taken' = {}
    BY <2>1 DEF TakenAreListed
  <2> QED
    BY <1>6, <2>1
<1>8. Quarantine!Active' \subseteq Quarantine!Active
  <2>1. CASE status = "active"
    <3>1. s \in Quarantine!Active
      BY <1>2, <1>5, <2>1
    <3> QED
      BY <1>4, <3>1 DEF Quarantine!Active
  <2>2. CASE status # "active"
    BY <1>4, <2>2 DEF Quarantine!Active
  <2> QED
    BY <2>1, <2>2
<1>9. ListsAreOld' /\ OneActive'
  <2>1. \A t \in Quarantine!Active :
          snaps'[t].removed = snaps[t].removed /\ snaps'[t].original = snaps[t].original
    BY <1>4 DEF Quarantine!Active
  <2> QED
    BY <1>3, <1>8, <2>1 DEF ListsAreOld, OneActive
<1>10. flow' \in Quarantine!Flow /\ CreatesAlone' /\ RemovesListed' /\ RestoresListed'
  BY <1>3, QuarantineData DEF CreatesAlone, RemovesListed, RestoresListed
<1>11. Quarantine!TypeOK'
  <2>1. taken' \subseteq Role
    BY <1>1, <1>2
  <2> QED
    BY <1>3, <1>4, <1>10, <2>1, Zenon DEF Quarantine!TypeOK, Quarantine!RecordRestored,
       Quarantine!Abandon
<1> QED
  BY <1>3, <1>7, <1>9, <1>10, <1>11

\* Every step of the quarantine keeps the invariant, and gives back nothing gained late.
LEMMA QuarantineNextKept ==
  ASSUME ServicesAssumption, QuarantineInv, Quarantine!Next
  PROVE  /\ QuarantineInv'
         /\ flow.at = "restore" /\ watch' = watch /\ roleMoves' = roleMoves
              => (held' \ held) \cap late = {}
<1>1. CASE \/ Quarantine!Return \/ Quarantine!Look \/ Quarantine!Enforce
           \/ \E r \in Role : Quarantine!Gain(r) \/ Quarantine!Drop(r) \/ Quarantine!Reorder(r)
  BY <1>1, QuarantineOthersKept
<1>2. CASE \/ Quarantine!Open \/ Quarantine!FindActive \/ Quarantine!AssignCaseRole
           \/ Quarantine!FailAssign \/ Quarantine!Resolve \/ Quarantine!FindRestorable
           \/ Quarantine!Leave \/ Quarantine!FindAbandoned \/ Quarantine!Crash
  BY <1>2, QuarantineFlowKept
<1>3. CASE Quarantine!CreateSnapshot
  BY <1>3, QuarantineCreateKept
<1>4. CASE Quarantine!RecordRemoved
  BY <1>4, QuarantineRecordKept
<1>5. ASSUME NEW r \in Role, Quarantine!RemoveRole(r)
      PROVE  QuarantineInv' /\ held' \subseteq held
  BY <1>5, QuarantineRemoveKept
<1>6. ASSUME NEW r \in Role, Quarantine!RestoreRole(r)
      PROVE  QuarantineInv' /\ (held' \ held) \cap late = {}
  BY <1>6, QuarantineRestoreKept
<1>7. CASE Quarantine!RecordRestored \/ Quarantine!Abandon
  BY <1>7, QuarantineSettleKept
<1> QED
  BY <1>1, <1>2, <1>3, <1>4, <1>5, <1>6, <1>7 DEF Quarantine!Next

\* A role first gained under the restriction is not given back.
LateKeeps ==
  flow.at = "restore" /\ watch' = watch /\ roleMoves' = roleMoves => (held' \ held) \cap late = {}

\* The invariant of the quarantine, in every behaviour of the services.
LEMMA QuarantineKept ==
  ASSUME ServicesAssumption
  PROVE  Spec => []QuarantineInv /\ [][LateKeeps]_(Quarantine!vars)
<1>1. Init => QuarantineInv
  <2> SUFFICES ASSUME Quarantine!Init
               PROVE  QuarantineInv
    BY DEF Init
  <2>1. MaxSwitches \in Nat /\ MaxRoleMoves \in Nat /\ QuarantineFaults \in Nat
    BY DEF ServicesAssumption, Quarantine!RoleQuarantineAssumption
  <2>2. /\ held \subseteq Role /\ high = {} /\ flow = Quarantine!NoFlow
        /\ watch = Quarantine!NoWatch /\ taken = {} /\ lost = {} /\ late = {}
        /\ switches = 0 /\ roleMoves = 0 /\ faults = 0
        /\ snaps = [s \in Quarantine!Snap |-> Quarantine!NoSnapshot]
    BY DEF Quarantine!Init
  <2>3. caseRole \in BOOLEAN /\ pending \in BOOLEAN /\ present \in BOOLEAN
    BY Zenon DEF Quarantine!Init
  <2>4. /\ snaps \in [Quarantine!Snap -> Quarantine!Snapshot]
        /\ Quarantine!Active = {}
    BY <2>2, QuarantineData DEF Quarantine!Active
  <2>5. /\ high \subseteq Role /\ taken \subseteq Role /\ lost \subseteq Role /\ late \subseteq Role
        /\ switches \in 0..MaxSwitches /\ roleMoves \in 0..MaxRoleMoves
        /\ faults \in 0..QuarantineFaults
    BY <2>1, <2>2
  <2>6. flow \in Quarantine!Flow /\ flow.at = "idle" /\ watch \in Quarantine!Watch
    BY <2>2, QuarantineData
  <2>7. Quarantine!TypeOK
    BY <2>2, <2>3, <2>4, <2>5, <2>6, Zenon DEF Quarantine!TypeOK
  <2>8. OneActive /\ ListsAreOld /\ TakenAreListed
    BY <2>2, <2>4 DEF OneActive, ListsAreOld, TakenAreListed
  <2>9. CreatesAlone /\ RemovesListed /\ RestoresListed
    BY <2>6 DEF CreatesAlone, RemovesListed, RestoresListed
  <2> QED
    BY <2>7, <2>8, <2>9 DEF QuarantineInv
<1>2. QuarantineInv /\ [Next]_vars => QuarantineInv' /\ [LateKeeps]_(Quarantine!vars)
  <2> SUFFICES ASSUME QuarantineInv, [Next]_vars
               PROVE  QuarantineInv' /\ [LateKeeps]_(Quarantine!vars)
    OBVIOUS
  <2>1. CASE UNCHANGED quarantineVars
    BY <2>1 DEF quarantineVars, Quarantine!vars, QuarantineInv, Quarantine!TypeOK, OneActive,
       ListsAreOld, TakenAreListed, CreatesAlone, RemovesListed, RestoresListed,
       Quarantine!Active
  <2>2. CASE Quarantine!Next
    BY <2>2, QuarantineNextKept DEF LateKeeps
  <2> QED
    BY <2>1, <2>2, QuarantineSteps
<1> QED
  BY <1>1, <1>2, PTL DEF Spec

\* For any roles, and any number of snapshots, moves and failures, a role the quarantine took
\* is listed in an active snapshot until it is settled, unless the answer to its removal was
\* lost, and a role first gained under the restriction is not given back (RoleQuarantine).
THEOREM RolesStayKept ==
  ASSUME ServicesAssumption
  PROVE  Spec => RolesAreKept
<1> DEFINE Lists == part = "quarantine" => Quarantine!NoRoleForgotten
<1>1. QuarantineInv => Lists
  BY DEF QuarantineInv, TakenAreListed, Quarantine!NoRoleForgotten
<1>2. RolesAreKept <=> []Lists /\ [][LateKeeps]_(Quarantine!vars)
  BY DEF RolesAreKept, Quarantine!GainedIsNotRestored, LateKeeps
<1> QED
  BY <1>1, <1>2, QuarantineKept, PTL

---------------------------------------------------------------------------
(* The reminders of a case *)

Ticking == tick.at # "idle"

\* The dates of the settings are those of the batches, if a date was not missed.
BatchesAreDated ==
  /\ "batch" \in unstamped \/ stamps.admin <= batch
  /\ "review" \in unstamped \/ stamps.review <= review
  /\ Ticking => "review" \in unstamped \/ tick.stamps.review <= review
  /\ tick.at = "post" => stamps.admin >= Repeat
  /\ tick.at = "stamp" => batch = 0 /\ (tick.cases => review = 0)

\* How often the case's member was reminded, and when last, is in the metadata.
RemindersAreCounted ==
  /\ sent <= event.data.count + rmFaults + (IF tick.at = "mark" THEN 1 ELSE 0)
  /\ ~unmarked =>
       /\ event.data.count = 0 => reminder >= Interval
       /\ event.data.count > 0 => event.data.last <= reminder
  /\ Ticking => /\ tick.event.data.count = event.data.count
                /\ tick.event.data.last = event.data.last
  /\ tick.at = "mark" => reminder = 0
\* An answer is not forgotten, and a tick that began after one knows of it.
AnswersAreKept ==
  /\ answered => event.data.responded
  /\ Ticking /\ tick.answered => tick.event.data.responded

ReminderInv ==
  /\ Reminder!TypeOK /\ BatchesAreDated
  /\ tick.at = "mark" => tick.event.data.count < Reminder!Limit
  /\ overwritten \/ (RemindersAreCounted /\ AnswersAreKept)

\* The windows of the reviews leave room for a reminder before the case is very stale.
RemindersFit == Window < Repeat /\ Stale + Window < VeryStale

\* Nobody has failed, and no reminder was sent: the tick has the row as it is, if it is not
\* new, and the dates of the settings are those of the batches.
ReadsTheSilent ==
  /\ event.data.count = 0 /\ reply.read.count = 0
  /\ tick.at # "mark"
  /\ Ticking /\ event.age > 0 => tick.event = event
  /\ tick.at # "stamp" => stamps.admin <= review
  /\ tick.at # "stamp" \/ ~tick.cases => stamps.review = review
  /\ tick.at \in {"post", "list", "remind"} \/ (tick.at = "stamp" /\ ~tick.cases)
       => tick.stamps.review = review
  /\ tick.at = "stamp" /\ tick.cases => review = 0
  /\ tick.at = "post" => stamps.admin >= Repeat

\* The hours since the case is stale are hours of a window, that of a batch posted when it
\* became stale or before.
SilentHours ==
  event.pending /\ ~event.data.responded /\ event.age >= Stale =>
    /\ event.age > Stale => review <= Window /\ event.age - Stale <= review
    /\ ticked => review < Window /\ event.age - Stale <= review

SilentInv ==
  RemindersFit /\ sent = 0 /\ rmFaults = 0 => ReadsTheSilent /\ SilentHours

\* A step is one of the reminders' own, or leaves its variables as they are.
LEMMA ReminderSteps ==
  ASSUME [Next]_vars
  PROVE  Reminder!Next \/ UNCHANGED reminderVars
<1>1. CASE UNCHANGED vars
  BY <1>1 DEF vars
<1>2. CASE Next
  BY <1>2 DEF Next, QuarantineNext, DetectionNext, IntakeNext, ReminderNext,
              FrequencyNext, PipelineNext, LockdownNext, ActionsNext
<1> QED
  BY <1>1, <1>2

\* what the constants are
ReminderNumbers ==
  /\ Stale \in Nat /\ Stale > 0 /\ Interval \in Nat /\ Interval > 0
  /\ Window \in Nat /\ Window > 0 /\ LongPending \in Nat /\ LongPending > 0
  /\ VeryStale \in Nat /\ Stale <= VeryStale /\ Repeat \in Nat /\ Window <= Repeat
  /\ ReminderFaults \in Nat /\ Reminder!Limit \in Nat

\* The assumptions say so; the limit is the number of intervals that fit.
LEMMA ReminderConstants ==
  ASSUME ServicesAssumption
  PROVE  ReminderNumbers
<1>1. /\ Stale \in Nat /\ Stale > 0 /\ Interval \in Nat /\ Interval > 0
      /\ Window \in Nat /\ Window > 0 /\ LongPending \in Nat /\ LongPending > 0
      /\ VeryStale \in Nat /\ Stale <= VeryStale /\ Repeat \in Nat /\ Window <= Repeat
      /\ ReminderFaults \in Nat
  BY DEF ServicesAssumption, Reminder!ReviewReminderAssumption
<1>2. \A a \in Nat : (a + Interval - 1) \div Interval \in Nat
  BY <1>1
<1>3. VeryStale - Stale \in Nat
  BY <1>1
<1>4. Reminder!Limit \in Nat
  BY <1>2, <1>3 DEF Reminder!Limit
<1> QED
  BY <1>1, <1>4 DEF ReminderNumbers

\* The records the reminders are built from.
LEMMA ReminderData ==
  ASSUME ReminderNumbers
  PROVE  /\ Reminder!NoData \in Reminder!Metadata
         /\ Reminder!NoData.count = 0 /\ Reminder!NoData.last = Interval
         /\ Reminder!NoTick \in Reminder!Tick /\ Reminder!NoTick.at = "idle"
         /\ Reminder!NoTick.stamps \in Reminder!Stamps
         /\ Reminder!NoTick.stamps.admin = Repeat /\ Reminder!NoTick.stamps.review = Repeat
         /\ Reminder!NoReply \in [at : {"idle", "respond", "analyse"}, read : Reminder!Metadata]
         /\ Reminder!NoReply.read.count = 0
<1>1. /\ Reminder!NoData \in Reminder!Metadata
      /\ Reminder!NoData.count = 0 /\ Reminder!NoData.last = Interval
  BY DEF ReminderNumbers, Reminder!NoData, Reminder!Metadata
<1>2. [pending |-> FALSE, age |-> 0, data |-> Reminder!NoData] \in Reminder!Event
  BY <1>1 DEF Reminder!Event, ReminderNumbers
<1>3. [admin |-> Repeat, review |-> Repeat] \in Reminder!Stamps
  BY DEF Reminder!Stamps, ReminderNumbers
<1>4. /\ Reminder!NoTick \in Reminder!Tick /\ Reminder!NoTick.at = "idle"
      /\ Reminder!NoTick.stamps \in Reminder!Stamps
      /\ Reminder!NoTick.stamps.admin = Repeat /\ Reminder!NoTick.stamps.review = Repeat
  BY <1>2, <1>3 DEF Reminder!NoTick, Reminder!Tick
<1>5. /\ Reminder!NoReply \in [at : {"idle", "respond", "analyse"}, read : Reminder!Metadata]
      /\ Reminder!NoReply.read.count = 0
  BY <1>1 DEF Reminder!NoReply
<1> QED
  BY <1>1, <1>4, <1>5

TickStep == {"idle", "post", "stamp", "list", "remind", "mark"}

\* what a tick knows of the case and does not change
TickKept ==
  tick'.event = tick.event /\ tick'.cases = tick.cases /\ tick'.answered = tick.answered

\* A tick goes on with what it has.
LEMMA ReminderGoto ==
  ASSUME tick \in Reminder!Tick, NEW step \in TickStep, Reminder!Goto(step)
  PROVE  tick' \in Reminder!Tick /\ tick'.at = step /\ TickKept /\ tick'.stamps = tick.stamps
<1> DEFINE new == [tick EXCEPT !.at = step]
<1>1. tick' = new
  BY DEF Reminder!Goto
<1>2. /\ new \in Reminder!Tick /\ new.at = step /\ new.event = tick.event
      /\ new.cases = tick.cases /\ new.answered = tick.answered /\ new.stamps = tick.stamps
  BY DEF Reminder!Tick, TickStep
<1> QED
  BY <1>1, <1>2 DEF TickKept

\* A tick that has posted knows of the review it has asked for.
LEMMA ReminderPosted ==
  ASSUME ReminderNumbers, tick \in Reminder!Tick, Reminder!Posted
  PROVE  /\ tick' \in Reminder!Tick /\ tick'.at \in {"list", "remind"} /\ TickKept
         /\ tick'.stamps.review = IF tick.cases THEN 0 ELSE tick.stamps.review
<1> DEFINE step == IF tick.screening THEN "list" ELSE "remind"
           age == IF tick.cases THEN 0 ELSE tick.stamps.review
           dates == [tick.stamps EXCEPT !.review = age]
           one == [tick EXCEPT !.at = step]
           two == [one EXCEPT !.stamps = dates]
<1>1. tick.stamps \in Reminder!Stamps /\ step \in {"list", "remind"} /\ age \in 0..Repeat
  BY DEF Reminder!Tick, Reminder!Stamps, ReminderNumbers
<1>2. tick' = two
  BY DEF Reminder!Posted
<1> HIDE DEF step, age
<1>3. dates \in Reminder!Stamps /\ dates.review = age
  BY <1>1 DEF Reminder!Stamps
<1> HIDE DEF dates
<1>4. /\ one \in Reminder!Tick /\ one.at = step /\ one.event = tick.event
      /\ one.cases = tick.cases /\ one.answered = tick.answered
  BY <1>1 DEF Reminder!Tick
<1> HIDE DEF one
<1>5. /\ two \in Reminder!Tick /\ two.at = step /\ two.event = tick.event
      /\ two.cases = tick.cases /\ two.answered = tick.answered /\ two.stamps = dates
  BY <1>3, <1>4 DEF Reminder!Tick
<1> HIDE DEF two
<1> QED
  BY <1>1, <1>2, <1>3, <1>5 DEF TickKept, age

\* A tick begins with what it reads.
LEMMA ReminderBegin ==
  ASSUME ReminderNumbers, Reminder!TypeOK, Reminder!Begin
  PROVE  /\ tick' \in Reminder!Tick /\ tick'.at \in {"post", "remind"}
         /\ tick'.at = "post" => stamps.admin >= Repeat
         /\ tick'.event = event /\ tick'.stamps = stamps /\ tick'.answered = answered
<1> DEFINE screening == screened.pending /\ screened.age >= LongPending /\ ~screened.listed
           cases == event.pending /\ ~Reminder!IsFresh(event)
           step == IF (cases \/ screening) /\ stamps.admin >= Repeat THEN "post" ELSE "remind"
<1>1. tick' = [at |-> step, stamps |-> stamps, event |-> event, cases |-> cases,
               screening |-> screening, answered |-> answered]
  BY Zenon DEF Reminder!Begin
<1>2. cases \in BOOLEAN /\ screening \in BOOLEAN
  OBVIOUS
<1>3. step \in {"post", "remind"} /\ (step = "post" => stamps.admin >= Repeat)
  OBVIOUS
<1>4. answered \in BOOLEAN
  BY Zenon DEF Reminder!TypeOK
<1>5. event \in Reminder!Event /\ stamps \in Reminder!Stamps
  BY DEF Reminder!TypeOK
<1> HIDE DEF cases, screening, step
<1>6. tick' \in Reminder!Tick
  BY <1>1, <1>2, <1>3, <1>4, <1>5 DEF Reminder!Tick
<1>7. /\ tick'.at = step /\ tick'.event = event /\ tick'.stamps = stamps
      /\ tick'.answered = answered
  BY <1>1, Zenon
<1> QED
  BY <1>3, <1>6, <1>7

ReplyState == [at : {"idle", "respond", "analyse"}, read : Reminder!Metadata]
Screening == [pending : BOOLEAN, age : 0..LongPending, listed : BOOLEAN]

\* The types, one by one.
LEMMA ReminderTypes ==
  Reminder!TypeOK <=>
    /\ event \in Reminder!Event /\ screened \in Screening /\ stamps \in Reminder!Stamps
    /\ tick \in Reminder!Tick /\ reply \in ReplyState
    /\ batch \in 0..Repeat /\ review \in 0..Repeat /\ reminder \in 0..Interval
    /\ sent \in 0..(Reminder!Limit + ReminderFaults)
    /\ answered \in BOOLEAN /\ unmarked \in BOOLEAN /\ overwritten \in BOOLEAN
    /\ ticked \in BOOLEAN /\ unstamped \subseteq {"batch", "review"}
    /\ rmFaults \in 0..ReminderFaults
<1>1. {batch, review} \subseteq 0..Repeat <=> batch \in 0..Repeat /\ review \in 0..Repeat
  BY Zenon
<1>2. {answered, unmarked, overwritten, ticked} \subseteq BOOLEAN
        <=> /\ answered \in BOOLEAN /\ unmarked \in BOOLEAN /\ overwritten \in BOOLEAN
            /\ ticked \in BOOLEAN
  BY Zenon
<1> QED
  BY <1>1, <1>2, Zenon DEF Reminder!TypeOK, ReplyState, Screening

\* what the steps of the tick that post and write nothing leave as it is
ReminderStays ==
  UNCHANGED <<event, stamps, batch, review, sent, reminder, answered, unstamped,
              unmarked, overwritten>>

\* where a tick that posts and writes nothing gets to
TickStays ==
  \/ tick' = tick
  \/ tick'.at = "idle"
  \/ /\ tick'.at \in {"list", "remind"} /\ Ticking /\ TickKept
     /\ "review" \in unstamped \/ tick'.stamps.review <= review

\* A step that posts and writes nothing keeps what is said of posts and dates; a reminder
\* that is not recorded has failed.
LEMMA ReminderStill ==
  ASSUME ReminderNumbers, ReminderInv, ReminderStays, TickStays,
         tick' \in Reminder!Tick, reply' \in ReplyState, screened' \in Screening,
         ticked' \in BOOLEAN, rmFaults' \in 0..ReminderFaults,
         rmFaults' = rmFaults \/ rmFaults' = rmFaults + 1,
         tick.at = "mark" /\ tick'.at # "mark" => rmFaults' = rmFaults + 1
  PROVE  ReminderInv'
<1> USE DEF ReminderStays, ReminderNumbers
<1>1. Reminder!TypeOK
  BY DEF ReminderInv
<1>2. /\ event \in Reminder!Event /\ screened \in Screening /\ stamps \in Reminder!Stamps
      /\ tick \in Reminder!Tick /\ reply \in ReplyState
      /\ batch \in 0..Repeat /\ review \in 0..Repeat /\ reminder \in 0..Interval
      /\ sent \in 0..(Reminder!Limit + ReminderFaults)
      /\ unstamped \subseteq {"batch", "review"} /\ rmFaults \in 0..ReminderFaults
  BY <1>1, ReminderTypes, Zenon
<1>3. answered \in BOOLEAN /\ unmarked \in BOOLEAN /\ overwritten \in BOOLEAN
  BY <1>1, ReminderTypes, Zenon
<1>4. Reminder!TypeOK'
  <2>1. UNCHANGED <<batch, review, reminder, sent, answered, unmarked, overwritten,
                    unstamped, event, stamps>>
    OBVIOUS
  <2>2. answered' \in BOOLEAN /\ unmarked' \in BOOLEAN /\ overwritten' \in BOOLEAN
    BY <1>3, <2>1, Zenon
  <2> QED
    BY <1>2, <2>1, <2>2, ReminderTypes, Zenon DEF Reminder!TypeOK, ReplyState, Screening
<1>5. BatchesAreDated /\ (tick.at = "mark" => tick.event.data.count < Reminder!Limit)
  BY DEF ReminderInv
<1>6. BatchesAreDated'
  <2>1. CASE tick' = tick
    BY <1>5, <2>1 DEF BatchesAreDated, Ticking
  <2>2. CASE tick'.at = "idle"
    BY <1>5, <2>2 DEF BatchesAreDated, Ticking
  <2>3. CASE /\ tick'.at \in {"list", "remind"} /\ Ticking /\ TickKept
             /\ "review" \in unstamped \/ tick'.stamps.review <= review
    BY <1>5, <2>3 DEF BatchesAreDated, Ticking
  <2> QED
    BY <2>1, <2>2, <2>3 DEF TickStays
<1>7. tick'.at = "mark" => tick'.event.data.count < Reminder!Limit
  BY <1>5 DEF TickStays, Reminder!Limit
<1>8. ASSUME RemindersAreCounted
      PROVE  RemindersAreCounted'
  <2>1. event.data.count \in Nat
    BY <1>2 DEF Reminder!Event, Reminder!Metadata
  <2>2. sent' <= event'.data.count + rmFaults' + (IF tick'.at = "mark" THEN 1 ELSE 0)
    <3>1. CASE tick.at = "mark" /\ tick'.at # "mark"
      BY <1>2, <1>8, <2>1, <3>1 DEF RemindersAreCounted
    <3>2. CASE tick.at # "mark" \/ tick'.at = "mark"
      <4>1. tick'.at = "mark" <=> tick.at = "mark"
        BY <3>2 DEF TickStays
      <4> QED
        BY <1>2, <1>8, <2>1, <4>1 DEF RemindersAreCounted
    <3> QED
      BY <3>1, <3>2
  <2>3. /\ ~unmarked' =>
             /\ event'.data.count = 0 => reminder' >= Interval
             /\ event'.data.count > 0 => event'.data.last <= reminder'
        /\ tick'.at = "mark" => reminder' = 0
    BY <1>8 DEF RemindersAreCounted, TickStays
  <2>4. Ticking' => /\ tick'.event.data.count = event'.data.count
                    /\ tick'.event.data.last = event'.data.last
    BY <1>8 DEF RemindersAreCounted, TickStays, Ticking, TickKept
  <2> QED
    BY <2>2, <2>3, <2>4 DEF RemindersAreCounted
<1>9. ASSUME AnswersAreKept
      PROVE  AnswersAreKept'
  BY <1>9 DEF AnswersAreKept, TickStays, Ticking, TickKept
<1>10. overwritten' = overwritten
  OBVIOUS
<1>11. overwritten' \/ (RemindersAreCounted' /\ AnswersAreKept')
  <2>1. CASE overwritten
    BY <1>10, <2>1, Zenon
  <2>2. CASE RemindersAreCounted /\ AnswersAreKept
    BY <1>8, <1>9, <2>2
  <2>3. overwritten \/ (RemindersAreCounted /\ AnswersAreKept)
    BY DEF ReminderInv
  <2> QED
    BY <2>1, <2>2, <2>3, Zenon
<1> QED
  BY <1>4, <1>6, <1>7, <1>11 DEF ReminderInv

\* The steps of that kind.
LEMMA ReminderStillKept ==
  ASSUME ReminderNumbers, ReminderInv,
         \/ Reminder!FailPost \/ Reminder!FailStamp \/ Reminder!MarkListed \/ Reminder!FailListed
         \/ Reminder!NothingDue \/ Reminder!FailRemind \/ Reminder!FailMark
         \/ Reminder!Answer \/ Reminder!FailRespond \/ Reminder!SkipAnalysis
         \/ Reminder!ChangeScreening \/ Reminder!Restart
  PROVE  ReminderInv'
<1> USE DEF Reminder!rows, Reminder!posted, Reminder!history, Reminder!At
<1>1. /\ event \in Reminder!Event /\ screened \in Screening /\ tick \in Reminder!Tick
      /\ reply \in ReplyState /\ review \in 0..Repeat /\ rmFaults \in 0..ReminderFaults
  BY ReminderTypes, Zenon DEF ReminderInv
<1>2. ticked \in BOOLEAN
  BY ReminderTypes, Zenon DEF ReminderInv
<1>3. /\ Reminder!NoTick \in Reminder!Tick /\ Reminder!NoTick.at = "idle"
      /\ Reminder!NoReply \in ReplyState
  BY ReminderData DEF ReplyState
<1>4. ReminderStays
  BY DEF ReminderStays, Reminder!FailPost, Reminder!FailStamp, Reminder!MarkListed,
     Reminder!FailListed, Reminder!NothingDue, Reminder!FailRemind, Reminder!FailMark,
     Reminder!Answer, Reminder!FailRespond, Reminder!SkipAnalysis, Reminder!ChangeScreening,
     Reminder!Restart
<1>5. \/ /\ tick' = Reminder!NoTick /\ (tick.at = "mark" => Reminder!Fault)
         /\ (Reminder!Fault \/ rmFaults' = rmFaults)
      \/ tick' = tick /\ (Reminder!Fault \/ rmFaults' = rmFaults)
      \/ /\ Reminder!Goto("remind") /\ tick.at \in {"post", "list"}
         /\ (Reminder!Fault \/ rmFaults' = rmFaults)
      \/ Reminder!Posted /\ tick.at = "stamp" /\ Reminder!Fault
  BY DEF Reminder!FailPost, Reminder!FailStamp, Reminder!MarkListed,
     Reminder!FailListed, Reminder!NothingDue, Reminder!FailRemind, Reminder!FailMark,
     Reminder!Answer, Reminder!FailRespond, Reminder!SkipAnalysis, Reminder!ChangeScreening,
     Reminder!Restart
<1>6. /\ rmFaults' = rmFaults \/ rmFaults' = rmFaults + 1
      /\ rmFaults' \in 0..ReminderFaults
  BY <1>1, <1>5 DEF Reminder!Fault, ReminderNumbers
<1>7. /\ tick' \in Reminder!Tick /\ TickStays
      /\ tick.at = "mark" /\ tick'.at # "mark" => rmFaults' = rmFaults + 1
  <2>1. Ticking => "review" \in unstamped \/ tick.stamps.review <= review
    BY DEF ReminderInv, BatchesAreDated
  <2>2. CASE tick' = Reminder!NoTick /\ (tick.at = "mark" => Reminder!Fault)
    BY <1>3, <2>2 DEF TickStays, Reminder!Fault
  <2>3. CASE tick' = tick
    BY <1>1, <2>3 DEF TickStays
  <2>4. CASE Reminder!Goto("remind") /\ tick.at \in {"post", "list"}
    <3>1. /\ tick' \in Reminder!Tick /\ tick'.at = "remind" /\ TickKept
          /\ tick'.stamps = tick.stamps
      BY <1>1, <2>4, ReminderGoto DEF TickStep
    <3> QED
      BY <2>1, <2>4, <3>1 DEF TickStays, Ticking
  <2>5. CASE Reminder!Posted /\ tick.at = "stamp"
    <3>1. /\ tick' \in Reminder!Tick /\ tick'.at \in {"list", "remind"} /\ TickKept
          /\ tick'.stamps.review = IF tick.cases THEN 0 ELSE tick.stamps.review
      BY <1>1, <2>5, ReminderPosted
    <3> QED
      BY <1>1, <2>1, <2>5, <3>1 DEF TickStays, Ticking
  <2> QED
    BY <1>5, <2>2, <2>3, <2>4, <2>5
<1>8. reply' \in ReplyState
  <2>1. CASE reply' = reply \/ reply' = Reminder!NoReply
    BY <1>1, <1>3, <2>1
  <2>2. CASE reply' = [reply EXCEPT !.at = "analyse"]
    BY <1>1, <2>2 DEF ReplyState
  <2>3. CASE Reminder!Answer
    <3>1. event.data \in Reminder!Metadata
      BY <1>1 DEF Reminder!Event
    <3> QED
      BY <2>3, <3>1 DEF Reminder!Answer, ReplyState
  <2> QED
    BY <2>1, <2>2, <2>3 DEF Reminder!FailPost, Reminder!FailStamp, Reminder!MarkListed,
       Reminder!FailListed, Reminder!NothingDue, Reminder!FailRemind, Reminder!FailMark,
       Reminder!FailRespond, Reminder!SkipAnalysis, Reminder!ChangeScreening, Reminder!Restart
<1>9. screened' \in Screening
  <2>1. CASE screened' = screened
    BY <1>1, <2>1
  <2>2. CASE Reminder!MarkListed
    <3> DEFINE listed == screened.listed \/ screened.pending
    <3>1. listed \in BOOLEAN /\ screened' = [screened EXCEPT !.listed = listed]
      BY <2>2 DEF Reminder!MarkListed
    <3> HIDE DEF listed
    <3> QED
      BY <1>1, <3>1 DEF Screening
  <2>3. CASE Reminder!ChangeScreening
    <3> DEFINE pending1 == ~screened.pending
               listed == screened.pending /\ screened.listed
    <3>1. /\ listed \in BOOLEAN /\ pending1 \in BOOLEAN
          /\ screened' = [pending |-> pending1, age |-> 0, listed |-> listed]
      BY <2>3 DEF Reminder!ChangeScreening
    <3> HIDE DEF listed, pending1
    <3> QED
      BY <3>1 DEF Screening, ReminderNumbers
  <2> QED
    BY <2>1, <2>2, <2>3 DEF Reminder!FailPost, Reminder!FailStamp,
       Reminder!FailListed, Reminder!NothingDue, Reminder!FailRemind, Reminder!FailMark,
       Reminder!Answer, Reminder!FailRespond, Reminder!SkipAnalysis, Reminder!Restart
<1>10. ticked' \in BOOLEAN
  <2>1. ticked' = ticked \/ ticked' = TRUE
    BY Zenon DEF Reminder!FailPost, Reminder!FailStamp, Reminder!MarkListed,
       Reminder!FailListed, Reminder!NothingDue, Reminder!FailRemind, Reminder!FailMark,
       Reminder!Answer, Reminder!FailRespond, Reminder!SkipAnalysis, Reminder!ChangeScreening,
       Reminder!Restart
  <2> QED
    BY <1>2, <2>1, Zenon
<1> QED
  BY <1>4, <1>6, <1>7, <1>8, <1>9, <1>10, ReminderStill

\* What the invariant says of the types and the values.
LEMMA ReminderState ==
  ASSUME ReminderInv
  PROVE  /\ event \in Reminder!Event /\ screened \in Screening /\ stamps \in Reminder!Stamps
         /\ tick \in Reminder!Tick /\ reply \in ReplyState
         /\ batch \in 0..Repeat /\ review \in 0..Repeat /\ reminder \in 0..Interval
         /\ sent \in 0..(Reminder!Limit + ReminderFaults)
         /\ unstamped \subseteq {"batch", "review"} /\ rmFaults \in 0..ReminderFaults
         /\ answered \in BOOLEAN /\ unmarked \in BOOLEAN /\ overwritten \in BOOLEAN
         /\ ticked \in BOOLEAN
         /\ event.data \in Reminder!Metadata /\ event.data.count \in Nat
         /\ event.data.last \in 0..Interval /\ event.age \in 0..VeryStale
         /\ stamps.admin \in 0..Repeat /\ stamps.review \in 0..Repeat
         /\ tick.event.data.count \in Nat /\ tick.stamps.review \in 0..Repeat
<1>1. /\ event \in Reminder!Event /\ screened \in Screening /\ stamps \in Reminder!Stamps
      /\ tick \in Reminder!Tick /\ reply \in ReplyState
      /\ batch \in 0..Repeat /\ review \in 0..Repeat /\ reminder \in 0..Interval
      /\ sent \in 0..(Reminder!Limit + ReminderFaults)
      /\ unstamped \subseteq {"batch", "review"} /\ rmFaults \in 0..ReminderFaults
      /\ answered \in BOOLEAN /\ unmarked \in BOOLEAN /\ overwritten \in BOOLEAN
      /\ ticked \in BOOLEAN
  BY ReminderTypes, Zenon DEF ReminderInv
<1>2. /\ event.data \in Reminder!Metadata /\ event.age \in 0..VeryStale
      /\ tick.event.data \in Reminder!Metadata
      /\ stamps.admin \in 0..Repeat /\ stamps.review \in 0..Repeat
      /\ tick.stamps.review \in 0..Repeat
  BY <1>1 DEF Reminder!Event, Reminder!Stamps, Reminder!Tick
<1>3. /\ event.data.count \in Nat /\ event.data.last \in 0..Interval
      /\ tick.event.data.count \in Nat
  BY <1>2 DEF Reminder!Metadata
<1> QED
  BY <1>1, <1>2, <1>3, Zenon

\* A tick begins with the dates and the answers of the moment.
LEMMA ReminderBeginKept ==
  ASSUME ReminderNumbers, ReminderInv, Reminder!Begin
  PROVE  ReminderInv'
<1> USE DEF Reminder!rows, Reminder!posted, Reminder!history, Reminder!At
<1>1. /\ tick' \in Reminder!Tick /\ tick'.at \in {"post", "remind"}
      /\ tick'.at = "post" => stamps.admin >= Repeat
      /\ tick'.event = event /\ tick'.stamps = stamps /\ tick'.answered = answered
  BY ReminderBegin DEF ReminderInv
<1>2. /\ UNCHANGED <<event, screened, stamps, reply, batch, review, sent, reminder, answered,
                     unstamped, unmarked, overwritten, ticked, rmFaults>>
      /\ tick.at = "idle"
  BY DEF Reminder!Begin
<1>3. Reminder!TypeOK'
  BY <1>1, <1>2, Zenon DEF ReminderInv, Reminder!TypeOK
<1>4. BatchesAreDated'
  BY <1>1, <1>2 DEF ReminderInv, BatchesAreDated
<1>5. ASSUME RemindersAreCounted, AnswersAreKept
      PROVE  RemindersAreCounted' /\ AnswersAreKept'
  BY <1>1, <1>2, <1>5 DEF RemindersAreCounted, AnswersAreKept
<1>6. overwritten' \/ (RemindersAreCounted' /\ AnswersAreKept')
  <2>1. CASE overwritten
    BY <1>2, <2>1, Zenon
  <2>2. CASE RemindersAreCounted /\ AnswersAreKept
    BY <1>5, <2>2
  <2>3. overwritten \/ (RemindersAreCounted /\ AnswersAreKept)
    BY DEF ReminderInv
  <2> QED
    BY <2>1, <2>2, <2>3, Zenon
<1> QED
  BY <1>1, <1>3, <1>4, <1>6 DEF ReminderInv

\* A batch is posted no sooner than the settings' date says, and dated.
LEMMA ReminderBatchKept ==
  ASSUME ReminderNumbers, ReminderInv, Reminder!Post \/ Reminder!Stamp
  PROVE  ReminderInv'
<1> USE DEF ReminderNumbers
<1>1. /\ stamps \in Reminder!Stamps /\ tick \in Reminder!Tick
      /\ batch \in 0..Repeat /\ review \in 0..Repeat /\ stamps.review \in 0..Repeat
      /\ unstamped \subseteq {"batch", "review"} /\ tick.stamps.review \in 0..Repeat
  BY ReminderState
<1>2. BatchesAreDated /\ (tick.at = "mark" => tick.event.data.count < Reminder!Limit)
  BY DEF ReminderInv
<1>3. UNCHANGED <<event, screened, reply, sent, reminder, answered, unmarked, overwritten,
                  ticked, rmFaults>>
  BY DEF Reminder!Post, Reminder!Stamp, Reminder!rows, Reminder!posted
<1>4. /\ tick' \in Reminder!Tick /\ tick'.at \in {"stamp", "list", "remind"} /\ TickKept
      /\ tick.at \in {"post", "stamp"}
  <2>1. CASE Reminder!Post
    BY <1>1, <2>1, ReminderGoto DEF Reminder!Post, TickStep, Reminder!At
  <2>2. CASE Reminder!Stamp
    BY <1>1, <2>2, ReminderPosted DEF Reminder!Stamp, Reminder!At
  <2> QED
    BY <2>1, <2>2
<1>5. /\ stamps' \in Reminder!Stamps /\ batch' \in 0..Repeat /\ review' \in 0..Repeat
      /\ unstamped' \subseteq {"batch", "review"} /\ BatchesAreDated'
  <2>1. Reminder!Recorded = IF tick.cases THEN {"batch", "review"} ELSE {"batch"}
    BY DEF Reminder!Recorded
  <2>2. CASE Reminder!Post
    <3>1. /\ batch' = 0 /\ review' = (IF tick.cases THEN 0 ELSE review)
          /\ unstamped' = unstamped \cup Reminder!Recorded /\ stamps' = stamps
          /\ tick'.at = "stamp" /\ tick'.stamps = tick.stamps
      BY <1>1, <2>2, ReminderGoto DEF Reminder!Post, TickStep, Reminder!rows
    <3>2. tick'.cases = tick.cases
      BY <1>4 DEF TickKept
    <3>3. tick.at = "post"
      BY <2>2 DEF Reminder!Post, Reminder!At
    <3> QED
      BY <1>1, <1>2, <2>1, <3>1, <3>2, <3>3 DEF BatchesAreDated, Ticking
  <2>3. CASE Reminder!Stamp
    <3>1. /\ UNCHANGED <<batch, review>>
          /\ unstamped' = unstamped \ Reminder!Recorded
          /\ tick'.at \in {"list", "remind"}
          /\ tick'.stamps.review = IF tick.cases THEN 0 ELSE tick.stamps.review
      BY <1>1, <2>3, ReminderPosted DEF Reminder!Stamp, Reminder!posted
    <3>2. tick.at = "stamp"
      BY <2>3 DEF Reminder!Stamp, Reminder!At
    <3>3. stamps' = [admin |-> 0, review |-> IF tick.cases THEN 0 ELSE stamps.review]
      BY <2>3 DEF Reminder!Stamp
    <3>4. /\ stamps' \in Reminder!Stamps /\ stamps'.admin = 0
          /\ stamps'.review = IF tick.cases THEN 0 ELSE stamps.review
      BY <1>1, <3>3 DEF Reminder!Stamps
    <3> QED
      BY <1>1, <1>2, <2>1, <3>1, <3>2, <3>4 DEF BatchesAreDated, Ticking
  <2> QED
    BY <2>2, <2>3
<1>6. Reminder!TypeOK'
  <2>1. {batch', review'} \subseteq 0..Repeat
    BY <1>5, Zenon
  <2> QED
    BY <1>3, <1>4, <1>5, <2>1, Zenon DEF ReminderInv, Reminder!TypeOK
<1>7. ASSUME RemindersAreCounted, AnswersAreKept
      PROVE  RemindersAreCounted' /\ AnswersAreKept'
  BY <1>3, <1>4, <1>7 DEF RemindersAreCounted, AnswersAreKept, TickKept, Ticking
<1>8. overwritten' \/ (RemindersAreCounted' /\ AnswersAreKept')
  <2>1. CASE overwritten
    BY <1>3, <2>1, Zenon
  <2>2. CASE RemindersAreCounted /\ AnswersAreKept
    BY <1>7, <2>2
  <2>3. overwritten \/ (RemindersAreCounted /\ AnswersAreKept)
    BY DEF ReminderInv
  <2> QED
    BY <2>1, <2>2, <2>3, Zenon
<1> QED
  BY <1>4, <1>5, <1>6, <1>8 DEF ReminderInv

\* A reminder that is due: its hours have passed, outside the window of a review.
LEMMA ReminderDue ==
  ASSUME ReminderNumbers, NEW e \in Reminder!Event, NEW since \in Nat, Reminder!Due(e, since)
  PROVE  /\ e.pending /\ ~e.data.responded /\ e.data.count < Reminder!Limit
         /\ since >= Window
         /\ e.data.count = 0 => e.age >= Stale
         /\ e.data.count > 0 => e.data.last >= Interval
<1>1. e.age \in Nat /\ e.data.count \in Nat /\ e.data.last \in Nat
  BY DEF Reminder!Event, Reminder!Metadata, ReminderNumbers
<1>2. /\ e.pending /\ ~e.data.responded /\ e.data.count < Reminder!Limit
      /\ Reminder!Avoided(Reminder!Until(e), since) = 0
  BY DEF Reminder!Due
<1>3. /\ Reminder!Until(e) \in Nat
      /\ Reminder!Until(e) = 0 =>
           /\ e.data.count = 0 => e.age >= Stale
           /\ e.data.count > 0 => e.data.last >= Interval
  BY <1>1 DEF Reminder!Until, ReminderNumbers
<1>4. since >= Window /\ Reminder!Until(e) = 0
  BY <1>2, <1>3 DEF Reminder!Avoided, ReminderNumbers
<1> QED
  BY <1>2, <1>3, <1>4

\* A reminder keeps its distances; it is counted when it is posted, and when it is recorded.
LEMMA ReminderRemindKept ==
  ASSUME ReminderNumbers, ReminderInv, Reminder!Remind
  PROVE  /\ ReminderInv' /\ sent' > 0
         /\ review >= Window \/ "review" \in unstamped
         /\ \/ reminder >= Interval /\ sent < Reminder!Limit + rmFaults /\ ~tick.answered
            \/ unmarked \/ overwritten
<1> USE DEF ReminderNumbers
<1>1. /\ tick \in Reminder!Tick /\ review \in 0..Repeat /\ reminder \in 0..Interval
      /\ sent \in 0..(Reminder!Limit + ReminderFaults) /\ rmFaults \in 0..ReminderFaults
      /\ event.data.count \in Nat /\ event.data.last \in 0..Interval
      /\ tick.event.data.count \in Nat /\ tick.stamps.review \in 0..Repeat
  BY ReminderState
<1>2. tick.at = "remind" /\ Reminder!Due(tick.event, tick.stamps.review)
  BY DEF Reminder!Remind, Reminder!At
<1>3. /\ tick' \in Reminder!Tick /\ tick'.at = "mark" /\ TickKept /\ tick'.stamps = tick.stamps
  BY <1>1, ReminderGoto DEF Reminder!Remind, TickStep
<1>4. /\ ~tick.event.data.responded /\ tick.event.data.count < Reminder!Limit
      /\ tick.stamps.review >= Window
      /\ tick.event.data.count > 0 => tick.event.data.last >= Interval
  <2>1. tick.event \in Reminder!Event /\ tick.stamps.review \in Nat
    BY <1>1 DEF Reminder!Tick
  <2> QED
    BY <1>2, <2>1, ReminderDue
<1>5. BatchesAreDated
  BY DEF ReminderInv
<1>6. review >= Window \/ "review" \in unstamped
  BY <1>1, <1>2, <1>4, <1>5 DEF BatchesAreDated, Ticking
<1>7. /\ UNCHANGED <<event, screened, stamps, reply, batch, review, answered, unstamped,
                     overwritten, ticked, rmFaults>>
      /\ sent' = IF sent = Reminder!Limit + ReminderFaults THEN sent ELSE sent + 1
      /\ reminder' = 0 /\ unmarked' = TRUE
  BY DEF Reminder!Remind, Reminder!rows
<1>8. sent' \in 0..(Reminder!Limit + ReminderFaults) /\ sent' > 0 /\ sent' <= sent + 1
  BY <1>1, <1>4, <1>7
<1>9. Reminder!TypeOK'
  <2>1. reminder' \in 0..Interval
    BY <1>7
  <2>2. {answered', unmarked', overwritten', ticked'} \subseteq BOOLEAN
    BY <1>7, ReminderState, Zenon
  <2> QED
    BY <1>3, <1>7, <1>8, <2>1, <2>2, Zenon DEF ReminderInv, Reminder!TypeOK
<1>10. BatchesAreDated' /\ tick'.event.data.count < Reminder!Limit
  BY <1>2, <1>3, <1>4, <1>5, <1>7 DEF BatchesAreDated, Ticking, TickKept
<1>11. ASSUME RemindersAreCounted, AnswersAreKept
       PROVE  /\ RemindersAreCounted' /\ AnswersAreKept'
              /\ \/ reminder >= Interval /\ sent < Reminder!Limit + rmFaults /\ ~tick.answered
                 \/ unmarked
  <2>1. RemindersAreCounted'
    BY <1>1, <1>2, <1>3, <1>7, <1>8, <1>11 DEF RemindersAreCounted, TickKept, Ticking
  <2>2. AnswersAreKept' /\ ~tick.answered
    BY <1>2, <1>3, <1>4, <1>7, <1>11 DEF AnswersAreKept, TickKept, Ticking
  <2>3. sent < Reminder!Limit + rmFaults
    BY <1>1, <1>2, <1>4, <1>11 DEF RemindersAreCounted, Ticking
  <2>4. ~unmarked => reminder >= Interval
    BY <1>1, <1>2, <1>4, <1>11 DEF RemindersAreCounted, Ticking
  <2> QED
    BY <2>1, <2>2, <2>3, <2>4
<1>12. /\ overwritten' \/ (RemindersAreCounted' /\ AnswersAreKept')
       /\ \/ reminder >= Interval /\ sent < Reminder!Limit + rmFaults /\ ~tick.answered
          \/ unmarked \/ overwritten
  <2>1. CASE overwritten
    BY <1>7, <2>1, Zenon
  <2>2. CASE RemindersAreCounted /\ AnswersAreKept
    BY <1>11, <2>2, Zenon
  <2>3. overwritten \/ (RemindersAreCounted /\ AnswersAreKept)
    BY DEF ReminderInv
  <2> QED
    BY <2>1, <2>2, <2>3, Zenon
<1>13. ReminderInv'
  BY <1>9, <1>10, <1>12 DEF ReminderInv
<1> QED
  BY <1>6, <1>8, <1>12, <1>13, Zenon

\* The record counts the reminder up on what the tick has read.
LEMMA ReminderMarkKept ==
  ASSUME ReminderNumbers, ReminderInv, Reminder!MarkReminded
  PROVE  ReminderInv'
<1> USE DEF ReminderNumbers
<1> DEFINE read == tick.event.data
           one == [read EXCEPT !.count = read.count + 1]
           data == [one EXCEPT !.last = 0]
           new == [event EXCEPT !.data = data]
<1>1. /\ event \in Reminder!Event /\ tick \in Reminder!Tick /\ reminder \in 0..Interval
      /\ sent \in 0..(Reminder!Limit + ReminderFaults) /\ rmFaults \in 0..ReminderFaults
      /\ review \in 0..Repeat /\ event.data.count \in Nat
  BY ReminderState
<1>2. tick.at = "mark" /\ read.count < Reminder!Limit /\ read \in Reminder!Metadata
  <2>1. tick.at = "mark"
    BY DEF Reminder!MarkReminded, Reminder!At
  <2>2. tick.event \in Reminder!Event
    BY <1>1 DEF Reminder!Tick
  <2> QED
    BY <2>1, <2>2 DEF ReminderInv, Reminder!Event
<1>3. event' = new
  BY DEF Reminder!MarkReminded
<1>4. /\ data \in Reminder!Metadata /\ data.count = read.count + 1 /\ data.last = 0
      /\ data.responded = read.responded
  <2> HIDE DEF read
  <2>1. /\ one \in Reminder!Metadata /\ one.count = read.count + 1
        /\ one.responded = read.responded
    BY <1>2 DEF Reminder!Metadata
  <2> HIDE DEF one
  <2> QED
    BY <1>2, <2>1 DEF Reminder!Metadata
<1> HIDE DEF data
<1>5. new \in Reminder!Event /\ new.data = data
  BY <1>1, <1>4 DEF Reminder!Event
<1> HIDE DEF new
<1>6. /\ UNCHANGED <<screened, stamps, reply, batch, review, sent, reminder, answered,
                     unstamped, rmFaults>>
      /\ tick' = Reminder!NoTick /\ ticked' = TRUE /\ unmarked' = FALSE
  BY DEF Reminder!MarkReminded, Reminder!posted
<1>7. overwritten' \in BOOLEAN /\ (overwritten' <=> overwritten \/ event.data # read)
  BY Zenon DEF Reminder!MarkReminded
<1>8. tick' \in Reminder!Tick /\ tick'.at = "idle"
  BY <1>6, ReminderData
<1>9. Reminder!TypeOK'
  <2>1. {answered', unmarked', overwritten', ticked'} \subseteq BOOLEAN
    BY <1>6, <1>7, ReminderState, Zenon
  <2> QED
    BY <1>3, <1>5, <1>6, <1>8, <2>1, Zenon DEF ReminderInv, Reminder!TypeOK
<1>10. BatchesAreDated'
  BY <1>6, <1>8 DEF ReminderInv, BatchesAreDated, Ticking
<1>11. ASSUME RemindersAreCounted, AnswersAreKept, event.data = read
       PROVE  RemindersAreCounted' /\ AnswersAreKept'
  <2>1. RemindersAreCounted'
    BY <1>1, <1>2, <1>3, <1>4, <1>5, <1>6, <1>8, <1>11 DEF RemindersAreCounted, Ticking
  <2>2. AnswersAreKept'
    BY <1>2, <1>3, <1>4, <1>5, <1>6, <1>8, <1>11 DEF AnswersAreKept, Ticking
  <2> QED
    BY <2>1, <2>2
<1>12. overwritten' \/ (RemindersAreCounted' /\ AnswersAreKept')
  <2>1. overwritten \/ (RemindersAreCounted /\ AnswersAreKept)
    BY DEF ReminderInv
  <2> QED
    BY <1>7, <1>11, <2>1, Zenon
<1>13. tick'.at = "mark" => tick'.event.data.count < Reminder!Limit
  BY <1>8
<1> QED
  BY <1>9, <1>10, <1>12, <1>13 DEF ReminderInv


\* An answer is written with what its handler has read.
LEMMA ReminderReplyKept ==
  ASSUME ReminderNumbers, ReminderInv, Reminder!Respond \/ Reminder!Analyse
  PROVE  ReminderInv'
<1> USE DEF ReminderNumbers
<1> DEFINE data == [reply.read EXCEPT !.responded = TRUE]
           one == [event EXCEPT !.data = data]
           new == [one EXCEPT !.age = 0]
<1>1. /\ event \in Reminder!Event /\ reply \in ReplyState /\ tick \in Reminder!Tick
      /\ sent \in 0..(Reminder!Limit + ReminderFaults) /\ rmFaults \in 0..ReminderFaults
      /\ reply.read \in Reminder!Metadata /\ event.data \in Reminder!Metadata
  BY ReminderState DEF ReplyState
<1>2. PICK next \in {"idle", "analyse"} : Reminder!StoreReply(next)
  BY DEF Reminder!Respond, Reminder!Analyse
<1>3. event' = new
  BY <1>2 DEF Reminder!StoreReply
<1>4. reply' = [at |-> next, read |-> IF next = "idle" THEN Reminder!NoData ELSE data]
  BY <1>2 DEF Reminder!StoreReply
<1>5. /\ data \in Reminder!Metadata /\ data.responded = TRUE
      /\ data.count = reply.read.count /\ data.last = reply.read.last
  BY <1>1 DEF Reminder!Metadata
<1> HIDE DEF data
<1>6. one \in Reminder!Event /\ one.data = data /\ one.pending = event.pending
  BY <1>1, <1>5 DEF Reminder!Event
<1> HIDE DEF one
<1>7. new \in Reminder!Event /\ new.data = data /\ new.age = 0
  BY <1>6 DEF Reminder!Event
<1> HIDE DEF new
<1>8. reply' \in ReplyState
  BY <1>2, <1>4, <1>5, ReminderData DEF ReplyState
<1>9. UNCHANGED <<screened, stamps, tick, batch, review, sent, reminder, unstamped, unmarked,
                  ticked, rmFaults>>
  BY <1>2 DEF Reminder!StoreReply, Reminder!posted
<1>10. /\ answered' = TRUE /\ overwritten' \in BOOLEAN
       /\ overwritten' <=> overwritten \/ event.data # reply.read
  BY <1>2, Zenon DEF Reminder!StoreReply
<1>11. Reminder!TypeOK'
  <2>1. {answered', unmarked', overwritten', ticked'} \subseteq BOOLEAN
    BY <1>9, <1>10, ReminderState, Zenon
  <2>2. {batch', review'} \subseteq 0..Repeat
    BY <1>9, ReminderState, Zenon
  <2> QED
    BY <1>3, <1>7, <1>8, <1>9, <2>1, <2>2, Zenon DEF ReminderInv, Reminder!TypeOK, ReplyState
<1>12. BatchesAreDated' /\ (tick'.at = "mark" => tick'.event.data.count < Reminder!Limit)
  BY <1>9 DEF ReminderInv, BatchesAreDated, Ticking
<1>13. ASSUME RemindersAreCounted, AnswersAreKept, event.data = reply.read
       PROVE  RemindersAreCounted' /\ AnswersAreKept'
  <2>1. event'.data.count = event.data.count /\ event'.data.last = event.data.last
    BY <1>3, <1>5, <1>7, <1>13
  <2>2. RemindersAreCounted'
    BY <1>9, <1>13, <2>1 DEF RemindersAreCounted, Ticking
  <2>3. event'.data.responded
    BY <1>3, <1>5, <1>7
  <2>4. AnswersAreKept'
    BY <1>9, <1>13, <2>3 DEF AnswersAreKept, Ticking
  <2> QED
    BY <2>2, <2>4
<1>14. overwritten' \/ (RemindersAreCounted' /\ AnswersAreKept')
  <2>1. overwritten \/ (RemindersAreCounted /\ AnswersAreKept)
    BY DEF ReminderInv
  <2> QED
    BY <1>10, <1>13, <2>1, Zenon
<1> QED
  BY <1>11, <1>12, <1>14 DEF ReminderInv

\* What is written to the case leaves its metadata.
LEMMA ReminderTouchKept ==
  ASSUME ReminderNumbers, ReminderInv, Reminder!TouchCase
  PROVE  ReminderInv' /\ event'.age = 0 /\ event'.data = event.data
<1> USE DEF ReminderNumbers
<1>1. event \in Reminder!Event
  BY ReminderState
<1>2. PICK still \in BOOLEAN : event' = [event EXCEPT !.pending = still, !.age = 0]
  BY Zenon DEF Reminder!TouchCase
<1>3. event' \in Reminder!Event /\ event'.age = 0 /\ event'.data = event.data
  <2> DEFINE one == [event EXCEPT !.pending = still]
             two == [one EXCEPT !.age = 0]
  <2>1. event' = two
    BY <1>2
  <2>2. one \in Reminder!Event /\ one.data = event.data
    BY <1>1 DEF Reminder!Event
  <2> HIDE DEF one
  <2>3. two \in Reminder!Event /\ two.age = 0 /\ two.data = event.data
    BY <2>2 DEF Reminder!Event
  <2> HIDE DEF two
  <2> QED
    BY <2>1, <2>3
<1>4. UNCHANGED <<screened, stamps, tick, reply, batch, review, sent, reminder, answered,
                  unstamped, unmarked, overwritten, ticked, rmFaults>>
  BY DEF Reminder!TouchCase, Reminder!posted, Reminder!history
<1>5. Reminder!TypeOK'
  BY <1>3, <1>4, Zenon DEF ReminderInv, Reminder!TypeOK
<1>6. BatchesAreDated' /\ (tick'.at = "mark" => tick'.event.data.count < Reminder!Limit)
  BY <1>4 DEF ReminderInv, BatchesAreDated, Ticking
<1>7. ASSUME RemindersAreCounted, AnswersAreKept
      PROVE  RemindersAreCounted' /\ AnswersAreKept'
  BY <1>3, <1>4, <1>7 DEF RemindersAreCounted, AnswersAreKept, Ticking
<1>8. overwritten' \/ (RemindersAreCounted' /\ AnswersAreKept')
  <2>1. overwritten \/ (RemindersAreCounted /\ AnswersAreKept)
    BY DEF ReminderInv
  <2> QED
    BY <1>4, <1>7, <2>1, Zenon
<1> QED
  BY <1>3, <1>5, <1>6, <1>8 DEF ReminderInv

\* An hour later.
LEMMA ReminderOlder ==
  ASSUME NEW oldest \in Nat, NEW age \in 0..oldest
  PROVE  /\ Reminder!Older(age, oldest) \in 0..oldest
         /\ Reminder!Older(age, oldest) = IF age < oldest THEN age + 1 ELSE age
BY DEF Reminder!Older

\* What an hour makes of the variables.
LEMMA ReminderHour ==
  ASSUME ReminderNumbers, ReminderInv, Reminder!HourPasses
  PROVE  /\ event' \in Reminder!Event /\ event'.pending = event.pending
         /\ event'.age = IF event.age < VeryStale THEN event.age + 1 ELSE event.age
         /\ event'.data.count = event.data.count
         /\ event'.data.responded = event.data.responded
         /\ event'.data.last =
              IF event.data.last < Interval THEN event.data.last + 1 ELSE event.data.last
         /\ screened' \in Screening /\ stamps' \in Reminder!Stamps
         /\ stamps'.admin = IF stamps.admin < Repeat THEN stamps.admin + 1 ELSE stamps.admin
         /\ stamps'.review = IF stamps.review < Repeat THEN stamps.review + 1 ELSE stamps.review
         /\ batch' = IF batch < Repeat THEN batch + 1 ELSE batch
         /\ review' = IF review < Repeat THEN review + 1 ELSE review
         /\ reminder' = IF reminder < Interval THEN reminder + 1 ELSE reminder
         /\ ticked /\ ticked' = FALSE /\ tick.at = "idle" /\ reply.at = "idle"
         /\ UNCHANGED <<tick, reply, sent, answered, unstamped, unmarked, overwritten, rmFaults>>
<1> USE DEF ReminderNumbers
<1>1. /\ event \in Reminder!Event /\ screened \in Screening /\ stamps \in Reminder!Stamps
      /\ batch \in 0..Repeat /\ review \in 0..Repeat /\ reminder \in 0..Interval
      /\ event.data \in Reminder!Metadata /\ event.age \in 0..VeryStale
      /\ event.data.last \in 0..Interval
      /\ stamps.admin \in 0..Repeat /\ stamps.review \in 0..Repeat
  BY ReminderState
<1>2. /\ event' \in Reminder!Event /\ event'.pending = event.pending
      /\ event'.age = IF event.age < VeryStale THEN event.age + 1 ELSE event.age
      /\ event'.data.count = event.data.count
      /\ event'.data.responded = event.data.responded
      /\ event'.data.last =
           IF event.data.last < Interval THEN event.data.last + 1 ELSE event.data.last
  <2> DEFINE age == Reminder!Older(event.age, VeryStale)
             last == Reminder!Older(event.data.last, Interval)
             one == [event EXCEPT !.age = age]
             data == [event.data EXCEPT !.last = last]
             two == [one EXCEPT !.data = data]
  <2>1. /\ age \in 0..VeryStale /\ last \in 0..Interval
        /\ age = IF event.age < VeryStale THEN event.age + 1 ELSE event.age
        /\ last = IF event.data.last < Interval THEN event.data.last + 1 ELSE event.data.last
    BY <1>1, ReminderOlder
  <2>2. event' = [event EXCEPT !.age = age, !.data.last = last]
    BY DEF Reminder!HourPasses
  <2> HIDE DEF age, last
  <2>3. event' = two
    BY <1>1, <2>2 DEF Reminder!Event
  <2>4. /\ data \in Reminder!Metadata /\ data.count = event.data.count
        /\ data.responded = event.data.responded /\ data.last = last
    BY <1>1, <2>1 DEF Reminder!Metadata
  <2> HIDE DEF data
  <2>5. one \in Reminder!Event /\ one.pending = event.pending /\ one.age = age
    BY <1>1, <2>1 DEF Reminder!Event
  <2> HIDE DEF one
  <2>6. /\ two \in Reminder!Event /\ two.pending = event.pending /\ two.age = age
        /\ two.data = data
    BY <2>4, <2>5 DEF Reminder!Event
  <2> HIDE DEF two
  <2> QED
    BY <2>1, <2>3, <2>4, <2>6
<1>3. screened' \in Screening
  <2> DEFINE age == IF screened.pending THEN Reminder!Older(screened.age, LongPending) ELSE 0
  <2>1. screened' = [screened EXCEPT !.age = age]
    BY DEF Reminder!HourPasses
  <2>2. age \in 0..LongPending
    <3>1. screened.age \in 0..LongPending
      BY <1>1 DEF Screening
    <3> QED
      BY <3>1, ReminderOlder
  <2> HIDE DEF age
  <2> QED
    BY <1>1, <2>1, <2>2 DEF Screening
<1>4. /\ stamps' \in Reminder!Stamps
      /\ stamps'.admin = IF stamps.admin < Repeat THEN stamps.admin + 1 ELSE stamps.admin
      /\ stamps'.review = IF stamps.review < Repeat THEN stamps.review + 1 ELSE stamps.review
  <2>1. stamps' = [admin |-> Reminder!Older(stamps.admin, Repeat),
                   review |-> Reminder!Older(stamps.review, Repeat)]
    BY DEF Reminder!HourPasses
  <2>2. /\ Reminder!Older(stamps.admin, Repeat) \in 0..Repeat
        /\ Reminder!Older(stamps.admin, Repeat) =
             IF stamps.admin < Repeat THEN stamps.admin + 1 ELSE stamps.admin
        /\ Reminder!Older(stamps.review, Repeat) \in 0..Repeat
        /\ Reminder!Older(stamps.review, Repeat) =
             IF stamps.review < Repeat THEN stamps.review + 1 ELSE stamps.review
    BY <1>1, ReminderOlder
  <2> QED
    BY <2>1, <2>2 DEF Reminder!Stamps
<1>5. /\ batch' = IF batch < Repeat THEN batch + 1 ELSE batch
      /\ review' = IF review < Repeat THEN review + 1 ELSE review
      /\ reminder' = IF reminder < Interval THEN reminder + 1 ELSE reminder
  <2>1. /\ batch' = Reminder!Older(batch, Repeat) /\ review' = Reminder!Older(review, Repeat)
        /\ reminder' = Reminder!Older(reminder, Interval)
    BY DEF Reminder!HourPasses
  <2> QED
    BY <1>1, <2>1, ReminderOlder
<1>6. ticked /\ ticked' = FALSE /\ tick.at = "idle" /\ reply.at = "idle"
  BY Zenon DEF Reminder!HourPasses, Reminder!At
<1>7. UNCHANGED <<tick, reply, sent, answered, unstamped, unmarked, overwritten, rmFaults>>
  BY DEF Reminder!HourPasses, Reminder!history
<1> QED
  BY <1>2, <1>3, <1>4, <1>5, <1>6, <1>7, Zenon

\* An hour makes all dates older alike.
LEMMA ReminderHourKept ==
  ASSUME ReminderNumbers, ReminderInv, Reminder!HourPasses
  PROVE  ReminderInv'
<1> USE DEF ReminderNumbers
<1>1. /\ batch \in 0..Repeat /\ review \in 0..Repeat /\ reminder \in 0..Interval
      /\ event.data.count \in Nat /\ event.data.last \in 0..Interval
      /\ stamps.admin \in 0..Repeat /\ stamps.review \in 0..Repeat
  BY ReminderState
<1>2. /\ event' \in Reminder!Event /\ screened' \in Screening /\ stamps' \in Reminder!Stamps
      /\ tick.at = "idle"
      /\ UNCHANGED <<tick, reply, sent, answered, unstamped, unmarked, overwritten, rmFaults>>
  BY ReminderHour, Zenon
<1>3. /\ stamps'.admin = IF stamps.admin < Repeat THEN stamps.admin + 1 ELSE stamps.admin
      /\ stamps'.review = IF stamps.review < Repeat THEN stamps.review + 1 ELSE stamps.review
      /\ batch' = IF batch < Repeat THEN batch + 1 ELSE batch
      /\ review' = IF review < Repeat THEN review + 1 ELSE review
      /\ reminder' = IF reminder < Interval THEN reminder + 1 ELSE reminder
  BY ReminderHour
<1>4. /\ event'.data.count = event.data.count
      /\ event'.data.last =
           IF event.data.last < Interval THEN event.data.last + 1 ELSE event.data.last
  BY ReminderHour
<1>5. event'.data.responded = event.data.responded
  BY ReminderHour, Zenon
<1>6. Reminder!TypeOK'
  <2>1. {answered', unmarked', overwritten', ticked'} \subseteq BOOLEAN
    <3>1. ticked' = FALSE
      BY ReminderHour, Zenon
    <3> QED
      BY <1>2, <3>1, ReminderState, Zenon
  <2>2. {batch', review'} \subseteq 0..Repeat /\ reminder' \in 0..Interval
    BY <1>1, <1>3
  <2> QED
    BY <1>2, <2>1, <2>2, Zenon DEF ReminderInv, Reminder!TypeOK, Screening
<1>7. BatchesAreDated' /\ (tick'.at = "mark" => tick'.event.data.count < Reminder!Limit)
  BY <1>1, <1>2, <1>3 DEF ReminderInv, BatchesAreDated, Ticking
<1>8. ASSUME RemindersAreCounted, AnswersAreKept
      PROVE  RemindersAreCounted' /\ AnswersAreKept'
  <2>1. RemindersAreCounted'
    BY <1>1, <1>2, <1>3, <1>4, <1>8 DEF RemindersAreCounted, Ticking
  <2>2. AnswersAreKept'
    BY <1>2, <1>5, <1>8, Zenon DEF AnswersAreKept, Ticking
  <2> QED
    BY <2>1, <2>2
<1>9. overwritten' \/ (RemindersAreCounted' /\ AnswersAreKept')
  <2>1. overwritten \/ (RemindersAreCounted /\ AnswersAreKept)
    BY DEF ReminderInv
  <2> QED
    BY <1>2, <1>8, <2>1, Zenon
<1> QED
  BY <1>6, <1>7, <1>9 DEF ReminderInv

\* Without failures and reminders a step reads and leaves the row and the dates as they are.
LEMMA SilentTick ==
  ASSUME ReminderNumbers, ReminderInv, RemindersFit, ReadsTheSilent, SilentHours,
         \/ Reminder!Begin \/ Reminder!Post \/ Reminder!Stamp \/ Reminder!MarkListed
         \/ Reminder!NothingDue
  PROVE  ReadsTheSilent' /\ SilentHours'
<1> USE DEF ReminderNumbers, RemindersFit
<1>1. /\ event \in Reminder!Event /\ stamps \in Reminder!Stamps /\ tick \in Reminder!Tick
      /\ review \in 0..Repeat /\ stamps.admin \in 0..Repeat /\ stamps.review \in 0..Repeat
      /\ event.age \in 0..VeryStale /\ event.data.count \in Nat
  BY ReminderState
<1>2. UNCHANGED <<event, reply>>
  BY DEF Reminder!Begin, Reminder!Post, Reminder!Stamp, Reminder!MarkListed,
     Reminder!NothingDue, Reminder!rows
<1>3. CASE Reminder!Begin
  <2>1. UNCHANGED <<stamps, review, ticked>>
    BY <1>3 DEF Reminder!Begin, Reminder!rows, Reminder!posted
  <2>2. /\ tick' \in Reminder!Tick /\ tick'.at \in {"post", "remind"}
        /\ tick'.at = "post" => stamps.admin >= Repeat
        /\ tick'.event = event /\ tick'.stamps = stamps
    BY <1>3, ReminderBegin DEF ReminderInv
  <2>3. tick.at = "idle"
    BY <1>3 DEF Reminder!Begin, Reminder!At
  <2>4. ReadsTheSilent'
    BY <1>2, <2>1, <2>2, <2>3 DEF ReadsTheSilent, Ticking
  <2> QED
    BY <1>2, <2>1, <2>4 DEF SilentHours
<1>4. CASE Reminder!Post
  <2>1. /\ tick.at = "post" /\ review' = (IF tick.cases THEN 0 ELSE review)
        /\ UNCHANGED <<stamps, ticked>>
    BY <1>4 DEF Reminder!Post, Reminder!At, Reminder!rows
  <2>2. /\ tick'.at = "stamp" /\ tick'.event = tick.event /\ tick'.cases = tick.cases
        /\ tick'.stamps = tick.stamps
    BY <1>1, <1>4, ReminderGoto DEF Reminder!Post, TickStep, TickKept
  <2>3. ReadsTheSilent'
    BY <1>2, <2>1, <2>2 DEF ReadsTheSilent, Ticking
  <2>4. review >= Repeat
    BY <1>1, <2>1 DEF ReadsTheSilent
  <2>5. review' \in 0..Repeat /\ (review' = review \/ review' = 0)
    BY <1>1, <2>1
  <2>6. SilentHours'
    BY <1>1, <1>2, <2>1, <2>4, <2>5 DEF SilentHours
  <2> QED
    BY <2>3, <2>6
<1>5. CASE Reminder!Stamp
  <2>1. UNCHANGED <<review, ticked>> /\ tick.at = "stamp"
    BY <1>5 DEF Reminder!Stamp, Reminder!posted, Reminder!At
  <2>2. /\ tick'.at \in {"list", "remind"} /\ TickKept
        /\ tick'.stamps.review = IF tick.cases THEN 0 ELSE tick.stamps.review
    BY <1>1, <1>5, ReminderPosted DEF Reminder!Stamp
  <2>3. stamps'.admin = 0 /\ stamps'.review = IF tick.cases THEN 0 ELSE stamps.review
    <3>1. stamps' = [admin |-> 0, review |-> IF tick.cases THEN 0 ELSE stamps.review]
      BY <1>5 DEF Reminder!Stamp
    <3> QED
      BY <3>1
  <2>4. ReadsTheSilent'
    BY <1>1, <1>2, <2>1, <2>2, <2>3 DEF ReadsTheSilent, Ticking, TickKept
  <2> QED
    BY <1>2, <2>1, <2>4 DEF SilentHours
<1>6. CASE Reminder!MarkListed
  <2>1. UNCHANGED <<stamps, review, ticked>> /\ tick.at = "list"
    BY <1>6 DEF Reminder!MarkListed, Reminder!posted, Reminder!At
  <2>2. /\ tick'.at = "remind" /\ TickKept /\ tick'.stamps = tick.stamps
    BY <1>1, <1>6, ReminderGoto DEF Reminder!MarkListed, TickStep
  <2>3. ReadsTheSilent'
    BY <1>2, <2>1, <2>2 DEF ReadsTheSilent, Ticking, TickKept
  <2> QED
    BY <1>2, <2>1, <2>3 DEF SilentHours
<1>7. CASE Reminder!NothingDue
  <2>1. /\ UNCHANGED <<stamps, review>> /\ tick.at = "remind"
        /\ ~Reminder!Due(tick.event, tick.stamps.review)
        /\ tick' = Reminder!NoTick
    BY <1>7 DEF Reminder!NothingDue, Reminder!rows, Reminder!posted, Reminder!At
  <2>2. tick'.at = "idle"
    BY <2>1, ReminderData
  <2>3. ReadsTheSilent'
    BY <1>2, <2>1, <2>2 DEF ReadsTheSilent, Ticking
  <2>4. ASSUME event.pending, ~event.data.responded, event.age >= Stale
        PROVE  review < Window /\ event.age - Stale <= review
    <3>1. tick.event = event /\ tick.stamps.review = review
      BY <1>1, <2>1, <2>4 DEF ReadsTheSilent, Ticking
    <3>2. /\ event.age - Stale <= review
          /\ event.age < VeryStale /\ event.age > 0
      BY <1>1, <2>4 DEF SilentHours
    <3>3. ~Reminder!IsVeryStale(event)
      BY <1>1, <3>2 DEF Reminder!IsVeryStale, Reminder!Hours
    <3>4. event.data.count = 0 /\ 0 < Reminder!Limit
      <4>1. VeryStale - Stale \in Nat /\ VeryStale - Stale >= 1
        OBVIOUS
      <4>2. \A a \in Nat : a >= 1 => (a + Interval - 1) \div Interval >= 1
        OBVIOUS
      <4>3. (VeryStale - Stale + Interval - 1) \div Interval >= 1
        BY <4>1, <4>2
      <4> QED
        BY <4>3 DEF ReadsTheSilent, Reminder!Limit
    <3>5. Reminder!Until(event) = 0
      BY <1>1, <2>4, <3>4 DEF Reminder!Until
    <3>6. Reminder!Avoided(Reminder!Until(event), review) # 0
      BY <2>1, <2>4, <3>1, <3>3, <3>4 DEF Reminder!Due
    <3>7. review < Window
      BY <3>5, <3>6 DEF Reminder!Avoided
    <3> QED
      BY <3>2, <3>7
  <2>5. SilentHours'
    BY <1>1, <1>2, <2>1, <2>4 DEF SilentHours
  <2> QED
    BY <2>3, <2>5
<1> QED
  BY <1>3, <1>4, <1>5, <1>6, <1>7

\* What happens around the ticks sets the age back, or lets an hour pass after a tick.
LEMMA SilentOther ==
  ASSUME ReminderNumbers, ReminderInv, RemindersFit, ReadsTheSilent, SilentHours,
         \/ Reminder!Answer \/ Reminder!Respond \/ Reminder!Analyse \/ Reminder!SkipAnalysis
         \/ Reminder!TouchCase \/ Reminder!ChangeScreening \/ Reminder!HourPasses
  PROVE  ReadsTheSilent' /\ SilentHours'
<1> USE DEF ReminderNumbers, RemindersFit
<1>1. /\ event \in Reminder!Event /\ reply \in ReplyState /\ review \in 0..Repeat
      /\ stamps.admin \in 0..Repeat /\ stamps.review \in 0..Repeat
      /\ event.age \in 0..VeryStale /\ event.data.count \in Nat
      /\ reply.read \in Reminder!Metadata
  BY ReminderState DEF ReplyState
<1>2. CASE Reminder!Answer \/ Reminder!SkipAnalysis \/ Reminder!ChangeScreening
  <2>1. UNCHANGED <<event, stamps, tick, review, ticked>>
    BY <1>2 DEF Reminder!Answer, Reminder!SkipAnalysis, Reminder!ChangeScreening,
       Reminder!rows, Reminder!posted
  <2>2. reply'.read.count = 0
    <3>1. CASE Reminder!Answer
      <4>1. reply'.read = event.data
        BY <3>1 DEF Reminder!Answer
      <4> QED
        BY <4>1 DEF ReadsTheSilent
    <3>2. CASE Reminder!SkipAnalysis
      BY <3>2, ReminderData DEF Reminder!SkipAnalysis
    <3>3. CASE Reminder!ChangeScreening
      BY <3>3 DEF Reminder!ChangeScreening, ReadsTheSilent
    <3> QED
      BY <1>2, <3>1, <3>2, <3>3
  <2>3. ReadsTheSilent'
    BY <2>1, <2>2 DEF ReadsTheSilent, Ticking
  <2> QED
    BY <2>1, <2>3 DEF SilentHours
<1>3. CASE Reminder!Respond \/ Reminder!Analyse
  <2> DEFINE data == [reply.read EXCEPT !.responded = TRUE]
             new == [event EXCEPT !.data = data]
  <2>1. PICK next \in {"idle", "analyse"} : Reminder!StoreReply(next)
    BY <1>3 DEF Reminder!Respond, Reminder!Analyse
  <2>2. UNCHANGED <<stamps, tick, review, ticked>>
    BY <2>1 DEF Reminder!StoreReply, Reminder!posted
  <2>3. data.count = 0
    BY <1>1 DEF ReadsTheSilent, Reminder!Metadata
  <2>4. event'.age = 0 /\ event'.data.count = 0
    <3>1. event' = [new EXCEPT !.age = 0]
      BY <2>1 DEF Reminder!StoreReply
    <3>2. data \in Reminder!Metadata
      BY <1>1 DEF Reminder!Metadata
    <3> HIDE DEF data
    <3>3. new \in Reminder!Event /\ new.data = data
      BY <1>1, <3>2 DEF Reminder!Event
    <3> HIDE DEF new
    <3> QED
      BY <2>3, <3>1, <3>3 DEF Reminder!Event
  <2>5. reply'.read.count = 0
    <3>1. reply' = [at |-> next, read |-> IF next = "idle" THEN Reminder!NoData ELSE data]
      BY <2>1 DEF Reminder!StoreReply
    <3> HIDE DEF data
    <3> QED
      BY <2>3, <3>1, ReminderData
  <2> HIDE DEF data, new
  <2>6. ReadsTheSilent'
    BY <2>2, <2>4, <2>5 DEF ReadsTheSilent, Ticking
  <2> QED
    BY <2>4, <2>6 DEF SilentHours
<1>4. CASE Reminder!TouchCase
  <2>1. UNCHANGED <<stamps, tick, reply, review, ticked>>
    BY <1>4 DEF Reminder!TouchCase, Reminder!posted
  <2>2. event'.age = 0 /\ event'.data = event.data
    BY <1>4, ReminderTouchKept
  <2>3. ReadsTheSilent'
    BY <2>1, <2>2 DEF ReadsTheSilent, Ticking
  <2> QED
    BY <2>2, <2>3 DEF SilentHours
<1>5. CASE Reminder!HourPasses
  <2>1. UNCHANGED <<tick, reply>> /\ tick.at = "idle" /\ ticked /\ ticked' = FALSE
    BY <1>5, ReminderHour, Zenon
  <2>2. /\ event'.age = IF event.age < VeryStale THEN event.age + 1 ELSE event.age
        /\ event'.data.count = event.data.count
        /\ stamps'.admin = IF stamps.admin < Repeat THEN stamps.admin + 1 ELSE stamps.admin
        /\ stamps'.review = IF stamps.review < Repeat THEN stamps.review + 1 ELSE stamps.review
        /\ review' = IF review < Repeat THEN review + 1 ELSE review
    BY <1>5, ReminderHour
  <2>3. /\ event'.pending = event.pending
        /\ event'.data.responded = event.data.responded
    BY <1>5, ReminderHour, Zenon
  <2>4. ReadsTheSilent'
    BY <1>1, <2>1, <2>2 DEF ReadsTheSilent, Ticking
  <2>5. ASSUME event.pending, ~event.data.responded, event'.age > Stale
        PROVE  review' <= Window /\ event'.age - Stale <= review'
    <3>1. event.age >= Stale
      BY <1>1, <2>2, <2>5
    <3>2. review < Window /\ event.age - Stale <= review
      BY <2>1, <2>5, <3>1 DEF SilentHours
    <3> QED
      BY <1>1, <2>2, <3>2
  <2>6. SilentHours'
    BY <2>1, <2>3, <2>5 DEF SilentHours
  <2> QED
    BY <2>4, <2>6
<1> QED
  BY <1>2, <1>3, <1>4, <1>5

\* A member who was not reminded, nobody having failed, is not long without an answer.
LEMMA SilentKept ==
  ASSUME ReminderNumbers, ReminderInv, SilentInv, Reminder!Next
  PROVE  SilentInv'
<1> USE DEF ReminderNumbers
<1> SUFFICES ASSUME RemindersFit, sent' = 0, rmFaults' = 0
             PROVE  ReadsTheSilent' /\ SilentHours'
  BY DEF SilentInv, RemindersFit
<1>1. /\ sent \in 0..(Reminder!Limit + ReminderFaults) /\ rmFaults \in 0..ReminderFaults
  BY ReminderState
<1>2. ~Reminder!Fault
  BY <1>1 DEF Reminder!Fault
<1>3. ~Reminder!Remind
  BY ReminderRemindKept
<1>4. \/ Reminder!Begin \/ Reminder!Post \/ Reminder!Stamp \/ Reminder!MarkListed
      \/ Reminder!NothingDue \/ Reminder!MarkReminded
      \/ Reminder!Answer \/ Reminder!Respond \/ Reminder!Analyse \/ Reminder!SkipAnalysis
      \/ Reminder!TouchCase \/ Reminder!ChangeScreening \/ Reminder!HourPasses
  BY <1>2, <1>3, Zenon DEF Reminder!Next, Reminder!Step, Reminder!FailPost, Reminder!FailStamp,
     Reminder!FailListed, Reminder!FailRemind, Reminder!FailMark, Reminder!FailRespond,
     Reminder!Restart
<1>5. sent' = sent /\ rmFaults' = rmFaults
  BY <1>4 DEF Reminder!Begin, Reminder!Post, Reminder!Stamp, Reminder!MarkListed,
     Reminder!NothingDue, Reminder!MarkReminded, Reminder!Answer, Reminder!Respond,
     Reminder!Analyse, Reminder!StoreReply, Reminder!SkipAnalysis, Reminder!TouchCase,
     Reminder!ChangeScreening, Reminder!HourPasses, Reminder!posted
<1>6. ReadsTheSilent /\ SilentHours
  BY <1>5 DEF SilentInv
<1>7. ~Reminder!MarkReminded
  BY <1>6 DEF ReadsTheSilent, Reminder!MarkReminded, Reminder!At
<1> QED
  BY <1>4, <1>6, <1>7, SilentTick, SilentOther

\* what a step may do to batches and reminders
ReminderKeeps ==
  /\ Reminder!At("post") /\ tick'.at = "stamp" => batch >= Repeat \/ "batch" \in unstamped
  /\ Reminder!At("remind") /\ tick'.at = "mark" =>
       /\ review >= Window \/ "review" \in unstamped
       /\ \/ reminder >= Interval /\ sent < Reminder!Limit + rmFaults /\ ~tick.answered
          \/ unmarked \/ overwritten

\* Only one action leads from "remind" to "mark".
LEMMA ReminderMarks ==
  ASSUME ReminderNumbers, tick \in Reminder!Tick, Reminder!Next, tick.at = "remind",
         tick'.at = "mark"
  PROVE  Reminder!Remind
<1>1. Reminder!NoTick.at = "idle"
  BY ReminderData
<1>2. ~Reminder!Goto("remind")
  BY ReminderGoto DEF TickStep
<1>3. ~Reminder!NothingDue /\ ~Reminder!FailRemind /\ ~Reminder!Restart
  BY <1>1 DEF Reminder!NothingDue, Reminder!FailRemind, Reminder!Restart
<1>4. \/ Reminder!Remind \/ Reminder!NothingDue \/ Reminder!FailRemind \/ Reminder!Restart
      \/ tick' = tick
  BY Zenon DEF Reminder!Next, Reminder!Step, Reminder!Begin, Reminder!Post, Reminder!FailPost,
     Reminder!Stamp, Reminder!FailStamp, Reminder!MarkListed, Reminder!FailListed,
     Reminder!MarkReminded, Reminder!FailMark, Reminder!Answer, Reminder!Respond,
     Reminder!FailRespond, Reminder!Analyse, Reminder!StoreReply, Reminder!SkipAnalysis,
     Reminder!TouchCase, Reminder!ChangeScreening, Reminder!HourPasses, Reminder!At
<1> QED
  BY <1>3, <1>4

\* Every step keeps the invariants and the distances.
LEMMA ReminderNextKept ==
  ASSUME ReminderNumbers, ReminderInv, SilentInv, Reminder!Next
  PROVE  ReminderInv' /\ SilentInv' /\ ReminderKeeps
<1>1. ReminderInv'
  BY ReminderBeginKept, ReminderBatchKept, ReminderRemindKept, ReminderMarkKept,
     ReminderReplyKept, ReminderTouchKept, ReminderHourKept, ReminderStillKept
     DEF Reminder!Next, Reminder!Step
<1>2. SilentInv'
  BY SilentKept
<1>3. tick \in Reminder!Tick /\ batch \in 0..Repeat /\ stamps.admin \in 0..Repeat
  BY ReminderState
<1>4. Reminder!At("post") => batch >= Repeat \/ "batch" \in unstamped
  BY <1>3 DEF ReminderInv, BatchesAreDated, Reminder!At, ReminderNumbers
<1>5. Reminder!At("remind") /\ tick'.at = "mark" =>
        /\ review >= Window \/ "review" \in unstamped
        /\ \/ reminder >= Interval /\ sent < Reminder!Limit + rmFaults /\ ~tick.answered
           \/ unmarked \/ overwritten
  <2> SUFFICES ASSUME Reminder!At("remind"), tick'.at = "mark"
               PROVE  /\ review >= Window \/ "review" \in unstamped
                      /\ \/ /\ reminder >= Interval /\ sent < Reminder!Limit + rmFaults
                            /\ ~tick.answered
                         \/ unmarked \/ overwritten
    OBVIOUS
  <2>1. Reminder!Remind
    BY <1>3, ReminderMarks DEF Reminder!At
  <2> QED
    BY <2>1, ReminderRemindKept, Zenon
<1> QED
  BY <1>1, <1>2, <1>4, <1>5, Zenon DEF ReminderKeeps

\* The case begins fresh, without a batch or a reminder in memory.
LEMMA ReminderBeginning ==
  ASSUME ReminderNumbers, Reminder!Init
  PROVE  ReminderInv /\ SilentInv
<1> USE DEF ReminderNumbers
<1>1. /\ event = [pending |-> TRUE, age |-> 0, data |-> Reminder!NoData]
      /\ screened = [pending |-> FALSE, age |-> 0, listed |-> FALSE]
      /\ stamps = Reminder!NoTick.stamps /\ tick = Reminder!NoTick /\ reply = Reminder!NoReply
      /\ batch = Repeat /\ review = Repeat /\ sent = 0 /\ reminder = Interval
      /\ unstamped = {} /\ rmFaults = 0
  BY DEF Reminder!Init
<1>2. answered = FALSE /\ unmarked = FALSE /\ overwritten = FALSE /\ ticked = FALSE
  BY Zenon DEF Reminder!Init
<1>3. /\ event \in Reminder!Event /\ event.age = 0 /\ event.data = Reminder!NoData
  BY <1>1, ReminderData DEF Reminder!Event
<1>4. /\ screened \in Screening
  BY <1>1 DEF Screening
<1>5. /\ stamps \in Reminder!Stamps /\ stamps.admin = Repeat /\ stamps.review = Repeat
      /\ tick \in Reminder!Tick /\ tick.at = "idle"
      /\ reply \in ReplyState /\ reply.read.count = 0
      /\ Reminder!NoData.count = 0
  BY <1>1, ReminderData DEF ReplyState
<1>6. Reminder!TypeOK
  <2>1. /\ batch \in 0..Repeat /\ review \in 0..Repeat /\ reminder \in 0..Interval
        /\ sent \in 0..(Reminder!Limit + ReminderFaults)
        /\ unstamped \subseteq {"batch", "review"} /\ rmFaults \in 0..ReminderFaults
    BY <1>1
  <2>2. /\ answered \in BOOLEAN /\ unmarked \in BOOLEAN /\ overwritten \in BOOLEAN
        /\ ticked \in BOOLEAN
    BY <1>2, Zenon
  <2> QED
    BY <1>3, <1>4, <1>5, <2>1, <2>2, ReminderTypes, Zenon
<1>7. BatchesAreDated /\ RemindersAreCounted
  BY <1>1, <1>3, <1>5 DEF BatchesAreDated, RemindersAreCounted, Ticking
<1>8. AnswersAreKept
  BY <1>2, <1>5, Zenon DEF AnswersAreKept, Ticking
<1>9. SilentInv
  BY <1>1, <1>3, <1>5 DEF SilentInv, ReadsTheSilent, SilentHours, Ticking
<1> QED
  BY <1>5, <1>6, <1>7, <1>8, <1>9 DEF ReminderInv

\* The invariants, for every specification of the services.
LEMMA RemindersKept ==
  ASSUME ServicesAssumption
  PROVE  Spec => [](ReminderInv /\ SilentInv) /\ [][ReminderKeeps]_(Reminder!vars)
<1>1. ReminderNumbers
  BY ReminderConstants
<1>2. Init => ReminderInv /\ SilentInv
  BY <1>1, ReminderBeginning DEF Init
<1>3. ReminderInv /\ SilentInv /\ [Next]_vars
        => (ReminderInv /\ SilentInv)' /\ [ReminderKeeps]_(Reminder!vars)
  <2> SUFFICES ASSUME ReminderInv, SilentInv, [Next]_vars
               PROVE  (ReminderInv /\ SilentInv)' /\ [ReminderKeeps]_(Reminder!vars)
    OBVIOUS
  <2>1. CASE UNCHANGED reminderVars
    <3>1. UNCHANGED (Reminder!vars)
      BY <2>1 DEF reminderVars, Reminder!vars, Reminder!rows, Reminder!posted, Reminder!history
    <3>2. SilentInv'
      BY <2>1 DEF reminderVars, SilentInv, RemindersFit, ReadsTheSilent, SilentHours, Ticking
    <3>3. BatchesAreDated' /\ (RemindersAreCounted <=> RemindersAreCounted')
      BY <2>1 DEF reminderVars, ReminderInv, BatchesAreDated, RemindersAreCounted, Ticking
    <3>4. AnswersAreKept <=> AnswersAreKept'
      BY <2>1 DEF reminderVars, AnswersAreKept, Ticking
    <3>5. Reminder!TypeOK'
      BY <2>1 DEF reminderVars, ReminderInv, Reminder!TypeOK
    <3>6. overwritten' = overwritten /\ tick' = tick
      BY <2>1 DEF reminderVars
    <3>7. ReminderInv'
      BY <3>3, <3>4, <3>5, <3>6, Zenon DEF ReminderInv
    <3> QED
      BY <3>1, <3>2, <3>7
  <2>2. CASE Reminder!Next
    BY <1>1, <2>2, ReminderNextKept
  <2> QED
    BY <2>1, <2>2, ReminderSteps
<1> QED
  BY <1>2, <1>3, PTL DEF Spec

\* For every choice of the hours and any number of failures: batches keep their distance, and
\* reminders theirs, from each other and from the reviews, up to their limit, and not to a
\* member who has answered (ReviewReminder).
THEOREM RemindersKeepDistance ==
  ASSUME ServicesAssumption
  PROVE  Spec => Reminder!RemindersInTime
<1>1. Reminder!RemindersInTime <=> [][ReminderKeeps]_(Reminder!vars)
  BY DEF Reminder!RemindersInTime, ReminderKeeps
<1> QED
  BY <1>1, RemindersKept, PTL

\* Where the windows of the reviews leave room for a reminder, none of this keeps a silent
\* member from being reminded before the case is very stale (ReviewReminder).
THEOREM RemindersStayInTime ==
  ASSUME ServicesAssumption, RemindersFit
  PROVE  Spec => RemindersInTime
<1> DEFINE Reminded == part = "reminder" => Reminder!SilentIsReminded
<1>1. ReminderInv /\ SilentInv => Reminded
  <2> SUFFICES ASSUME ReminderInv, SilentInv
               PROVE  Reminder!SilentIsReminded
    OBVIOUS
  <2> USE DEF ReminderNumbers, RemindersFit
  <2>1. ReminderNumbers
    BY ReminderConstants
  <2>2. /\ sent \in Nat /\ event.age \in 0..VeryStale /\ review \in 0..Repeat
    <3>1. sent \in 0..(Reminder!Limit + ReminderFaults)
      BY <2>1, ReminderState
    <3> QED
      BY <2>1, <3>1, ReminderState
  <2>3. SUFFICES ASSUME event.pending, Reminder!IsVeryStale(event), ~event.data.responded,
                        rmFaults = 0, sent = 0
                 PROVE  FALSE
    BY <2>2 DEF Reminder!SilentIsReminded
  <2>4. event.age >= VeryStale
    BY <2>1, <2>2, <2>3 DEF Reminder!IsVeryStale, Reminder!Hours
  <2>5. SilentHours
    BY <2>3 DEF SilentInv
  <2> QED
    BY <2>1, <2>2, <2>3, <2>4, <2>5 DEF SilentHours
<1>2. RemindersInTime <=> Reminder!RemindersInTime /\ []Reminded
  BY DEF RemindersInTime
<1> QED
  BY <1>1, <1>2, RemindersKeepDistance, RemindersKept, PTL
---------------------------------------------------------------------------
(* The memory of recent messages *)

\* The messages are in order, and so are the changes of the settings.
ChecksInOrder ==
  \A i \in DOMAIN checks :
    /\ checks[i].time <= now /\ checks[i].changes <= mfChanges
    /\ \A j \in 1..i : checks[j].time <= checks[i].time

\* How many messages are not remembered.  The others are the last ones.
Forgotten == Len(checks) - Len(times)
TimesAreLast ==
  Forgotten >= 0 /\ \A k \in 1..Len(times) : times[k] = checks[Forgotten + k].time

\* A message that was forgotten under the settings in force is out of the time frame, or
\* too many are remembered.
ForgottenRightly ==
  \A j \in 1..Forgotten : checks[j].changes = mfChanges =>
    checks[j].time <= now - settings.span \/ Len(times) > settings.limit

FrequencyInv ==
  /\ Frequency!TypeOK
  /\ ChecksInOrder /\ TimesAreLast /\ ForgottenRightly /\ FrequencyIsExact

\* A step is one of the check's own, or leaves its variables as they are.
LEMMA FrequencySteps ==
  ASSUME [Next]_vars
  PROVE  Frequency!Next \/ UNCHANGED frequencyVars
<1>1. CASE UNCHANGED vars
  BY <1>1 DEF vars, scanVars
<1>2. CASE Next
  BY <1>2 DEF Next, QuarantineNext, DetectionNext, IntakeNext, ReminderNext,
     FrequencyNext, PipelineNext, LockdownNext, ActionsNext, scanVars
<1> QED
  BY <1>1, <1>2

\* The constants and the variables, as numbers.
FrequencyNumbers ==
  /\ LastMoment \in Nat /\ MaxChecks \in Nat /\ FrequencyChanges \in Nat
  /\ CleanupEvery \in Nat \ {0}
  /\ settings.limit \in Nat \ {0} /\ settings.span \in Nat \ {0}
  /\ now \in 0..LastMoment /\ mfChanges \in 0..FrequencyChanges
  /\ cleanedAt \in (-CleanupEvery)..LastMoment
  /\ settings \in Frequency!Settings

\* They are, when the types are right.
LEMMA FrequencyState ==
  ASSUME ServicesAssumption, Frequency!TypeOK
  PROVE  FrequencyNumbers
BY DEF ServicesAssumption, Frequency!MessageFrequencyAssumption, Frequency!TypeOK,
       Frequency!Settings, FrequencyNumbers

\* What a check keeps of a member's timestamps: a number of the last, one more than is allowed
\* at most, all of them in the time frame; and fewer only if the others are not in it.
KeepsLast(s, rest, p, limit, cutoff) ==
  /\ p \in 1..Len(s) /\ Len(rest) = p /\ p <= limit + 1
  /\ \A k \in 1..p : rest[k] = s[Len(s) - p + k]
  /\ \A k \in Len(s) - p + 1..Len(s) : s[k] > cutoff
  /\ p = limit + 1 \/ \A k \in 1..Len(s) - p : s[k] <= cutoff

\* The loop over a member's timestamps stops at the first one in the time frame.
FirstIn(s, start, cutoff) ==
  /\ \A j \in 1..start - 1 : s[j] <= cutoff
  /\ start <= Len(s) => s[start] > cutoff

InOrder(s) == \A i \in 1..Len(s) : \A j \in 1..i : s[j] <= s[i]
InFrom(s, start, cutoff) == start \in 1..Len(s) /\ \A k \in start..Len(s) : s[k] > cutoff

\* What comes after something in the time frame is in it, too.
LEMMA BeyondTheCutoff ==
  ASSUME NEW a \in Int, NEW b \in Int, NEW c \in Int, a > c, a <= b
  PROVE  b > c
OBVIOUS

\* In timestamps in order the loop stops, and all from there on are in the time frame.
LEMMA LoopStops ==
  ASSUME NEW s \in Seq(Int), s # <<>>, NEW cutoff \in Int, s[Len(s)] > cutoff,
         InOrder(s)
  PROVE  /\ \E i \in 1..Len(s) + 1 : FirstIn(s, i, cutoff)
         /\ \A i \in 1..Len(s) + 1 : FirstIn(s, i, cutoff) => InFrom(s, i, cutoff)
<1> DEFINE T == {i \in 1..Len(s) : s[i] > cutoff}
<1>1. Len(s) \in Nat \ {0} /\ \A i \in 1..Len(s) : s[i] \in Int
  OBVIOUS
<1>2. T \in SUBSET Nat /\ T # {} /\ T \subseteq 1..Len(s)
  BY <1>1
<1>3. PICK f \in T : \A k \in T : f <= k
  BY <1>2, LeastNumber
<1>4. \A j \in 1..f - 1 : j \in 1..Len(s) /\ j \notin T
  BY <1>1, <1>2, <1>3
<1>5. FirstIn(s, f, cutoff)
  BY <1>1, <1>3, <1>4 DEF FirstIn
<1>6. f \in 1..Len(s) + 1
  BY <1>1, <1>2, <1>3
<1>7. ASSUME NEW i \in 1..Len(s) + 1, FirstIn(s, i, cutoff)
      PROVE  InFrom(s, i, cutoff)
  <2>1. i <= Len(s)
    BY <1>1, <1>7 DEF FirstIn
  <2>2. s[i] > cutoff
    BY <1>7, <2>1 DEF FirstIn
  <2>3. ASSUME NEW k \in i..Len(s) PROVE s[k] > cutoff
    <3>1. k \in 1..Len(s) /\ i \in 1..k
      BY <1>1, <2>3
    <3>2. s[i] <= s[k]
      BY <3>1 DEF InOrder
    <3>3. s[i] \in Int /\ s[k] \in Int
      BY <1>1, <3>1
    <3> QED
      BY <2>2, <3>2, <3>3, BeyondTheCutoff
  <2> QED
    BY <1>1, <1>7, <2>1, <2>3 DEF InFrom
<1> QED
  BY <1>5, <1>6, <1>7

\* What is left over of m of n places when u are passed over.
LEMMA PlacesLeft ==
  ASSUME NEW n \in Nat, NEW start \in 1..n, NEW m, m = n - start + 1, NEW u \in 0..m - 1,
         NEW p, p = m - u
  PROVE  /\ p \in 1..n /\ p <= m /\ m \in Nat
         /\ u + 1 \in Nat /\ m - (u + 1) + 1 = p
         /\ \A i \in 1..p : u + i \in 1..m /\ start + (u + i) - 1 = n - p + i
         /\ \A i \in 1..p : u + 1 + i - 1 = u + i
         /\ \A i \in u + 1..m : i \in 1..m
         /\ \A k \in n - p + 1..n : k \in start..n
         /\ u = 0 => \A k \in 1..n - p : k \in 1..start - 1
OBVIOUS

\* The timestamps from start on, cut to one more than is allowed.
CutTo(s, start, limit) ==
  LET inSpan == SubSeq(s, start, Len(s))
      surplus == Len(inSpan) - (limit + 1) IN
  IF surplus > 0 THEN SubSeq(inSpan, surplus + 1, Len(inSpan)) ELSE inSpan

\* From the first timestamp in the time frame on, no more than are needed are kept.
LEMMA KeepsFrom ==
  ASSUME NEW T \in SUBSET Int, NEW s \in Seq(T), NEW cutoff \in Int, NEW limit \in Nat,
         NEW start \in 1..Len(s), FirstIn(s, start, cutoff), InFrom(s, start, cutoff),
         NEW rest, rest = CutTo(s, start, limit)
  PROVE  rest \in Seq(T) /\ \E p \in 1..Len(s) : KeepsLast(s, rest, p, limit, cutoff)
<1> DEFINE m == Len(s) - start + 1
           inSpan == SubSeq(s, start, Len(s))
           surplus == Len(inSpan) - (limit + 1)
<1>1. Len(s) \in Nat /\ start \in Int /\ start <= Len(s)
  OBVIOUS
<1>2. \A i \in start..Len(s) : s[i] \in T
  OBVIOUS
<1>3. /\ inSpan \in Seq(T) /\ Len(inSpan) = m
      /\ \A i \in 1..m : inSpan[i] = s[start + i - 1]
  BY <1>1, <1>2, SubSeqProperties
<1>4. m \in Nat \ {0}
  BY <1>1
<1>8. rest = IF surplus > 0 THEN SubSeq(inSpan, surplus + 1, Len(inSpan)) ELSE inSpan
  BY DEF CutTo
<1>9. surplus = Len(inSpan) - (limit + 1)
  OBVIOUS
<1> HIDE DEF m, inSpan, surplus
<1>5. ASSUME NEW u \in 0..m - 1, rest \in Seq(T), Len(rest) = m - u,
             \A i \in 1..m - u : rest[i] = inSpan[u + i],
             (u = 0 /\ m <= limit + 1) \/ m - u = limit + 1
      PROVE  KeepsLast(s, rest, m - u, limit, cutoff) /\ m - u \in 1..Len(s)
  <2> DEFINE p == m - u
  <2>1. /\ p \in 1..Len(s) /\ p <= m /\ m \in Nat
        /\ \A i \in 1..p : u + i \in 1..m /\ start + (u + i) - 1 = Len(s) - p + i
        /\ \A k \in Len(s) - p + 1..Len(s) : k \in start..Len(s)
        /\ u = 0 => \A k \in 1..Len(s) - p : k \in 1..start - 1
    BY <1>1, PlacesLeft DEF m
  <2>2. p = limit + 1 \/ (u = 0 /\ p <= limit + 1)
    BY <1>4, <1>5
  <2>3. Len(rest) = p /\ \A i \in 1..p : rest[i] = inSpan[u + i]
    BY <1>5
  <2> HIDE DEF p
  <2>4. \A i \in 1..p : rest[i] = s[Len(s) - p + i]
    BY <1>3, <2>1, <2>3
  <2>5. \A k \in Len(s) - p + 1..Len(s) : s[k] > cutoff
    BY <2>1 DEF InFrom
  <2>6. p = limit + 1 \/ \A k \in 1..Len(s) - p : s[k] <= cutoff
    BY <2>1, <2>2 DEF FirstIn
  <2>7. p <= limit + 1
    BY <2>2
  <2>8. KeepsLast(s, rest, p, limit, cutoff)
    BY <2>1, <2>3, <2>4, <2>5, <2>6, <2>7 DEF KeepsLast
  <2> QED
    BY <2>1, <2>8 DEF p
<1>6. CASE surplus > 0
  <2>1. surplus \in 0..m - 1 /\ m - surplus = limit + 1
    BY <1>3, <1>4, <1>6, <1>9
  <2> DEFINE first == surplus + 1
  <2>2. first \in Int /\ m \in Int /\ first <= m /\ m - first + 1 = m - surplus
    BY <1>4, <2>1
  <2>3. \A i \in first..m : inSpan[i] \in T
    BY <1>3, <1>4, <2>1
  <2>4. rest = SubSeq(inSpan, first, m)
    BY <1>3, <1>6, <1>8
  <2>5. \A i \in 1..m - surplus : first + i - 1 = surplus + i
    BY <1>4, <2>1
  <2> HIDE DEF first
  <2>6. /\ SubSeq(inSpan, first, m) \in Seq(T)
        /\ Len(SubSeq(inSpan, first, m)) = m - first + 1
        /\ \A i \in 1..m - first + 1 : SubSeq(inSpan, first, m)[i] = inSpan[first + i - 1]
    BY <2>2, <2>3, SubSeqProperties
  <2>7. rest \in Seq(T) /\ Len(rest) = m - surplus
    BY <2>2, <2>4, <2>6
  <2>8. \A i \in 1..m - surplus : rest[i] = inSpan[surplus + i]
    BY <2>2, <2>4, <2>5, <2>6, Zenon
  <2> QED
    BY <1>5, <2>1, <2>7, <2>8, Zenon
<1>7. CASE ~(surplus > 0)
  <2>1. 0 \in 0..m - 1 /\ m <= limit + 1 /\ m - 0 = m /\ \A i \in 1..m : 0 + i = i
    BY <1>3, <1>4, <1>7, <1>9
  <2>2. rest = inSpan
    BY <1>7, <1>8
  <2>3. Len(rest) = m - 0 /\ \A i \in 1..m - 0 : rest[i] = inSpan[0 + i]
    BY <1>3, <2>1, <2>2
  <2> QED
    BY <1>3, <1>5, <2>1, <2>2, <2>3, Zenon
<1> QED
  BY <1>6, <1>7

\* What is kept of a member's timestamps, in order and with the new one at the end.
LEMMA CheckKeepsLast ==
  ASSUME FrequencyNumbers,
         NEW s \in Seq(0..LastMoment), s # <<>>, s[Len(s)] = now,
         InOrder(s),
         NEW rest, rest = Frequency!LastNeeded(Frequency!InSpan(s))
  PROVE  /\ rest \in Seq(0..LastMoment)
         /\ \E p \in 1..Len(s) : KeepsLast(s, rest, p, settings.limit, now - settings.span)
<1> DEFINE cutoff == now - settings.span
           limit == settings.limit
           start == CHOOSE i \in 1..Len(s) + 1 : FirstIn(s, i, cutoff)
<1>1. cutoff \in Int /\ limit \in Nat /\ s[Len(s)] > cutoff
  BY DEF FrequencyNumbers
<1>2. s \in Seq(Int) /\ Len(s) \in Nat \ {0} /\ 0..LastMoment \in SUBSET Int
  BY DEF FrequencyNumbers
<1>3. Frequency!InSpan(s) = SubSeq(s, start, Len(s))
  BY DEF FirstIn, Frequency!InSpan
<1>4. rest = CutTo(s, start, limit)
  BY <1>3 DEF Frequency!LastNeeded, CutTo
<1> HIDE DEF cutoff, limit
<1>5. start \in 1..Len(s) + 1 /\ FirstIn(s, start, cutoff)
  BY <1>1, <1>2, LoopStops
<1> HIDE DEF start
<1>6. start \in 1..Len(s) /\ InFrom(s, start, cutoff)
  BY <1>1, <1>2, <1>5, LoopStops DEF InFrom
<1>7. rest \in Seq(0..LastMoment) /\ \E p \in 1..Len(s) : KeepsLast(s, rest, p, limit, cutoff)
  BY <1>1, <1>2, <1>4, <1>5, <1>6, KeepsFrom
<1> QED
  BY <1>7 DEF limit, cutoff

\* What a clean-up drops is out of the time frame, whatever is forgotten besides.
LEMMA CleanedRightly ==
  ASSUME FrequencyNumbers, FrequencyInv
  PROVE  /\ Frequency!Cleaned \in {times, <<>>}
         /\ Frequency!Cleaned # times =>
              \A i \in 1..Len(checks) : checks[i].time <= now - settings.span
<1> USE DEF FrequencyNumbers
<1>1. CASE Frequency!CleanupDue /\ times # <<>> /\ times[Len(times)] <= now - settings.span
  <2>1. times \in Seq(0..LastMoment) /\ checks \in Seq(Frequency!Check)
    BY DEF FrequencyInv, Frequency!TypeOK
  <2>2. Len(times) \in Nat \ {0} /\ Len(checks) \in Nat
    BY <1>1, <2>1
  <2>3. Len(checks) \in DOMAIN checks /\ checks[Len(checks)].time <= now - settings.span
    <3>1. /\ Forgotten >= 0 /\ Forgotten = Len(checks) - Len(times)
          /\ times[Len(times)] = checks[Forgotten + Len(times)].time
      BY <2>2 DEF FrequencyInv, TimesAreLast, Forgotten
    <3>2. Forgotten + Len(times) = Len(checks) /\ Len(checks) \in 1..Len(checks)
      BY <2>2, <3>1
    <3> QED
      BY <1>1, <2>1, <3>1, <3>2
  <2>4. \A i \in 1..Len(checks) : checks[i] \in Frequency!Check
    BY <2>1
  <2>5. \A i \in 1..Len(checks) : checks[i].time \in 0..LastMoment
    BY <2>4 DEF Frequency!Check
  <2>6. \A i \in 1..Len(checks) : checks[i].time <= checks[Len(checks)].time
    BY <2>2, <2>3 DEF FrequencyInv, ChecksInOrder
  <2>7. \A i \in 1..Len(checks) : checks[i].time <= now - settings.span
    BY <2>2, <2>3, <2>5, <2>6
  <2> QED
    BY <1>1, <2>7 DEF Frequency!Cleaned
<1>2. CASE ~(Frequency!CleanupDue /\ times # <<>> /\ times[Len(times)] <= now - settings.span)
  BY <1>2 DEF Frequency!Cleaned
<1> QED
  BY <1>1, <1>2

\* The verdict on the i-th of the checks cs is right.
FrameOf(cs, i) == {j \in 1..i : cs[j].time > cs[i].time - cs[i].settings.span}
Exact(cs, i) ==
  LET many == Cardinality(FrameOf(cs, i)) > cs[i].settings.limit IN
  /\ cs[i].tooFast => many
  /\ many /\ (\A j \in FrameOf(cs, i) : cs[j].changes = cs[i].changes) => cs[i].tooFast

\* The property is that every verdict is right.
LEMMA ExactChecks ==
  /\ FrequencyIsExact <=> \A i \in DOMAIN checks : Exact(checks, i)
  /\ FrequencyIsExact' <=> \A i \in DOMAIN checks' : Exact(checks', i)
BY Zenon DEF FrequencyIsExact, Frequency!FrequencyIsExact, Frequency!TooMany, Frequency!Frame,
       Exact, FrameOf, Cardinality, Frequency!Cardinality

\* The verdicts of before stay right.
LEMMA ExactStays ==
  ASSUME NEW n \in Nat, NEW cs, NEW ds, \A j \in 1..n : ds[j] = cs[j],
         NEW i \in 1..n, Exact(cs, i)
  PROVE  Exact(ds, i)
<1>1. \A j \in 1..i : j \in 1..n /\ ds[j] = cs[j]
  OBVIOUS
<1>2. FrameOf(ds, i) = FrameOf(cs, i) /\ ds[i] = cs[i]
  BY <1>1 DEF FrameOf
<1>3. \A j \in FrameOf(cs, i) : ds[j] = cs[j]
  BY <1>1 DEF FrameOf
<1> QED
  BY <1>2, <1>3 DEF Exact

\* The last verdict is right: the p last messages are in the time frame, and no other of those
\* under the settings in force, unless p are too many.
LEMMA LastIsExact ==
  ASSUME NEW n \in Nat \ {0}, NEW cs, \A j \in 1..n : cs[j].time \in Int,
         NEW p \in 1..n, NEW limit \in Nat, NEW cutoff \in Int,
         cutoff = cs[n].time - cs[n].settings.span, limit = cs[n].settings.limit,
         cs[n].tooFast <=> p > limit,
         \A j \in n - p + 1..n : cs[j].time > cutoff,
         \A j \in 1..n - p : cs[j].changes = cs[n].changes => cs[j].time <= cutoff \/ p > limit
  PROVE  Exact(cs, n)
<1> DEFINE F == FrameOf(cs, n)
           Lasts == n - p + 1..n
<1>1. F = {j \in 1..n : cs[j].time > cutoff}
  BY DEF FrameOf
<1> HIDE DEF F
<1>2. IsFiniteSet(1..n) /\ IsFiniteSet(Lasts) /\ Cardinality(Lasts) = p
  <2> DEFINE first == n - p + 1
  <2>1. first \in Int /\ n \in Int /\ 1 \in Int /\ ~(first > n) /\ n - first + 1 = p
    OBVIOUS
  <2> HIDE DEF first
  <2>2. IsFiniteSet(1..n) /\ IsFiniteSet(first..n) /\ Cardinality(first..n) = n - first + 1
    BY <2>1, FS_Interval
  <2> QED
    BY <2>1, <2>2 DEF first
<1>3. IsFiniteSet(F) /\ Cardinality(F) \in Nat
  BY <1>1, <1>2, FS_Subset, FS_CardinalityType
<1>4. Lasts \subseteq F
  BY <1>1
<1>5. p <= Cardinality(F)
  BY <1>2, <1>3, <1>4, FS_Subset
<1>6. cs[n].tooFast => Cardinality(F) > limit
  BY <1>3, <1>5
<1>7. ASSUME Cardinality(F) > limit, \A j \in F : cs[j].changes = cs[n].changes, ~(p > limit)
      PROVE  FALSE
  <2>1. ASSUME NEW j \in F PROVE j \in Lasts
    <3>1. j \in 1..n /\ cs[j].time > cutoff /\ cs[j].time \in Int
      BY <1>1, <2>1
    <3>2. j \notin 1..n - p
      BY <1>7, <2>1, <3>1
    <3> QED
      BY <3>1, <3>2
  <2>2. Cardinality(F) <= p
    BY <1>2, <2>1, FS_Subset
  <2> QED
    BY <1>3, <1>7, <2>2
<1> QED
  BY <1>6, <1>7 DEF Exact, F

\* The checks and what is remembered, with the new message in its place.
LEMMA NewMessage ==
  ASSUME ServicesAssumption, FrequencyInv, Frequency!CheckMessage,
         NEW s, s = Append(Frequency!Cleaned, now)
  PROVE  LET n == Len(checks')
             m == Len(s)
             cutoff == now - settings.span IN
         /\ checks' \in Seq(Frequency!Check) /\ n = Len(checks) + 1
         /\ \A j \in 1..Len(checks) : checks'[j] = checks[j]
         /\ checks'[n].time = now /\ checks'[n].settings = settings
         /\ checks'[n].changes = mfChanges
         /\ checks'[n].tooFast <=> Len(times') > settings.limit
         /\ ChecksInOrder'
         /\ s \in Seq(0..LastMoment) /\ m \in 1..n
         /\ \A k \in 1..m : s[k] = checks'[n - m + k].time
         /\ \A j \in 1..n - m : checks'[j].changes = mfChanges =>
              checks'[j].time <= cutoff \/ m > settings.limit + 1
<1> DEFINE n == Len(checks) + 1
           cutoff == now - settings.span
           tooMany == Len(times') > settings.limit
           new == [time |-> now, settings |-> settings, changes |-> mfChanges,
                   tooFast |-> tooMany]
<1>1. FrequencyNumbers /\ checks \in Seq(Frequency!Check) /\ times \in Seq(0..LastMoment)
  BY FrequencyState DEF FrequencyInv, Frequency!TypeOK
<1>2. new \in Frequency!Check
  BY <1>1 DEF FrequencyNumbers, Frequency!Check
<1>3. checks' = Append(checks, new) /\ UNCHANGED <<now, settings, mfChanges>>
  BY DEF Frequency!CheckMessage
<1> HIDE DEF new
<1>4. /\ checks' \in Seq(Frequency!Check) /\ Len(checks') = n /\ n \in Nat \ {0}
      /\ \A j \in 1..Len(checks) : checks'[j] = checks[j]
      /\ checks'[n] = new
  BY <1>1, <1>2, <1>3
<1>5. /\ checks'[n].time = now /\ checks'[n].settings = settings
      /\ checks'[n].changes = mfChanges
      /\ checks'[n].tooFast <=> Len(times') > settings.limit
  <2> HIDE DEF tooMany
  <2>1. checks'[n].time = now /\ checks'[n].settings = settings
        /\ checks'[n].changes = mfChanges /\ checks'[n].tooFast = tooMany
    BY <1>4 DEF new
  <2> QED
    BY <2>1, Zenon DEF tooMany
<1>6. Len(checks) \in Nat /\ \A j \in 1..n : checks'[j] \in Frequency!Check
  BY <1>1, <1>4
<1>7. \A j \in 1..n : checks'[j].time \in 0..LastMoment /\ checks'[j].time <= now
                      /\ checks'[j].changes <= mfChanges
  <2>1. \A j \in 1..Len(checks) : checks[j].time <= now /\ checks[j].changes <= mfChanges
    BY <1>1 DEF FrequencyInv, ChecksInOrder
  <2>2. now <= now /\ mfChanges <= mfChanges
    BY <1>1 DEF FrequencyNumbers
  <2>3. \A j \in 1..n : j \in 1..Len(checks) \/ j = n
    BY <1>6
  <2>4. \A j \in 1..n : checks'[j].time \in 0..LastMoment
    BY <1>6 DEF Frequency!Check
  <2> QED
    BY <1>4, <1>5, <2>1, <2>2, <2>3, <2>4, Zenon
<1>8. ChecksInOrder'
  <2>1. ASSUME NEW i \in 1..n, NEW j \in 1..i PROVE checks'[j].time <= checks'[i].time
    <3>1. CASE i = n
      <4>1. j \in 1..n
        BY <1>6
      <4> QED
        BY <1>5, <1>7, <3>1, <4>1
    <3>2. CASE i # n
      <4>1. i \in 1..Len(checks) /\ j \in 1..Len(checks)
        BY <1>6, <3>2
      <4> QED
        BY <1>1, <1>4, <4>1 DEF FrequencyInv, ChecksInOrder
    <3> QED
      BY <3>1, <3>2
  <2>2. DOMAIN checks' = 1..n
    BY <1>4
  <2> QED
    BY <1>3, <1>7, <2>1, <2>2 DEF ChecksInOrder
<1>9. ASSUME Frequency!Cleaned = times
      PROVE  /\ s \in Seq(0..LastMoment) /\ Len(s) \in 1..n
             /\ \A k \in 1..Len(s) : s[k] = checks'[n - Len(s) + k].time
             /\ \A j \in 1..n - Len(s) : checks'[j].changes = mfChanges =>
                  checks'[j].time <= cutoff \/ Len(s) > settings.limit + 1
  <2>1. now \in 0..LastMoment /\ settings.limit \in Nat
    BY <1>1 DEF FrequencyNumbers
  <2>2. /\ s \in Seq(0..LastMoment) /\ Len(s) = Len(times) + 1 /\ Len(times) \in Nat
        /\ s[Len(s)] = now /\ \A k \in 1..Len(times) : s[k] = times[k]
    BY <1>1, <1>9, <2>1
  <2>3. Len(times) <= Len(checks)
    BY <1>6, <2>2 DEF FrequencyInv, TimesAreLast, Forgotten
  <2>4. Len(s) \in 1..n /\ n - Len(s) = Forgotten /\ Forgotten \in Nat
    BY <1>6, <2>2, <2>3 DEF Forgotten
  <2>5. ASSUME NEW k \in 1..Len(s) PROVE s[k] = checks'[Forgotten + k].time
    <3>1. CASE k = Len(s)
      <4>1. Forgotten + k = n
        BY <2>4, <3>1, <1>6
      <4> QED
        BY <1>5, <2>2, <3>1, <4>1
    <3>2. CASE k # Len(s)
      <4>1. k \in 1..Len(times) /\ Forgotten + k \in 1..Len(checks)
        BY <1>6, <2>2, <2>4, <3>2
      <4> QED
        BY <1>4, <2>2, <4>1 DEF FrequencyInv, TimesAreLast
    <3> QED
      BY <3>1, <3>2
  <2>6. ASSUME NEW j \in 1..Forgotten, checks'[j].changes = mfChanges
        PROVE  checks'[j].time <= cutoff \/ Len(s) > settings.limit + 1
    <3>1. j \in 1..Len(checks) /\ checks'[j] = checks[j]
      BY <1>4, <1>6, <2>2, <2>4 DEF Forgotten
    <3>2. checks[j].time <= cutoff \/ Len(times) > settings.limit
      BY <2>6, <3>1 DEF FrequencyInv, ForgottenRightly
    <3> QED
      BY <2>1, <2>2, <3>1, <3>2
  <2> QED
    BY <2>2, <2>4, <2>5, <2>6, Zenon
<1>10. ASSUME Frequency!Cleaned # times
       PROVE  /\ s \in Seq(0..LastMoment) /\ Len(s) \in 1..n
              /\ \A k \in 1..Len(s) : s[k] = checks'[n - Len(s) + k].time
              /\ \A j \in 1..n - Len(s) : checks'[j].changes = mfChanges =>
                   checks'[j].time <= cutoff \/ Len(s) > settings.limit + 1
  <2>1. /\ Frequency!Cleaned = <<>>
        /\ \A i \in 1..Len(checks) : checks[i].time <= cutoff
    BY <1>1, <1>10, CleanedRightly
  <2>2. now \in 0..LastMoment
    BY <1>1 DEF FrequencyNumbers
  <2>3. s \in Seq(0..LastMoment) /\ Len(s) = 1 /\ s[1] = now
    BY <2>1, <2>2
  <2>4. n - 1 = Len(checks) /\ 1 \in 1..n /\ n - 1 + 1 = n /\ \A k \in 1..1 : k = 1
    BY <1>6
  <2>5. \A k \in 1..Len(s) : s[k] = checks'[n - Len(s) + k].time
    BY <1>5, <2>3, <2>4, Zenon
  <2>6. \A j \in 1..n - Len(s) : checks'[j].time <= cutoff
    BY <1>4, <2>1, <2>3, <2>4, Zenon
  <2>7. Len(s) \in 1..n
    BY <2>3, <2>4
  <2> QED
    BY <2>3, <2>5, <2>6, <2>7, Zenon
<1> QED
  BY <1>4, <1>5, <1>8, <1>9, <1>10, Zenon

\* A check finds what is right, and what it forgets is forgotten rightly.
LEMMA CheckKept ==
  ASSUME ServicesAssumption, FrequencyInv, Frequency!CheckMessage
  PROVE  FrequencyInv'
<1> DEFINE s == Append(Frequency!Cleaned, now)
           n == Len(checks')
           m == Len(s)
           cutoff == now - settings.span
           limit == settings.limit
<1>1. FrequencyNumbers /\ checks \in Seq(Frequency!Check) /\ times \in Seq(0..LastMoment)
  BY FrequencyState DEF FrequencyInv, Frequency!TypeOK
<1>2. /\ checks' \in Seq(Frequency!Check) /\ n = Len(checks) + 1
      /\ \A j \in 1..Len(checks) : checks'[j] = checks[j]
      /\ checks'[n].time = now /\ checks'[n].settings = settings
      /\ checks'[n].changes = mfChanges
      /\ checks'[n].tooFast <=> Len(times') > settings.limit
      /\ ChecksInOrder'
      /\ s \in Seq(0..LastMoment) /\ m \in 1..n
      /\ \A k \in 1..m : s[k] = checks'[n - m + k].time
      /\ \A j \in 1..n - m : checks'[j].changes = mfChanges =>
           checks'[j].time <= cutoff \/ m > limit + 1
  BY NewMessage
<1>3. /\ times' = Frequency!LastNeeded(Frequency!InSpan(s))
      /\ cleanedAt' = Frequency!CleanedAt /\ UNCHANGED <<settings, now, mfChanges>>
  BY DEF Frequency!CheckMessage
<1> HIDE DEF s
<1>4. n \in Nat \ {0} /\ m \in Nat \ {0} /\ \A k \in 1..m : n - m + k \in 1..n
  BY <1>1, <1>2
<1> HIDE DEF m, n, cutoff, limit
<1>5. \A j \in 1..n : checks'[j].time \in Int
  <2>1. \A j \in 1..n : checks'[j] \in Frequency!Check
    BY <1>2 DEF n
  <2> QED
    BY <1>1, <2>1 DEF Frequency!Check, FrequencyNumbers
<1>6. \A i \in 1..n : \A j \in 1..i : checks'[j].time <= checks'[i].time
  <2>1. DOMAIN checks' = 1..n
    BY <1>2 DEF n
  <2> QED
    BY <1>2, <2>1 DEF ChecksInOrder
<1>7. InOrder(s)
  <2> SUFFICES ASSUME NEW i \in 1..m, NEW j \in 1..i PROVE s[j] <= s[i]
    BY DEF InOrder, m
  <2>1. j \in 1..m /\ n - m + i \in 1..n /\ n - m + j \in 1..n - m + i
    BY <1>4
  <2> QED
    BY <1>2, <1>6, <2>1
<1>8. s # <<>> /\ s[Len(s)] = now
  <2>1. m \in 1..m /\ n - m + m = n
    BY <1>4
  <2>2. s[m] = now
    BY <1>2, <2>1
  <2>3. Len(s) # 0
    BY <1>4 DEF m
  <2> QED
    BY <2>2, <2>3 DEF m
<1>9. /\ times' \in Seq(0..LastMoment)
      /\ \E p \in 1..m : KeepsLast(s, times', p, limit, cutoff)
  BY <1>1, <1>2, <1>3, <1>7, <1>8, CheckKeepsLast DEF m, limit, cutoff
<1>10. PICK p \in 1..m : KeepsLast(s, times', p, limit, cutoff)
  BY <1>9
<1>11. /\ p \in Nat \ {0} /\ p <= n /\ Len(times') = p /\ p <= limit + 1
       /\ limit \in Nat /\ cutoff \in Int
  <2>1. p \in Nat \ {0} /\ p <= n
    BY <1>2, <1>4, <1>10
  <2>2. Len(times') = p /\ p <= limit + 1
    BY <1>10 DEF KeepsLast
  <2>3. limit \in Nat /\ cutoff \in Int
    BY <1>1 DEF FrequencyNumbers, limit, cutoff
  <2> QED
    BY <2>1, <2>2, <2>3
<1>12. TimesAreLast'
  <2>1. ASSUME NEW k \in 1..p PROVE times'[k] = checks'[n - p + k].time
    <3>1. m - p + k \in 1..m /\ n - m + (m - p + k) = n - p + k
      BY <1>4, <1>10, <1>11
    <3>2. times'[k] = s[m - p + k]
      BY <1>10, <2>1 DEF KeepsLast, m
    <3> QED
      BY <1>2, <3>1, <3>2
  <2>2. n - p >= 0
    BY <1>4, <1>11
  <2>3. Forgotten' = n - p /\ Len(times') = p
    BY <1>11 DEF Forgotten, n
  <2> QED
    BY <2>1, <2>2, <2>3 DEF TimesAreLast
<1>13. ASSUME NEW j \in n - p + 1..n PROVE checks'[j].time > cutoff
  <2>1. j - (n - m) \in m - p + 1..m /\ j - (n - m) \in 1..m /\ n - m + (j - (n - m)) = j
    BY <1>4, <1>10, <1>11
  <2>2. s[j - (n - m)] > cutoff
    BY <1>10, <2>1 DEF KeepsLast, m
  <2> QED
    BY <1>2, <2>1, <2>2
<1>14. ASSUME NEW j \in 1..n - p, checks'[j].changes = mfChanges
       PROVE  checks'[j].time <= cutoff \/ p > limit
  <2>1. CASE p = limit + 1
    BY <1>11, <2>1
  <2>2. CASE p # limit + 1
    <3>1. \A k \in 1..m - p : s[k] <= cutoff
      BY <1>10, <2>2 DEF KeepsLast, m
    <3>2. CASE j \in 1..n - m
      <4>1. CASE m > limit + 1
        <5>1. /\ 1 \in 1..m - p /\ 1 \in 1..m /\ n - m + 1 \in 1..n
              /\ j \in 1..n - m + 1
          BY <1>4, <1>10, <1>11, <3>2, <4>1
        <5>2. s[1] <= cutoff /\ s[1] = checks'[n - m + 1].time
          BY <1>2, <3>1, <5>1
        <5>3. checks'[j].time <= checks'[n - m + 1].time
          BY <1>6, <5>1
        <5>4. checks'[j].time \in Int /\ checks'[n - m + 1].time \in Int
          BY <1>4, <1>5, <5>1, <1>14, <1>11
        <5> QED
          BY <1>11, <5>2, <5>3, <5>4
      <4> QED
        BY <1>2, <1>14, <3>2, <4>1
    <3>3. CASE j \notin 1..n - m
      <4>1. j - (n - m) \in 1..m - p /\ j - (n - m) \in 1..m /\ n - m + (j - (n - m)) = j
        BY <1>4, <1>10, <1>11, <3>3
      <4> QED
        BY <1>2, <3>1, <4>1
    <3> QED
      BY <3>2, <3>3
  <2> QED
    BY <2>1, <2>2
<1>15. ForgottenRightly'
  <2>1. Forgotten' = n - p /\ Len(times') = p
    BY <1>11 DEF Forgotten, n
  <2> QED
    BY <1>3, <1>14, <2>1 DEF ForgottenRightly, cutoff, limit
<1>16. FrequencyIsExact'
  <2>1. Exact(checks', n)
    <3>1. p \in 1..n
      BY <1>4, <1>11
    <3>2. cutoff = checks'[n].time - checks'[n].settings.span /\ limit = checks'[n].settings.limit
      BY <1>2 DEF cutoff, limit
    <3>3. checks'[n].tooFast <=> p > limit
      BY <1>2, <1>11 DEF limit
    <3>4. \A j \in 1..n - p : checks'[j].changes = checks'[n].changes =>
            checks'[j].time <= cutoff \/ p > limit
      BY <1>2, <1>14
    <3> QED
      BY <1>4, <1>5, <1>11, <1>13, <3>1, <3>2, <3>3, <3>4, LastIsExact
  <2>2. \A i \in 1..Len(checks) : Exact(checks', i)
    <3>1. DOMAIN checks = 1..Len(checks) /\ Len(checks) \in Nat
      BY <1>1
    <3>2. \A i \in 1..Len(checks) : Exact(checks, i)
      BY <3>1, ExactChecks DEF FrequencyInv
    <3> QED
      BY <1>2, <3>1, <3>2, ExactStays
  <2>3. DOMAIN checks' = 1..n
    BY <1>2 DEF n
  <2>4. \A i \in 1..n : i \in 1..Len(checks) \/ i = n
    BY <1>1, <1>2
  <2> QED
    BY <2>1, <2>2, <2>3, <2>4, ExactChecks
<1>17. Frequency!TypeOK'
  <2>1. cleanedAt' \in (-CleanupEvery)..LastMoment
    BY <1>1, <1>3 DEF FrequencyNumbers, Frequency!CleanedAt
  <2> QED
    BY <1>2, <1>3, <1>9, <2>1 DEF FrequencyInv, Frequency!TypeOK
<1> QED
  BY <1>2, <1>12, <1>15, <1>16, <1>17 DEF FrequencyInv
\* The other steps leave the verdicts as they are, and the messages in order.
LEMMA VerdictsKept ==
  ASSUME ServicesAssumption, FrequencyInv, checks' = checks,
         now' \in Int, now' >= now, mfChanges' \in Int, mfChanges' >= mfChanges
  PROVE  FrequencyIsExact' /\ ChecksInOrder'
<1>1. FrequencyNumbers /\ \A j \in DOMAIN checks : checks[j] \in Frequency!Check
  BY FrequencyState DEF FrequencyInv, Frequency!TypeOK
<1>2. \A j \in DOMAIN checks : checks[j].time \in Int /\ checks[j].changes \in Int
  BY <1>1 DEF Frequency!Check, FrequencyNumbers
<1>3. \A j \in DOMAIN checks : checks[j].time <= now' /\ checks[j].changes <= mfChanges'
  BY <1>1, <1>2 DEF FrequencyInv, ChecksInOrder, FrequencyNumbers
<1>4. ChecksInOrder'
  BY <1>3 DEF FrequencyInv, ChecksInOrder
<1> QED
  BY <1>4, ExactChecks DEF FrequencyInv

\* What a clean-up after another member's message drops was out of the time frame.
LEMMA TrafficKept ==
  ASSUME ServicesAssumption, FrequencyInv, Frequency!Traffic
  PROVE  FrequencyInv'
<1>1. FrequencyNumbers /\ checks \in Seq(Frequency!Check) /\ times \in Seq(0..LastMoment)
  BY FrequencyState DEF FrequencyInv, Frequency!TypeOK
<1>2. /\ times' = Frequency!Cleaned /\ cleanedAt' = Frequency!CleanedAt
      /\ UNCHANGED <<settings, now, checks, mfChanges>>
  BY DEF Frequency!Traffic
<1>3. FrequencyIsExact' /\ ChecksInOrder'
  BY <1>1, <1>2, VerdictsKept DEF FrequencyNumbers
<1>4. times' \in Seq(0..LastMoment)
  <2>1. <<>> \in Seq(0..LastMoment)
    OBVIOUS
  <2> QED
    BY <1>1, <1>2, <2>1, CleanedRightly
<1>5. Frequency!TypeOK'
  <2>1. cleanedAt' \in (-CleanupEvery)..LastMoment
    BY <1>1, <1>2 DEF FrequencyNumbers, Frequency!CleanedAt
  <2> QED
    BY <1>2, <1>4, <2>1 DEF FrequencyInv, Frequency!TypeOK
<1>6. TimesAreLast' /\ ForgottenRightly'
  <2>1. CASE times' = times
    BY <1>2, <2>1 DEF FrequencyInv, TimesAreLast, ForgottenRightly, Forgotten
  <2>2. CASE times' # times
    <3>1. /\ times' = <<>>
          /\ \A i \in 1..Len(checks) : checks[i].time <= now - settings.span
      BY <1>1, <1>2, <2>2, CleanedRightly
    <3>2. Forgotten' = Len(checks) /\ Len(checks) \in Nat /\ Len(times') = 0
      BY <1>1, <1>2, <3>1 DEF Forgotten
    <3> QED
      BY <1>2, <3>1, <3>2 DEF TimesAreLast, ForgottenRightly
  <2> QED
    BY <2>1, <2>2
<1> QED
  BY <1>3, <1>5, <1>6 DEF FrequencyInv

\* As time passes, what was out of the time frame stays out of it.
LEMMA FrequencyTickKept ==
  ASSUME ServicesAssumption, FrequencyInv, Frequency!Tick
  PROVE  FrequencyInv'
<1>1. FrequencyNumbers /\ checks \in Seq(Frequency!Check) /\ times \in Seq(0..LastMoment)
  BY FrequencyState DEF FrequencyInv, Frequency!TypeOK
<1>2. /\ now < LastMoment /\ now' = now + 1
      /\ UNCHANGED <<settings, times, cleanedAt, checks, mfChanges>>
  BY DEF Frequency!Tick
<1>3. now' \in 0..LastMoment /\ now' >= now
  BY <1>1, <1>2 DEF FrequencyNumbers
<1>4. FrequencyIsExact' /\ ChecksInOrder'
  BY <1>1, <1>2, <1>3, VerdictsKept DEF FrequencyNumbers
<1>5. Frequency!TypeOK'
  BY <1>2, <1>3 DEF FrequencyInv, Frequency!TypeOK
<1>6. TimesAreLast' /\ Forgotten' = Forgotten
  BY <1>2 DEF FrequencyInv, TimesAreLast, Forgotten
<1>7. ASSUME NEW j \in 1..Forgotten, checks[j].changes = mfChanges
      PROVE  checks[j].time <= now' - settings.span \/ Len(times) > settings.limit
  <2>1. checks[j].time <= now - settings.span \/ Len(times) > settings.limit
    BY <1>7 DEF FrequencyInv, ForgottenRightly
  <2>2. Len(checks) \in Nat /\ Len(times) \in Nat
    BY <1>1
  <2>3. j \in 1..Len(checks)
    BY <1>7, <2>2 DEF Forgotten
  <2>4. checks[j] \in Frequency!Check
    BY <1>1, <2>3
  <2>5. checks[j].time \in Int
    BY <1>1, <2>4 DEF Frequency!Check, FrequencyNumbers
  <2>6. now \in Int /\ now' = now + 1 /\ settings.span \in Int
    BY <1>1, <1>2 DEF FrequencyNumbers
  <2>7. checks[j].time <= now - settings.span => checks[j].time <= now' - settings.span
    BY <2>5, <2>6
  <2> QED
    BY <2>1, <2>7
<1>8. ForgottenRightly'
  BY <1>2, <1>6, <1>7 DEF ForgottenRightly
<1> QED
  BY <1>4, <1>5, <1>6, <1>8 DEF FrequencyInv

\* After a restart or under other settings no message is of those settings yet.
LEMMA ChangeKept ==
  ASSUME ServicesAssumption, FrequencyInv, Frequency!Restart \/ Frequency!ChangeSettings
  PROVE  FrequencyInv'
<1>1. FrequencyNumbers /\ checks \in Seq(Frequency!Check) /\ times \in Seq(0..LastMoment)
  BY FrequencyState DEF FrequencyInv, Frequency!TypeOK
<1>2. /\ mfChanges < FrequencyChanges /\ mfChanges' = mfChanges + 1
      /\ UNCHANGED <<now, checks>> /\ settings' \in Frequency!Settings
  BY <1>1 DEF Frequency!Restart, Frequency!ChangeSettings, FrequencyNumbers
<1>3. \/ times' = <<>> /\ cleanedAt' = -CleanupEvery
      \/ times' = times /\ cleanedAt' = cleanedAt
  BY DEF Frequency!Restart, Frequency!ChangeSettings
<1>4. mfChanges' \in 0..FrequencyChanges /\ mfChanges' > mfChanges
  BY <1>1, <1>2 DEF FrequencyNumbers
<1>5. FrequencyIsExact' /\ ChecksInOrder'
  BY <1>1, <1>2, <1>4, VerdictsKept DEF FrequencyNumbers
<1>6. -CleanupEvery \in (-CleanupEvery)..LastMoment /\ <<>> \in Seq(0..LastMoment)
  BY <1>1 DEF FrequencyNumbers
<1>7. Frequency!TypeOK'
  BY <1>2, <1>3, <1>4, <1>6 DEF FrequencyInv, Frequency!TypeOK
<1>8. Len(checks) \in Nat /\ Len(times) \in Nat /\ Len(times') \in Nat
  BY <1>1, <1>3, <1>6
<1>9. TimesAreLast'
  <2>1. CASE times' = <<>>
    BY <1>2, <1>8, <2>1 DEF TimesAreLast, Forgotten
  <2>2. CASE times' = times
    BY <1>2, <2>2 DEF FrequencyInv, TimesAreLast, Forgotten
  <2> QED
    BY <1>3, <2>1, <2>2
<1>10. ASSUME NEW j \in 1..Forgotten' PROVE checks[j].changes # mfChanges'
  <2>1. j \in DOMAIN checks
    BY <1>1, <1>2, <1>8, <1>10 DEF Forgotten
  <2>2. checks[j] \in Frequency!Check /\ checks[j].changes <= mfChanges
    BY <1>1, <2>1 DEF FrequencyInv, ChecksInOrder
  <2>3. checks[j].changes \in Int
    BY <1>1, <2>2 DEF Frequency!Check, FrequencyNumbers
  <2> QED
    BY <1>1, <1>4, <2>2, <2>3 DEF FrequencyNumbers
<1>11. ForgottenRightly'
  BY <1>2, <1>10 DEF ForgottenRightly
<1> QED
  BY <1>5, <1>7, <1>9, <1>11 DEF FrequencyInv

\* The invariant of the remembered messages, in every behaviour of the services.
LEMMA FrequencyKept ==
  ASSUME ServicesAssumption
  PROVE  Spec => []FrequencyInv
<1>1. Init => FrequencyInv
  <2> SUFFICES ASSUME Init
               PROVE  FrequencyInv
    OBVIOUS
  <2>1. /\ settings \in Frequency!Settings /\ now = 0 /\ times = <<>>
        /\ cleanedAt = -CleanupEvery /\ checks = <<>> /\ mfChanges = 0
    BY DEF Init, Frequency!Init
  <2>2. LastMoment \in Nat /\ FrequencyChanges \in Nat /\ CleanupEvery \in Nat \ {0}
    BY DEF ServicesAssumption, Frequency!MessageFrequencyAssumption
  <2>3. /\ 0 \in 0..LastMoment /\ 0 \in 0..FrequencyChanges
        /\ -CleanupEvery \in (-CleanupEvery)..LastMoment
    BY <2>2
  <2>4. Frequency!TypeOK
    BY <2>1, <2>3 DEF Frequency!TypeOK
  <2>5. Forgotten = 0 /\ Len(times) = 0 /\ DOMAIN checks = {}
    BY <2>1 DEF Forgotten
  <2>6. ChecksInOrder /\ TimesAreLast /\ ForgottenRightly
    BY <2>5 DEF ChecksInOrder, TimesAreLast, ForgottenRightly
  <2>7. FrequencyIsExact
    BY <2>5, ExactChecks
  <2> QED
    BY <2>4, <2>6, <2>7 DEF FrequencyInv
<1>2. FrequencyInv /\ [Next]_vars => FrequencyInv'
  <2> SUFFICES ASSUME FrequencyInv, [Next]_vars
               PROVE  FrequencyInv'
    OBVIOUS
  <2>1. CASE Frequency!Next
    BY <2>1, CheckKept, TrafficKept, FrequencyTickKept, ChangeKept DEF Frequency!Next
  <2>2. CASE UNCHANGED frequencyVars
    <3>1. UNCHANGED <<settings, now, times, cleanedAt, checks, mfChanges>>
      BY <2>2 DEF frequencyVars
    <3>2. Frequency!TypeOK'
      BY <3>1 DEF FrequencyInv, Frequency!TypeOK
    <3>3. FrequencyIsExact'
      BY <3>1, ExactChecks DEF FrequencyInv
    <3>4. ChecksInOrder' /\ TimesAreLast' /\ ForgottenRightly'
      BY <3>1 DEF FrequencyInv, ChecksInOrder, TimesAreLast, ForgottenRightly, Forgotten
    <3> QED
      BY <3>2, <3>3, <3>4 DEF FrequencyInv
  <2> QED
    BY <2>1, <2>2, FrequencySteps
<1> QED
  BY <1>1, <1>2, PTL DEF Spec

\* HeuristicService: timestamps that are cut off, capped or cleaned up change no verdict.  A
\* member's message is found too fast only if too many were written in its time frame, and
\* whenever there were under the same settings and without a restart.
THEOREM FrequencyStaysExact ==
  ASSUME ServicesAssumption
  PROVE  Spec => []FrequencyIsExact
<1>1. FrequencyInv => FrequencyIsExact
  BY DEF FrequencyInv
<1> QED
  BY <1>1, FrequencyKept, PTL
============================================================================
