------------------------ MODULE CaseLifecycleProofs ------------------------
(***************************************************************************)
(* Proofs about CaseLifecycle.  The model lets any kinds of handlers be in   *)
(* flight together that Parallel names.  What is proved holds whatever       *)
(* resolutions run beside each other, as long as openings run alone (two of  *)
(* them at once open two cases, and one beside a ban writes over its         *)
(* outcome); a verification or a close releases the member as long as        *)
(* nothing that writes pending rows back runs beside it.                     *)
(***************************************************************************)
EXTENDS CaseLifecycle, TLAPS

---------------------------------------------------------------------------
(* What the steps do to the handlers *)

\* Handler h, and no other, has moved on: these are its local variables now.
Steps(h, at, obj, seen, todo, mine, flag) ==
  /\ handler' \in [Handler -> Local]
  /\ \A g \in Handler : g # h => handler'[g] = handler[g]
  /\ handler'[h].kind = handler[h].kind /\ handler'[h].at = at
  /\ handler'[h].obj = obj /\ handler'[h].seen = seen /\ handler'[h].todo = todo
  /\ handler'[h].mine = mine /\ handler'[h].flag = flag
\* Handler h, and no other, has ended.
Ended(h) ==
  /\ handler' \in [Handler -> Local]
  /\ \A g \in Handler : g # h => handler'[g] = handler[g]
  /\ handler'[h] = Idle

\* The record of a handler, field by field.
LEMMA HandlerTyped ==
  ASSUME TypeOK, NEW h \in Handler
  PROVE  /\ handler \in [Handler -> Local] /\ handler[h] \in Local
         /\ handler[h].kind \in Kind /\ handler[h].at \in Step
         /\ handler[h].obj \in Case \cup {0} /\ handler[h].seen \in [Case -> Row]
         /\ handler[h].todo \subseteq Case /\ handler[h].mine \in Thread \cup {0}
         /\ handler[h].flag \in BOOLEAN
  BY DEF TypeOK, Local

\* A handler at rest is a handler, and holds no case.
LEMMA IdleTyped ==
  /\ NoRow \in Row /\ Idle \in Local
  /\ Idle.kind = "open" /\ Idle.at = "idle" /\ Idle.obj = 0 /\ Idle.todo = {}
  /\ Idle.seen = [c \in Case |-> NoRow] /\ Idle.mine = 0 /\ Idle.flag = FALSE
<1>1. NoRow \in Row
  BY DEF NoRow, Row
<1>2. Idle \in Local
  BY <1>1 DEF Idle, Local, Kind, Opener, Step
<1>3. QED
  BY <1>1, <1>2 DEF Idle

\* The handler goes to a step and keeps its local variables.
LEMMA GotoSteps ==
  ASSUME TypeOK, NEW h \in Handler, NEW step \in Step, Goto(h, step)
  PROVE  Steps(h, step, handler[h].obj, handler[h].seen, handler[h].todo, handler[h].mine,
               handler[h].flag)
<1>1. handler \in [Handler -> Local] /\ handler[h] \in Local
  BY HandlerTyped
<1>2. handler' = [handler EXCEPT ![h] = [handler[h] EXCEPT !.at = step]]
  BY DEF Goto
<1>3. [handler[h] EXCEPT !.at = step] \in Local
  BY <1>1 DEF Local
<1>4. QED
  BY <1>1, <1>2, <1>3 DEF Steps, Local

\* The handler goes on with another copy of its case.
LEMMA HoldSteps ==
  ASSUME TypeOK, NEW h \in Handler, NEW step \in Step,
         NEW row, handler[h].obj \in Case => row \in Row, Hold(h, row, step)
  PROVE  Steps(h, step, handler[h].obj, [handler[h].seen EXCEPT ![handler[h].obj] = row],
               handler[h].todo, handler[h].mine, handler[h].flag)
<1> DEFINE seen == [handler[h].seen EXCEPT ![handler[h].obj] = row]
<1>1. handler \in [Handler -> Local] /\ handler[h] \in Local
  BY HandlerTyped
<1>2. handler[h].seen \in [Case -> Row]
  BY HandlerTyped
<1>3. seen \in [Case -> Row]
  BY <1>2
<1>4. handler' = [handler EXCEPT ![h] = [handler[h] EXCEPT !.at = step, !.seen = seen]]
  BY <1>1 DEF Hold
<1> HIDE DEF seen
<1>5. [handler[h] EXCEPT !.at = step, !.seen = seen] \in Local
  BY <1>1, <1>3 DEF Local
<1>6. QED
  BY <1>1, <1>4, <1>5 DEF Steps, Local, seen

\* The handler ends.
LEMMA ReturnEnds ==
  ASSUME TypeOK, NEW h \in Handler, Return(h)
  PROVE  Ended(h)
  BY HandlerTyped, IdleTyped DEF Return, Ended

\* One round of a loop over the rows: the next round, or what follows the loop.
LEMMA NextRoundSteps ==
  ASSUME TypeOK, NEW h \in Handler, NEW c \in handler[h].todo, NEW after \in Step,
         NextRound(h, c, after)
  PROVE  \/ /\ handler[h].todo # {c}
            /\ Steps(h, handler[h].at, handler[h].obj, handler[h].seen, handler[h].todo \ {c},
                     handler[h].mine, handler[h].flag)
         \/ handler[h].todo = {c} /\ after = "idle" /\ Ended(h)
         \/ /\ handler[h].todo = {c} /\ after # "idle"
            /\ Steps(h, after, handler[h].obj, handler[h].seen, Held(h), handler[h].mine,
                     handler[h].flag)
<1>0. handler \in [Handler -> Local] /\ handler[h] \in Local
  BY HandlerTyped
<1>1. CASE handler[h].todo # {c}
  <2>1. handler' = [handler EXCEPT ![h] = [handler[h] EXCEPT !.todo = @ \ {c}]]
    BY <1>1 DEF NextRound
  <2>2. [handler[h] EXCEPT !.todo = @ \ {c}] \in Local
    BY <1>0 DEF Local
  <2>3. QED
    BY <1>0, <1>1, <2>1, <2>2 DEF Steps, Local
<1>2. CASE handler[h].todo = {c} /\ after = "idle"
  BY <1>2, ReturnEnds DEF NextRound
<1>3. CASE handler[h].todo = {c} /\ after # "idle"
  <2>1. handler' = [handler EXCEPT ![h] = [handler[h] EXCEPT !.todo = Held(h), !.at = after]]
    BY <1>0, <1>3 DEF NextRound
  <2>2. [handler[h] EXCEPT !.todo = Held(h), !.at = after] \in Local
    BY <1>0 DEF Local, Held
  <2>3. QED
    BY <1>0, <1>3, <2>1, <2>2 DEF Steps, Local
<1>4. QED
  BY <1>1, <1>2, <1>3

\* The handler goes on with the pending cases.
LEMMA HoldPendingSteps ==
  ASSUME TypeOK, NEW h \in Handler, NEW step \in Step, NEW flag \in BOOLEAN,
         HoldPending(h, step, flag)
  PROVE  /\ Steps(h, step, handler[h].obj,
                  [c \in Case |-> IF c \in Pending(rows) THEN rows[c] ELSE NoRow],
                  Pending(rows), handler[h].mine, flag)
         /\ UNCHANGED <<rows, world, mark, cut, counters>>
<1> DEFINE seen == [c \in Case |-> IF c \in Pending(rows) THEN rows[c] ELSE NoRow]
<1>1. handler \in [Handler -> Local] /\ handler[h] \in Local
  BY HandlerTyped
<1>2. seen \in [Case -> Row] /\ Pending(rows) \subseteq Case
  BY IdleTyped DEF TypeOK, Pending
<1>3. handler' = [handler EXCEPT ![h] =
        [handler[h] EXCEPT !.seen = seen, !.todo = Pending(rows), !.flag = flag, !.at = step]]
  BY <1>1 DEF HoldPending
<1> HIDE DEF seen
<1>4. [handler[h] EXCEPT !.seen = seen, !.todo = Pending(rows), !.flag = flag, !.at = step] \in Local
  BY <1>1, <1>2 DEF Local
<1>5. Steps(h, step, handler[h].obj, seen, Pending(rows), handler[h].mine, flag)
  BY <1>1, <1>3, <1>4 DEF Steps, Local
<1>6. QED
  BY <1>5 DEF HoldPending, seen

\* A handler starts, alone or beside kinds that may be.
LEMMA StartSteps ==
  ASSUME TypeOK, NEW h \in Handler, NEW kind \in Kinds, Start(h, kind)
  PROVE  /\ kind \in Kind /\ At(h, "idle") /\ handler' \in [Handler -> Local]
         /\ \A g \in Handler : g # h => handler'[g] = handler[g]
         /\ \A g \in InFlight : {kind, handler[g].kind} \subseteq Parallel
         /\ \E c \in Case \cup {0} :
              /\ kind = "reopen" => c \in Case
              /\ kind # "reopen" => c = 0
              /\ handler'[h].kind = kind /\ handler'[h].at = FirstStep(kind)
              /\ handler'[h].obj = c /\ handler'[h].todo = {}
              /\ handler'[h].seen = [d \in Case |-> IF d = c THEN rows[d] ELSE NoRow]
         /\ MayStart(kind)
         /\ UNCHANGED <<rows, world, mark, cut, moves, mishaps>>
<1>1. kind \in Kind
  BY CaseLifecycleAssumption
<1>2. FirstStep(kind) \in Step
  BY <1>1 DEF FirstStep, Step
<1>3. PICK c \in IF kind = "reopen" THEN {d \in Case : rows[d].status \in Outcome} ELSE {0} :
        handler' = [handler EXCEPT ![h] =
          [Idle EXCEPT !.kind = kind, !.at = FirstStep(kind), !.obj = c,
                       !.seen = [d \in Case |-> IF d = c THEN rows[d] ELSE NoRow]]]
  BY DEF Start
<1> DEFINE seen == [d \in Case |-> IF d = c THEN rows[d] ELSE NoRow]
<1>4. seen \in [Case -> Row]
  BY IdleTyped DEF TypeOK
<1> HIDE DEF seen
<1>5. handler \in [Handler -> Local]
  BY HandlerTyped
<1>6. handler' = [handler EXCEPT ![h] =
        [Idle EXCEPT !.kind = kind, !.at = FirstStep(kind), !.obj = c, !.seen = seen]]
  BY <1>3 DEF seen
<1>7. /\ kind = "reopen" => c \in Case
      /\ kind # "reopen" => c = 0
      /\ c \in Case \cup {0}
  BY <1>3
<1>8. [Idle EXCEPT !.kind = kind, !.at = FirstStep(kind), !.obj = c, !.seen = seen] \in Local
  BY <1>1, <1>2, <1>4, <1>7, IdleTyped DEF Local
<1>9. /\ handler' \in [Handler -> Local]
      /\ \A g \in Handler : g # h => handler'[g] = handler[g]
  BY <1>5, <1>6, <1>8
<1>10. /\ handler'[h].kind = kind /\ handler'[h].at = FirstStep(kind)
       /\ handler'[h].obj = c /\ handler'[h].todo = {} /\ handler'[h].seen = seen
  BY <1>5, <1>6, IdleTyped DEF Local
<1>11. /\ At(h, "idle") /\ \A g \in InFlight : {kind, handler[g].kind} \subseteq Parallel
       /\ MayStart(kind) /\ UNCHANGED <<rows, world, mark, cut, moves, mishaps>>
  BY DEF Start
<1>12. QED
  BY <1>1, <1>7, <1>9, <1>10, <1>11 DEF seen

\* The newest pending case is taken up, or a new one created.
LEMMA TakeUpSteps ==
  ASSUME TypeOK, NEW h \in Handler, NEW c \in Case, NEW row \in Row, NEW step \in Step,
         handler' = [handler EXCEPT ![h].obj = c, ![h].seen[c] = row, ![h].at = step]
  PROVE  Steps(h, step, c, [handler[h].seen EXCEPT ![c] = row], handler[h].todo,
               handler[h].mine, handler[h].flag)
<1> DEFINE seen == [handler[h].seen EXCEPT ![c] = row]
<1>1. handler \in [Handler -> Local] /\ handler[h] \in Local
  BY HandlerTyped
<1>2. seen \in [Case -> Row]
  BY HandlerTyped
<1>3. /\ handler'[h].kind = handler[h].kind /\ handler'[h].at = step
      /\ handler'[h].obj = c /\ handler'[h].seen = seen /\ handler'[h].todo = handler[h].todo
      /\ handler'[h].mine = handler[h].mine /\ handler'[h].flag = handler[h].flag
  BY <1>1 DEF Local
<1>4. \A g \in Handler : g # h => handler'[g] = handler[g]
  BY <1>1
<1> DEFINE r == [handler[h] EXCEPT !.obj = c, !.seen[c] = row, !.at = step]
<1>5. handler' = [handler EXCEPT ![h] = r]
  BY <1>1
<1>6. r.seen = seen
  BY <1>1 DEF Local
<1>7. r \in Local
  BY <1>1, <1>2, <1>6 DEF Local
<1>8. QED
  BY <1>1, <1>3, <1>4, <1>5, <1>7 DEF Steps

\* An unused thread is created, and the handler holds its id.
LEMMA CreateThreadSteps ==
  ASSUME TypeOK, NEW h \in Handler, CreateThread(h)
  PROVE  \E t \in Thread :
           /\ threads[t] = "none" /\ threads' = [threads EXCEPT ![t] = "open"]
           /\ Steps(h, "store", handler[h].obj, handler[h].seen, handler[h].todo, t,
                    handler[h].flag)
<1>1. PICK t \in Unused :
        /\ threads' = [threads EXCEPT ![t] = "open"]
        /\ handler' = [handler EXCEPT ![h].mine = t, ![h].at = "store"]
  BY DEF CreateThread
<1>2. t \in Thread /\ threads[t] = "none"
  BY DEF Unused
<1>3. handler \in [Handler -> Local] /\ handler[h] \in Local
  BY HandlerTyped
<1>4. handler' = [handler EXCEPT ![h] = [handler[h] EXCEPT !.mine = t, !.at = "store"]]
  BY <1>1, <1>3
<1>5. [handler[h] EXCEPT !.mine = t, !.at = "store"] \in Local
  BY <1>2, <1>3 DEF Local, Step
<1>6. Steps(h, "store", handler[h].obj, handler[h].seen, handler[h].todo, t, handler[h].flag)
  BY <1>3, <1>4, <1>5 DEF Steps, Local
<1>7. QED
  BY <1>1, <1>2, <1>6

\* The second loop of a handler begins: over the cases it holds.
LEMMA LoopSteps ==
  ASSUME TypeOK, NEW h \in Handler, NEW step \in Step,
         handler' = [handler EXCEPT ![h].todo = Held(h), ![h].at = step]
  PROVE  Steps(h, step, handler[h].obj, handler[h].seen, Held(h), handler[h].mine,
               handler[h].flag)
<1>1. handler \in [Handler -> Local] /\ handler[h] \in Local
  BY HandlerTyped
<1>2. handler' = [handler EXCEPT ![h] = [handler[h] EXCEPT !.todo = Held(h), !.at = step]]
  BY <1>1
<1>3. [handler[h] EXCEPT !.todo = Held(h), !.at = step] \in Local
  BY <1>1 DEF Local, Held
<1>4. QED
  BY <1>1, <1>2, <1>3 DEF Steps, Local

\* The steps that a handler goes on with.
LEMMA StepsAreSteps ==
  ASSUME NEW h \in Handler
  PROVE  /\ AfterRole(h) \in Step /\ AfterThread(h) \in Step
         /\ AfterFailedThread(h) \in Step /\ AfterWrite(h) \in Step
         /\ OutcomeOf(handler[h].kind) \in {"none", "pending"} \cup Outcome
  BY DEF AfterRole, AfterThread, AfterFailedThread, AfterWrite, OutcomeOf, Outcome, Step

\* A failure is recorded with the case, and the handler ends or goes on with it.
LEMMA RecordFailureSteps ==
  ASSUME TypeOK, NEW h \in Handler, NEW what \in {"role", "thread"}, NEW step \in Step,
         RecordFailure(h, what, step)
  PROVE  /\ rows' \in [Case -> Row]
         /\ rows' = [rows EXCEPT ![handler[h].obj].failed =
                       handler[h].seen[handler[h].obj].failed \cup {what}]
         /\ \/ step = "idle" /\ Ended(h)
            \/ /\ step # "idle"
               /\ Steps(h, step, handler[h].obj,
                        [handler[h].seen EXCEPT ![handler[h].obj] = rows'[handler[h].obj]],
                        handler[h].todo, handler[h].mine, handler[h].flag)
<1> DEFINE c == handler[h].obj
<1>1. rows' = [rows EXCEPT ![c].failed = handler[h].seen[c].failed \cup {what}]
  BY DEF RecordFailure
<1>2. c \in Case => handler[h].seen[c].failed \cup {what} \subseteq {"role", "thread"}
  BY HandlerTyped DEF Row
<1>3. rows' \in [Case -> Row]
  <2>1. rows \in [Case -> Row]
    BY DEF TypeOK
  <2>2. c \in Case => [rows[c] EXCEPT !.failed = handler[h].seen[c].failed \cup {what}] \in Row
    BY <1>2, <2>1 DEF Row
  <2>3. rows' = [rows EXCEPT ![c] = [rows[c] EXCEPT !.failed = handler[h].seen[c].failed \cup {what}]]
    BY <1>1, <2>1
  <2>4. QED
    BY <2>1, <2>2, <2>3
<1>4. CASE step = "idle"
  BY <1>1, <1>3, <1>4, ReturnEnds DEF RecordFailure
<1>5. CASE step # "idle"
  <2>1. Hold(h, rows'[c], step)
    BY <1>5 DEF RecordFailure
  <2>2. c \in Case => rows'[c] \in Row
    BY <1>3
  <2>3. QED
    BY <1>1, <1>3, <1>5, <2>1, <2>2, HoldSteps
<1>6. QED
  BY <1>4, <1>5

---------------------------------------------------------------------------
(* Types *)

\* The types hold at the start.
LEMMA InitTyped == Init => TypeOK
<1> SUFFICES ASSUME Init PROVE TypeOK
  OBVIOUS
<1>1. rows \in [Case -> Row] /\ handler \in [Handler -> Local]
  BY IdleTyped DEF Init
<1>2. threads \in [Thread -> {"none", "open", "closed"}]
  BY DEF Init
<1>3. member \in [present : BOOLEAN, banned : BOOLEAN, role : BOOLEAN]
  BY DEF Init
<1>4. starts \in 0..MaxStarts /\ moves \in 0..MaxMoves /\ mishaps \in 0..MaxMishaps
  BY CaseLifecycleAssumption DEF Init
<1>5. QED
  BY <1>1, <1>2, <1>3, <1>4 DEF Init, TypeOK

\* A step of an opening keeps the types.
LEMMA OpenTyped ==
  ASSUME TypeOK, NEW h \in Handler, Open(h)
  PROVE  TypeOK'
<1> USE DEF world, counters
<1>0. /\ handler[h].kind \in Kind /\ handler[h].at \in Step
      /\ {"look", "create", "role", "mark", "join", "route", "clear", "store", "unarchive"}
           \subseteq Step
      /\ handler[h].obj \in Case \cup {0} /\ handler[h].seen \in [Case -> Row]
      /\ handler[h].mine \in Thread \cup {0}
  BY HandlerTyped DEF Step
<1>bound. mishaps' = mishaps \/ Mishap => mishaps' \in 0..MaxMishaps
  BY CaseLifecycleAssumption DEF Mishap, TypeOK
<1>1. CASE FindCase(h)
  <2>1. handler' \in [Handler -> Local]
    <3>1. CASE Pending(rows) # {}
      <4>1. PICK c \in Pending(rows) :
              handler' = [handler EXCEPT ![h].obj = c, ![h].seen[c] = rows[c],
                            ![h].at = IF handler[h].kind = "repair" THEN "role" ELSE "look"]
        BY <1>1, <3>1 DEF FindCase
      <4>2. c \in Case /\ rows[c] \in Row
        BY DEF Pending, TypeOK
      <4>3. (IF handler[h].kind = "repair" THEN "role" ELSE "look") \in Step
        BY <1>0
      <4>4. QED
        BY <4>1, <4>2, <4>3, TakeUpSteps DEF Steps
    <3>2. CASE Pending(rows) = {}
      BY <1>0, <1>1, <3>2, ReturnEnds, GotoSteps DEF FindCase, Ended, Steps
    <3>3. QED
      BY <3>1, <3>2
  <2>2. QED
    BY <1>1, <2>1 DEF FindCase, TypeOK
<1>2. CASE LookAtMark(h)
  <2>1. (IF mark THEN AfterRole(h) ELSE "role") \in Step
    BY <1>0, StepsAreSteps
  <2>2. handler' \in [Handler -> Local]
    BY <1>2, <2>1, GotoSteps DEF LookAtMark, Steps
  <2>3. QED
    BY <1>2, <2>2 DEF LookAtMark, TypeOK
<1>3. CASE CreateCase(h)
  <2>1. PICK c \in Case :
          /\ rows' = [rows EXCEPT ![c].status = "pending"]
          /\ handler' = [handler EXCEPT ![h].obj = c, ![h].seen[c] = rows'[c], ![h].at = "role"]
    BY <1>3 DEF CreateCase
  <2>2. rows' \in [Case -> Row]
    BY <2>1 DEF TypeOK, Row
  <2>3. handler' \in [Handler -> Local]
    BY <1>0, <2>1, <2>2, TakeUpSteps DEF Steps
  <2>4. QED
    BY <1>3, <2>2, <2>3 DEF CreateCase, TypeOK
<1>4. CASE AssignRole(h)
  <2>1. handler' \in [Handler -> Local]
    BY <1>0, <1>4, GotoSteps DEF AssignRole, Steps
  <2>2. QED
    BY <1>4, <2>1 DEF AssignRole, TypeOK
<1>5. CASE FailRole(h)
  <2>1. CASE handler[h].kind = "reopen"
    <3>1. handler' \in [Handler -> Local]
      BY <1>5, <2>1, ReturnEnds DEF FailRole, Ended
    <3>2. cut' \subseteq Kind \X Step
      BY <1>0, <1>5, <2>1 DEF FailRole, TypeOK, Kind, Opener
    <3>3. QED
      BY <1>5, <1>bound, <2>1, <3>1, <3>2 DEF FailRole, TypeOK
  <2>2. CASE handler[h].kind # "reopen"
    <3>1. handler' \in [Handler -> Local] /\ rows' \in [Case -> Row]
      BY <1>5, <2>2, StepsAreSteps, RecordFailureSteps DEF FailRole, Ended, Steps
    <3>2. QED
      BY <1>5, <1>bound, <2>2, <3>1 DEF FailRole, TypeOK
  <2>3. QED
    BY <2>1, <2>2
<1>6. CASE MarkRole(h)
  <2>1. handler[h].obj \in Case => rows[handler[h].obj] \in Row
    BY DEF TypeOK
  <2>2. handler' \in [Handler -> Local]
    BY <1>0, <1>6, <2>1, StepsAreSteps, GotoSteps, HoldSteps DEF MarkRole, Steps
  <2>3. QED
    BY <1>6, <2>2 DEF MarkRole, TypeOK
<1>7. CASE CreateThread(h)
  <2>1. handler' \in [Handler -> Local]
        /\ threads' \in [Thread -> {"none", "open", "closed"}]
    BY <1>7, CreateThreadSteps DEF TypeOK, Steps
  <2>2. QED
    BY <1>7, <2>1 DEF CreateThread, TypeOK
<1>8. CASE StoreThread(h)
  <2>1. handler[h].obj \in Case =>
          [handler[h].seen[handler[h].obj] EXCEPT !.thread = handler[h].mine] \in Row
    BY <1>0 DEF Row
  <2>2. handler' \in [Handler -> Local]
    BY <1>0, <1>8, <2>1, HoldSteps DEF StoreThread, Steps
  <2>3. QED
    BY <1>8, <2>1, <2>2 DEF StoreThread, TypeOK
<1>9. CASE JoinThread(h)
  <2>1. handler' \in [Handler -> Local]
    BY <1>0, <1>9, GotoSteps DEF JoinThread, Steps
  <2>2. QED
    BY <1>9, <2>1 DEF JoinThread, TypeOK
<1>10. CASE RouteThread(h)
  <2>1. handler' \in [Handler -> Local]
    BY <1>10, StepsAreSteps, GotoSteps DEF RouteThread, Steps
  <2>2. QED
    BY <1>0, <1>10, <2>1 DEF RouteThread, TypeOK
<1>11. CASE FailThread(h)
  <2>1. handler' \in [Handler -> Local] /\ rows' \in [Case -> Row]
    BY <1>11, StepsAreSteps, RecordFailureSteps DEF FailThread, Ended, Steps
  <2>2. QED
    BY <1>11, <1>bound, <2>1 DEF FailThread, TypeOK
<1>12. CASE RejoinThread(h)
  <2>1. handler' \in [Handler -> Local]
    BY <1>0, <1>12, GotoSteps DEF RejoinThread, Steps
  <2>2. QED
    BY <1>12, <2>1 DEF RejoinThread, TypeOK
<1>13. CASE ClearFailure(h)
  <2>1. handler' \in [Handler -> Local]
    BY <1>13, ReturnEnds DEF ClearFailure, Ended
  <2>2. rows' \in [Case -> Row]
    <3> DEFINE c == handler[h].obj
    <3>1. c \in Case => [rows[c] EXCEPT !.failed = handler[h].seen[c].failed \ {"thread"}] \in Row
      <4>1. c \in Case => rows[c] \in Row /\ handler[h].seen[c] \in Row
        BY <1>0 DEF TypeOK
      <4> HIDE DEF c
      <4> QED
        BY <4>1 DEF Row
    <3>2. \/ rows' = rows
          \/ rows' = [rows EXCEPT ![c] = [rows[c] EXCEPT !.failed = handler[h].seen[c].failed \ {"thread"}]]
      <4>1. \/ rows' = rows
            \/ rows' = [rows EXCEPT ![c].failed = handler[h].seen[c].failed \ {"thread"}]
        BY <1>13 DEF ClearFailure
      <4>2. QED
        BY <4>1 DEF TypeOK
    <3>3. QED
      BY <3>1, <3>2 DEF TypeOK
  <2>3. QED
    BY <1>13, <2>1, <2>2 DEF ClearFailure, TypeOK
<1>14. CASE Notify(h)
  <2>1. handler' \in [Handler -> Local]
    BY <1>14, ReturnEnds DEF Notify, Ended
  <2>2. rows' \in [Case -> Row]
    <3> DEFINE c == handler[h].obj
    <3>1. c \in Case => [rows[c] EXCEPT !.alert = TRUE] \in Row
      <4>1. ASSUME NEW row \in Row, NEW b \in BOOLEAN PROVE [row EXCEPT !.alert = b] \in Row
        BY DEF Row
      <4>2. QED
        BY <4>1 DEF TypeOK
    <3>2. rows' = [rows EXCEPT ![c] = [rows[c] EXCEPT !.alert = TRUE]]
      <4>1. rows' = [rows EXCEPT ![c].alert = TRUE]
        BY <1>14 DEF Notify
      <4>2. QED
        BY <4>1 DEF TypeOK
    <3>3. QED
      BY <3>1, <3>2 DEF TypeOK
  <2>3. QED
    BY <1>14, <2>1, <2>2 DEF Notify, TypeOK
<1>15. CASE ReopenCase(h)
  <2>1. handler' \in [Handler -> Local]
    BY <1>0, <1>15, GotoSteps DEF ReopenCase, Steps
  <2>2. rows' \in [Case -> Row]
    <3> DEFINE c == handler[h].obj
    <3>1. c \in Case => [rows[c] EXCEPT !.status = "pending"] \in Row
      BY DEF TypeOK, Row
    <3>2. rows' = [rows EXCEPT ![c] = [rows[c] EXCEPT !.status = "pending"]]
      <4>1. rows' = [rows EXCEPT ![c].status = "pending"]
        BY <1>15 DEF ReopenCase
      <4>2. QED
        BY <4>1 DEF TypeOK
    <3>3. QED
      BY <3>1, <3>2 DEF TypeOK
  <2>3. QED
    BY <1>15, <2>1, <2>2 DEF ReopenCase, TypeOK
<1>16. CASE ReopenThread(h)
  <2>1. handler' \in [Handler -> Local]
    BY <1>16, ReturnEnds DEF ReopenThread, Ended
  <2>2. QED
    BY <1>16, <2>1 DEF ReopenThread, TypeOK
<1>17. QED
  BY <1>1, <1>2, <1>3, <1>4, <1>5, <1>6, <1>7, <1>8, <1>9, <1>10, <1>11, <1>12, <1>13,
     <1>14, <1>15, <1>16 DEF Open

\* The readings of a resolution, as one: it gives up, or goes on with the pending
\* cases to the step that its kind comes to first.
LEMMA ReadSteps ==
  ASSUME TypeOK, NEW h \in Handler,
         \/ ReadToVerify(h) \/ ReadToClose(h) \/ ReadToKick(h) \/ ReadToBan(h)
         \/ ReadToBanById(h) \/ ReadBanned(h) \/ ReadObserved(h)
  PROVE  /\ At(h, "read") /\ handler[h].kind \notin Opener
         /\ UNCHANGED <<rows, threads, member, wasBanned, mark, cut, counters>>
         /\ \/ Ended(h)
            \/ \E step \in Step, flag \in BOOLEAN :
                 /\ Steps(h, step, handler[h].obj,
                          [c \in Case |-> IF c \in Pending(rows) THEN rows[c] ELSE NoRow],
                          Pending(rows), handler[h].mine, flag)
                 /\ step \in {"write", "unrole", "kick", "member", "ban"}
                 /\ step = "write" <=> Pending(rows) # {} /\ handler[h].kind # "kick"
                 /\ step = "unrole" => handler[h].kind = "close"
                 /\ step = "kick" <=> handler[h].kind = "kick"
                 /\ step = "member" => handler[h].kind \in {"ban", "observedKick"}
                 /\ step = "ban" => handler[h].kind = "banById"
                 /\ handler[h].kind = "close" => flag = (member.present /\ mark)
<1> USE DEF Reads, world
<1>1. {"write", "unrole", "kick", "member", "ban"} \subseteq Step
  BY DEF Step
<1>2. (member.present /\ mark) \in BOOLEAN /\ FALSE \in BOOLEAN
  OBVIOUS
<1>3. ASSUME GiveUp(h)
      PROVE  Ended(h) /\ UNCHANGED <<rows, threads, member, wasBanned, mark, cut, counters>>
  BY <1>3, ReturnEnds DEF GiveUp
<1> DEFINE Seen == [c \in Case |-> IF c \in Pending(rows) THEN rows[c] ELSE NoRow]
<1>4. ASSUME NEW step \in Step, NEW flag \in BOOLEAN, HoldPending(h, step, flag)
      PROVE  /\ Steps(h, step, handler[h].obj, Seen, Pending(rows), handler[h].mine, flag)
             /\ UNCHANGED <<rows, threads, member, wasBanned, mark, cut, counters>>
  BY <1>4, HoldPendingSteps
<1> HIDE DEF Seen, world
<1>5. CASE ReadToVerify(h) \/ ReadBanned(h) \/ ReadObserved(h)
  BY <1>1, <1>2, <1>3, <1>4, <1>5 DEF ReadToVerify, ReadBanned, ReadObserved, Seen, Opener
<1>6. CASE ReadToClose(h)
  BY <1>1, <1>2, <1>3, <1>4, <1>6 DEF ReadToClose, Seen, Opener
<1>7. CASE ReadToKick(h)
  BY <1>1, <1>2, <1>4, <1>7 DEF ReadToKick, Seen, Opener
<1>8. CASE ReadToBan(h)
  BY <1>1, <1>2, <1>4, <1>8 DEF ReadToBan, Seen, Opener
<1>9. CASE ReadToBanById(h)
  BY <1>1, <1>2, <1>4, <1>9 DEF ReadToBanById, Seen, Opener
<1>10. QED
  BY <1>5, <1>6, <1>7, <1>8, <1>9

\* A round of the first loop of a resolution writes one row with its outcome.
LEMMA WriteSteps ==
  ASSUME TypeOK, NEW h \in Handler, WriteOutcome(h)
  PROVE  /\ At(h, "write")
         /\ UNCHANGED <<threads, member, wasBanned, mark, cut, counters>>
         /\ \E c \in handler[h].todo :
              /\ rows' \in [Case -> Row]
              /\ rows'[c].status = OutcomeOf(handler[h].kind)
              /\ rows'[c].thread = handler[h].seen[c].thread
              /\ \A d \in Case : d # c => rows'[d] = rows[d]
              /\ \/ /\ handler[h].todo # {c}
                    /\ Steps(h, "write", handler[h].obj, handler[h].seen,
                             handler[h].todo \ {c}, handler[h].mine, handler[h].flag)
                 \/ handler[h].todo = {c} /\ AfterWrite(h) = "idle" /\ Ended(h)
                 \/ /\ handler[h].todo = {c} /\ AfterWrite(h) # "idle"
                    /\ Steps(h, AfterWrite(h), handler[h].obj, handler[h].seen, Held(h),
                             handler[h].mine, handler[h].flag)
<1>1. PICK c \in handler[h].todo :
        /\ rows' = [rows EXCEPT ![c] =
             [handler[h].seen[c] EXCEPT !.status = OutcomeOf(handler[h].kind)]]
        /\ NextRound(h, c, AfterWrite(h))
  BY DEF WriteOutcome
<1>2. c \in Case /\ handler[h].seen[c] \in Row /\ rows \in [Case -> Row]
  BY HandlerTyped DEF TypeOK
<1>3. [handler[h].seen[c] EXCEPT !.status = OutcomeOf(handler[h].kind)] \in Row
  BY <1>2, StepsAreSteps DEF Row
<1>4. /\ rows' \in [Case -> Row]
      /\ rows'[c].status = OutcomeOf(handler[h].kind)
      /\ rows'[c].thread = handler[h].seen[c].thread
      /\ \A d \in Case : d # c => rows'[d] = rows[d]
  BY <1>1, <1>2, <1>3 DEF Row
<1>5. \/ /\ handler[h].todo # {c}
         /\ Steps(h, handler[h].at, handler[h].obj, handler[h].seen,
                  handler[h].todo \ {c}, handler[h].mine, handler[h].flag)
      \/ handler[h].todo = {c} /\ AfterWrite(h) = "idle" /\ Ended(h)
      \/ /\ handler[h].todo = {c} /\ AfterWrite(h) # "idle"
         /\ Steps(h, AfterWrite(h), handler[h].obj, handler[h].seen, Held(h),
                  handler[h].mine, handler[h].flag)
  BY <1>1, StepsAreSteps, NextRoundSteps
<1>6. At(h, "write") /\ handler[h].at = "write"
      /\ UNCHANGED <<threads, member, wasBanned, mark, cut, counters>>
  BY DEF WriteOutcome, At, world
<1>7. QED
  BY <1>4, <1>5, <1>6

\* A round of the loop that takes an outcome back, after a rejected ban.
LEMMA UndoSteps ==
  ASSUME TypeOK, NEW h \in Handler, UndoOutcome(h)
  PROVE  /\ At(h, "undo")
         /\ UNCHANGED <<threads, member, wasBanned, mark, cut, counters>>
         /\ \E c \in handler[h].todo :
              /\ rows' \in [Case -> Row]
              /\ rows'[c] = handler[h].seen[c]
              /\ \A d \in Case : d # c => rows'[d] = rows[d]
              /\ \/ /\ handler[h].todo # {c}
                    /\ Steps(h, "undo", handler[h].obj, handler[h].seen,
                             handler[h].todo \ {c}, handler[h].mine, handler[h].flag)
                 \/ handler[h].todo = {c} /\ Ended(h)
<1>1. PICK c \in handler[h].todo :
        rows' = [rows EXCEPT ![c] = handler[h].seen[c]] /\ NextRound(h, c, "idle")
  BY DEF UndoOutcome
<1>2. c \in Case /\ handler[h].seen[c] \in Row /\ rows \in [Case -> Row]
  BY HandlerTyped DEF TypeOK
<1>3. /\ rows' \in [Case -> Row] /\ rows'[c] = handler[h].seen[c]
      /\ \A d \in Case : d # c => rows'[d] = rows[d]
  BY <1>1, <1>2
<1>4. \/ /\ handler[h].todo # {c}
         /\ Steps(h, handler[h].at, handler[h].obj, handler[h].seen,
                  handler[h].todo \ {c}, handler[h].mine, handler[h].flag)
      \/ handler[h].todo = {c} /\ Ended(h)
  BY <1>1, NextRoundSteps DEF Step
<1>5. At(h, "undo") /\ handler[h].at = "undo"
      /\ UNCHANGED <<threads, member, wasBanned, mark, cut, counters>>
  BY DEF UndoOutcome, At, world
<1>6. QED
  BY <1>3, <1>4, <1>5

\* A round of the last loop of a resolution: the thread of a case is archived.
LEMMA ArchiveSteps ==
  ASSUME TypeOK, NEW h \in Handler, ArchiveThread(h)
  PROVE  /\ At(h, "archive")
         /\ UNCHANGED <<rows, member, wasBanned, mark, cut, starts, moves>>
         /\ threads' \in [Thread -> {"none", "open", "closed"}]
         /\ mishaps' \in 0..MaxMishaps
         /\ \E c \in handler[h].todo :
              /\ \A t \in Thread : threads'[t] # threads[t] => t = handler[h].seen[c].thread
              /\ \/ /\ handler[h].todo # {c}
                    /\ Steps(h, "archive", handler[h].obj, handler[h].seen,
                             handler[h].todo \ {c}, handler[h].mine, handler[h].flag)
                 \/ handler[h].todo = {c} /\ Ended(h)
<1>1. PICK c \in handler[h].todo :
        LET t == handler[h].seen[c].thread IN
        /\ \/ t # 0 /\ threads' = [threads EXCEPT ![t] = "closed"] /\ mishaps' = mishaps
           \/ t = 0 /\ threads' = threads /\ mishaps' = mishaps
           \/ t # 0 /\ threads' = threads /\ Mishap
        /\ NextRound(h, c, "idle")
  BY DEF ArchiveThread
<1>2. /\ threads' \in [Thread -> {"none", "open", "closed"}]
      /\ \A t \in Thread : threads'[t] # threads[t] => t = handler[h].seen[c].thread
  BY <1>1 DEF TypeOK
<1>3. mishaps' \in 0..MaxMishaps
  BY <1>1, CaseLifecycleAssumption DEF TypeOK, Mishap
<1>4. \/ /\ handler[h].todo # {c}
         /\ Steps(h, handler[h].at, handler[h].obj, handler[h].seen,
                  handler[h].todo \ {c}, handler[h].mine, handler[h].flag)
      \/ handler[h].todo = {c} /\ Ended(h)
  BY <1>1, NextRoundSteps DEF Step
<1>5. At(h, "archive") /\ handler[h].at = "archive"
      /\ UNCHANGED <<rows, member, wasBanned, mark, cut, starts, moves>>
  BY DEF ArchiveThread, At
<1>6. QED
  BY <1>2, <1>3, <1>4, <1>5

\* A step of a resolution keeps the types.
LEMMA ResolveTyped ==
  ASSUME TypeOK, NEW h \in Handler, Resolve(h)
  PROVE  TypeOK'
<1> USE DEF counters
<1>1. CASE \/ ReadToVerify(h) \/ ReadToClose(h) \/ ReadToKick(h) \/ ReadToBan(h)
           \/ ReadToBanById(h) \/ ReadBanned(h) \/ ReadObserved(h)
  <2>1. /\ handler' \in [Handler -> Local]
        /\ UNCHANGED <<rows, threads, member, wasBanned, mark, cut, counters>>
    BY <1>1, ReadSteps DEF Ended, Steps
  <2>2. QED
    BY <2>1 DEF TypeOK
<1>2. CASE WriteOutcome(h)
  <2>1. /\ handler' \in [Handler -> Local] /\ rows' \in [Case -> Row]
        /\ UNCHANGED <<threads, member, wasBanned, mark, cut, counters>>
    BY <1>2, WriteSteps DEF Ended, Steps
  <2>2. QED
    BY <2>1 DEF TypeOK
<1>3. CASE RemoveRole(h)
  <2>1. handler' \in [Handler -> Local]
    BY <1>3, GotoSteps DEF RemoveRole, Steps, Step
  <2>2. QED
    BY <1>3, <2>1 DEF RemoveRole, TypeOK
<1>4. CASE ClearMark(h)
  <2>1. handler' \in [Handler -> Local]
    BY <1>4, ReturnEnds, LoopSteps DEF ClearMark, Ended, Steps, Step
  <2>2. QED
    BY <1>4, <2>1 DEF ClearMark, TypeOK, world
<1>5. CASE ArchiveThread(h)
  <2>1. /\ handler' \in [Handler -> Local] /\ mishaps' \in 0..MaxMishaps
        /\ threads' \in [Thread -> {"none", "open", "closed"}]
        /\ UNCHANGED <<rows, member, wasBanned, mark, cut, starts, moves>>
    BY <1>5, ArchiveSteps DEF Ended, Steps
  <2>2. QED
    BY <2>1 DEF TypeOK
<1>6. CASE BanMember(h)
  <2>1. handler' \in [Handler -> Local]
    BY <1>6, GotoSteps DEF BanMember, Steps, Step
  <2>2. QED
    BY <1>6, <2>1 DEF BanMember, TypeOK
<1>7. CASE FailBan(h)
  <2>1. handler' \in [Handler -> Local]
    BY <1>7, ReturnEnds, LoopSteps DEF FailBan, Ended, Steps, Step
  <2>2. mishaps' \in 0..MaxMishaps
    BY <1>7, CaseLifecycleAssumption DEF FailBan, Mishap, TypeOK
  <2>3. QED
    BY <1>7, <2>1, <2>2 DEF FailBan, TypeOK, world
<1>8. CASE UndoOutcome(h)
  <2>1. /\ handler' \in [Handler -> Local] /\ rows' \in [Case -> Row]
        /\ UNCHANGED <<threads, member, wasBanned, mark, cut, counters>>
    BY <1>8, UndoSteps DEF Ended, Steps
  <2>2. QED
    BY <2>1 DEF TypeOK
<1>9. CASE KickMember(h)
  <2>1. handler' \in [Handler -> Local]
    BY <1>9, GotoSteps DEF KickMember, Steps, Step
  <2>2. QED
    BY <1>9, <2>1 DEF KickMember, TypeOK
<1>10. QED
  BY <1>1, <1>2, <1>3, <1>4, <1>5, <1>6, <1>7, <1>8, <1>9 DEF Resolve

\* What the member and other moderators do concerns the member alone.
LEMMA WorldSteps ==
  ASSUME TypeOK, World
  PROVE  /\ UNCHANGED <<rows, threads, mark, handler, cut, starts, mishaps>>
         /\ member' \in [present : BOOLEAN, banned : BOOLEAN, role : BOOLEAN]
         /\ wasBanned' = (wasBanned \/ member'.banned) /\ moves' \in 0..MaxMoves
         /\ member'.role => member.role /\ (member.present => member'.present)
         /\ member'.banned => ~member'.present
<1>1. ASSUME NEW after \in [present : BOOLEAN, banned : BOOLEAN, role : BOOLEAN], Moves(after)
      PROVE  /\ UNCHANGED <<rows, threads, mark, handler, cut, starts, mishaps>>
             /\ member' = after /\ wasBanned' = (wasBanned \/ after.banned)
             /\ moves' \in 0..MaxMoves
  BY <1>1, CaseLifecycleAssumption DEF Moves, TypeOK
<1>2. member \in [present : BOOLEAN, banned : BOOLEAN, role : BOOLEAN]
  BY DEF TypeOK
<1>3. CASE NativeBan
  <2>1. [present |-> FALSE, banned |-> TRUE, role |-> FALSE]
          \in [present : BOOLEAN, banned : BOOLEAN, role : BOOLEAN]
    OBVIOUS
  <2>2. QED
    BY <1>1, <1>3, <2>1 DEF NativeBan
<1>4. CASE Unban
  <2>1. [member EXCEPT !.banned = FALSE]
          \in [present : BOOLEAN, banned : BOOLEAN, role : BOOLEAN]
    BY <1>2
  <2>2. QED
    BY <1>1, <1>2, <1>4, <2>1 DEF Unban
<1>5. CASE Leave
  <2>1. [member EXCEPT !.present = FALSE, !.role = FALSE]
          \in [present : BOOLEAN, banned : BOOLEAN, role : BOOLEAN]
    BY <1>2
  <2>2. QED
    BY <1>1, <1>2, <1>5, <2>1 DEF Leave
<1>6. CASE Rejoin
  <2>1. [member EXCEPT !.present = TRUE]
          \in [present : BOOLEAN, banned : BOOLEAN, role : BOOLEAN]
    BY <1>2
  <2>2. QED
    BY <1>1, <1>2, <1>6, <2>1 DEF Rejoin
<1>7. QED
  BY <1>3, <1>4, <1>5, <1>6 DEF World

\* Every step keeps the types.
LEMMA NextTyped == TypeOK /\ [Next]_vars => TypeOK'
<1> SUFFICES ASSUME TypeOK, [Next]_vars PROVE TypeOK'
  OBVIOUS
<1>1. ASSUME NEW h \in Handler, NEW kind \in Kinds, Start(h, kind) PROVE TypeOK'
  <2>1. /\ handler' \in [Handler -> Local]
        /\ UNCHANGED <<rows, world, mark, cut, moves, mishaps>>
    BY <1>1, StartSteps
  <2>2. starts' \in 0..MaxStarts
    BY <1>1, CaseLifecycleAssumption DEF Start, TypeOK
  <2>3. QED
    BY <2>1, <2>2 DEF TypeOK, world
<1>2. ASSUME NEW h \in Handler, Stop(h) PROVE TypeOK'
  <2>1. handler' \in [Handler -> Local]
    BY <1>2, ReturnEnds DEF Stop, Ended
  <2>2. mishaps' \in 0..MaxMishaps
    BY <1>2, CaseLifecycleAssumption DEF Stop, Mishap, TypeOK
  <2>3. cut' \subseteq Kind \X Step
    BY <1>2, HandlerTyped DEF Stop, TypeOK
  <2>4. QED
    BY <1>2, <2>1, <2>2, <2>3 DEF Stop, TypeOK, world
<1>3. CASE World
  BY <1>3, WorldSteps DEF TypeOK
<1>4. CASE UNCHANGED vars
  BY <1>4 DEF vars, TypeOK
<1>5. QED
  BY <1>1, <1>2, <1>3, <1>4, OpenTyped, ResolveTyped DEF Next

\* The case rows, Discord's state and the handlers keep their types.
THEOREM LifecycleTypeCorrect == Spec => []TypeOK
<1>1. QED
  BY InitTyped, NextTyped, PTL DEF Spec

---------------------------------------------------------------------------
(* The inductive invariant *)

\* No opening, repair or reopening is in flight beside another handler.
OpeningsAlone == Parallel \cap Opener = {}

\* Kinds in flight together are kinds that may be.
Alone ==
  \A g, h \in InFlight : g # h => {handler[g].kind, handler[h].kind} \subseteq Parallel

\* The steps of a kind of handler.
Places(kind) ==
  CASE kind = "open" -> {"find", "look", "create", "role", "mark", "thread", "store",
                         "join", "route", "notify"}
    [] kind = "repair" -> {"find", "role", "mark", "thread", "store", "join", "route",
                           "rejoin", "clear"}
    [] kind = "reopen" -> {"reopen", "role", "mark", "unarchive"}
    [] kind \in {"verify", "close"} -> {"read", "write", "unrole", "member", "archive"}
    [] kind = "kick" -> {"read", "kick", "write", "member", "archive"}
    [] kind = "ban" -> {"ban", "read", "write", "member", "archive"}
    [] kind = "banById" -> {"read", "write", "ban", "member", "archive", "undo"}
    [] kind = "left" -> {"read", "write"}
    [] OTHER -> {"read", "write", "member", "archive"}
InPlace == \A h \in InFlight : handler[h].at \in Places(handler[h].kind)

\* The rows a resolution holds were pending when it read them, and their threads
\* are still those of the cases: writing them back loses no thread.
HoldsWell(h) ==
  /\ handler[h].todo \subseteq Held(h)
  /\ handler[h].at \in {"write", "archive", "undo"} => handler[h].todo # {}
  /\ \A c \in Held(h) : /\ handler[h].seen[c].status = "pending"
                        /\ handler[h].seen[c].thread = rows[c].thread
HoldsRows == \A h \in InFlight : handler[h].kind \notin Opener => HoldsWell(h)

\* An opening holds the row of its pending case, as it is; what it has passed is in it.
CaseOf(h) == handler[h].seen[handler[h].obj]
Opening(h) ==
  h \in InFlight /\ handler[h].kind \in {"open", "repair"}
  /\ handler[h].at \notin {"find", "create"}
OpensWell(h) ==
  /\ handler[h].obj \in Case
  /\ CaseOf(h) = rows[handler[h].obj] /\ CaseOf(h).status = "pending"
  /\ handler[h].at \in {"thread", "store"} => CaseOf(h).thread = 0
  /\ handler[h].at = "store" => handler[h].mine # 0
  /\ handler[h].at \in {"join", "route", "rejoin", "clear"} => CaseOf(h).thread # 0
  /\ handler[h].at = "notify" => CaseOf(h).thread # 0 \/ "thread" \in CaseOf(h).failed
  /\ handler[h].kind = "open" /\ handler[h].at \in {"thread", "store", "join", "route", "notify"}
       => mark \/ "role" \in CaseOf(h).failed
OpensRow == \A h \in Handler : Opening(h) => OpensWell(h)
ReopensWell(h) == handler[h].obj \in Case /\ CaseOf(h).thread = rows[handler[h].obj].thread
ReopensCase == \A h \in InFlight : handler[h].kind = "reopen" => ReopensWell(h)

\* Only a member who is there has roles, and a banned one is not there.
MemberIsOne ==
  /\ member.banned => ~member.present /\ wasBanned
  /\ member.role => member.present

\* The role is marked, or about to be; a resolution that clears the mark has seen
\* the role go.
MarkWasCut == \E pair \in cut : pair[2] = "mark"
Marked == member.role => mark \/ MarkWasCut \/ \E h \in Handler : At(h, "mark")
RoleGone(h) ==
  \/ handler[h].kind \in {"sync", "observedBan", "observedKick", "left"}
  \/ handler[h].kind = "ban" /\ handler[h].at # "ban"
  \/ handler[h].kind \in {"verify", "close", "banById"} /\ handler[h].at \in {"member", "archive"}
  \/ handler[h].kind = "kick" /\ handler[h].at \notin {"read", "kick"}
  \/ handler[h].kind = "close" /\ handler[h].at = "write" /\ ~handler[h].flag
Unroled == \A h \in InFlight : RoleGone(h) => ~member.role \/ MarkWasCut

\* A handler that writes banned knows of a ban, but for the ban by id: it owns the
\* rows it has written until the call has gone through or they are written back.
KnowsOfBan(h) ==
  \/ handler[h].kind \in {"sync", "observedBan"}
  \/ handler[h].kind = "ban" /\ handler[h].at # "ban"
  \/ handler[h].kind = "banById" /\ handler[h].at \in {"member", "archive"}
Owns(h, c) ==
  /\ handler[h].kind = "banById" /\ c \in Held(h)
  /\ \/ handler[h].at = "write" /\ c \notin handler[h].todo
     \/ handler[h].at = "ban"
     \/ handler[h].at = "undo" /\ c \in handler[h].todo
BanWasCut == \E pair \in cut : pair[1] = "banById"
BanKnown == \A h \in InFlight : KnowsOfBan(h) => wasBanned
BanOwned ==
  \A c \in Case : rows[c].status = "banned" =>
    wasBanned \/ BanWasCut \/ \E h \in Handler : Owns(h, c)

LifecycleInv ==
  /\ TypeOK /\ Alone /\ InPlace /\ HoldsRows /\ OpensRow /\ ReopensCase
  /\ MemberIsOne /\ Marked /\ Unroled /\ BanKnown /\ BanOwned /\ ThreadIsRecorded

---------------------------------------------------------------------------
(* Who may be in flight *)

\* Handler h, and no other, moves: it ends, or stays in flight as what it is.
MovesOn(h) ==
  /\ h \in InFlight
  /\ handler' \in [Handler -> Local]
  /\ \A g \in Handler : g # h => handler'[g] = handler[g]
  /\ \/ handler'[h] = Idle
     \/ handler'[h].at # "idle" /\ handler'[h].kind = handler[h].kind

\* A handler that moves is in flight, and starts nothing.
LEMMA HandlerMoves ==
  ASSUME TypeOK, NEW h \in Handler, Stop(h) \/ Open(h) \/ Resolve(h)
  PROVE  MovesOn(h)
<1> USE DEF At, InFlight
<1>0. Step = {"idle"} \cup (Step \ {"idle"})
      /\ {"look", "create", "role", "mark", "join", "route", "clear", "store", "unarchive",
          "read", "member", "archive", "undo", "write", "ban", "kick", "thread"} \subseteq Step
  BY DEF Step
<1>1. ASSUME NEW step \in Step, step # "idle", Goto(h, step), h \in InFlight PROVE MovesOn(h)
  BY <1>1, GotoSteps DEF Steps, MovesOn
<1>2. ASSUME Return(h), h \in InFlight PROVE MovesOn(h)
  BY <1>2, ReturnEnds DEF Ended, MovesOn
<1>3. /\ AfterRole(h) \in Step \ {"idle"} /\ AfterThread(h) \in Step \ {"idle"}
      /\ AfterFailedThread(h) \in Step
  BY DEF AfterRole, AfterThread, AfterFailedThread, Step
<1>4. ASSUME NEW what \in {"role", "thread"}, NEW step \in Step, RecordFailure(h, what, step),
             h \in InFlight
      PROVE  MovesOn(h)
  <2>1. CASE step = "idle"
    <3>1. Ended(h)
      BY <1>4, <2>1, RecordFailureSteps
    <3> QED
      BY <1>4, <3>1 DEF Ended, MovesOn
  <2>2. CASE step # "idle"
    <3>1. Steps(h, step, handler[h].obj,
                [handler[h].seen EXCEPT ![handler[h].obj] = rows'[handler[h].obj]],
                handler[h].todo, handler[h].mine, handler[h].flag)
      BY <1>4, <2>2, RecordFailureSteps
    <3> QED
      BY <1>4, <2>2, <3>1 DEF Steps, MovesOn
  <2> QED
    BY <2>1, <2>2
<1>5. CASE Stop(h)
  BY <1>2, <1>5 DEF Stop
<1>6. CASE FindCase(h)
  <2>1. h \in InFlight
    BY <1>6 DEF FindCase
  <2>2. CASE Pending(rows) # {}
    <3>1. PICK c \in Pending(rows) :
            handler' = [handler EXCEPT ![h].obj = c, ![h].seen[c] = rows[c],
                          ![h].at = IF handler[h].kind = "repair" THEN "role" ELSE "look"]
      BY <1>6, <2>2 DEF FindCase
    <3>2. c \in Case /\ rows[c] \in Row
      BY DEF Pending, TypeOK
    <3>3. (IF handler[h].kind = "repair" THEN "role" ELSE "look") \in Step \ {"idle"}
      BY <1>0
    <3>4. ASSUME NEW step \in Step, step # "idle",
                 handler' = [handler EXCEPT ![h].obj = c, ![h].seen[c] = rows[c], ![h].at = step]
          PROVE  MovesOn(h)
      <4>1. Steps(h, step, c, [handler[h].seen EXCEPT ![c] = rows[c]], handler[h].todo,
                  handler[h].mine, handler[h].flag)
        BY <3>2, <3>4, TakeUpSteps
      <4>2. QED
        BY <2>1, <3>4, <4>1 DEF Steps, MovesOn
    <3>5. QED
      BY <3>1, <3>3, <3>4
  <2>3. CASE Pending(rows) = {}
    BY <1>0, <1>1, <1>2, <1>6, <2>1, <2>3 DEF FindCase
  <2>4. QED
    BY <2>2, <2>3
<1>7. CASE LookAtMark(h)
  BY <1>0, <1>1, <1>3, <1>7 DEF LookAtMark
<1>8. CASE CreateCase(h)
  <2>1. PICK c \in Case :
          /\ rows' = [rows EXCEPT ![c].status = "pending"]
          /\ handler' = [handler EXCEPT ![h].obj = c, ![h].seen[c] = rows'[c], ![h].at = "role"]
    BY <1>8 DEF CreateCase
  <2>2. rows'[c] \in Row
    <3>1. [rows[c] EXCEPT !.status = "pending"] \in Row
      BY DEF TypeOK, Row
    <3>2. QED
      BY <2>1, <3>1 DEF TypeOK
  <2>3. Steps(h, "role", c, [handler[h].seen EXCEPT ![c] = rows'[c]], handler[h].todo,
              handler[h].mine, handler[h].flag)
    BY <1>0, <2>1, <2>2, TakeUpSteps
  <2>4. QED
    BY <1>8, <2>3 DEF Steps, MovesOn, CreateCase
<1>9. CASE AssignRole(h)
  BY <1>0, <1>1, <1>9 DEF AssignRole
<1>10. CASE FailRole(h)
  BY <1>2, <1>3, <1>4, <1>10 DEF FailRole
<1>11. CASE MarkRole(h)
  <2>1. handler[h].obj \in Case => rows[handler[h].obj] \in Row
    BY DEF TypeOK
  <2>2. QED
    BY <1>0, <1>1, <1>3, <1>11, <2>1, HoldSteps DEF Ended, Steps, MovesOn, MarkRole
<1>12. CASE CreateThread(h)
  BY <1>0, <1>12, CreateThreadSteps DEF Ended, Steps, MovesOn, CreateThread
<1>13. CASE StoreThread(h)
  <2>1. handler[h].obj \in Case =>
          [handler[h].seen[handler[h].obj] EXCEPT !.thread = handler[h].mine] \in Row
    BY HandlerTyped DEF Row
  <2>2. QED
    BY <1>0, <1>13, <2>1, HoldSteps DEF Ended, Steps, MovesOn, StoreThread
<1>14. CASE JoinThread(h) \/ RejoinThread(h) \/ ReopenCase(h) \/ RemoveRole(h)
  BY <1>0, <1>1, <1>14 DEF JoinThread, RejoinThread, ReopenCase, RemoveRole
<1>15. CASE RouteThread(h)
  BY <1>1, <1>3, <1>15 DEF RouteThread
<1>16. CASE FailThread(h)
  BY <1>3, <1>4, <1>16 DEF FailThread
<1>17. CASE ClearFailure(h) \/ Notify(h) \/ ReopenThread(h)
  BY <1>2, <1>17 DEF ClearFailure, Notify, ReopenThread
<1>18. CASE \/ ReadToVerify(h) \/ ReadToClose(h) \/ ReadToKick(h) \/ ReadToBan(h)
            \/ ReadToBanById(h) \/ ReadBanned(h) \/ ReadObserved(h)
  BY <1>18, ReadSteps DEF Ended, Steps, MovesOn
<1>19. CASE WriteOutcome(h)
  BY <1>0, <1>19, WriteSteps, StepsAreSteps DEF Ended, Steps, MovesOn
<1>20. CASE ClearMark(h)
  BY <1>0, <1>2, <1>20, LoopSteps DEF Ended, Steps, MovesOn, ClearMark
<1>21. CASE ArchiveThread(h)
  BY <1>0, <1>21, ArchiveSteps DEF Ended, Steps, MovesOn
<1>22. CASE BanMember(h) \/ KickMember(h)
  BY <1>0, <1>1, <1>22 DEF BanMember, KickMember
<1>23. CASE FailBan(h)
  BY <1>0, <1>2, <1>23, LoopSteps DEF Ended, Steps, MovesOn, FailBan
<1>24. CASE UndoOutcome(h)
  BY <1>0, <1>24, UndoSteps DEF Ended, Steps, MovesOn
<1>25. QED
  BY <1>5, <1>6, <1>7, <1>8, <1>9, <1>10, <1>11, <1>12, <1>13, <1>14, <1>15, <1>16, <1>17,
     <1>18, <1>19, <1>20, <1>21, <1>22, <1>23, <1>24 DEF Open, Resolve

\* Handlers in flight together stay of kinds that may be.
LEMMA AloneKept ==
  ASSUME TypeOK, Alone, [Next]_vars
  PROVE  Alone'
<1>1. ASSUME NEW h \in Handler, MovesOn(h) PROVE Alone'
  BY <1>1, IdleTyped DEF MovesOn, Alone, InFlight
<1>2. ASSUME NEW h \in Handler, NEW kind \in Kinds, Start(h, kind) PROVE Alone'
  <2>1. handler'[h].kind = kind
    BY <1>2, StartSteps
  <2>2. \A g \in Handler : g # h => handler'[g] = handler[g]
    BY <1>2, StartSteps
  <2>3. \A g \in InFlight : {kind, handler[g].kind} \subseteq Parallel
    BY <1>2 DEF Start
  <2>4. SUFFICES ASSUME NEW f \in Handler, NEW g \in Handler, f # g,
                        f \in InFlight', g \in InFlight'
                 PROVE  {handler'[f].kind, handler'[g].kind} \subseteq Parallel
    BY DEF Alone, InFlight
  <2>5. \A e \in InFlight' : e # h => e \in InFlight /\ handler'[e] = handler[e]
    BY <2>2 DEF InFlight
  <2>6. CASE f # h /\ g # h
    BY <2>4, <2>5, <2>6 DEF Alone
  <2>7. CASE f = h \/ g = h
    BY <2>1, <2>3, <2>4, <2>5, <2>7
  <2>8. QED
    BY <2>6, <2>7
<1>3. CASE World \/ UNCHANGED vars
  <2>1. handler' = handler
    BY <1>3, WorldSteps DEF vars
  <2>2. QED
    BY <2>1 DEF Alone, InFlight
<1>4. QED
  BY <1>1, <1>2, <1>3, HandlerMoves DEF Next

\* An opening that moves is the only handler in flight.
LEMMA OpenOnly ==
  ASSUME OpeningsAlone, TypeOK, Alone, InPlace, NEW h \in Handler, Open(h)
  PROVE  /\ handler[h].kind \in Opener /\ h \in InFlight
         /\ handler[h].at \in Places(handler[h].kind)
         /\ \A g \in Handler : g # h => handler[g].at = "idle"
<1>1. h \in InFlight
  BY HandlerMoves DEF MovesOn
<1>2. handler[h].at \in Places(handler[h].kind)
  BY <1>1 DEF InPlace
<1>3. handler[h].at \notin {"read", "write", "unrole", "member", "archive", "kick", "ban", "undo"}
  BY DEF Open, At, FindCase, LookAtMark, CreateCase, AssignRole, FailRole, MarkRole,
         CreateThread, StoreThread, JoinThread, RouteThread, FailThread, RejoinThread,
         ClearFailure, Notify, ReopenCase, ReopenThread
<1>4. handler[h].kind \in Opener
  BY <1>2, <1>3, HandlerTyped DEF Places, Kind, Opener, Resolver, Observer
<1>5. QED
  BY <1>1, <1>2, <1>4 DEF OpeningsAlone, Alone, InFlight

\* Beside a resolution that moves no opening is in flight.
LEMMA ResolveOnly ==
  ASSUME OpeningsAlone, TypeOK, Alone, InPlace, NEW h \in Handler, Resolve(h)
  PROVE  /\ h \in InFlight /\ handler[h].at \in Places(handler[h].kind)
         /\ \A g \in InFlight : handler[g].kind \notin Opener
<1>1. h \in InFlight
  BY HandlerMoves DEF MovesOn
<1>2. handler[h].at \in Places(handler[h].kind)
  BY <1>1 DEF InPlace
<1>3. handler[h].at \in {"read", "write", "unrole", "member", "archive", "kick", "ban", "undo"}
  BY DEF Resolve, At, Reads, ReadToVerify, ReadToClose, ReadToKick, ReadToBan, ReadToBanById,
         ReadBanned, ReadObserved, WriteOutcome, RemoveRole, ClearMark, ArchiveThread,
         BanMember, FailBan, UndoOutcome, KickMember
<1>4. handler[h].kind \notin Opener
  BY <1>2, <1>3 DEF Places, Opener
<1>5. QED
  BY <1>1, <1>2, <1>4 DEF OpeningsAlone, Alone

---------------------------------------------------------------------------
(* The steps that are not of a handler at work *)

\* A handler that starts keeps the invariant.
LEMMA StartKeeps ==
  ASSUME OpeningsAlone, LifecycleInv, NEW h \in Handler, NEW kind \in Kinds, Start(h, kind)
  PROVE  /\ InPlace' /\ HoldsRows' /\ OpensRow' /\ ReopensCase' /\ MemberIsOne' /\ Marked'
         /\ Unroled' /\ BanKnown' /\ BanOwned' /\ ThreadIsRecorded'
<1> USE DEF LifecycleInv
<1>1. /\ handler[h].at = "idle" /\ kind \in Kind /\ MayStart(kind)
      /\ handler' \in [Handler -> Local]
      /\ \A g \in Handler : g # h => handler'[g] = handler[g]
      /\ UNCHANGED <<rows, threads, member, wasBanned, mark, cut>>
  BY StartSteps DEF At, world
<1>2. PICK c \in Case \cup {0} :
        /\ kind = "reopen" => c \in Case
        /\ kind # "reopen" => c = 0
        /\ handler'[h].kind = kind /\ handler'[h].at = FirstStep(kind)
        /\ handler'[h].obj = c /\ handler'[h].todo = {}
        /\ handler'[h].seen = [d \in Case |-> IF d = c THEN rows[d] ELSE NoRow]
  BY StartSteps
<1>3. /\ FirstStep(kind) \in Places(kind)
      /\ FirstStep(kind) \in {"find", "reopen", "ban", "read"}
      /\ FirstStep(kind) = "find" <=> kind \in {"open", "repair"}
      /\ FirstStep(kind) = "ban" <=> kind = "ban"
      /\ FirstStep(kind) = "reopen" <=> kind = "reopen"
  BY <1>1 DEF FirstStep, Places, Kind, Opener, Resolver, Observer
<1>4. InPlace'
  BY <1>1, <1>2, <1>3 DEF InPlace, InFlight
<1>5. HoldsRows'
  <2>1. kind \notin Opener => HoldsWell(h)'
    <3>1. 0 \notin Case
      BY DEF Case
    <3>2. kind \notin Opener => \A d \in Case : handler'[h].seen[d].status = "none"
      BY <1>2, <3>1 DEF Opener, NoRow
    <3>3. QED
      BY <1>2, <1>3, <3>2 DEF HoldsWell, Held
  <2>2. \A g \in Handler : g # h /\ HoldsWell(g) => HoldsWell(g)'
    BY <1>1 DEF HoldsWell, Held
  <2>3. QED
    BY <1>1, <1>2, <2>1, <2>2 DEF HoldsRows, InFlight
<1>6. OpensRow'
  BY <1>1, <1>2, <1>3 DEF OpensRow, Opening, OpensWell, CaseOf, InFlight
<1>7. ReopensCase'
  BY <1>1, <1>2 DEF ReopensCase, ReopensWell, CaseOf, InFlight
<1>8. MemberIsOne'
  BY <1>1 DEF MemberIsOne
<1>9. Marked'
  BY <1>1 DEF Marked, MarkWasCut, At
<1>10. Unroled'
  <2>1. RoleGone(h)' => ~member.role
    <3>1. RoleGone(h)' => kind \in {"sync", "observedBan", "observedKick", "left"}
      BY <1>2, <1>3 DEF RoleGone
    <3>2. kind \in {"sync", "observedBan", "observedKick", "left"} => ~member.present
      BY <1>1 DEF MayStart, MemberIsOne
    <3>3. QED
      BY <3>1, <3>2 DEF MemberIsOne
  <2>2. \A g \in Handler : g # h => (RoleGone(g)' <=> RoleGone(g))
    BY <1>1 DEF RoleGone
  <2>3. QED
    BY <1>1, <2>1, <2>2 DEF Unroled, InFlight, MarkWasCut
<1>11. BanKnown'
  <2>1. KnowsOfBan(h)' => wasBanned
    <3>1. KnowsOfBan(h)' => kind \in {"sync", "observedBan"}
      BY <1>2, <1>3 DEF KnowsOfBan
    <3>2. kind \in {"sync", "observedBan"} => member.banned
      BY <1>1 DEF MayStart
    <3>3. QED
      BY <3>1, <3>2 DEF MemberIsOne
  <2>2. \A g \in Handler : g # h => (KnowsOfBan(g)' <=> KnowsOfBan(g))
    BY <1>1 DEF KnowsOfBan
  <2>3. QED
    BY <1>1, <2>1, <2>2 DEF BanKnown, InFlight
<1>12. BanOwned'
  <2>1. \A g \in Handler, d \in Case : Owns(g, d) => Owns(g, d)'
    BY <1>1 DEF Owns, Held
  <2>2. QED
    BY <1>1, <2>1 DEF BanOwned, BanWasCut
<1>13. ThreadIsRecorded'
  BY <1>1 DEF ThreadIsRecorded, At
<1>14. QED
  BY <1>4, <1>5, <1>6, <1>7, <1>8, <1>9, <1>10, <1>11, <1>12, <1>13

\* A handler that stops keeps it: where it stopped is remembered.
LEMMA StopKeeps ==
  ASSUME OpeningsAlone, LifecycleInv, NEW h \in Handler, Stop(h)
  PROVE  /\ InPlace' /\ HoldsRows' /\ OpensRow' /\ ReopensCase' /\ MemberIsOne' /\ Marked'
         /\ Unroled' /\ BanKnown' /\ BanOwned' /\ ThreadIsRecorded'
<1> USE DEF LifecycleInv
<1>1. /\ handler' \in [Handler -> Local]
      /\ \A g \in Handler : g # h => handler'[g] = handler[g]
      /\ handler'[h].at = "idle"
  BY ReturnEnds, IdleTyped DEF Stop, Ended
<1>2. /\ cut' = cut \cup {<<handler[h].kind, handler[h].at>>}
      /\ UNCHANGED <<rows, threads, member, wasBanned, mark>>
  BY DEF Stop, world
<1>3. /\ MarkWasCut => MarkWasCut'
      /\ BanWasCut => BanWasCut'
      /\ handler[h].at = "mark" => MarkWasCut'
      /\ handler[h].kind = "banById" => BanWasCut'
  <2>1. <<handler[h].kind, handler[h].at>> \in cut' /\ cut \subseteq cut'
    BY <1>2
  <2>2. QED
    BY <2>1 DEF MarkWasCut, BanWasCut
<1>4. InPlace' /\ ReopensCase' /\ OpensRow' /\ MemberIsOne'
  BY <1>1, <1>2 DEF InPlace, ReopensCase, ReopensWell, OpensRow, Opening, OpensWell, CaseOf, MemberIsOne, InFlight
<1>5. HoldsRows'
  <2>1. \A g \in Handler : g # h /\ HoldsWell(g) => HoldsWell(g)'
    BY <1>1, <1>2 DEF HoldsWell, Held
  <2>2. QED
    BY <1>1, <2>1 DEF HoldsRows, InFlight
<1>6. Marked'
  BY <1>1, <1>2, <1>3 DEF Marked, At
<1>7. Unroled' /\ BanKnown'
  BY <1>1, <1>2, <1>3 DEF Unroled, BanKnown, RoleGone, KnowsOfBan, InFlight
<1>8. BanOwned'
  <2>1. \A g \in Handler, d \in Case : Owns(g, d) => Owns(g, d)' \/ g = h
    BY <1>1 DEF Owns, Held
  <2>2. \A d \in Case : Owns(h, d) => BanWasCut'
    BY <1>3 DEF Owns
  <2>3. QED
    BY <1>2, <1>3, <2>1, <2>2 DEF BanOwned
<1>9. ThreadIsRecorded'
  <2>1. SUFFICES ASSUME NEW t \in Thread, threads'[t] # "none"
                 PROVE  \/ \E c \in Case : rows'[c].thread = t
                        \/ \E g \in Handler : At(g, "store")' /\ handler'[g].mine = t
                        \/ \E pair \in cut' : pair[2] = "store"
    BY DEF ThreadIsRecorded
  <2>2. CASE \E g \in Handler : At(g, "store") /\ handler[g].mine = t
    <3>1. PICK g \in Handler : At(g, "store") /\ handler[g].mine = t
      BY <2>2
    <3>2. CASE g = h
      <4>1. <<handler[h].kind, handler[h].at>> \in cut' /\ handler[h].at = "store"
        BY <1>2, <3>1, <3>2 DEF At
      <4>2. QED
        BY <4>1
    <3>3. CASE g # h
      BY <1>1, <3>1, <3>3 DEF At
    <3>4. QED
      BY <3>2, <3>3
  <2>3. CASE \/ \E c \in Case : rows[c].thread = t
             \/ \E pair \in cut : pair[2] = "store"
    BY <1>2, <2>3
  <2>4. QED
    BY <1>2, <2>1, <2>2, <2>3 DEF ThreadIsRecorded
<1>10. QED
  BY <1>4, <1>5, <1>6, <1>7, <1>8, <1>9

\* What happens in the world, and stuttering, keep it.
LEMMA WorldKeeps ==
  ASSUME LifecycleInv, World \/ UNCHANGED vars
  PROVE  /\ InPlace' /\ HoldsRows' /\ OpensRow' /\ ReopensCase' /\ MemberIsOne' /\ Marked'
         /\ Unroled' /\ BanKnown' /\ BanOwned' /\ ThreadIsRecorded'
<1> USE DEF LifecycleInv
<1>1. /\ UNCHANGED <<rows, threads, mark, handler, cut>>
      /\ wasBanned => wasBanned'
      /\ member'.banned => ~member'.present /\ wasBanned'
      /\ member'.role => member.role /\ member'.present
  BY WorldSteps DEF vars, MemberIsOne, TypeOK
<1>2. InPlace' /\ ReopensCase' /\ OpensRow' /\ MemberIsOne'
  BY <1>1 DEF InPlace, ReopensCase, ReopensWell, OpensRow, Opening, OpensWell, CaseOf, MemberIsOne, InFlight
<1>3. HoldsRows'
  BY <1>1 DEF HoldsRows, HoldsWell, Held, InFlight
<1>4. Marked' /\ Unroled' /\ BanKnown'
  BY <1>1 DEF Marked, MarkWasCut, At, Unroled, BanKnown, RoleGone, KnowsOfBan, InFlight
<1>5. BanOwned' /\ ThreadIsRecorded'
  BY <1>1 DEF BanOwned, BanWasCut, Owns, Held, ThreadIsRecorded, At
<1>6. QED
  BY <1>2, <1>3, <1>4, <1>5

---------------------------------------------------------------------------
(* The steps of an opening *)

\* After a step of an opening, no other handler is in flight.
LEMMA OpenRest ==
  ASSUME OpeningsAlone, LifecycleInv, NEW h \in Handler, Open(h)
  PROVE  /\ MovesOn(h) /\ handler[h].kind \in Opener
         /\ handler[h].at \in Places(handler[h].kind)
         /\ \A g \in InFlight' : g = h /\ handler'[h].kind = handler[h].kind
         /\ \A g \in Handler : g # h => handler[g].at = "idle" /\ handler'[g] = handler[g]
         /\ HoldsRows' /\ Unroled' /\ BanKnown'
<1> USE DEF LifecycleInv
<1>1. MovesOn(h)
  BY HandlerMoves
<1>2. /\ handler[h].kind \in Opener /\ handler[h].at \in Places(handler[h].kind)
      /\ \A g \in Handler : g # h => handler[g].at = "idle"
  BY OpenOnly
<1>3. \A g \in InFlight' : g = h /\ handler'[h].kind = handler[h].kind
  BY <1>1, <1>2, IdleTyped DEF MovesOn, InFlight
<1>4. \A g \in InFlight' : handler'[g].kind \in Opener
  BY <1>2, <1>3
<1>5. HoldsRows' /\ Unroled' /\ BanKnown'
  BY <1>4 DEF HoldsRows, Unroled, BanKnown, RoleGone, KnowsOfBan, Opener
<1>6. QED
  BY <1>1, <1>2, <1>3, <1>5 DEF MovesOn

\* An opening keeps to its steps, and its copy of the case is the case.
LEMMA OpenKeepsRow ==
  ASSUME OpeningsAlone, LifecycleInv, NEW h \in Handler, Open(h)
  PROVE  InPlace' /\ OpensRow' /\ ReopensCase'
<1> USE DEF LifecycleInv, At, InFlight
<1> DEFINE Ok == /\ h \in InFlight' => handler'[h].at \in Places(handler[h].kind)
                 /\ Opening(h)' => OpensWell(h)'
                 /\ h \in InFlight' /\ handler[h].kind = "reopen" => ReopensWell(h)'
<1>0. /\ handler[h].kind \in {"open", "repair", "reopen"}
      /\ handler[h].at \in Places(handler[h].kind)
      /\ h \in InFlight
      /\ \A g \in InFlight' : g = h /\ handler'[h].kind = handler[h].kind
      /\ handler' \in [Handler -> Local]
  BY OpenRest DEF Opener, MovesOn
<1>1. SUFFICES Ok
  <2>1. Opening(h)' => OpensWell(h)'
    OBVIOUS
  <2>2. OpensRow'
    BY <1>0, <2>1 DEF OpensRow, Opening
  <2>3. QED
    BY <1>0, <2>2 DEF InPlace, ReopensCase
<1>2. {"look", "create", "role", "mark", "join", "route", "clear", "store", "unarchive"}
        \subseteq Step
  BY DEF Step
<1>3. rows \in [Case -> Row] /\ handler[h].obj \in Case \cup {0}
      /\ handler[h].seen \in [Case -> Row]
  BY HandlerTyped DEF TypeOK
<1>4. Opening(h) => OpensWell(h)
  BY DEF OpensRow
<1>5. handler[h].kind = "reopen" => ReopensWell(h)
  BY <1>0 DEF ReopensCase
<1>6. ASSUME handler'[h] = Idle PROVE Ok
  BY <1>6, IdleTyped DEF Opening
<1>7. CASE FindCase(h)
  <2>0. handler[h].kind \in {"open", "repair"} /\ handler[h].at = "find"
    BY <1>0, <1>7 DEF FindCase, Places
  <2>1. CASE Pending(rows) # {}
    <3> DEFINE step == IF handler[h].kind = "repair" THEN "role" ELSE "look"
    <3>1. PICK c \in Pending(rows) :
            handler' = [handler EXCEPT ![h].obj = c, ![h].seen[c] = rows[c], ![h].at = step]
      BY <1>7, <2>1 DEF FindCase
    <3>2. c \in Case /\ rows[c] \in Row /\ rows[c].status = "pending" /\ step \in Step
      BY <1>2, <1>3 DEF Pending
    <3>3. Steps(h, step, c, [handler[h].seen EXCEPT ![c] = rows[c]], handler[h].todo,
                handler[h].mine, handler[h].flag)
      BY <3>1, <3>2, TakeUpSteps
    <3>4. /\ handler'[h].obj = c /\ handler'[h].seen[c] = rows[c] /\ rows' = rows
          /\ handler'[h].at \in {"role", "look"} /\ handler'[h].kind = handler[h].kind
          /\ handler[h].kind = "repair" => handler'[h].at = "role"
      BY <1>3, <1>7, <3>2, <3>3 DEF Steps, FindCase
    <3>5. QED
      BY <2>0, <3>2, <3>4 DEF Opening, OpensWell, CaseOf, Places
  <2>2. CASE Pending(rows) = {} /\ handler[h].kind = "repair"
    BY <1>6, <1>7, <2>2, ReturnEnds DEF FindCase, Ended
  <2>3. CASE Pending(rows) = {} /\ handler[h].kind # "repair"
    <3>1. handler'[h].at = "create"
      BY <1>2, <1>7, <2>3, GotoSteps DEF FindCase, Steps
    <3>2. QED
      BY <2>0, <2>3, <3>1 DEF Opening, Places
  <2>4. QED
    BY <2>1, <2>2, <2>3
<1>8. CASE LookAtMark(h)
  <2>0. handler[h].kind = "open" /\ handler[h].at = "look" /\ Opening(h) /\ OpensWell(h)
    BY <1>0, <1>4, <1>8 DEF LookAtMark, Places, Opening
  <2>1. (IF mark THEN AfterRole(h) ELSE "role") \in Step
    BY <1>2, StepsAreSteps
  <2>2. /\ handler'[h].at = (IF mark THEN AfterRole(h) ELSE "role")
        /\ handler'[h].obj = handler[h].obj /\ handler'[h].seen = handler[h].seen
        /\ handler'[h].kind = handler[h].kind /\ rows' = rows /\ mark' = mark
    BY <1>8, <2>1, GotoSteps DEF LookAtMark, Steps
  <2>3. QED
    BY <2>0, <2>2 DEF Opening, OpensWell, CaseOf, Places, AfterRole
<1>9. CASE CreateCase(h)
  <2>0. handler[h].kind = "open" /\ handler[h].at = "create"
    BY <1>0, <1>9 DEF CreateCase, Places
  <2>1. PICK c \in Case :
          /\ rows' = [rows EXCEPT ![c].status = "pending"]
          /\ handler' = [handler EXCEPT ![h].obj = c, ![h].seen[c] = rows'[c], ![h].at = "role"]
    BY <1>9 DEF CreateCase
  <2>2. rows'[c] \in Row /\ rows'[c].status = "pending"
    <3>1. [rows[c] EXCEPT !.status = "pending"] \in Row
      BY <1>3 DEF Row
    <3>2. QED
      BY <1>3, <2>1, <3>1 DEF Row
  <2>3. Steps(h, "role", c, [handler[h].seen EXCEPT ![c] = rows'[c]], handler[h].todo,
              handler[h].mine, handler[h].flag)
    BY <1>2, <2>1, <2>2, TakeUpSteps
  <2>4. /\ handler'[h].obj = c /\ handler'[h].seen[c] = rows'[c] /\ handler'[h].at = "role"
        /\ handler'[h].kind = handler[h].kind
    BY <1>3, <2>3 DEF Steps
  <2>5. QED
    BY <2>0, <2>2, <2>4 DEF Opening, OpensWell, CaseOf, Places
<1>10. CASE AssignRole(h)
  <2>1. /\ handler'[h].at = "mark" /\ handler[h].at = "role"
        /\ handler'[h].obj = handler[h].obj /\ handler'[h].seen = handler[h].seen
        /\ handler'[h].kind = handler[h].kind /\ rows' = rows
    BY <1>2, <1>10, GotoSteps DEF AssignRole, Steps
  <2>2. QED
    BY <1>0, <1>4, <1>5, <2>1 DEF Opening, OpensWell, ReopensWell, CaseOf, Places
<1>11. CASE FailRole(h)
  <2>1. CASE handler[h].kind = "reopen"
    BY <1>6, <1>11, <2>1, ReturnEnds DEF FailRole, Ended
  <2>2. CASE handler[h].kind # "reopen"
    <3> DEFINE c == handler[h].obj
    <3>1. handler[h].at = "role" /\ Opening(h) /\ OpensWell(h)
      BY <1>0, <1>4, <1>11, <2>2 DEF FailRole, Opening
    <3>2. c \in Case /\ handler[h].seen[c] = rows[c] /\ rows[c].status = "pending"
      BY <3>1 DEF OpensWell, CaseOf
    <3>3. AfterRole(h) \in Step /\ AfterRole(h) # "idle"
      BY StepsAreSteps DEF AfterRole
    <3>4. /\ rows' = [rows EXCEPT ![c].failed = handler[h].seen[c].failed \cup {"role"}]
          /\ Steps(h, AfterRole(h), c, [handler[h].seen EXCEPT ![c] = rows'[c]],
                   handler[h].todo, handler[h].mine, handler[h].flag)
      BY <1>11, <2>2, <3>3, RecordFailureSteps DEF FailRole
    <3>5. /\ rows'[c].status = "pending" /\ rows'[c].thread = rows[c].thread
          /\ "role" \in rows'[c].failed
      BY <1>3, <3>2, <3>4 DEF Row
    <3>6. /\ handler'[h].obj = c /\ handler'[h].seen[c] = rows'[c]
          /\ handler'[h].at = AfterRole(h) /\ handler'[h].kind = handler[h].kind
      BY <1>3, <3>2, <3>4 DEF Steps
    <3>7. /\ AfterRole(h) \in {"thread", "rejoin", "notify"}
          /\ AfterRole(h) = "thread" <=> rows[c].thread = 0
          /\ AfterRole(h) = "rejoin" => handler[h].kind = "repair"
          /\ AfterRole(h) = "notify" => handler[h].kind = "open"
      BY <1>0, <2>2, <3>2 DEF AfterRole
    <3>8. QED
      BY <1>0, <2>2, <3>2, <3>5, <3>6, <3>7 DEF Opening, OpensWell, CaseOf, Places
  <2>3. QED
    BY <2>1, <2>2
<1>12. CASE MarkRole(h)
  <2>1. CASE handler[h].kind = "reopen"
    <3>1. /\ handler'[h].at = "unarchive" /\ handler'[h].obj = handler[h].obj
          /\ handler'[h].seen = handler[h].seen /\ handler'[h].kind = "reopen" /\ rows' = rows
      BY <1>2, <1>12, <2>1, GotoSteps DEF MarkRole, Steps
    <3>2. QED
      BY <1>5, <2>1, <3>1 DEF Opening, ReopensWell, CaseOf, Places
  <2>2. CASE handler[h].kind # "reopen"
    <3> DEFINE c == handler[h].obj
    <3>1. handler[h].at = "mark" /\ Opening(h) /\ OpensWell(h)
      BY <1>0, <1>4, <1>12, <2>2 DEF MarkRole, Opening
    <3>2. c \in Case /\ handler[h].seen[c] = rows[c] /\ rows[c].status = "pending"
      BY <3>1 DEF OpensWell, CaseOf
    <3>3. Steps(h, AfterRole(h), c, [handler[h].seen EXCEPT ![c] = rows[c]],
                handler[h].todo, handler[h].mine, handler[h].flag)
      BY <1>3, <1>12, <2>2, StepsAreSteps, HoldSteps DEF MarkRole
    <3>4. /\ handler'[h].obj = c /\ handler'[h].seen[c] = rows'[c] /\ rows' = rows /\ mark'
          /\ handler'[h].at = AfterRole(h) /\ handler'[h].kind = handler[h].kind
      BY <1>3, <1>12, <3>2, <3>3 DEF Steps, MarkRole
    <3>5. /\ AfterRole(h) \in {"thread", "rejoin", "notify"}
          /\ AfterRole(h) = "thread" <=> rows[c].thread = 0
          /\ AfterRole(h) = "rejoin" => handler[h].kind = "repair"
          /\ AfterRole(h) = "notify" => handler[h].kind = "open"
      BY <1>0, <2>2, <3>2 DEF AfterRole
    <3>6. QED
      BY <1>0, <2>2, <3>2, <3>4, <3>5 DEF Opening, OpensWell, CaseOf, Places
  <2>3. QED
    BY <2>1, <2>2
<1>13. CASE CreateThread(h)
  <2>1. handler[h].at = "thread" /\ Opening(h) /\ OpensWell(h)
    BY <1>0, <1>4, <1>13 DEF CreateThread, Opening, Places
  <2>2. PICK t \in Thread :
          Steps(h, "store", handler[h].obj, handler[h].seen, handler[h].todo, t, handler[h].flag)
    BY <1>13, CreateThreadSteps
  <2>3. /\ handler'[h].at = "store" /\ handler'[h].obj = handler[h].obj
        /\ handler'[h].seen = handler[h].seen /\ handler'[h].kind = handler[h].kind
        /\ handler'[h].mine = t /\ t # 0 /\ rows' = rows /\ mark' = mark
    BY <1>13, <2>2 DEF Steps, CreateThread, Thread
  <2>4. QED
    BY <1>0, <2>1, <2>3 DEF Opening, OpensWell, CaseOf, Places
<1>14. CASE StoreThread(h)
  <2> DEFINE c == handler[h].obj
             row == [handler[h].seen[c] EXCEPT !.thread = handler[h].mine]
  <2>1. handler[h].at = "store" /\ Opening(h) /\ OpensWell(h)
    BY <1>0, <1>4, <1>14 DEF StoreThread, Opening, Places
  <2>2. /\ c \in Case /\ handler[h].mine # 0 /\ handler[h].seen[c].status = "pending"
        /\ handler[h].kind = "open" => mark \/ "role" \in handler[h].seen[c].failed
    BY <2>1 DEF OpensWell, CaseOf
  <2>3. /\ row \in Row /\ row.thread # 0 /\ row.status = "pending"
        /\ row.failed = handler[h].seen[c].failed
    BY <1>3, <2>2, HandlerTyped DEF Row
  <2>4. Steps(h, "join", c, [handler[h].seen EXCEPT ![c] = row],
              handler[h].todo, handler[h].mine, handler[h].flag)
    BY <1>2, <1>14, <2>3, HoldSteps DEF StoreThread
  <2>5. /\ handler'[h].obj = c /\ handler'[h].seen[c] = row /\ rows'[c] = row
        /\ mark' = mark /\ handler'[h].at = "join" /\ handler'[h].kind = handler[h].kind
    BY <1>3, <1>14, <2>2, <2>4 DEF Steps, StoreThread
  <2> HIDE DEF row
  <2>6. QED
    BY <1>0, <2>1, <2>2, <2>3, <2>5 DEF Opening, OpensWell, CaseOf, Places
<1>15. CASE JoinThread(h) \/ RejoinThread(h)
  <2>1. /\ handler[h].at \in {"join", "rejoin"} /\ Opening(h) /\ OpensWell(h)
        /\ handler[h].at = "rejoin" => handler[h].kind = "repair"
    BY <1>0, <1>4, <1>15 DEF JoinThread, RejoinThread, Opening, Places
  <2>2. /\ handler'[h].at = IF handler[h].at = "join" THEN "route" ELSE "clear"
        /\ handler'[h].obj = handler[h].obj /\ handler'[h].seen = handler[h].seen
        /\ handler'[h].kind = handler[h].kind /\ rows' = rows /\ mark' = mark
    BY <1>2, <1>15, GotoSteps DEF JoinThread, RejoinThread, Steps
  <2>3. QED
    BY <1>0, <2>1, <2>2 DEF Opening, OpensWell, CaseOf, Places
<1>16. CASE RouteThread(h)
  <2> DEFINE c == handler[h].obj
  <2>1. handler[h].at = "route" /\ Opening(h) /\ OpensWell(h)
    BY <1>0, <1>4, <1>16 DEF RouteThread, Opening, Places
  <2>2. /\ handler'[h].at = AfterThread(h)
        /\ handler'[h].obj = c /\ handler'[h].seen = handler[h].seen
        /\ handler'[h].kind = handler[h].kind /\ mark' = mark
    BY <1>16, StepsAreSteps, GotoSteps DEF RouteThread, Steps
  <2>3. rows'[c] = handler[h].seen[c]
    BY <1>3, <1>16, <2>1 DEF RouteThread, OpensWell
  <2>4. QED
    BY <1>0, <2>1, <2>2, <2>3 DEF Opening, OpensWell, CaseOf, Places, AfterThread
<1>17. CASE FailThread(h)
  <2> DEFINE c == handler[h].obj
  <2>1. handler[h].at \in {"thread", "join", "rejoin"} /\ Opening(h) /\ OpensWell(h)
    BY <1>0, <1>4, <1>17 DEF FailThread, Opening, Places
  <2>2. c \in Case /\ handler[h].seen[c] = rows[c] /\ rows[c].status = "pending"
    BY <2>1 DEF OpensWell, CaseOf
  <2>3. CASE handler[h].kind = "repair"
    BY <1>6, <1>17, <2>3, StepsAreSteps, RecordFailureSteps DEF FailThread, AfterFailedThread, Ended
  <2>4. CASE handler[h].kind # "repair"
    <3>1. handler[h].kind = "open" /\ handler[h].at \in {"thread", "join"}
      BY <1>0, <2>1, <2>4 DEF Opening, Places
    <3>2. AfterFailedThread(h) = "notify"
      BY <2>4 DEF AfterFailedThread
    <3>3. /\ rows' = [rows EXCEPT ![c].failed = handler[h].seen[c].failed \cup {"thread"}]
          /\ Steps(h, "notify", c, [handler[h].seen EXCEPT ![c] = rows'[c]],
                   handler[h].todo, handler[h].mine, handler[h].flag)
      BY <1>17, <3>2, StepsAreSteps, RecordFailureSteps DEF FailThread
    <3>4. /\ rows'[c].status = "pending" /\ "thread" \in rows'[c].failed
          /\ "role" \in rows[c].failed => "role" \in rows'[c].failed
      BY <1>3, <2>2, <3>3 DEF Row
    <3>5. /\ handler'[h].obj = c /\ handler'[h].seen[c] = rows'[c] /\ mark' = mark
          /\ handler'[h].at = "notify" /\ handler'[h].kind = handler[h].kind
      BY <1>3, <1>17, <2>2, <3>3 DEF Steps, FailThread
    <3>6. mark \/ "role" \in rows[c].failed
      BY <2>1, <2>2, <3>1 DEF OpensWell, CaseOf
    <3>7. QED
      BY <2>2, <3>1, <3>4, <3>5, <3>6 DEF Opening, OpensWell, CaseOf, Places
  <2>5. QED
    BY <2>3, <2>4
<1>18. CASE ClearFailure(h) \/ Notify(h) \/ ReopenThread(h)
  BY <1>6, <1>18, ReturnEnds DEF ClearFailure, Notify, ReopenThread, Ended
<1>19. CASE ReopenCase(h)
  <2>1. handler[h].kind = "reopen"
    BY <1>0, <1>19 DEF ReopenCase, Places
  <2>2. /\ handler'[h].at = "role" /\ handler'[h].obj = handler[h].obj
        /\ handler'[h].seen = handler[h].seen /\ handler'[h].kind = "reopen"
    BY <1>2, <1>19, <2>1, GotoSteps DEF ReopenCase, Steps
  <2>3. rows'[handler[h].obj].thread = rows[handler[h].obj].thread
    BY <1>3, <1>5, <1>19 DEF ReopenCase, ReopensWell, Row
  <2>4. QED
    BY <1>5, <2>1, <2>2, <2>3 DEF Opening, ReopensWell, CaseOf, Places
<1>20. QED
  BY <1>7, <1>8, <1>9, <1>10, <1>11, <1>12, <1>13, <1>14, <1>15, <1>16, <1>17, <1>18, <1>19
     DEF Open

\* What an opening writes: no case becomes banned, no case loses its thread, and a new
\* thread is recorded or about to be.
LEMMA OpenWrites ==
  ASSUME OpeningsAlone, LifecycleInv, NEW h \in Handler, Open(h)
  PROVE  /\ \A c \in Case : rows'[c].status = "banned" => rows[c].status = "banned"
         /\ \A c \in Case : rows[c].thread # 0 => rows'[c].thread = rows[c].thread
         /\ handler[h].at = "store" => \E c \in Case : rows'[c].thread = handler[h].mine
         /\ \A t \in Thread : threads'[t] # "none" =>
              \/ threads[t] # "none"
              \/ \E c \in Case : rows'[c].thread = t
              \/ handler'[h].at = "store" /\ handler'[h].mine = t
         /\ cut \subseteq cut' /\ wasBanned' = wasBanned
<1> USE DEF LifecycleInv, At, world
<1>1. /\ handler[h].kind \in {"open", "repair", "reopen"}
      /\ handler[h].at \in Places(handler[h].kind) /\ h \in InFlight
  BY OpenRest DEF Opener, MovesOn
<1>2. /\ rows \in [Case -> Row] /\ threads \in [Thread -> {"none", "open", "closed"}]
      /\ handler[h].seen \in [Case -> Row]
  BY HandlerTyped DEF TypeOK
<1>3. Opening(h) => OpensWell(h)
  BY DEF OpensRow
<1>4. handler[h].kind = "reopen" => ReopensWell(h)
  BY <1>1 DEF ReopensCase
<1>5. CASE FindCase(h) \/ LookAtMark(h) \/ AssignRole(h) \/ MarkRole(h) \/ JoinThread(h)
  BY <1>5 DEF FindCase, LookAtMark, AssignRole, MarkRole, JoinThread
<1>6. CASE CreateCase(h)
  <2>1. PICK c \in Case : rows' = [rows EXCEPT ![c].status = "pending"]
    BY <1>6 DEF CreateCase
  <2>2. \A d \in Case : rows'[d].thread = rows[d].thread
                        /\ (rows'[d].status = rows[d].status \/ rows'[d].status = "pending")
    BY <1>2, <2>1 DEF Row
  <2>3. QED
    BY <1>6, <2>2 DEF CreateCase
<1>7. ASSUME NEW what \in {"role", "thread"}, NEW step \in Step, RecordFailure(h, what, step)
      PROVE  \A d \in Case : rows'[d].thread = rows[d].thread /\ rows'[d].status = rows[d].status
  BY <1>2, <1>7 DEF RecordFailure, Row
<1>8. CASE FailRole(h)
  <2>1. \A d \in Case : rows'[d].thread = rows[d].thread /\ rows'[d].status = rows[d].status
    BY <1>7, <1>8, StepsAreSteps DEF FailRole
  <2>2. QED
    BY <1>8, <2>1 DEF FailRole
<1>9. CASE CreateThread(h)
  <2>1. PICK t \in Thread :
          /\ threads' = [threads EXCEPT ![t] = "open"]
          /\ Steps(h, "store", handler[h].obj, handler[h].seen, handler[h].todo, t, handler[h].flag)
    BY <1>9, CreateThreadSteps
  <2>2. handler'[h].at = "store" /\ handler'[h].mine = t
    BY <2>1 DEF Steps
  <2>3. QED
    BY <1>2, <1>9, <2>1, <2>2 DEF CreateThread
<1>10. CASE StoreThread(h)
  <2> DEFINE c == handler[h].obj
  <2>1. Opening(h) /\ OpensWell(h) /\ handler[h].at = "store"
    BY <1>1, <1>3, <1>10 DEF StoreThread, Opening, Places
  <2>2. c \in Case /\ rows[c].thread = 0 /\ handler[h].seen[c].status = "pending"
    BY <2>1 DEF OpensWell, CaseOf
  <2>3. rows' = [rows EXCEPT ![c] = [handler[h].seen[c] EXCEPT !.thread = handler[h].mine]]
    BY <1>10 DEF StoreThread
  <2>4. rows'[c].thread = handler[h].mine /\ rows'[c].status = "pending"
    BY <1>2, <2>2, <2>3 DEF Row
  <2>5. \A d \in Case : d # c => rows'[d] = rows[d]
    BY <1>2, <2>3
  <2>6. QED
    BY <1>10, <2>2, <2>4, <2>5 DEF StoreThread
<1>11. CASE RouteThread(h)
  <2>1. Opening(h) /\ OpensWell(h)
    BY <1>1, <1>3, <1>11 DEF RouteThread, Opening, Places
  <2>2. rows' = rows
    BY <1>2, <1>11, <2>1 DEF RouteThread, OpensWell, CaseOf
  <2>3. QED
    BY <1>11, <2>2 DEF RouteThread
<1>12. CASE FailThread(h)
  <2>1. \A d \in Case : rows'[d].thread = rows[d].thread /\ rows'[d].status = rows[d].status
    BY <1>7, <1>12, StepsAreSteps DEF FailThread
  <2>2. QED
    BY <1>12, <2>1 DEF FailThread
<1>13. CASE RejoinThread(h)
  <2>1. Opening(h) /\ OpensWell(h)
    BY <1>1, <1>3, <1>13 DEF RejoinThread, Opening, Places
  <2>2. \A t \in Thread : threads'[t] # threads[t] => t = rows[handler[h].obj].thread
    BY <1>2, <1>13, <2>1 DEF RejoinThread, OpensWell, CaseOf
  <2>3. QED
    BY <1>13, <2>1, <2>2 DEF RejoinThread, OpensWell
<1>14. CASE ClearFailure(h)
  <2>1. \A d \in Case : rows'[d].thread = rows[d].thread /\ rows'[d].status = rows[d].status
    BY <1>2, <1>14 DEF ClearFailure, Row
  <2>2. QED
    BY <1>14, <2>1 DEF ClearFailure
<1>15. CASE Notify(h)
  <2>1. \A d \in Case : rows'[d].thread = rows[d].thread /\ rows'[d].status = rows[d].status
    BY <1>2, <1>15 DEF Notify, Row
  <2>2. QED
    BY <1>15, <2>1 DEF Notify
<1>16. CASE ReopenCase(h)
  <2>1. \A d \in Case : rows'[d].thread = rows[d].thread
                        /\ (rows'[d].status = rows[d].status \/ rows'[d].status = "pending")
    BY <1>2, <1>16 DEF ReopenCase, Row
  <2>2. QED
    BY <1>16, <2>1 DEF ReopenCase
<1>17. CASE ReopenThread(h)
  <2>1. ReopensWell(h)
    BY <1>1, <1>4, <1>17 DEF ReopenThread, Places
  <2>2. \A t \in Thread : threads'[t] # threads[t] => t = rows[handler[h].obj].thread
    BY <1>2, <1>17, <2>1 DEF ReopenThread, ReopensWell, CaseOf
  <2>3. QED
    BY <1>17, <2>1, <2>2 DEF ReopenThread, ReopensWell
<1>18. QED
  BY <1>5, <1>6, <1>8, <1>9, <1>10, <1>11, <1>12, <1>13, <1>14, <1>15, <1>16, <1>17 DEF Open

\* What an opening does to the member: it gives the role, to one who is there, and
\* marks it.
LEMMA OpenMarks ==
  ASSUME OpeningsAlone, LifecycleInv, NEW h \in Handler, Open(h)
  PROVE  MemberIsOne' /\ Marked'
<1> USE DEF LifecycleInv, At, world
<1>1. member \in [present : BOOLEAN, banned : BOOLEAN, role : BOOLEAN]
  BY DEF TypeOK
<1>2. \A g \in Handler : g # h => handler[g].at = "idle" /\ handler'[g] = handler[g]
  BY OpenRest
<1>3. cut \subseteq cut' /\ wasBanned' = wasBanned
  BY OpenWrites
<1>4. CASE AssignRole(h)
  <2>1. handler'[h].at = "mark"
    BY <1>4, GotoSteps DEF AssignRole, Steps, Step
  <2>2. /\ member.present /\ member'.present = member.present
        /\ member'.banned = member.banned
    BY <1>1, <1>4 DEF AssignRole
  <2>3. QED
    BY <1>3, <2>1, <2>2 DEF MemberIsOne, Marked
<1>5. CASE MarkRole(h)
  BY <1>5 DEF MarkRole, MemberIsOne, Marked
<1>6. CASE ~AssignRole(h) /\ ~MarkRole(h)
  <2>1. member' = member /\ mark' = mark /\ handler[h].at # "mark"
    BY <1>6 DEF Open, FindCase, LookAtMark, CreateCase, FailRole, CreateThread,
         StoreThread, JoinThread, RouteThread, FailThread, RejoinThread,
         ClearFailure, Notify, ReopenCase, ReopenThread
  <2>2. \A g \in Handler : handler[g].at # "mark"
    BY <1>2, <2>1
  <2>3. MarkWasCut => MarkWasCut'
    BY <1>3 DEF MarkWasCut
  <2>4. QED
    BY <1>3, <2>1, <2>2, <2>3 DEF MemberIsOne, Marked
<1>7. QED
  BY <1>4, <1>5, <1>6

\* An opening keeps the invariant.
LEMMA OpenKeeps ==
  ASSUME OpeningsAlone, LifecycleInv, NEW h \in Handler, Open(h)
  PROVE  /\ InPlace' /\ HoldsRows' /\ OpensRow' /\ ReopensCase' /\ MemberIsOne' /\ Marked'
         /\ Unroled' /\ BanKnown' /\ BanOwned' /\ ThreadIsRecorded'
<1> USE DEF LifecycleInv
<1>1. /\ \A g \in Handler : g # h => handler[g].at = "idle" /\ handler'[g] = handler[g]
      /\ handler[h].kind \in Opener /\ HoldsRows' /\ Unroled' /\ BanKnown'
  BY OpenRest
<1>2. BanOwned'
  <2>1. \A g \in Handler, c \in Case : ~Owns(g, c)
    BY <1>1 DEF Owns, Opener
  <2>2. BanWasCut => BanWasCut'
    BY OpenWrites DEF BanWasCut
  <2>3. QED
    BY <2>1, <2>2, OpenWrites DEF BanOwned
<1>3. ThreadIsRecorded'
  <2>1. SUFFICES ASSUME NEW t \in Thread, threads'[t] # "none"
                 PROVE  \/ \E c \in Case : rows'[c].thread = t
                        \/ \E g \in Handler : At(g, "store")' /\ handler'[g].mine = t
                        \/ \E pair \in cut' : pair[2] = "store"
    BY DEF ThreadIsRecorded
  <2>2. CASE threads[t] = "none"
    BY <2>1, <2>2, OpenWrites DEF At
  <2>3. CASE threads[t] # "none"
    <3>1. CASE \E c \in Case : rows[c].thread = t
      BY <3>1, OpenWrites DEF Thread
    <3>2. CASE \E g \in Handler : At(g, "store") /\ handler[g].mine = t
      BY <1>1, <3>2, OpenWrites DEF At
    <3>3. CASE \E pair \in cut : pair[2] = "store"
      BY <3>3, OpenWrites
    <3>4. QED
      BY <2>3, <3>1, <3>2, <3>3 DEF ThreadIsRecorded
  <2>4. QED
    BY <2>2, <2>3
<1>4. QED
  BY <1>1, <1>2, <1>3, OpenKeepsRow, OpenMarks

---------------------------------------------------------------------------
(* The steps of a resolution *)

\* The readings of resolutions.
Reading(h) ==
  \/ ReadToVerify(h) \/ ReadToClose(h) \/ ReadToKick(h) \/ ReadToBan(h)
  \/ ReadToBanById(h) \/ ReadBanned(h) \/ ReadObserved(h)

\* After a step of a resolution no opening is in flight, and none is about to mark a role.
LEMMA ResolveRest ==
  ASSUME OpeningsAlone, LifecycleInv, NEW h \in Handler, Resolve(h)
  PROVE  /\ MovesOn(h) /\ handler[h].kind \in Resolver \cup Observer
         /\ handler[h].at \in Places(handler[h].kind)
         /\ HoldsWell(h)
         /\ \A g \in Handler : handler[g].at # "mark"
         /\ cut' = cut /\ (wasBanned => wasBanned')
         /\ OpensRow' /\ ReopensCase'
<1> USE DEF LifecycleInv
<1>1. MovesOn(h)
  BY HandlerMoves
<1>2. /\ h \in InFlight /\ handler[h].at \in Places(handler[h].kind)
      /\ \A g \in InFlight : handler[g].kind \notin Opener
  BY ResolveOnly
<1>3. handler[h].kind \in Resolver \cup Observer /\ HoldsWell(h)
  BY <1>2, HandlerTyped DEF Kind, HoldsRows
<1>4. \A g \in Handler : handler[g].at # "mark"
  BY <1>2 DEF InPlace, InFlight, Places, Opener
<1>5. cut' = cut /\ (wasBanned => wasBanned')
  <2>1. CASE Reading(h)
    BY <2>1, ReadSteps DEF Reading
  <2>2. CASE ~Reading(h)
    BY <2>2 DEF Resolve, Reading, WriteOutcome, RemoveRole, ClearMark, ArchiveThread, BanMember,
       FailBan, UndoOutcome, KickMember, world
  <2>3. QED
    BY <2>1, <2>2
<1>6. \A g \in InFlight' : handler'[g].kind \notin Opener
  BY <1>1, <1>2, IdleTyped DEF MovesOn, InFlight
<1>7. OpensRow' /\ ReopensCase'
  BY <1>6 DEF OpensRow, Opening, ReopensCase, Opener
<1>8. QED
  BY <1>1, <1>2, <1>3, <1>4, <1>5, <1>7

\* A resolution writes back the threads that the cases have.
LEMMA ResolveWrites ==
  ASSUME OpeningsAlone, LifecycleInv, NEW h \in Handler, Resolve(h)
  PROVE  \A c \in Case : rows'[c].thread = rows[c].thread
<1> USE DEF LifecycleInv
<1>1. HoldsWell(h) /\ handler[h].seen \in [Case -> Row] /\ handler[h].todo \subseteq Case
  BY ResolveRest, HandlerTyped
<1>2. CASE Reading(h)
  BY <1>2, ReadSteps DEF Reading
<1>3. CASE WriteOutcome(h)
  <2>1. PICK c \in handler[h].todo :
          /\ rows'[c].thread = handler[h].seen[c].thread
          /\ \A d \in Case : d # c => rows'[d] = rows[d]
    BY <1>3, WriteSteps
  <2>2. QED
    BY <1>1, <2>1 DEF HoldsWell
<1>4. CASE UndoOutcome(h)
  <2>1. PICK c \in handler[h].todo :
          /\ rows'[c] = handler[h].seen[c]
          /\ \A d \in Case : d # c => rows'[d] = rows[d]
    BY <1>4, UndoSteps
  <2>2. QED
    BY <1>1, <2>1 DEF HoldsWell
<1>5. CASE RemoveRole(h) \/ ClearMark(h) \/ ArchiveThread(h) \/ BanMember(h) \/ FailBan(h) \/ KickMember(h)
  BY <1>5 DEF RemoveRole, ClearMark, ArchiveThread, BanMember, FailBan, KickMember
<1>6. QED
  BY <1>2, <1>3, <1>4, <1>5 DEF Resolve, Reading

\* A resolution keeps to its steps, and holds rows that were pending.
LEMMA ResolveKeepsRows ==
  ASSUME OpeningsAlone, LifecycleInv, NEW h \in Handler, Resolve(h)
  PROVE  InPlace' /\ HoldsRows'
<1> USE DEF LifecycleInv, At
<1> DEFINE Ok == handler'[h].at # "idle" =>
                   handler'[h].at \in Places(handler[h].kind) /\ HoldsWell(h)'
<1>0. /\ MovesOn(h) /\ handler[h].kind \in Resolver \cup Observer
      /\ handler[h].at \in Places(handler[h].kind) /\ HoldsWell(h)
  BY ResolveRest
<1>1. \A c \in Case : rows'[c].thread = rows[c].thread
  BY ResolveWrites
<1>2. SUFFICES Ok
  <2>1. InPlace'
    BY <1>0, IdleTyped DEF MovesOn, InPlace, InFlight
  <2>2. \A g \in Handler : g # h /\ HoldsWell(g) => HoldsWell(g)'
    BY <1>0, <1>1 DEF MovesOn, HoldsWell, Held
  <2>3. HoldsRows'
    BY <1>0, <2>2 DEF MovesOn, HoldsRows, InFlight
  <2>4. QED
    BY <2>1, <2>3
<1>3. ASSUME handler'[h] = Idle PROVE Ok
  BY <1>3, IdleTyped
<1>4. ASSUME handler'[h].seen = handler[h].seen, handler'[h].todo \subseteq Held(h),
             handler'[h].at \in {"write", "archive", "undo"} => handler'[h].todo # {}
      PROVE  HoldsWell(h)'
  BY <1>0, <1>1, <1>4 DEF HoldsWell, Held
<1>5. /\ handler[h].todo \subseteq Held(h) /\ Held(h) \subseteq Case
      /\ handler[h].at \in {"write", "archive", "undo"} => handler[h].todo # {}
  BY <1>0 DEF HoldsWell, Held
<1>6. {"write", "member", "archive", "undo", "ban", "read"} \subseteq Step
  BY DEF Step
<1>7. CASE Reading(h)
  <2>1. CASE Ended(h)
    BY <1>3, <2>1 DEF Ended
  <2>2. CASE ~Ended(h)
    <3>1. PICK step \in Step, flag \in BOOLEAN :
            /\ Steps(h, step, handler[h].obj,
                     [c \in Case |-> IF c \in Pending(rows) THEN rows[c] ELSE NoRow],
                     Pending(rows), handler[h].mine, flag)
            /\ step \in {"write", "unrole", "kick", "member", "ban"}
            /\ step = "write" <=> Pending(rows) # {} /\ handler[h].kind # "kick"
            /\ step = "unrole" => handler[h].kind = "close"
            /\ step = "kick" <=> handler[h].kind = "kick"
            /\ step = "member" => handler[h].kind \in {"ban", "observedKick"}
            /\ step = "ban" => handler[h].kind = "banById"
      BY <1>7, <2>2, ReadSteps DEF Reading
    <3>2. rows' = rows
      BY <1>7, ReadSteps DEF Reading
    <3>3. /\ handler'[h].seen = [c \in Case |-> IF c \in Pending(rows) THEN rows[c] ELSE NoRow]
          /\ handler'[h].todo = Pending(rows) /\ handler'[h].at = step
      BY <3>1 DEF Steps
    <3>4. Held(h)' = Pending(rows)
      BY <3>3 DEF Held, Pending, NoRow
    <3>5. HoldsWell(h)'
      BY <3>1, <3>2, <3>3, <3>4 DEF HoldsWell, Pending
    <3>6. step \in Places(handler[h].kind)
      BY <1>0, <3>1 DEF Places, Resolver, Observer
    <3>7. QED
      BY <3>3, <3>5, <3>6
  <2>3. QED
    BY <2>1, <2>2
<1>8. CASE WriteOutcome(h)
  <2>1. PICK c \in handler[h].todo :
              \/ /\ handler[h].todo # {c}
                 /\ Steps(h, "write", handler[h].obj, handler[h].seen,
                          handler[h].todo \ {c}, handler[h].mine, handler[h].flag)
              \/ handler[h].todo = {c} /\ AfterWrite(h) = "idle" /\ Ended(h)
              \/ /\ handler[h].todo = {c} /\ AfterWrite(h) # "idle"
                 /\ Steps(h, AfterWrite(h), handler[h].obj, handler[h].seen, Held(h),
                          handler[h].mine, handler[h].flag)
    BY <1>8, WriteSteps
  <2>2. handler[h].at = "write"
    BY <1>8, WriteSteps
  <2>3. /\ AfterWrite(h) # "idle" => AfterWrite(h) \in Places(handler[h].kind)
        /\ AfterWrite(h) \notin {"write", "archive", "undo"}
    BY <1>0, <2>2 DEF AfterWrite, Places, Resolver, Observer
  <2>4. CASE handler[h].todo # {c} /\
             Steps(h, "write", handler[h].obj, handler[h].seen,
                   handler[h].todo \ {c}, handler[h].mine, handler[h].flag)
    BY <1>0, <1>4, <1>5, <2>2, <2>4 DEF Steps
  <2>5. CASE Ended(h)
    BY <1>3, <2>5 DEF Ended
  <2>6. CASE AfterWrite(h) # "idle" /\
             Steps(h, AfterWrite(h), handler[h].obj, handler[h].seen, Held(h),
                   handler[h].mine, handler[h].flag)
    BY <1>4, <2>3, <2>6 DEF Steps
  <2>7. QED
    BY <2>1, <2>4, <2>5, <2>6
<1>9. CASE RemoveRole(h)
  <2>1. /\ handler'[h].at = "member" /\ handler'[h].seen = handler[h].seen
        /\ handler'[h].todo = handler[h].todo /\ handler[h].at = "unrole"
    BY <1>6, <1>9, GotoSteps DEF RemoveRole, Steps
  <2>2. "member" \in Places(handler[h].kind)
    BY <1>0, <2>1 DEF Places, Resolver, Observer
  <2>3. QED
    BY <1>4, <1>5, <2>1, <2>2
<1>10. CASE ClearMark(h)
  <2>1. CASE Held(h) = {}
    BY <1>3, <1>10, <2>1, ReturnEnds DEF ClearMark, Ended
  <2>2. CASE Held(h) # {}
    <3>1. /\ handler'[h].at = "archive" /\ handler'[h].seen = handler[h].seen
          /\ handler'[h].todo = Held(h) /\ handler[h].at = "member"
      BY <1>6, <1>10, <2>2, LoopSteps DEF ClearMark, Steps
    <3>2. "archive" \in Places(handler[h].kind)
      BY <1>0, <3>1 DEF Places, Resolver, Observer
    <3>3. QED
      BY <1>4, <2>2, <3>1, <3>2
  <2>3. QED
    BY <2>1, <2>2
<1>11. CASE ArchiveThread(h)
  <2>1. PICK c \in handler[h].todo :
          \/ /\ handler[h].todo # {c}
             /\ Steps(h, "archive", handler[h].obj, handler[h].seen,
                      handler[h].todo \ {c}, handler[h].mine, handler[h].flag)
          \/ handler[h].todo = {c} /\ Ended(h)
    BY <1>11, ArchiveSteps
  <2>2. handler[h].at = "archive"
    BY <1>11, ArchiveSteps
  <2>3. CASE Ended(h)
    BY <1>3, <2>3 DEF Ended
  <2>4. CASE ~Ended(h)
    BY <1>0, <1>4, <1>5, <2>1, <2>2, <2>4 DEF Steps
  <2>5. QED
    BY <2>3, <2>4
<1>12. CASE BanMember(h)
  <2>1. /\ handler'[h].at = IF handler[h].kind = "ban" THEN "read" ELSE "member"
        /\ handler'[h].seen = handler[h].seen
        /\ handler'[h].todo = handler[h].todo /\ handler[h].at = "ban"
    BY <1>6, <1>12, GotoSteps DEF BanMember, Steps
  <2>2. handler'[h].at \in Places(handler[h].kind)
    BY <1>0, <2>1 DEF Places, Resolver, Observer
  <2>3. QED
    BY <1>4, <1>5, <2>1, <2>2
<1>13. CASE FailBan(h)
  <2>1. CASE handler[h].kind = "banById" /\ Held(h) # {}
    <3>1. /\ handler'[h].at = "undo" /\ handler'[h].seen = handler[h].seen
          /\ handler'[h].todo = Held(h)
      BY <1>6, <1>13, <2>1, LoopSteps DEF FailBan, Steps
    <3>2. "undo" \in Places(handler[h].kind)
      BY <2>1 DEF Places
    <3>3. QED
      BY <1>4, <2>1, <3>1, <3>2
  <2>2. CASE ~(handler[h].kind = "banById" /\ Held(h) # {})
    BY <1>3, <1>13, <2>2, ReturnEnds DEF FailBan, Ended
  <2>3. QED
    BY <2>1, <2>2
<1>14. CASE UndoOutcome(h)
  <2>1. PICK c \in handler[h].todo :
          \/ /\ handler[h].todo # {c}
             /\ Steps(h, "undo", handler[h].obj, handler[h].seen,
                      handler[h].todo \ {c}, handler[h].mine, handler[h].flag)
          \/ handler[h].todo = {c} /\ Ended(h)
    BY <1>14, UndoSteps
  <2>2. handler[h].at = "undo"
    BY <1>14, UndoSteps
  <2>3. CASE Ended(h)
    BY <1>3, <2>3 DEF Ended
  <2>4. CASE ~Ended(h)
    BY <1>0, <1>4, <1>5, <2>1, <2>2, <2>4 DEF Steps
  <2>5. QED
    BY <2>3, <2>4
<1>15. CASE KickMember(h)
  <2>1. /\ handler'[h].at = IF handler[h].todo # {} THEN "write" ELSE "member"
        /\ handler'[h].seen = handler[h].seen
        /\ handler'[h].todo = handler[h].todo /\ handler[h].at = "kick"
    BY <1>6, <1>15, GotoSteps DEF KickMember, Steps
  <2>2. handler'[h].at \in Places(handler[h].kind)
    BY <1>0, <2>1 DEF Places, Resolver, Observer
  <2>3. QED
    BY <1>4, <1>5, <2>1, <2>2
<1>16. QED
  BY <1>7, <1>8, <1>9, <1>10, <1>11, <1>12, <1>13, <1>14, <1>15 DEF Resolve, Reading

\* What a resolution does to the member and to the mark: the role goes before the mark.
LEMMA ResolveUnroles ==
  ASSUME OpeningsAlone, LifecycleInv, NEW h \in Handler, Resolve(h)
  PROVE  MemberIsOne' /\ Marked' /\ Unroled'
<1> USE DEF LifecycleInv, At, world
<1>0. /\ MovesOn(h) /\ handler[h].kind \in Resolver \cup Observer
      /\ handler[h].at \in Places(handler[h].kind)
      /\ \A g \in Handler : handler[g].at # "mark"
      /\ cut' = cut /\ (wasBanned => wasBanned')
  BY ResolveRest
<1>1. member \in [present : BOOLEAN, banned : BOOLEAN, role : BOOLEAN]
  BY DEF TypeOK
<1>2. /\ MemberIsOne' /\ (member'.role => member.role)
      /\ member' # member => ~member'.role
  <2>1. CASE Reading(h)
    BY <1>0, <2>1, ReadSteps DEF Reading, MemberIsOne
  <2>2. CASE RemoveRole(h)
    BY <1>1, <2>2 DEF RemoveRole, MemberIsOne
  <2>3. CASE BanMember(h)
    BY <2>3 DEF BanMember, MemberIsOne
  <2>4. CASE KickMember(h)
    BY <1>1, <2>4 DEF KickMember, MemberIsOne
  <2>5. CASE WriteOutcome(h) \/ ClearMark(h) \/ ArchiveThread(h) \/ FailBan(h) \/ UndoOutcome(h)
    BY <2>5 DEF WriteOutcome, ClearMark, ArchiveThread, FailBan, UndoOutcome, MemberIsOne
  <2>6. QED
    BY <2>1, <2>2, <2>3, <2>4, <2>5 DEF Resolve, Reading
<1>3. member.role => mark \/ MarkWasCut
  BY <1>0 DEF Marked
<1>4. MarkWasCut' <=> MarkWasCut
  BY <1>0 DEF MarkWasCut
<1>5. h \in InFlight /\ (RoleGone(h) => ~member.role \/ MarkWasCut)
  BY <1>0 DEF Unroled, MovesOn
<1>6. handler'[h].at # "idle" /\ RoleGone(h)' => ~member'.role \/ MarkWasCut
  <2>1. CASE Reading(h)
    <3>1. CASE Ended(h)
      BY <3>1, IdleTyped DEF Ended
    <3>2. CASE ~Ended(h)
      <4>1. PICK step \in Step, flag \in BOOLEAN :
              /\ Steps(h, step, handler[h].obj,
                       [c \in Case |-> IF c \in Pending(rows) THEN rows[c] ELSE NoRow],
                       Pending(rows), handler[h].mine, flag)
              /\ step \in {"write", "unrole", "kick", "member", "ban"}
              /\ step = "unrole" => handler[h].kind = "close"
              /\ step = "kick" <=> handler[h].kind = "kick"
              /\ step = "member" => handler[h].kind \in {"ban", "observedKick"}
              /\ step = "ban" => handler[h].kind = "banById"
              /\ handler[h].kind = "close" => flag = (member.present /\ mark)
        BY <2>1, <3>2, ReadSteps DEF Reading
      <4>2. /\ handler[h].at = "read" /\ member' = member
            /\ handler'[h].at = step /\ handler'[h].flag = flag
            /\ handler'[h].kind = handler[h].kind
        BY <2>1, <4>1, ReadSteps DEF Reading, Steps
      <4>3. CASE handler[h].kind = "close"
        <5>1. RoleGone(h)' => ~(member.present /\ mark)
          BY <4>1, <4>2, <4>3 DEF RoleGone
        <5>2. QED
          BY <1>3, <4>2, <5>1 DEF MemberIsOne
      <4>4. CASE handler[h].kind # "close"
        <5>1. RoleGone(h)' => RoleGone(h)
          BY <4>1, <4>2, <4>4 DEF RoleGone
        <5>2. QED
          BY <1>5, <4>2, <5>1
      <4>5. QED
        BY <4>3, <4>4
    <3>3. QED
      BY <3>1, <3>2
  <2>2. CASE WriteOutcome(h)
    <3>1. /\ handler[h].at = "write" /\ member' = member
          /\ \/ handler'[h].at \in {"write", AfterWrite(h)}
                /\ handler'[h].flag = handler[h].flag /\ handler'[h].kind = handler[h].kind
             \/ handler'[h] = Idle
      BY <2>2, WriteSteps DEF Steps, Ended
    <3>2. handler'[h].at # "idle" /\ RoleGone(h)' => RoleGone(h)
      BY <1>0, <3>1, IdleTyped DEF RoleGone, AfterWrite, Resolver, Observer
    <3>3. QED
      BY <1>5, <3>1, <3>2
  <2>3. CASE RemoveRole(h)
    BY <1>1, <2>3 DEF RemoveRole
  <2>4. CASE BanMember(h)
    BY <2>4 DEF BanMember
  <2>5. CASE KickMember(h)
    BY <1>1, <2>5 DEF KickMember
  <2>6. CASE ClearMark(h)
    <3>1. handler[h].at = "member" /\ member' = member
      BY <2>6 DEF ClearMark
    <3>2. RoleGone(h)
      BY <1>0, <3>1 DEF RoleGone, Places, Resolver, Observer
    <3>3. QED
      BY <1>5, <3>1, <3>2
  <2>7. CASE ArchiveThread(h)
    <3>1. handler[h].at = "archive" /\ member' = member
      BY <2>7, ArchiveSteps
    <3>2. RoleGone(h)
      BY <1>0, <3>1 DEF RoleGone, Places, Resolver, Observer
    <3>3. QED
      BY <1>5, <3>1, <3>2
  <2>8. CASE FailBan(h)
    <3>1. \/ handler'[h] = Idle
          \/ handler'[h].at = "undo" /\ handler'[h].kind = "banById"
      BY <2>8, ReturnEnds, LoopSteps DEF FailBan, Ended, Steps, Step
    <3>2. QED
      BY <3>1, IdleTyped DEF RoleGone
  <2>9. CASE UndoOutcome(h)
    <3>1. handler[h].at = "undo" /\ (handler'[h] = Idle \/ handler'[h].at = "undo")
      BY <2>9, UndoSteps DEF Ended, Steps
    <3>2. handler[h].kind = "banById"
      BY <1>0, <3>1 DEF Places, Resolver, Observer
    <3>3. handler'[h].kind = "banById" \/ handler'[h] = Idle
      BY <1>0, <3>2 DEF MovesOn
    <3>4. QED
      BY <3>1, <3>3, IdleTyped DEF RoleGone
  <2>10. QED
    BY <2>1, <2>2, <2>3, <2>4, <2>5, <2>6, <2>7, <2>8, <2>9 DEF Resolve, Reading
<1>7. Unroled'
  <2>1. \A g \in Handler : g # h => (RoleGone(g)' <=> RoleGone(g))
    BY <1>0 DEF MovesOn, RoleGone
  <2>2. QED
    BY <1>0, <1>2, <1>4, <1>6, <2>1 DEF MovesOn, Unroled, InFlight
<1>8. Marked'
  <2>1. CASE ClearMark(h)
    <3>1. handler[h].at = "member"
      BY <2>1 DEF ClearMark
    <3>2. RoleGone(h)
      BY <1>0, <3>1 DEF RoleGone, Places, Resolver, Observer
    <3>3. QED
      BY <1>2, <1>4, <1>5, <3>2 DEF Marked
  <2>2. CASE ~ClearMark(h)
    <3>1. mark' = mark
      <4>1. CASE Reading(h)
        BY <4>1, ReadSteps DEF Reading
      <4>2. CASE ~Reading(h)
        BY <2>2, <4>2 DEF Resolve, Reading, WriteOutcome, RemoveRole, ArchiveThread, BanMember,
           FailBan, UndoOutcome, KickMember
      <4>3. QED
        BY <4>1, <4>2
    <3>2. QED
      BY <1>2, <1>3, <1>4, <3>1 DEF Marked
  <2>3. QED
    BY <2>1, <2>2
<1>9. QED
  BY <1>2, <1>7, <1>8

\* A resolution writes banned when it knows of a ban, or owns the row from then on.
LEMMA ResolveBans ==
  ASSUME OpeningsAlone, LifecycleInv, NEW h \in Handler, Resolve(h)
  PROVE  BanKnown' /\ BanOwned'
<1> USE DEF LifecycleInv, At, world
<1>0. /\ MovesOn(h) /\ handler[h].kind \in Resolver \cup Observer
      /\ handler[h].at \in Places(handler[h].kind) /\ HoldsWell(h)
      /\ cut' = cut /\ (wasBanned => wasBanned')
  BY ResolveRest
<1>1. h \in InFlight /\ (KnowsOfBan(h) => wasBanned)
  BY <1>0 DEF BanKnown, MovesOn
<1>2. ASSUME \/ handler'[h] = Idle
             \/ wasBanned'
             \/ KnowsOfBan(h)' => KnowsOfBan(h)
      PROVE  BanKnown'
  <2>1. \A g \in Handler : g # h => (KnowsOfBan(g)' <=> KnowsOfBan(g))
    BY <1>0 DEF MovesOn, KnowsOfBan
  <2>2. QED
    BY <1>0, <1>1, <1>2, <2>1, IdleTyped DEF MovesOn, BanKnown, InFlight
<1>3. \A g \in Handler, c \in Case : g # h /\ Owns(g, c) => Owns(g, c)'
  BY <1>0 DEF MovesOn, Owns, Held
<1>4. ASSUME rows' = rows, \A c \in Case : Owns(h, c) => Owns(h, c)' PROVE BanOwned'
  BY <1>0, <1>3, <1>4 DEF BanOwned, BanWasCut
<1>5. CASE Reading(h)
  <2>1. rows' = rows /\ handler[h].at = "read"
    BY <1>5, ReadSteps DEF Reading
  <2>2. BanOwned'
    BY <1>4, <2>1 DEF Owns
  <2>3. CASE Ended(h)
    BY <1>2, <2>2, <2>3 DEF Ended
  <2>4. CASE ~Ended(h)
    <3>1. PICK step \in Step, flag \in BOOLEAN :
            /\ Steps(h, step, handler[h].obj,
                     [c \in Case |-> IF c \in Pending(rows) THEN rows[c] ELSE NoRow],
                     Pending(rows), handler[h].mine, flag)
            /\ step \in {"write", "unrole", "kick", "member", "ban"}
            /\ step = "member" => handler[h].kind \in {"ban", "observedKick"}
      BY <1>5, <2>4, ReadSteps DEF Reading
    <3>2. KnowsOfBan(h)' => KnowsOfBan(h)
      BY <2>1, <3>1 DEF KnowsOfBan, Steps
    <3>3. QED
      BY <1>2, <2>2, <3>2
  <2>5. QED
    BY <2>3, <2>4
<1>6. CASE WriteOutcome(h)
  <2>1. PICK c \in handler[h].todo :
          /\ rows'[c].status = OutcomeOf(handler[h].kind)
          /\ \A d \in Case : d # c => rows'[d] = rows[d]
          /\ \/ /\ handler[h].todo # {c}
                /\ Steps(h, "write", handler[h].obj, handler[h].seen,
                         handler[h].todo \ {c}, handler[h].mine, handler[h].flag)
             \/ handler[h].todo = {c} /\ AfterWrite(h) = "idle" /\ Ended(h)
             \/ /\ handler[h].todo = {c} /\ AfterWrite(h) # "idle"
                /\ Steps(h, AfterWrite(h), handler[h].obj, handler[h].seen, Held(h),
                         handler[h].mine, handler[h].flag)
    BY <1>6, WriteSteps
  <2>2. handler[h].at = "write"
    BY <1>6, WriteSteps
  <2>3. BanKnown'
    <3>1. handler'[h] = Idle \/ (KnowsOfBan(h)' => KnowsOfBan(h))
      BY <2>1, <2>2 DEF Ended, Steps, KnowsOfBan, AfterWrite
    <3>2. QED
      BY <1>2, <3>1
  <2>4. CASE handler[h].kind = "banById"
    <3>1. AfterWrite(h) = "ban"
      BY <2>4 DEF AfterWrite
    <3>2. /\ handler'[h].kind = "banById" /\ handler'[h].seen = handler[h].seen
          /\ \/ handler'[h].at = "write" /\ handler'[h].todo = handler[h].todo \ {c}
             \/ handler'[h].at = "ban" /\ handler[h].todo = {c}
      BY <2>1, <2>4, <3>1 DEF Steps
    <3>3. Held(h)' = Held(h)
      BY <3>2 DEF Held
    <3>4. c \in Held(h)
      BY <1>0, <2>1 DEF HoldsWell
    <3>5. Owns(h, c)'
      BY <3>2, <3>3, <3>4 DEF Owns
    <3>6. \A d \in Case : d # c /\ Owns(h, d) => Owns(h, d)'
      BY <2>2, <3>2, <3>3 DEF Owns
    <3>7. BanOwned'
      <4>1. SUFFICES ASSUME NEW d \in Case, rows'[d].status = "banned"
                     PROVE  wasBanned' \/ BanWasCut' \/ \E g \in Handler : Owns(g, d)'
        BY DEF BanOwned
      <4>2. CASE d = c
        BY <3>5, <4>2
      <4>3. CASE d # c
        <5>1. rows[d].status = "banned"
          BY <2>1, <4>1, <4>3
        <5>2. BanWasCut => BanWasCut'
          BY <1>0 DEF BanWasCut
        <5>3. QED
          BY <1>0, <1>3, <3>6, <4>3, <5>1, <5>2 DEF BanOwned
      <4>4. QED
        BY <4>2, <4>3
    <3>8. QED
      BY <2>3, <3>7
  <2>5. CASE handler[h].kind # "banById"
    <3>1. OutcomeOf(handler[h].kind) = "banned" => KnowsOfBan(h)
      BY <1>0, <2>2, <2>5 DEF OutcomeOf, KnowsOfBan, Places, Resolver, Observer
    <3>2. BanOwned'
      <4>1. SUFFICES ASSUME NEW d \in Case, rows'[d].status = "banned"
                     PROVE  wasBanned' \/ BanWasCut' \/ \E g \in Handler : Owns(g, d)'
        BY DEF BanOwned
      <4>2. CASE d = c
        BY <1>0, <1>1, <2>1, <3>1, <4>1, <4>2
      <4>3. CASE d # c
        <5>1. rows[d].status = "banned"
          BY <2>1, <4>1, <4>3
        <5>2. BanWasCut => BanWasCut'
          BY <1>0 DEF BanWasCut
        <5>3. ~Owns(h, d)
          BY <2>5 DEF Owns
        <5>4. QED
          BY <1>0, <1>3, <5>1, <5>2, <5>3 DEF BanOwned
      <4>4. QED
        BY <4>2, <4>3
    <3>3. QED
      BY <2>3, <3>2
  <2>6. QED
    BY <2>4, <2>5
<1>7. CASE RemoveRole(h) \/ KickMember(h) \/ ClearMark(h)
  <2>1. /\ rows' = rows /\ handler[h].at \in {"unrole", "kick", "member"}
        /\ \/ handler'[h] = Idle
           \/ handler'[h].at \in {"write", "member"} /\ handler[h].at # "member"
           \/ handler'[h].at = "archive" /\ handler[h].at = "member"
    BY <1>7, GotoSteps, LoopSteps, ReturnEnds
       DEF RemoveRole, KickMember, ClearMark, Steps, Ended, Step
  <2>2. handler'[h] = Idle \/ (KnowsOfBan(h)' => KnowsOfBan(h))
    BY <1>0, <2>1, IdleTyped DEF MovesOn, KnowsOfBan, Places, Resolver, Observer
  <2>3. \A c \in Case : ~Owns(h, c)
    BY <2>1 DEF Owns
  <2>4. QED
    BY <1>2, <1>4, <2>1, <2>2, <2>3
<1>8. CASE ArchiveThread(h)
  <2>1. /\ rows' = rows /\ handler[h].at = "archive"
        /\ \/ handler'[h] = Idle
           \/ handler'[h].at = "archive" /\ handler'[h].kind = handler[h].kind
    BY <1>8, ArchiveSteps DEF Steps, Ended
  <2>2. handler'[h] = Idle \/ (KnowsOfBan(h)' => KnowsOfBan(h))
    <3>1. SUFFICES ASSUME handler'[h] # Idle
                   PROVE  KnowsOfBan(h)' => KnowsOfBan(h)
      OBVIOUS
    <3>2. handler'[h].kind = handler[h].kind /\ handler[h].at = "archive"
      BY <2>1, <3>1
    <3>3. QED
      BY <3>2 DEF KnowsOfBan
  <2>3. \A c \in Case : ~Owns(h, c)
    BY <2>1 DEF Owns
  <2>4. QED
    BY <1>2, <1>4, <2>1, <2>2, <2>3
<1>9. CASE BanMember(h)
  BY <1>2, <1>9 DEF BanMember, BanOwned
<1>10. CASE FailBan(h)
  <2>1. rows' = rows /\ handler[h].at = "ban"
    BY <1>10 DEF FailBan
  <2>2. CASE handler[h].kind = "banById" /\ Held(h) # {}
    <3>1. /\ handler'[h].at = "undo" /\ handler'[h].seen = handler[h].seen
          /\ handler'[h].todo = Held(h) /\ handler'[h].kind = handler[h].kind
      BY <1>10, <2>2, LoopSteps DEF FailBan, Steps, Step
    <3>2. KnowsOfBan(h)' => KnowsOfBan(h)
      BY <2>2, <3>1 DEF KnowsOfBan
    <3>3. \A c \in Case : Owns(h, c) => Owns(h, c)'
      BY <3>1 DEF Owns, Held
    <3>4. QED
      BY <1>2, <1>4, <2>1, <3>2, <3>3
  <2>3. CASE ~(handler[h].kind = "banById" /\ Held(h) # {})
    <3>1. handler'[h] = Idle
      BY <1>10, <2>3, ReturnEnds DEF FailBan, Ended
    <3>2. \A c \in Case : ~Owns(h, c)
      BY <2>3 DEF Owns
    <3>3. QED
      BY <1>2, <1>4, <2>1, <3>1, <3>2
  <2>4. QED
    BY <2>2, <2>3
<1>11. CASE UndoOutcome(h)
  <2>1. PICK c \in handler[h].todo :
          /\ rows'[c] = handler[h].seen[c]
          /\ \A d \in Case : d # c => rows'[d] = rows[d]
          /\ \/ /\ handler[h].todo # {c}
                /\ Steps(h, "undo", handler[h].obj, handler[h].seen,
                         handler[h].todo \ {c}, handler[h].mine, handler[h].flag)
             \/ handler[h].todo = {c} /\ Ended(h)
    BY <1>11, UndoSteps
  <2>2. handler[h].at = "undo"
    BY <1>11, UndoSteps
  <2>3. rows'[c].status = "pending"
    BY <1>0, <2>1 DEF HoldsWell
  <2>4. BanKnown'
    <3>1. handler'[h] = Idle \/ (KnowsOfBan(h)' => KnowsOfBan(h))
      BY <2>1, <2>2 DEF Ended, Steps, KnowsOfBan
    <3>2. QED
      BY <1>2, <3>1
  <2>5. \A d \in Case : d # c /\ Owns(h, d) => Owns(h, d)'
    BY <2>1, <2>2 DEF Ended, Steps, Owns, Held
  <2>6. BanOwned'
    <3>1. BanWasCut => BanWasCut'
      BY <1>0 DEF BanWasCut
    <3>2. \A d \in Case : rows'[d].status = "banned" => d # c /\ rows[d].status = "banned"
      BY <2>1, <2>3
    <3>3. QED
      BY <1>0, <1>3, <2>5, <3>1, <3>2 DEF BanOwned
  <2>7. QED
    BY <2>4, <2>6
<1>12. QED
  BY <1>5, <1>6, <1>7, <1>8, <1>9, <1>10, <1>11 DEF Resolve, Reading

\* A resolution keeps the invariant.
LEMMA ResolveKeeps ==
  ASSUME OpeningsAlone, LifecycleInv, NEW h \in Handler, Resolve(h)
  PROVE  /\ InPlace' /\ HoldsRows' /\ OpensRow' /\ ReopensCase' /\ MemberIsOne' /\ Marked'
         /\ Unroled' /\ BanKnown' /\ BanOwned' /\ ThreadIsRecorded'
<1> USE DEF LifecycleInv, At
<1>1. /\ MovesOn(h) /\ OpensRow' /\ ReopensCase' /\ cut' = cut /\ HoldsWell(h)
      /\ handler[h].at \in Places(handler[h].kind) /\ handler[h].kind \in Resolver \cup Observer
  BY ResolveRest
<1>2. \A t \in Thread : threads'[t] # threads[t] => \E c \in Case : rows[c].thread = t
  <2>1. CASE ArchiveThread(h)
    <3>1. PICK c \in handler[h].todo :
            \A t \in Thread : threads'[t] # threads[t] => t = handler[h].seen[c].thread
      BY <2>1, ArchiveSteps
    <3>2. c \in Case /\ handler[h].seen[c].thread = rows[c].thread
      BY <1>1 DEF HoldsWell, Held
    <3>3. QED
      BY <3>1, <3>2
  <2>2. CASE ~ArchiveThread(h)
    <3>1. threads' = threads
      <4>1. CASE Reading(h)
        BY <4>1, ReadSteps DEF Reading
      <4>2. CASE ~Reading(h)
        BY <2>2, <4>2 DEF Resolve, Reading, WriteOutcome, RemoveRole, ClearMark, BanMember,
           FailBan, UndoOutcome, KickMember, world
      <4>3. QED
        BY <4>1, <4>2
    <3>2. QED
      BY <3>1
  <2>3. QED
    BY <2>1, <2>2
<1>3. handler[h].at # "store"
  BY <1>1 DEF Places, Resolver, Observer
<1>4. ThreadIsRecorded'
  BY <1>1, <1>2, <1>3, ResolveWrites DEF ThreadIsRecorded, MovesOn
<1>5. QED
  BY <1>1, <1>4, ResolveKeepsRows, ResolveUnroles, ResolveBans

---------------------------------------------------------------------------
(* The theorems *)

\* Nothing has happened.
LEMMA InitKeeps == Init => LifecycleInv
<1> SUFFICES ASSUME Init PROVE LifecycleInv
  OBVIOUS
<1>1. /\ \A h \in Handler : handler[h] = Idle
      /\ \A c \in Case : rows[c] = NoRow
      /\ \A t \in Thread : threads[t] = "none"
      /\ ~member.role /\ ~member.banned
  BY DEF Init
<1>2. InFlight = {}
  BY <1>1, IdleTyped DEF InFlight
<1>3. Alone /\ InPlace /\ HoldsRows /\ OpensRow /\ ReopensCase /\ Unroled /\ BanKnown
  BY <1>2 DEF Alone, InPlace, HoldsRows, OpensRow, Opening, ReopensCase, Unroled, BanKnown
<1>4. MemberIsOne /\ Marked /\ BanOwned /\ ThreadIsRecorded
  BY <1>1 DEF MemberIsOne, Marked, BanOwned, ThreadIsRecorded, NoRow
<1>5. QED
  BY <1>3, <1>4, InitTyped DEF LifecycleInv

\* No step breaks the invariant, as long as openings run alone.
LEMMA NextKeeps ==
  ASSUME OpeningsAlone
  PROVE  LifecycleInv /\ [Next]_vars => LifecycleInv'
<1> SUFFICES ASSUME LifecycleInv, [Next]_vars PROVE LifecycleInv'
  OBVIOUS
<1>1. TypeOK' /\ Alone'
  BY NextTyped, AloneKept DEF LifecycleInv
<1>2. /\ InPlace' /\ HoldsRows' /\ OpensRow' /\ ReopensCase' /\ MemberIsOne' /\ Marked'
      /\ Unroled' /\ BanKnown' /\ BanOwned' /\ ThreadIsRecorded'
  BY StartKeeps, StopKeeps, OpenKeeps, ResolveKeeps, WorldKeeps DEF Next
<1>3. QED
  BY <1>1, <1>2 DEF LifecycleInv

\* The inductive invariant holds, whatever kinds of resolutions may be in flight together.
THEOREM LifecycleInvariant ==
  ASSUME OpeningsAlone
  PROVE  Spec => []LifecycleInv
<1>1. Init => LifecycleInv
  BY InitKeeps
<1>2. LifecycleInv /\ [Next]_vars => LifecycleInv'
  BY NextKeeps
<1>3. QED
  BY <1>1, <1>2, PTL DEF Spec

\* A case that says banned is one of a member who was banned, unless a ban by id is
\* at it or was stopped there: whatever resolutions run beside each other.
THEOREM BannedIsTrue ==
  ASSUME OpeningsAlone
  PROVE  Spec => []BannedMeansBanned
<1>1. LifecycleInv => BannedMeansBanned
  <2> SUFFICES ASSUME LifecycleInv, NEW c \in Case, rows[c].status = "banned"
               PROVE  \/ wasBanned
                      \/ \E h \in InFlight : handler[h].kind = "banById"
                      \/ \E pair \in cut : pair[1] = "banById"
    BY DEF BannedMeansBanned
  <2>1. wasBanned \/ BanWasCut \/ \E h \in Handler : Owns(h, c)
    BY DEF LifecycleInv, BanOwned
  <2>2. ASSUME NEW h \in Handler, Owns(h, c) PROVE h \in InFlight /\ handler[h].kind = "banById"
    BY <2>2 DEF Owns, InFlight
  <2>3. QED
    BY <2>1, <2>2 DEF BanWasCut
<1>2. QED
  BY <1>1, LifecycleInvariant, PTL

\* What the bot did to the member and the threads in Discord, its rows know of.
THEOREM DiscordRecorded ==
  ASSUME OpeningsAlone
  PROVE  Spec => []DiscordIsRecorded
<1>1. LifecycleInv => DiscordIsRecorded
  BY DEF LifecycleInv, DiscordIsRecorded, RoleIsMarked, Marked, MarkWasCut, InFlight, At
<1>2. QED
  BY <1>1, LifecycleInvariant, PTL

\* An opening that ends, and was not stopped, leaves a pending case that moderators
\* can see and act on.
THEOREM OpenedVisible ==
  ASSUME OpeningsAlone
  PROVE  Spec => OpenedIsVisible
<1> DEFINE Visible(h) ==
      LET row == rows'[handler[h].obj] IN
      /\ row.status = "pending" /\ row.alert
      /\ row.thread # 0 \/ "thread" \in row.failed
      /\ mark' \/ "role" \in row.failed
<1>1. ASSUME LifecycleInv, [Next]_vars, NEW h \in Handler, Ends(h), handler[h].kind = "open"
      PROVE  Visible(h)
  <2> USE <1>1 DEF LifecycleInv
  <2>1. h \in InFlight /\ handler'[h] = Idle /\ handler'[h] # handler[h]
    BY IdleTyped DEF Ends, At, InFlight
  <2>2. ASSUME NEW g \in Handler, NEW kind \in Kinds, Start(g, kind) PROVE FALSE
    <3>1. handler'[g].at # "idle" /\ handler[g].at = "idle"
      BY <2>2, StartSteps DEF FirstStep, At
    <3>2. \A f \in Handler : f # g => handler'[f] = handler[f]
      BY <2>2, StartSteps
    <3>3. QED
      BY <2>1, <3>1, <3>2, IdleTyped
  <2>3. ASSUME NEW g \in Handler, Stop(g) \/ Open(g) \/ Resolve(g) PROVE g = h
    BY <2>1, <2>3, HandlerMoves DEF MovesOn
  <2>4. ~(World \/ UNCHANGED vars)
    BY <2>1, WorldSteps DEF vars
  <2>5. ~Stop(h)
    BY DEF Stop, Ends
  <2>6. ~Resolve(h)
    BY ResolveRest DEF Resolver, Observer
  <2>7. Open(h)
    BY <2>2, <2>3, <2>4, <2>5, <2>6 DEF Next
  <2>8. Notify(h)
    <3>1. handler[h].at \in Places("open")
      BY OpenRest, <2>7
    <3>2. handler'[h].at = "idle"
      BY <2>1, IdleTyped
    <3>3. {"look", "create", "role", "mark", "join", "route", "store", "notify"} \subseteq Step
      BY DEF Step
    <3>4. ~FindCase(h)
      <4>1. CASE Pending(rows) = {}
        BY <3>2, <3>3, <4>1, GotoSteps DEF FindCase, Steps
      <4>2. CASE Pending(rows) # {}
        <5>1. ASSUME FindCase(h) PROVE handler'[h].at = "look"
          <6>1. PICK c \in Pending(rows) :
                  handler' = [handler EXCEPT ![h].obj = c, ![h].seen[c] = rows[c],
                    ![h].at = IF handler[h].kind = "repair" THEN "role" ELSE "look"]
            BY <4>2, <5>1 DEF FindCase
          <6>2. QED
            BY <6>1, HandlerTyped DEF Local
        <5>2. QED
          BY <3>2, <5>1
      <4>3. QED
        BY <4>1, <4>2
    <3>5. ~LookAtMark(h)
      <4>1. AfterRole(h) \in Step /\ AfterRole(h) # "idle"
        BY StepsAreSteps DEF AfterRole
      <4>2. (IF mark THEN AfterRole(h) ELSE "role") \in Step
        BY <3>3, <4>1
      <4>3. QED
        BY <3>2, <4>1, <4>2, GotoSteps DEF LookAtMark, Steps
    <3>6. ~CreateCase(h)
      <4>1. ASSUME CreateCase(h) PROVE handler'[h].at = "role"
        <5>1. PICK c \in Case :
                handler' = [handler EXCEPT ![h].obj = c, ![h].seen[c] = rows'[c], ![h].at = "role"]
          BY <4>1 DEF CreateCase
        <5>2. QED
          BY <5>1, HandlerTyped DEF Local
      <4>2. QED
        BY <3>2, <4>1
    <3>7. ~AssignRole(h) /\ ~JoinThread(h)
      BY <3>2, <3>3, GotoSteps DEF AssignRole, JoinThread, Steps
    <3>8. ~FailRole(h)
      <4>1. AfterRole(h) \in Step /\ AfterRole(h) # "idle"
        BY StepsAreSteps DEF AfterRole
      <4>2. QED
        BY <3>2, <4>1, RecordFailureSteps DEF FailRole, Steps
    <3>9. ~MarkRole(h)
      <4>1. AfterRole(h) \in Step /\ AfterRole(h) # "idle"
        BY StepsAreSteps DEF AfterRole
      <4>2. handler[h].obj \in Case => rows[handler[h].obj] \in Row
        BY DEF TypeOK
      <4>3. QED
        BY <3>2, <4>1, <4>2, HoldSteps DEF MarkRole, Steps
    <3>10. ~CreateThread(h)
      BY <3>2, CreateThreadSteps DEF Steps
    <3>11. ~StoreThread(h)
      <4>1. handler[h].obj \in Case =>
              [handler[h].seen[handler[h].obj] EXCEPT !.thread = handler[h].mine] \in Row
        BY HandlerTyped DEF Row
      <4>2. QED
        BY <3>2, <3>3, <4>1, HoldSteps DEF StoreThread, Steps
    <3>12. ~RouteThread(h)
      <4>1. AfterThread(h) \in Step /\ AfterThread(h) # "idle"
        BY StepsAreSteps DEF AfterThread
      <4>2. QED
        BY <3>2, <4>1, GotoSteps DEF RouteThread, Steps
    <3>13. ~FailThread(h)
      <4>1. AfterFailedThread(h) = "notify"
        BY DEF AfterFailedThread
      <4>2. QED
        BY <3>2, <3>3, <4>1, RecordFailureSteps DEF FailThread, Steps
    <3>14. ~RejoinThread(h) /\ ~ClearFailure(h) /\ ~ReopenCase(h) /\ ~ReopenThread(h)
      BY <3>1 DEF Places, RejoinThread, ClearFailure, ReopenCase, ReopenThread, At
    <3>15. QED
      BY <2>7, <3>4, <3>5, <3>6, <3>7, <3>8, <3>9, <3>10, <3>11, <3>12, <3>13, <3>14 DEF Open
  <2>9. Opening(h) /\ OpensWell(h) /\ handler[h].at = "notify"
    BY <2>1, <2>8 DEF Notify, At, Opening, OpensRow
  <2>10. /\ handler[h].obj \in Case
         /\ rows[handler[h].obj].status = "pending"
         /\ rows[handler[h].obj].thread # 0 \/ "thread" \in rows[handler[h].obj].failed
         /\ mark \/ "role" \in rows[handler[h].obj].failed
    BY <2>9 DEF OpensWell, CaseOf
  <2>11. /\ rows' = [rows EXCEPT ![handler[h].obj].alert = TRUE] /\ mark' = mark
         /\ rows \in [Case -> Row]
    BY <2>8 DEF Notify, TypeOK
  <2>12. QED
    BY <2>10, <2>11 DEF Row
<1>2. LifecycleInv /\ [Next]_vars =>
        [\A h \in Handler : Ends(h) /\ handler[h].kind = "open" => Visible(h)]_vars
  BY <1>1
<1> HIDE DEF Visible
<1>3. Spec => [][\A h \in Handler : Ends(h) /\ handler[h].kind = "open" => Visible(h)]_vars
  BY <1>2, LifecycleInvariant, PTL DEF Spec
<1>4. QED
  BY <1>3 DEF OpenedIsVisible, Visible

---------------------------------------------------------------------------
(* A verification or a close releases the member *)

\* Beside a verification or a close run no opening, no ban by id, whose undo writes
\* pending rows back, and no departure, which writes the rows as it read them.
NothingIsPutBack == Parallel \cap (Opener \cup {"banById", "left"}) = {}

\* A verification or a close that found cases has still to write whatever is
\* pending; past its loop nothing is pending, past ClearMark nothing is marked.
ReleasesSoFar(h) ==
  /\ handler[h].at = "write" => Pending(rows) \subseteq handler[h].todo
  /\ handler[h].at \in {"unrole", "member", "archive"} => Pending(rows) = {}
  /\ handler[h].at = "archive" => ~mark
Releasing(h) == h \in InFlight /\ handler[h].kind \in {"verify", "close"}
Releases == \A h \in Handler : Releasing(h) => ReleasesSoFar(h)

\* No resolution but a ban by id and a departure makes a case pending or marks the role.
LEMMA NothingOpens ==
  ASSUME OpeningsAlone, LifecycleInv, NEW h \in Handler, Resolve(h),
         handler[h].kind \notin {"banById", "left"}
  PROVE  Pending(rows') \subseteq Pending(rows) /\ (mark' => mark)
<1> USE DEF LifecycleInv
<1>1. /\ handler[h].kind \in Resolver \cup Observer
      /\ handler[h].at \in Places(handler[h].kind)
  BY ResolveRest
<1>2. CASE Reading(h)
  BY <1>2, ReadSteps DEF Reading
<1>3. CASE WriteOutcome(h)
  <2>1. PICK c \in handler[h].todo :
          /\ rows'[c].status = OutcomeOf(handler[h].kind)
          /\ \A d \in Case : d # c => rows'[d] = rows[d]
    BY <1>3, WriteSteps
  <2>2. OutcomeOf(handler[h].kind) # "pending"
    BY DEF OutcomeOf
  <2>3. mark' = mark
    BY <1>3, WriteSteps
  <2>4. QED
    BY <2>1, <2>2, <2>3 DEF Pending
<1>4. CASE RemoveRole(h) \/ ClearMark(h) \/ ArchiveThread(h) \/ BanMember(h) \/ FailBan(h)
           \/ KickMember(h)
  BY <1>4 DEF RemoveRole, ClearMark, ArchiveThread, BanMember, FailBan, KickMember
<1>5. ~UndoOutcome(h)
  BY <1>1 DEF UndoOutcome, At, Places, Resolver, Observer
<1>6. QED
  BY <1>2, <1>3, <1>4, <1>5 DEF Resolve, Reading

\* The handler that moves has done its part.
LEMMA ReleaserReleases ==
  ASSUME OpeningsAlone, LifecycleInv, NEW h \in Handler, Resolve(h),
         Releasing(h), ReleasesSoFar(h), handler'[h].at # "idle"
  PROVE  ReleasesSoFar(h)'
<1> USE DEF LifecycleInv
<1>0. /\ handler[h].kind \in {"verify", "close"} /\ handler'[h] # Idle
      /\ handler[h].at \in Places(handler[h].kind)
  BY ResolveRest, IdleTyped DEF Releasing
<1>1. handler[h].at \notin {"ban", "undo", "kick"}
  BY <1>0 DEF Places
<1>2. CASE Reading(h)
  <2>1. rows' = rows
    BY <1>2, ReadSteps DEF Reading
  <2>2. PICK step \in Step, flag \in BOOLEAN :
          /\ Steps(h, step, handler[h].obj,
                   [c \in Case |-> IF c \in Pending(rows) THEN rows[c] ELSE NoRow],
                   Pending(rows), handler[h].mine, flag)
          /\ step \in {"write", "unrole", "kick", "member", "ban"}
          /\ step = "write" <=> Pending(rows) # {} /\ handler[h].kind # "kick"
    BY <1>0, <1>2, ReadSteps DEF Reading, Ended
  <2>3. handler'[h].at = step /\ handler'[h].todo = Pending(rows)
    BY <2>2 DEF Steps
  <2>4. CASE Pending(rows) # {}
    <3>1. handler'[h].at = "write"
      BY <1>0, <2>2, <2>3, <2>4
    <3>2. QED
      BY <2>1, <2>3, <3>1 DEF ReleasesSoFar
  <2>5. CASE Pending(rows) = {}
    <3>1. handler'[h].at \notin {"write", "archive"}
      BY <2>2, <2>3, <2>5
    <3>2. QED
      BY <2>1, <2>5, <3>1 DEF ReleasesSoFar
  <2>6. QED
    BY <2>4, <2>5
<1>3. CASE WriteOutcome(h)
  <2>1. PICK c \in handler[h].todo :
          /\ rows'[c].status = OutcomeOf(handler[h].kind)
          /\ \A d \in Case : d # c => rows'[d] = rows[d]
          /\ \/ /\ handler[h].todo # {c}
                /\ Steps(h, "write", handler[h].obj, handler[h].seen,
                         handler[h].todo \ {c}, handler[h].mine, handler[h].flag)
             \/ handler[h].todo = {c} /\ AfterWrite(h) = "idle" /\ Ended(h)
             \/ /\ handler[h].todo = {c} /\ AfterWrite(h) # "idle"
                /\ Steps(h, AfterWrite(h), handler[h].obj, handler[h].seen, Held(h),
                         handler[h].mine, handler[h].flag)
    BY <1>3, WriteSteps
  <2>2. Pending(rows) \subseteq handler[h].todo
    BY <1>3 DEF WriteOutcome, At, ReleasesSoFar
  <2>3. Pending(rows') \subseteq handler[h].todo \ {c}
    <3>1. OutcomeOf(handler[h].kind) # "pending"
      BY <1>0 DEF OutcomeOf
    <3>2. QED
      BY <2>1, <2>2, <3>1 DEF Pending
  <2>4. CASE handler[h].todo # {c}
    <3>1. handler'[h].at = "write" /\ handler'[h].todo = handler[h].todo \ {c}
      BY <2>1, <2>4 DEF Steps
    <3>2. QED
      BY <2>3, <3>1 DEF ReleasesSoFar
  <2>5. CASE handler[h].todo = {c}
    <3>1. AfterWrite(h) \in {"unrole", "member"}
      BY <1>0 DEF AfterWrite
    <3>2. handler'[h].at \in {"unrole", "member"}
      BY <1>0, <2>1, <2>5, <3>1 DEF Steps, Ended
    <3>3. Pending(rows') = {}
      BY <2>3, <2>5
    <3>4. QED
      BY <3>2, <3>3 DEF ReleasesSoFar
  <2>6. QED
    BY <2>4, <2>5
<1>4. CASE RemoveRole(h)
  <2>1. handler'[h].at = "member"
    BY <1>4, GotoSteps DEF RemoveRole, Steps, Step
  <2>2. QED
    BY <1>4, <2>1 DEF RemoveRole, At, ReleasesSoFar
<1>5. CASE ClearMark(h)
  <2>1. /\ rows' = rows /\ mark' = FALSE /\ handler[h].at = "member"
        /\ Held(h) # {} /\ handler' = [handler EXCEPT ![h].todo = Held(h), ![h].at = "archive"]
    BY <1>0, <1>5, ReturnEnds DEF ClearMark, At, Ended
  <2>2. handler'[h].at = "archive"
    BY <2>1, LoopSteps DEF Steps, Step
  <2>3. QED
    BY <2>1, <2>2 DEF ReleasesSoFar
<1>6. CASE ArchiveThread(h)
  <2>1. rows' = rows /\ mark' = mark /\ handler[h].at = "archive" /\ handler'[h].at = "archive"
    BY <1>0, <1>6, ArchiveSteps DEF Steps, Ended, At
  <2>2. QED
    BY <2>1 DEF ReleasesSoFar
<1>7. ~BanMember(h) /\ ~FailBan(h) /\ ~UndoOutcome(h) /\ ~KickMember(h)
  BY <1>1 DEF BanMember, FailBan, UndoOutcome, KickMember, At
<1>8. QED
  BY <1>2, <1>3, <1>4, <1>5, <1>6, <1>7 DEF Resolve, Reading

\* No step of any handler undoes what a verification or a close has done so far.
LEMMA ReleasesKept ==
  ASSUME NothingIsPutBack, LifecycleInv, Releases, [Next]_vars
  PROVE  Releases'
<1> USE DEF LifecycleInv
<1>0. OpeningsAlone
  BY DEF NothingIsPutBack, OpeningsAlone
<1>1. ASSUME rows' = rows, mark' = mark, NEW g \in Handler,
             \A h \in Handler : h # g => handler'[h] = handler[h],
             handler'[g].at \notin {"write", "unrole", "member", "archive"}
      PROVE  Releases'
  BY <1>1 DEF Releases, Releasing, ReleasesSoFar, InFlight
<1>2. ASSUME NEW h \in Handler, NEW kind \in Kinds, Start(h, kind) PROVE Releases'
  <2>1. handler'[h].at = FirstStep(kind) /\ \A g \in Handler : g # h => handler'[g] = handler[g]
    BY <1>2, StartSteps
  <2>2. FirstStep(kind) \notin {"write", "unrole", "member", "archive"}
    BY DEF FirstStep
  <2>3. rows' = rows /\ mark' = mark
    BY <1>2 DEF Start
  <2>4. QED
    BY <1>1, <2>1, <2>2, <2>3
<1>3. ASSUME NEW h \in Handler, Stop(h) PROVE Releases'
  <2>1. handler'[h].at = "idle" /\ \A g \in Handler : g # h => handler'[g] = handler[g]
    BY <1>3, ReturnEnds, IdleTyped DEF Stop, Ended
  <2>2. rows' = rows /\ mark' = mark
    BY <1>3 DEF Stop
  <2>3. QED
    BY <1>1, <2>1, <2>2
<1>4. ASSUME NEW h \in Handler, Open(h) PROVE Releases'
  <2>1. handler[h].kind \in Opener /\ \A g \in Handler : g # h => handler[g].at = "idle"
    BY <1>0, <1>4, OpenOnly
  <2>2. MovesOn(h)
    BY <1>4, HandlerMoves
  <2>3. \A g \in Handler : ~Releasing(g)'
    BY <2>1, <2>2, IdleTyped DEF MovesOn, Releasing, InFlight, Opener
  <2>4. QED
    BY <2>3 DEF Releases
<1>5. ASSUME NEW h \in Handler, Resolve(h) PROVE Releases'
  <2>1. SUFFICES ASSUME NEW g \in Handler, Releasing(g)' PROVE ReleasesSoFar(g)'
    BY DEF Releases
  <2>2. MovesOn(h)
    BY <1>5, HandlerMoves
  <2>3. Releasing(g) /\ ReleasesSoFar(g) /\ handler'[g].at # "idle"
    BY <2>1, <2>2, IdleTyped DEF MovesOn, Releasing, Releases, InFlight
  <2>4. CASE g = h
    BY <1>0, <1>5, <2>3, <2>4, ReleaserReleases
  <2>5. CASE g # h
    <3>1. handler[h].kind \notin {"banById", "left"} /\ handler'[g] = handler[g]
      BY <2>2, <2>3, <2>5 DEF MovesOn, Releasing, Alone, NothingIsPutBack
    <3>2. Pending(rows') \subseteq Pending(rows) /\ (mark' => mark)
      BY <1>0, <1>5, <3>1, NothingOpens
    <3>3. QED
      BY <2>3, <3>1, <3>2 DEF ReleasesSoFar
  <2>6. QED
    BY <2>4, <2>5
<1>6. ASSUME World PROVE Releases'
  <2>1. rows' = rows /\ mark' = mark /\ handler' = handler
    BY <1>6, WorldSteps
  <2>2. QED
    BY <2>1 DEF Releases, Releasing, ReleasesSoFar, InFlight
<1>7. ASSUME UNCHANGED vars PROVE Releases'
  BY <1>7 DEF vars, Releases, Releasing, ReleasesSoFar, InFlight
<1>8. QED
  BY <1>2, <1>3, <1>4, <1>5, <1>6, <1>7 DEF Next

\* Nothing is pending and nothing is marked when a verification or a close that
\* found cases has gone through, and the member does not have the case role.
THEOREM ResolutionReleased ==
  ASSUME NothingIsPutBack
  PROVE  Spec => ResolutionReleases
<1> DEFINE Released(h) ==
      /\ Ends(h) /\ handler[h].kind \in {"verify", "close"}
      /\ ~At(h, "read")
      /\ ~\E pair \in cut : pair[2] = "mark"
      => Pending(rows') = {} /\ ~member'.role /\ ~mark'
<1>0. OpeningsAlone
  BY DEF NothingIsPutBack, OpeningsAlone
<1>1. ASSUME LifecycleInv, Releases, [Next]_vars, NEW h \in Handler
      PROVE  Released(h)
  <2> USE <1>1 DEF LifecycleInv
  <2>1. SUFFICES ASSUME Ends(h), handler[h].kind \in {"verify", "close"}, ~At(h, "read"),
                        ~MarkWasCut
                 PROVE  Pending(rows') = {} /\ ~member'.role /\ ~mark'
    BY DEF MarkWasCut
  <2>2. h \in InFlight /\ handler'[h] = Idle /\ handler'[h] # handler[h]
    BY <2>1, IdleTyped DEF Ends, At, InFlight
  <2>3. ASSUME NEW g \in Handler, NEW kind \in Kinds, Start(g, kind) PROVE FALSE
    <3>1. handler'[g].at # "idle" /\ handler[g].at = "idle"
      BY <2>3, StartSteps DEF FirstStep, At
    <3>2. \A f \in Handler : f # g => handler'[f] = handler[f]
      BY <2>3, StartSteps
    <3>3. QED
      BY <2>2, <3>1, <3>2, IdleTyped
  <2>4. ASSUME NEW g \in Handler, Stop(g) \/ Open(g) \/ Resolve(g) PROVE g = h
    BY <2>2, <2>4, HandlerMoves DEF MovesOn
  <2>5. ~(World \/ UNCHANGED vars)
    BY <2>2, WorldSteps DEF vars
  <2>6. ~Stop(h)
    BY <2>1 DEF Stop, Ends
  <2>7. ~Open(h)
    BY <1>0, <2>1, OpenOnly DEF Opener
  <2>8. Resolve(h)
    BY <2>3, <2>4, <2>5, <2>6, <2>7 DEF Next
  <2>9. handler[h].at \in {"write", "unrole", "member", "archive"} /\ ReleasesSoFar(h)
    BY <2>1, <2>2 DEF InPlace, Places, At, Releases, Releasing
  <2>10. handler'[h].at = "idle"
    BY <2>2, IdleTyped
  <2>11. RoleGone(h) /\ handler[h].at \in {"member", "archive"} => ~member.role
    BY <2>1, <2>2 DEF Unroled
  <2>12. CASE ClearMark(h)
    BY <2>1, <2>9, <2>11, <2>12 DEF ClearMark, At, RoleGone, ReleasesSoFar, world
  <2>13. CASE ArchiveThread(h)
    BY <2>1, <2>9, <2>11, <2>13 DEF ArchiveThread, At, RoleGone, ReleasesSoFar
  <2>14. ~RemoveRole(h)
    BY <2>10, GotoSteps DEF RemoveRole, Steps, Step
  <2>15. ~WriteOutcome(h)
    <3>1. AfterWrite(h) \in {"unrole", "member"}
      BY <2>1 DEF AfterWrite
    <3>2. QED
      BY <2>10, <3>1, WriteSteps DEF Steps
  <2>16. /\ ~Reading(h) /\ ~BanMember(h) /\ ~FailBan(h) /\ ~UndoOutcome(h) /\ ~KickMember(h)
    BY <2>9, ReadSteps DEF Reading, BanMember, FailBan, UndoOutcome, KickMember, At
  <2>17. QED
    BY <2>8, <2>12, <2>13, <2>14, <2>15, <2>16 DEF Resolve, Reading
<1>2. Init => Releases
  BY IdleTyped DEF Init, Releases, Releasing, InFlight
<1>3. LifecycleInv /\ Releases /\ [Next]_vars => Releases'
  BY ReleasesKept
<1>4. LifecycleInv /\ Releases /\ [Next]_vars => [\A h \in Handler : Released(h)]_vars
  BY <1>1
<1> HIDE DEF Released
<1>5. Spec => []LifecycleInv
  BY <1>0, LifecycleInvariant
<1>6. Spec => [][\A h \in Handler : Released(h)]_vars
  BY <1>2, <1>3, <1>4, <1>5, PTL DEF Spec
<1>7. QED
  BY <1>6 DEF ResolutionReleases, Released
============================================================================
