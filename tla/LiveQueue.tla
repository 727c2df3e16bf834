----------------------------- MODULE LiveQueue -----------------------------
(***************************************************************************)
(* The live moderation queue, for one subject: the message that mirrors a   *)
(* pending case (an unresolved alert is mirrored the same way) in the queue *)
(* channel, and the row that knows the message.  Tasks, started when a case *)
(* changes and lost when they fail, create, edit and delete them beside the *)
(* reconciliation, which a timer starts again and again.                    *)
(***************************************************************************)
EXTENDS Integers

CONSTANTS
  Task,         \* tasks that can be in flight at one time
  Timer,        \* the reconciliation: one at a time, besides the tasks
  MaxRows,      \* bound: identities of rows, reused when nobody knows them
  MaxMessages,  \* bound: Discord messages that exist or are remembered
  MaxChanges,   \* bound: changes of the case, and tasks started
  MaxFaults     \* bound: failed calls, vanished messages and crashes

\* what the constants are assumed to be
LiveQueueAssumption ==
  /\ Timer \notin Task
  /\ MaxRows \in Nat /\ MaxMessages \in Nat /\ MaxChanges \in Nat /\ MaxFaults \in Nat

Handler == Task \cup {Timer}
Item == [id : 0..MaxRows, message : 0..MaxMessages]
NoItem == [id |-> 0, message |-> 0]

VARIABLES
  pending,   \* the case is pending
  item,      \* moderation_queue_items: the row of the case, with its message
  messages,  \* messages in the queue channel
  handler,   \* next step of each handler, and the row it holds
  lost,      \* messages whose row was lost to them in a known way (history)
  changes, faults

counters == <<changes, faults>>
vars == <<pending, item, messages, handler, lost, changes, faults>>

Step == {"idle", "row", "send", "store", "list", "unsend", "drop"}
Idle == [at |-> "idle", copy |-> NoItem]

\* The case may be older than the queue, which is enabled later.
Init ==
  /\ pending \in BOOLEAN /\ item = NoItem /\ messages = {}
  /\ handler = [h \in Handler |-> Idle]
  /\ lost = {} /\ changes = 0 /\ faults = 0

At(h, step) == handler[h].at = step
Return(h) == handler' = [handler EXCEPT ![h] = Idle]
Goto(h, step, copy) == handler' = [handler EXCEPT ![h] = [at |-> step, copy |-> copy]]
Fault == faults < MaxFaults /\ faults' = faults + 1

\* an identity nobody knows, for a new row and a new message
FreshRow ==
  {i \in 1..MaxRows : i # item.id /\ \A h \in Handler : handler[h].copy.id # i}
FreshMessage ==
  {m \in 1..MaxMessages :
     m \notin messages \cup {item.message}
     /\ \A h \in Handler : handler[h].copy.message # m}

---------------------------------------------------------------------------
(* The case *)

Change ==
  /\ changes < MaxChanges /\ changes' = changes + 1
  /\ pending' = ~pending
  /\ UNCHANGED <<item, messages, handler, lost, faults>>

\* Mutant: nothing deletes the mirror of a resolved case.
BeginPendingOnly(h) ==
  /\ At(h, "idle") /\ pending
  /\ Goto(h, "row", NoItem)
  /\ UNCHANGED <<pending, item, messages, lost, faults>>

\* upsertCaseMirror or deleteCaseMirror with the case as it is now
Begin(h) ==
  /\ At(h, "idle")
  /\ Goto(h, IF pending THEN "row" ELSE "list", NoItem)
  /\ UNCHANGED <<pending, item, messages, lost, faults>>

StartTask(h) ==
  /\ changes < MaxChanges /\ changes' = changes + 1
  /\ Begin(h)

\* runScheduledReconciliation: which cases are pending is read before any row
Tick == Begin(Timer) /\ UNCHANGED changes

---------------------------------------------------------------------------
(* upsertCaseMirror *)

UpsertRow(h) ==
  /\ At(h, "row")
  /\ \E i \in FreshRow :
       /\ item' = IF item.id = 0 THEN [id |-> i, message |-> 0] ELSE item
       /\ Goto(h, "send", item')
  /\ UNCHANGED <<pending, messages, lost, counters>>

\* Mutant: a recorded message is taken to be there.
EditRecorded(h) ==
  LET copy == handler[h].copy IN
  /\ At(h, "send")
  /\ IF copy.message # 0
     THEN UNCHANGED <<messages, lost>> /\ Goto(h, "store", copy)
     ELSE \E m \in FreshMessage :
            /\ messages' = messages \cup {m} /\ lost' = lost \ {m}
            /\ Goto(h, "store", [copy EXCEPT !.message = m])
  /\ UNCHANGED <<pending, item, counters>>

\* The message of the row is edited, or a new one sent where there is none.
SendOrEdit(h) ==
  LET copy == handler[h].copy IN
  /\ At(h, "send")
  /\ IF copy.message \in messages
     THEN UNCHANGED <<messages, lost>> /\ Goto(h, "store", copy)
     ELSE \E m \in FreshMessage :
            /\ messages' = messages \cup {m} /\ lost' = lost \ {m}
            /\ Goto(h, "store", [copy EXCEPT !.message = m])
  /\ UNCHANGED <<pending, item, counters>>

\* The call fails, or the fetch of the message does: then a second one is sent.
FailSend(h) ==
  LET copy == handler[h].copy IN
  /\ At(h, "send") /\ Fault
  /\ \/ Return(h) /\ UNCHANGED <<messages, lost>>
     \/ /\ copy.message \in messages
        /\ \E m \in FreshMessage :
             /\ messages' = messages \cup {m} /\ lost' = (lost \ {m}) \cup {copy.message}
             /\ Goto(h, "store", [copy EXCEPT !.message = m])
  /\ UNCHANGED <<pending, item, changes>>

\* The message is lost when the row is gone, another one when it was stored
\* in between.
StoreMessage(h) ==
  LET copy == handler[h].copy IN
  /\ At(h, "store")
  /\ IF item.id = copy.id
     THEN item' = copy /\ lost' = lost \cup ({item.message} \ {0, copy.message})
     ELSE item' = item /\ lost' = lost \cup {copy.message}
  /\ Return(h)
  /\ UNCHANGED <<pending, messages, counters>>

---------------------------------------------------------------------------
(* deleteCaseMirror, deleteStaleMirrorItems *)

ListItems(h) ==
  /\ At(h, "list")
  /\ IF item.id = 0 THEN Return(h) ELSE Goto(h, "unsend", item)
  /\ UNCHANGED <<pending, item, messages, lost, counters>>

DeleteMessage(h) ==
  /\ At(h, "unsend")
  /\ messages' = messages \ {handler[h].copy.message}
  /\ Goto(h, "drop", handler[h].copy)
  /\ UNCHANGED <<pending, item, lost, counters>>

\* Mutant: the row is dropped although the message is still there.
FailDeleteDropping(h) ==
  /\ At(h, "unsend") /\ Fault
  /\ item' = IF item.id = handler[h].copy.id THEN NoItem ELSE item
  /\ Return(h)
  /\ UNCHANGED <<pending, messages, lost, changes>>

\* The row of a message that could not be deleted is kept.
FailDelete(h) ==
  /\ At(h, "unsend") /\ Fault
  /\ Return(h)
  /\ UNCHANGED <<pending, item, messages, lost, changes>>

DropRow(h) ==
  LET copy == handler[h].copy IN
  /\ At(h, "drop")
  /\ IF item.id = copy.id
     THEN item' = NoItem /\ lost' = lost \cup ({item.message} \ {0, copy.message})
     ELSE UNCHANGED <<item, lost>>
  /\ Return(h)
  /\ UNCHANGED <<pending, messages, counters>>

---------------------------------------------------------------------------
(* Others *)

\* A moderator deletes the message.
Vanish ==
  /\ Fault
  /\ \E m \in messages : messages' = messages \ {m}
  /\ UNCHANGED <<pending, item, handler, lost, changes>>

\* A message just sent is lost with the process.
Crash ==
  /\ Fault
  /\ handler' = [h \in Handler |-> Idle]
  /\ lost' = lost \cup {handler[h].copy.message : h \in {g \in Handler : At(g, "store")}}
  /\ UNCHANGED <<pending, item, messages, changes>>

Work(h) ==
  \/ UpsertRow(h) \/ SendOrEdit(h) \/ StoreMessage(h)
  \/ ListItems(h) \/ DeleteMessage(h) \/ DropRow(h)

Next ==
  \/ Change \/ Tick \/ Vanish \/ Crash
  \/ \E h \in Task : StartTask(h)
  \/ \E h \in Handler : Work(h) \/ FailSend(h) \/ FailDelete(h)

Spec == Init /\ [][Next]_vars

\* The timer fires again and again, and calls are answered.
Fairness == WF_vars(Tick) /\ \A h \in Handler : WF_vars(Work(h))
FairSpec == Spec /\ Fairness

---------------------------------------------------------------------------
(* Properties *)

\* Types of the variables: the row, the channel and the handlers.
TypeOK ==
  /\ pending \in BOOLEAN
  /\ item \in Item
  /\ messages \subseteq 1..MaxMessages /\ lost \subseteq 1..MaxMessages
  /\ handler \in [Handler -> [at : Step, copy : Item]]
  /\ changes \in 0..MaxChanges /\ faults \in 0..MaxFaults

\* No message of the queue is forgotten: its row names it, or a handler is
\* about to store or to delete it, or it was lost in one of the known ways.  In
\* particular the row of a message that could not be deleted remains.
MessageIsKnown ==
  \A m \in messages \ lost :
    \/ item.message = m
    \/ \E h \in Handler : At(h, "store") /\ handler[h].copy.message = m

\* The queue follows the case in the end and for good: a case that stays pending
\* is mirrored by a message, one that stays resolved has no row.
QueueFollowsCase ==
  /\ <>[]pending => <>[](item.message \in messages)
  /\ <>[]~pending => <>[](item = NoItem)
============================================================================
