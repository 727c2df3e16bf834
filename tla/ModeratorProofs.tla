-------------------------- MODULE ModeratorProofs --------------------------
(***************************************************************************)
(* Proofs about the chains of prompts by which a moderator comes to an       *)
(* action: what every one of them asks for, and what the asking is worth     *)
(* when the moderator's standing and the settings change between two         *)
(* presses; and that with the services of ServicesProofs all variables are    *)
(* typed, for every value of the constants.                                  *)
(***************************************************************************)
EXTENDS ServicesProofs

---------------------------------------------------------------------------
(* What a press knows *)

Asking == {"leave", "sent", "now"}
Native == kind \in {"nativeBan", "nativeKick"}
Last == Len(Actions!Chain)
Checks(place) == Len(Actions!Chain[place])
What(place, i) == Actions!Chain[place][i][1]
Whom(place, i) == Actions!Chain[place][i][2]

\* what it shows that a check was passed since the press
Shows(place, i, shown) ==
  /\ (What(place, i) \in Asking /\ Whom(place, i) = Actions!Needs) => "leave" \in shown
  /\ (What(place, i) = "on" /\ Actions!Switch \subseteq {Whom(place, i)}) => "switch" \in shown
  /\ What(place, i) = "reason" => "reason" \in shown

\* The check would be passed at this moment.
Stands(place, i) ==
  /\ What(place, i) \in Asking => Actions!Holds(granted, Whom(place, i))
  /\ What(place, i) = "on" => Whom(place, i) \in on

\* A confirmation has been recorded when a chain has come so far.
Recorded(place, step) ==
  \/ Actions!Slash /\ (place = 2 \/ (place = 1 /\ step > Checks(1)))
  \/ Native /\ (place \in {3, 4} \/ (place = 2 /\ step > Checks(2)))

\* Offered in the same circumstances, a press and its prompt have what the first press asked for.
Unchanged(l) ==
  l.fresh =>
    /\ l.sent = granted
    /\ \A i \in 1..Checks(1) : (l.place > 1 \/ i < l.step) => Stands(1, i)

\* Seen is what holds now, and what did when it was passed.
Seen(l) ==
  /\ Actions!Has(granted, on, strict, l.given) \subseteq l.seen
  /\ Actions!Holds(l.sent, Actions!Needs) => "leave" \in l.seen
  /\ \A i \in 1..Checks(l.place) : i < l.step => Shows(l.place, i, l.seen)
  /\ (Actions!Slash /\ l.place = 2) => l.seen = Actions!Needed
  /\ (Native /\ l.place \in {3, 4}) => "reason" \in l.seen

PressSure(l) ==
  l.place # 0 =>
    /\ l.place \in 1..Last /\ l.step \in 1..Checks(l.place) + 1
    /\ l.id # 0 <=> Recorded(l.place, l.step)
    /\ Unchanged(l) /\ Seen(l)

PromptSure(q) ==
  /\ q.place \in 2..Last
  /\ q.id # 0 <=> Recorded(q.place, 1)
  /\ q.fresh => \A i \in 1..Checks(1) : Stands(1, i)

\* A last press is in time; what it took is not there any more; and it is alone, unless two
\* presses are known to overlap.
LastPress(h, id) == press[h].place = Last /\ press[h].id = id
LastSure(h) ==
  \A id \in 1..MaxRecords : LastPress(h, id) =>
    /\ acAge[id] <= ConfirmTtl
    /\ (Actions!Slash \/ press[h].step > Checks(Last)) => id \notin live
    /\ (Actions!Slash \/ id \notin overlapped) =>
         id \notin closed /\ \A g \in ActionHandler \ {h} : ~LastPress(g, id)

\* What is recorded was seen, and is not pending when it is closed.
RecordsSure ==
  /\ records \in 0..MaxRecords
  /\ live \subseteq 1..records /\ closed \subseteq 1..records /\ live \cap closed = {}
  /\ \A i \in 1..records :
       /\ Actions!Slash => kept[i] = Actions!Needed
       /\ Native => "reason" \in kept[i]
  /\ \A q \in screen : q.id \in 0..records
  /\ \A h \in ActionHandler : press[h].id \in 0..records

PressesSure == \A h \in ActionHandler : PressSure(press[h])
PromptsSure == \A q \in screen : PromptSure(q)
ConfirmationsSure == \A h \in ActionHandler : LastSure(h)

ActionInv == Actions!TypeOK /\ RecordsSure /\ PressesSure /\ PromptsSure /\ ConfirmationsSure

---------------------------------------------------------------------------
(* What the chains have in common *)

DecidingPlace == IF Actions!Slash THEN 1 ELSE Last

CheckNames == {"leave", "sent", "now", "on", "reason", "record", "consume"}

\* What a chain asks for later, the first press has asked for.
AskedAtFirst(place, i) ==
  What(place, i) \in Asking \cup {"on"} =>
    \E j \in 1..Checks(1) :
      /\ Whom(1, j) = Whom(place, i)
      /\ What(1, j) \in Asking <=> What(place, i) \in Asking
      /\ What(1, j) = "on" <=> What(place, i) = "on"

\* The place that decides asks for all that is needed; for a native action the reason is
\* asked for before.
Decides ==
  /\ \E i \in 1..Checks(DecidingPlace) :
       What(DecidingPlace, i) \in Asking /\ Whom(DecidingPlace, i) = Actions!Needs
  /\ Actions!Switch # {} =>
       \E i \in 1..Checks(DecidingPlace) :
         What(DecidingPlace, i) = "on" /\ Actions!Switch \subseteq {Whom(DecidingPlace, i)}
  /\ (kind \in Actions!Reasoned /\ ~Native) =>
       \E i \in 1..Checks(DecidingPlace) : What(DecidingPlace, i) = "reason"
  /\ Native => \E i \in 1..Checks(2) : What(2, i) = "reason"

\* A confirmation is recorded by the last check of one place, and consumed by the last of
\* another.
Records ==
  /\ \A place \in 1..Last : \A i \in 1..Checks(place) :
        /\ What(place, i) \in CheckNames
        /\ What(place, i) = "record" =>
            i = Checks(place) /\ ((Actions!Slash /\ place = 1) \/ (Native /\ place = 2))
        /\ What(place, i) = "consume" => i = Checks(place) /\ Native /\ place = 4
  /\ Actions!Slash =>
       /\ Last = 2 /\ Checks(1) > 0 /\ Checks(2) = 0
        /\ What(1, Checks(1)) = "record" /\ ~Native
  /\ Native =>
       /\ Last = 4 /\ Checks(2) > 0 /\ Checks(3) = 0 /\ Checks(4) > 0
        /\ What(2, Checks(2)) = "record" /\ What(4, Checks(4)) = "consume"

Bounded == Last \in 1..4 /\ \A place \in 1..Last : Checks(place) \in 0..4
AskedBefore == \A place \in 2..Last : \A i \in 1..Checks(place) : AskedAtFirst(place, i)

Chained == Bounded /\ AskedBefore /\ Decides /\ Records

\* A menu's two questions and one more.
LEMMA ThreeChecks ==
  ASSUME NEW a, NEW b, NEW c
  PROVE  <<a, b>> \o <<c>> = <<a, b, c>>
<1> DEFINE S == {a, b, c}
           s == <<a, b>>
           t == <<c>>
           r == <<a, b, c>>
<1>1. s \in Seq(S) /\ t \in Seq(S) /\ r \in Seq(S)
  OBVIOUS
<1>2. Len(s) = 2 /\ Len(t) = 1 /\ Len(r) = 3
  OBVIOUS
<1>3. s[1] = a /\ s[2] = b /\ t[1] = c /\ r[1] = a /\ r[2] = b /\ r[3] = c
  OBVIOUS
<1> HIDE DEF S, s, t, r
<1>4. /\ s \o t \in Seq(S) /\ Len(s \o t) = Len(s) + Len(t)
      /\ \A i \in 1..Len(s) + Len(t) : (s \o t)[i] = IF i <= Len(s) THEN s[i] ELSE t[i - Len(s)]
  BY <1>1, ConcatProperties, Zenon
<1>5. Len(s \o t) = 3 /\ \A i \in 1..3 : (s \o t)[i] = r[i]
  BY <1>2, <1>3, <1>4
<1>6. s \o t = r
  BY <1>1, <1>2, <1>4, <1>5, SeqEqual
<1> QED
  BY <1>6 DEF s, t, r

\* A list of three and one more.
LEMMA FourChecks ==
  ASSUME NEW a, NEW b, NEW c, NEW d
  PROVE  <<a, b, c>> \o <<d>> = <<a, b, c, d>>
<1> DEFINE S == {a, b, c, d}
           s == <<a, b, c>>
           t == <<d>>
           r == <<a, b, c, d>>
<1>1. s \in Seq(S) /\ t \in Seq(S) /\ r \in Seq(S)
  OBVIOUS
<1>2. Len(s) = 3 /\ Len(t) = 1 /\ Len(r) = 4
  OBVIOUS
<1>3. s[1] = a /\ s[2] = b /\ s[3] = c /\ t[1] = d /\ r[1] = a /\ r[2] = b /\ r[3] = c /\ r[4] = d
  OBVIOUS
<1> HIDE DEF S, s, t, r
<1>4. /\ s \o t \in Seq(S) /\ Len(s \o t) = Len(s) + Len(t)
      /\ \A i \in 1..Len(s) + Len(t) : (s \o t)[i] = IF i <= Len(s) THEN s[i] ELSE t[i - Len(s)]
  BY <1>1, ConcatProperties, Zenon
<1>5. Len(s \o t) = 4 /\ \A i \in 1..4 : (s \o t)[i] = r[i]
  BY <1>2, <1>3, <1>4
<1>6. s \o t = r
  BY <1>1, <1>2, <1>4, <1>5, SeqEqual
<1> QED
  BY <1>6 DEF s, t, r

\* Every kind of action is one of these.
LEMMA ChainsAgree ==
  ASSUME kind \in Actions!Kinds
  PROVE  Chained
<1> USE DEF Actions!Ask, Actions!AskSent, Actions!AskNow, Actions!Enabled, Actions!Reason,
            Actions!Record, Actions!Consume, Actions!Moderation
<1>1. CASE kind = "case"
  <2>1. Actions!Chain = <<<<<<"leave", {"manage", "moderate", "ban", "kick"}>>,
                              <<"leave", {"manage", "moderate"}>>>>,
                          <<>>,
                          <<<<"leave", {"manage", "moderate"}>>>>>>
    BY <1>1 DEF Actions!Chain, Actions!CaseAction, Actions!Menu, Actions!ConfirmAsked
  <2>2. Last = 3 /\ Checks(1) = 2 /\ Checks(2) = 0 /\ Checks(3) = 1
    BY <2>1 DEF Last, Checks
  <2>3. /\ What(1, 1) = "leave" /\ What(1, 2) = "leave" /\ What(3, 1) = "leave"
    BY <2>1 DEF What
  <2>4. Whom(1, 2) = Actions!Needs /\ Whom(3, 1) = Actions!Needs
    BY <1>1, <2>1 DEF Whom, Actions!Needs
  <2>5. Actions!Switch = {}
    BY <1>1 DEF Actions!Switch
  <2>6. kind \notin Actions!Reasoned
    BY <1>1 DEF Actions!Reasoned
  <2>7. ~Actions!Slash /\ ~Native
    BY <1>1 DEF Actions!Slash, Native
  <2>8. Decides
    BY <2>2, <2>3, <2>4, <2>5, <2>6, <2>7 DEF Decides, DecidingPlace, Asking
  <2>9. Records
    BY <2>2, <2>3, <2>7 DEF Records, CheckNames
  <2>10. Bounded
    BY <2>2 DEF Bounded
  <2>11. AskedBefore
    BY <2>2, <2>3, <2>4, <2>5 DEF AskedBefore, AskedAtFirst, Asking
  <2> QED
    BY <2>8, <2>9, <2>10, <2>11 DEF Chained
<1>2. CASE kind = "caseButton"
  <2>1. Actions!Chain = <<<<<<"leave", {"manage", "moderate"}>>>>,
                          <<<<"leave", {"manage", "moderate"}>>>>>>
    BY <1>2 DEF Actions!Chain, Actions!CaseButton, Actions!ConfirmAsked
  <2>2. Last = 2 /\ Checks(1) = 1 /\ Checks(2) = 1
    BY <2>1 DEF Last, Checks
  <2>3. /\ What(1, 1) = "leave" /\ What(2, 1) = "leave"
    BY <2>1 DEF What
  <2>4. Whom(1, 1) = Actions!Needs /\ Whom(2, 1) = Actions!Needs
    BY <1>2, <2>1 DEF Whom, Actions!Needs
  <2>5. Actions!Switch = {}
    BY <1>2 DEF Actions!Switch
  <2>6. kind \notin Actions!Reasoned
    BY <1>2 DEF Actions!Reasoned
  <2>7. ~Actions!Slash /\ ~Native
    BY <1>2 DEF Actions!Slash, Native
  <2>8. Decides
    BY <2>2, <2>3, <2>4, <2>5, <2>6, <2>7 DEF Decides, DecidingPlace, Asking
  <2>9. Records
    BY <2>2, <2>3, <2>7 DEF Records, CheckNames
  <2>10. Bounded
    BY <2>2 DEF Bounded
  <2>11. AskedBefore
    BY <2>2, <2>3, <2>4, <2>5 DEF AskedBefore, AskedAtFirst, Asking
  <2> QED
    BY <2>8, <2>9, <2>10, <2>11 DEF Chained
<1>3. CASE kind = "syncBan"
  <2>1. Actions!Chain = <<<<<<"leave", {"manage", "moderate", "ban", "kick"}>>,
                              <<"leave", {"ban"}>>>>,
                          <<>>,
                          <<<<"leave", {"ban"}>>>>>>
    BY <1>3 DEF Actions!Chain, Actions!SyncBan, Actions!Menu, Actions!ConfirmAsked
  <2>2. Last = 3 /\ Checks(1) = 2 /\ Checks(2) = 0 /\ Checks(3) = 1
    BY <2>1 DEF Last, Checks
  <2>3. /\ What(1, 1) = "leave" /\ What(1, 2) = "leave" /\ What(3, 1) = "leave"
    BY <2>1 DEF What
  <2>4. Whom(1, 2) = Actions!Needs /\ Whom(3, 1) = Actions!Needs
    BY <1>3, <2>1 DEF Whom, Actions!Needs
  <2>5. Actions!Switch = {}
    BY <1>3 DEF Actions!Switch
  <2>6. kind \notin Actions!Reasoned
    BY <1>3 DEF Actions!Reasoned
  <2>7. ~Actions!Slash /\ ~Native
    BY <1>3 DEF Actions!Slash, Native
  <2>8. Decides
    BY <2>2, <2>3, <2>4, <2>5, <2>6, <2>7 DEF Decides, DecidingPlace, Asking
  <2>9. Records
    BY <2>2, <2>3, <2>7 DEF Records, CheckNames
  <2>10. Bounded
    BY <2>2 DEF Bounded
  <2>11. AskedBefore
    BY <2>2, <2>3, <2>4, <2>5 DEF AskedBefore, AskedAtFirst, Asking
  <2> QED
    BY <2>8, <2>9, <2>10, <2>11 DEF Chained
<1>4. CASE kind = "kick"
  <2>1. Actions!Chain = <<<<<<"leave", {"manage", "moderate", "ban", "kick"}>>,
                              <<"leave", {"kick"}>>, <<"on", "kick">>>>,
                          <<>>,
                          <<<<"leave", {"kick"}>>, <<"on", "kick">>>>,
                          <<<<"leave", {"kick"}>>, <<"on", "kick">>, <<"reason", "">>>>>>
    <3>1. Actions!Chain = Actions!KickAction("kick")
      BY <1>4 DEF Actions!Chain
    <3>2. <<<<"leave", {"manage", "moderate", "ban", "kick"}>>, <<"leave", {"kick"}>>>>
          \o <<<<"on", "kick">>>>
          = <<<<"leave", {"manage", "moderate", "ban", "kick"}>>, <<"leave", {"kick"}>>,
            <<"on", "kick">>>>
      BY ThreeChecks, Zenon
    <3>3. {"manage", "moderate"} \cup {"ban", "kick"} = {"manage", "moderate", "ban", "kick"}
      OBVIOUS
    <3> QED
      BY <3>1, <3>2, <3>3, Zenon DEF Actions!KickAction, Actions!KickMenu, Actions!Menu,
         Actions!Submit
  <2>2. Last = 4 /\ Checks(1) = 3 /\ Checks(2) = 0 /\ Checks(3) = 2 /\ Checks(4) = 3
    BY <2>1 DEF Last, Checks
  <2>3. /\ What(1, 1) = "leave" /\ What(1, 2) = "leave" /\ What(1, 3) = "on"
        /\ What(3, 1) = "leave" /\ What(3, 2) = "on" /\ What(4, 1) = "leave"
        /\ What(4, 2) = "on" /\ What(4, 3) = "reason"
    BY <2>1 DEF What
  <2>4. Whom(1, 2) = Actions!Needs /\ Whom(3, 1) = Actions!Needs /\ Whom(4, 1) = Actions!Needs
    BY <1>4, <2>1 DEF Whom, Actions!Needs
  <2>5. Whom(3, 2) = Whom(1, 3) /\ Whom(4, 2) = Whom(1, 3) /\ Actions!Switch = {Whom(1, 3)}
    BY <1>4, <2>1 DEF Whom, Actions!Switch
  <2>6. kind \in Actions!Reasoned
    BY <1>4 DEF Actions!Reasoned
  <2>7. ~Actions!Slash /\ ~Native
    BY <1>4 DEF Actions!Slash, Native
  <2>8. Decides
    BY <2>2, <2>3, <2>4, <2>5, <2>6, <2>7 DEF Decides, DecidingPlace, Asking
  <2>9. Records
    BY <2>2, <2>3, <2>7 DEF Records, CheckNames
  <2>10. Bounded
    BY <2>2 DEF Bounded
  <2>11. AskedBefore
    BY <2>2, <2>3, <2>4, <2>5 DEF AskedBefore, AskedAtFirst, Asking
  <2> QED
    BY <2>8, <2>9, <2>10, <2>11 DEF Chained
<1>5. CASE kind = "observedKick"
  <2>1. Actions!Chain = <<<<<<"leave", {"manage", "moderate", "ban", "kick"}>>,
                              <<"leave", {"kick"}>>, <<"on", "observedKick">>>>,
                          <<>>,
                          <<<<"leave", {"kick"}>>, <<"on", "observedKick">>>>,
                          <<<<"leave", {"kick"}>>, <<"on", "observedKick">>, <<"reason", "">>>>>>
    <3>1. Actions!Chain = Actions!KickAction("observedKick")
      BY <1>5 DEF Actions!Chain
    <3>2. <<<<"leave", {"manage", "moderate", "ban", "kick"}>>, <<"leave", {"kick"}>>>>
          \o <<<<"on", "observedKick">>>>
          = <<<<"leave", {"manage", "moderate", "ban", "kick"}>>, <<"leave", {"kick"}>>,
            <<"on", "observedKick">>>>
      BY ThreeChecks, Zenon
    <3>3. {"manage", "moderate"} \cup {"ban", "kick"} = {"manage", "moderate", "ban", "kick"}
      OBVIOUS
    <3> QED
      BY <3>1, <3>2, <3>3, Zenon DEF Actions!KickAction, Actions!KickMenu, Actions!Menu,
         Actions!Submit
  <2>2. Last = 4 /\ Checks(1) = 3 /\ Checks(2) = 0 /\ Checks(3) = 2 /\ Checks(4) = 3
    BY <2>1 DEF Last, Checks
  <2>3. /\ What(1, 1) = "leave" /\ What(1, 2) = "leave" /\ What(1, 3) = "on"
        /\ What(3, 1) = "leave" /\ What(3, 2) = "on" /\ What(4, 1) = "leave"
        /\ What(4, 2) = "on" /\ What(4, 3) = "reason"
    BY <2>1 DEF What
  <2>4. Whom(1, 2) = Actions!Needs /\ Whom(3, 1) = Actions!Needs /\ Whom(4, 1) = Actions!Needs
    BY <1>5, <2>1 DEF Whom, Actions!Needs
  <2>5. Whom(3, 2) = Whom(1, 3) /\ Whom(4, 2) = Whom(1, 3) /\ Actions!Switch = {Whom(1, 3)}
    BY <1>5, <2>1 DEF Whom, Actions!Switch
  <2>6. kind \in Actions!Reasoned
    BY <1>5 DEF Actions!Reasoned
  <2>7. ~Actions!Slash /\ ~Native
    BY <1>5 DEF Actions!Slash, Native
  <2>8. Decides
    BY <2>2, <2>3, <2>4, <2>5, <2>6, <2>7 DEF Decides, DecidingPlace, Asking
  <2>9. Records
    BY <2>2, <2>3, <2>7 DEF Records, CheckNames
  <2>10. Bounded
    BY <2>2 DEF Bounded
  <2>11. AskedBefore
    BY <2>2, <2>3, <2>4, <2>5 DEF AskedBefore, AskedAtFirst, Asking
  <2> QED
    BY <2>8, <2>9, <2>10, <2>11 DEF Chained
<1>6. CASE kind = "ban"
  <2>1. Actions!Chain = <<<<<<"leave", {"manage", "moderate", "ban", "kick"}>>,
                              <<"leave", {"ban"}>>, <<"on", "ban">>>>,
                          <<<<"leave", {"ban"}>>, <<"on", "ban">>>>,
                          <<<<"leave", {"ban"}>>, <<"on", "ban">>, <<"reason", "">>>>>>
    <3>1. Actions!Chain = Actions!BanAction
      BY <1>6 DEF Actions!Chain
    <3>2. <<<<"leave", {"manage", "moderate", "ban", "kick"}>>, <<"leave", {"ban"}>>>>
          \o <<<<"on", "ban">>>>
          = <<<<"leave", {"manage", "moderate", "ban", "kick"}>>, <<"leave", {"ban"}>>,
            <<"on", "ban">>>>
      BY ThreeChecks, Zenon
    <3>3. {"manage", "moderate"} \cup {"ban", "kick"} = {"manage", "moderate", "ban", "kick"}
      OBVIOUS
    <3> QED
      BY <3>1, <3>2, <3>3, Zenon DEF Actions!BanAction, Actions!Menu, Actions!Submit
  <2>2. Last = 3 /\ Checks(1) = 3 /\ Checks(2) = 2 /\ Checks(3) = 3
    BY <2>1 DEF Last, Checks
  <2>3. /\ What(1, 1) = "leave" /\ What(1, 2) = "leave" /\ What(1, 3) = "on"
        /\ What(2, 1) = "leave" /\ What(2, 2) = "on" /\ What(3, 1) = "leave"
        /\ What(3, 2) = "on" /\ What(3, 3) = "reason"
    BY <2>1 DEF What
  <2>4. Whom(1, 2) = Actions!Needs /\ Whom(2, 1) = Actions!Needs /\ Whom(3, 1) = Actions!Needs
    BY <1>6, <2>1 DEF Whom, Actions!Needs
  <2>5. Whom(2, 2) = Whom(1, 3) /\ Whom(3, 2) = Whom(1, 3) /\ Actions!Switch = {Whom(1, 3)}
    BY <1>6, <2>1 DEF Whom, Actions!Switch
  <2>6. kind \in Actions!Reasoned
    BY <1>6 DEF Actions!Reasoned
  <2>7. ~Actions!Slash /\ ~Native
    BY <1>6 DEF Actions!Slash, Native
  <2>8. Decides
    BY <2>2, <2>3, <2>4, <2>5, <2>6, <2>7 DEF Decides, DecidingPlace, Asking
  <2>9. Records
    BY <2>2, <2>3, <2>7 DEF Records, CheckNames
  <2>10. Bounded
    BY <2>2 DEF Bounded
  <2>11. AskedBefore
    BY <2>2, <2>3, <2>4, <2>5 DEF AskedBefore, AskedAtFirst, Asking
  <2> QED
    BY <2>8, <2>9, <2>10, <2>11 DEF Chained
<1>7. CASE kind = "banButton"
  <2>1. Actions!Chain = <<<<<<"leave", {"ban"}>>, <<"on", "ban">>>>,
                          <<<<"leave", {"ban"}>>, <<"on", "ban">>, <<"reason", "">>>>>>
    BY <1>7 DEF Actions!Chain, Actions!BanButton, Actions!Submit
  <2>2. Last = 2 /\ Checks(1) = 2 /\ Checks(2) = 3
    BY <2>1 DEF Last, Checks
  <2>3. /\ What(1, 1) = "leave" /\ What(1, 2) = "on" /\ What(2, 1) = "leave"
        /\ What(2, 2) = "on" /\ What(2, 3) = "reason"
    BY <2>1 DEF What
  <2>4. Whom(1, 1) = Actions!Needs /\ Whom(2, 1) = Actions!Needs
    BY <1>7, <2>1 DEF Whom, Actions!Needs
  <2>5. Whom(2, 2) = Whom(1, 2) /\ Actions!Switch = {Whom(1, 2)}
    BY <1>7, <2>1 DEF Whom, Actions!Switch
  <2>6. kind \in Actions!Reasoned
    BY <1>7 DEF Actions!Reasoned
  <2>7. ~Actions!Slash /\ ~Native
    BY <1>7 DEF Actions!Slash, Native
  <2>8. Decides
    BY <2>2, <2>3, <2>4, <2>5, <2>6, <2>7 DEF Decides, DecidingPlace, Asking
  <2>9. Records
    BY <2>2, <2>3, <2>7 DEF Records, CheckNames
  <2>10. Bounded
    BY <2>2 DEF Bounded
  <2>11. AskedBefore
    BY <2>2, <2>3, <2>4, <2>5 DEF AskedBefore, AskedAtFirst, Asking
  <2> QED
    BY <2>8, <2>9, <2>10, <2>11 DEF Chained
<1>8. CASE kind = "nativeBan"
  <2>1. Actions!Chain = <<<<<<"sent", {"ban"}>>, <<"on", "ban">>>>,
                          <<<<"leave", {"ban"}>>, <<"on", "ban">>, <<"reason", "">>,
                            <<"record", "">>>>,
                          <<>>,
                          <<<<"leave", {"ban"}>>, <<"on", "ban">>, <<"consume", "">>>>>>
    <3>1. Actions!Chain = Actions!Native({"ban"}, "ban")
      BY <1>8 DEF Actions!Chain
    <3>2. <<<<"leave", {"ban"}>>, <<"on", "ban">>, <<"reason", "">>>> \o <<<<"record", "">>>>
          = <<<<"leave", {"ban"}>>, <<"on", "ban">>, <<"reason", "">>, <<"record", "">>>>
      BY FourChecks, Zenon
    <3> QED
      BY <3>1, <3>2, Zenon DEF Actions!Native, Actions!Submit
  <2>2. Last = 4 /\ Checks(1) = 2 /\ Checks(2) = 4 /\ Checks(3) = 0 /\ Checks(4) = 3
    BY <2>1 DEF Last, Checks
  <2>3. /\ What(1, 1) = "sent" /\ What(1, 2) = "on" /\ What(2, 1) = "leave"
        /\ What(2, 2) = "on" /\ What(2, 3) = "reason" /\ What(2, 4) = "record"
        /\ What(4, 1) = "leave" /\ What(4, 2) = "on" /\ What(4, 3) = "consume"
    BY <2>1 DEF What
  <2>4. Whom(1, 1) = Actions!Needs /\ Whom(2, 1) = Actions!Needs /\ Whom(4, 1) = Actions!Needs
    BY <1>8, <2>1 DEF Whom, Actions!Needs
  <2>5. Whom(2, 2) = Whom(1, 2) /\ Whom(4, 2) = Whom(1, 2) /\ Actions!Switch = {Whom(1, 2)}
    BY <1>8, <2>1 DEF Whom, Actions!Switch
  <2>6. kind \in Actions!Reasoned
    BY <1>8 DEF Actions!Reasoned
  <2>7. ~Actions!Slash /\ Native
    BY <1>8 DEF Actions!Slash, Native
  <2>8. Decides
    BY <2>2, <2>3, <2>4, <2>5, <2>6, <2>7 DEF Decides, DecidingPlace, Asking
  <2>9. Records
    BY <2>2, <2>3, <2>7 DEF Records, CheckNames
  <2>10. Bounded
    BY <2>2 DEF Bounded
  <2>11. AskedBefore
    BY <2>2, <2>3, <2>4, <2>5 DEF AskedBefore, AskedAtFirst, Asking
  <2> QED
    BY <2>8, <2>9, <2>10, <2>11 DEF Chained
<1>9. CASE kind = "nativeKick"
  <2>1. Actions!Chain = <<<<<<"sent", {"kick"}>>, <<"on", "kick">>>>,
                          <<<<"leave", {"kick"}>>, <<"on", "kick">>, <<"reason", "">>,
                            <<"record", "">>>>,
                          <<>>,
                          <<<<"leave", {"kick"}>>, <<"on", "kick">>, <<"consume", "">>>>>>
    <3>1. Actions!Chain = Actions!Native({"kick"}, "kick")
      BY <1>9 DEF Actions!Chain
    <3>2. <<<<"leave", {"kick"}>>, <<"on", "kick">>, <<"reason", "">>>> \o <<<<"record", "">>>>
          = <<<<"leave", {"kick"}>>, <<"on", "kick">>, <<"reason", "">>, <<"record", "">>>>
      BY FourChecks, Zenon
    <3> QED
      BY <3>1, <3>2, Zenon DEF Actions!Native, Actions!Submit
  <2>2. Last = 4 /\ Checks(1) = 2 /\ Checks(2) = 4 /\ Checks(3) = 0 /\ Checks(4) = 3
    BY <2>1 DEF Last, Checks
  <2>3. /\ What(1, 1) = "sent" /\ What(1, 2) = "on" /\ What(2, 1) = "leave"
        /\ What(2, 2) = "on" /\ What(2, 3) = "reason" /\ What(2, 4) = "record"
        /\ What(4, 1) = "leave" /\ What(4, 2) = "on" /\ What(4, 3) = "consume"
    BY <2>1 DEF What
  <2>4. Whom(1, 1) = Actions!Needs /\ Whom(2, 1) = Actions!Needs /\ Whom(4, 1) = Actions!Needs
    BY <1>9, <2>1 DEF Whom, Actions!Needs
  <2>5. Whom(2, 2) = Whom(1, 2) /\ Whom(4, 2) = Whom(1, 2) /\ Actions!Switch = {Whom(1, 2)}
    BY <1>9, <2>1 DEF Whom, Actions!Switch
  <2>6. kind \in Actions!Reasoned
    BY <1>9 DEF Actions!Reasoned
  <2>7. ~Actions!Slash /\ Native
    BY <1>9 DEF Actions!Slash, Native
  <2>8. Decides
    BY <2>2, <2>3, <2>4, <2>5, <2>6, <2>7 DEF Decides, DecidingPlace, Asking
  <2>9. Records
    BY <2>2, <2>3, <2>7 DEF Records, CheckNames
  <2>10. Bounded
    BY <2>2 DEF Bounded
  <2>11. AskedBefore
    BY <2>2, <2>3, <2>4, <2>5 DEF AskedBefore, AskedAtFirst, Asking
  <2> QED
    BY <2>8, <2>9, <2>10, <2>11 DEF Chained
<1>10. CASE kind = "openCase"
  <2>1. Actions!Chain = <<<<<<"sent", {"moderate"}>>>>,
                          <<<<"leave", {"moderate"}>>, <<"reason", "">>>>>>
    BY <1>10 DEF Actions!Chain, Actions!OpenCase
  <2>2. Last = 2 /\ Checks(1) = 1 /\ Checks(2) = 2
    BY <2>1 DEF Last, Checks
  <2>3. /\ What(1, 1) = "sent" /\ What(2, 1) = "leave" /\ What(2, 2) = "reason"
    BY <2>1 DEF What
  <2>4. Whom(1, 1) = Actions!Needs /\ Whom(2, 1) = Actions!Needs
    BY <1>10, <2>1 DEF Whom, Actions!Needs
  <2>5. Actions!Switch = {}
    BY <1>10 DEF Actions!Switch
  <2>6. kind \in Actions!Reasoned
    BY <1>10 DEF Actions!Reasoned
  <2>7. ~Actions!Slash /\ ~Native
    BY <1>10 DEF Actions!Slash, Native
  <2>8. Decides
    BY <2>2, <2>3, <2>4, <2>5, <2>6, <2>7 DEF Decides, DecidingPlace, Asking
  <2>9. Records
    BY <2>2, <2>3, <2>7 DEF Records, CheckNames
  <2>10. Bounded
    BY <2>2 DEF Bounded
  <2>11. AskedBefore
    BY <2>2, <2>3, <2>4, <2>5 DEF AskedBefore, AskedAtFirst, Asking
  <2> QED
    BY <2>8, <2>9, <2>10, <2>11 DEF Chained
<1>11. CASE kind = "slashBan"
  <2>1. Actions!Chain = <<<<<<"sent", {"ban"}>>, <<"on", "ban">>, <<"reason", "">>,
                              <<"record", "">>>>,
                          <<>>>>
    BY <1>11 DEF Actions!Chain, Actions!BanCommand
  <2>2. Last = 2 /\ Checks(1) = 4 /\ Checks(2) = 0
    BY <2>1 DEF Last, Checks
  <2>3. /\ What(1, 1) = "sent" /\ What(1, 2) = "on" /\ What(1, 3) = "reason"
        /\ What(1, 4) = "record"
    BY <2>1 DEF What
  <2>4. Whom(1, 1) = Actions!Needs
    BY <1>11, <2>1 DEF Whom, Actions!Needs
  <2>5. Actions!Switch = {Whom(1, 2)}
    BY <1>11, <2>1 DEF Whom, Actions!Switch
  <2>6. kind \in Actions!Reasoned
    BY <1>11 DEF Actions!Reasoned
  <2>7. Actions!Slash /\ ~Native
    BY <1>11 DEF Actions!Slash, Native
  <2>8. Decides
    BY <2>2, <2>3, <2>4, <2>5, <2>6, <2>7 DEF Decides, DecidingPlace, Asking
  <2>9. Records
    BY <2>2, <2>3, <2>7 DEF Records, CheckNames
  <2>10. Bounded
    BY <2>2 DEF Bounded
  <2>11. AskedBefore
    BY <2>2, <2>3, <2>4, <2>5 DEF AskedBefore, AskedAtFirst, Asking
  <2> QED
    BY <2>8, <2>9, <2>10, <2>11 DEF Chained
<1>12. CASE kind = "slashOpen"
  <2>1. Actions!Chain = <<<<<<"sent", {"moderate"}>>, <<"reason", "">>, <<"record", "">>>>,
                          <<>>>>
    BY <1>12 DEF Actions!Chain, Actions!CaseCommand
  <2>2. Last = 2 /\ Checks(1) = 3 /\ Checks(2) = 0
    BY <2>1 DEF Last, Checks
  <2>3. /\ What(1, 1) = "sent" /\ What(1, 2) = "reason" /\ What(1, 3) = "record"
    BY <2>1 DEF What
  <2>4. Whom(1, 1) = Actions!Needs
    BY <1>12, <2>1 DEF Whom, Actions!Needs
  <2>5. Actions!Switch = {}
    BY <1>12 DEF Actions!Switch
  <2>6. kind \in Actions!Reasoned
    BY <1>12 DEF Actions!Reasoned
  <2>7. Actions!Slash /\ ~Native
    BY <1>12 DEF Actions!Slash, Native
  <2>8. Decides
    BY <2>2, <2>3, <2>4, <2>5, <2>6, <2>7 DEF Decides, DecidingPlace, Asking
  <2>9. Records
    BY <2>2, <2>3, <2>7 DEF Records, CheckNames
  <2>10. Bounded
    BY <2>2 DEF Bounded
  <2>11. AskedBefore
    BY <2>2, <2>3, <2>4, <2>5 DEF AskedBefore, AskedAtFirst, Asking
  <2> QED
    BY <2>8, <2>9, <2>10, <2>11 DEF Chained
<1>13. CASE kind = "slashAudit"
  <2>1. Actions!Chain = <<<<<<"sent", {"manage"}>>, <<"record", "">>>>,
                          <<>>>>
    BY <1>13 DEF Actions!Chain, Actions!AuditCommand
  <2>2. Last = 2 /\ Checks(1) = 2 /\ Checks(2) = 0
    BY <2>1 DEF Last, Checks
  <2>3. /\ What(1, 1) = "sent" /\ What(1, 2) = "record"
    BY <2>1 DEF What
  <2>4. Whom(1, 1) = Actions!Needs
    BY <1>13, <2>1 DEF Whom, Actions!Needs
  <2>5. Actions!Switch = {}
    BY <1>13 DEF Actions!Switch
  <2>6. kind \notin Actions!Reasoned
    BY <1>13 DEF Actions!Reasoned
  <2>7. Actions!Slash /\ ~Native
    BY <1>13 DEF Actions!Slash, Native
  <2>8. Decides
    BY <2>2, <2>3, <2>4, <2>5, <2>6, <2>7 DEF Decides, DecidingPlace, Asking
  <2>9. Records
    BY <2>2, <2>3, <2>7 DEF Records, CheckNames
  <2>10. Bounded
    BY <2>2 DEF Bounded
  <2>11. AskedBefore
    BY <2>2, <2>3, <2>4, <2>5 DEF AskedBefore, AskedAtFirst, Asking
  <2> QED
    BY <2>8, <2>9, <2>10, <2>11 DEF Chained
<1>14. CASE kind = "slashIntake"
  <2>1. Actions!Chain = <<<<<<"sent", {}>>, <<"reason", "">>, <<"record", "">>>>,
                          <<>>>>
    BY <1>14 DEF Actions!Chain, Actions!RoleIntakeCommand
  <2>2. Last = 2 /\ Checks(1) = 3 /\ Checks(2) = 0
    BY <2>1 DEF Last, Checks
  <2>3. /\ What(1, 1) = "sent" /\ What(1, 2) = "reason" /\ What(1, 3) = "record"
    BY <2>1 DEF What
  <2>4. Whom(1, 1) = Actions!Needs
    BY <1>14, <2>1 DEF Whom, Actions!Needs
  <2>5. Actions!Switch = {}
    BY <1>14 DEF Actions!Switch
  <2>6. kind \in Actions!Reasoned
    BY <1>14 DEF Actions!Reasoned
  <2>7. Actions!Slash /\ ~Native
    BY <1>14 DEF Actions!Slash, Native
  <2>8. Decides
    BY <2>2, <2>3, <2>4, <2>5, <2>6, <2>7 DEF Decides, DecidingPlace, Asking
  <2>9. Records
    BY <2>2, <2>3, <2>7 DEF Records, CheckNames
  <2>10. Bounded
    BY <2>2 DEF Bounded
  <2>11. AskedBefore
    BY <2>2, <2>3, <2>4, <2>5 DEF AskedBefore, AskedAtFirst, Asking
  <2> QED
    BY <2>8, <2>9, <2>10, <2>11 DEF Chained
<1>15. CASE kind = "slashFlag"
  <2>1. Actions!Chain = <<<<<<"now", {}>>, <<"record", "">>>>,
                          <<>>>>
    BY <1>15 DEF Actions!Chain, Actions!FlagUserCommand
  <2>2. Last = 2 /\ Checks(1) = 2 /\ Checks(2) = 0
    BY <2>1 DEF Last, Checks
  <2>3. /\ What(1, 1) = "now" /\ What(1, 2) = "record"
    BY <2>1 DEF What
  <2>4. Whom(1, 1) = Actions!Needs
    BY <1>15, <2>1 DEF Whom, Actions!Needs
  <2>5. Actions!Switch = {}
    BY <1>15 DEF Actions!Switch
  <2>6. kind \notin Actions!Reasoned
    BY <1>15 DEF Actions!Reasoned
  <2>7. Actions!Slash /\ ~Native
    BY <1>15 DEF Actions!Slash, Native
  <2>8. Decides
    BY <2>2, <2>3, <2>4, <2>5, <2>6, <2>7 DEF Decides, DecidingPlace, Asking
  <2>9. Records
    BY <2>2, <2>3, <2>7 DEF Records, CheckNames
  <2>10. Bounded
    BY <2>2 DEF Bounded
  <2>11. AskedBefore
    BY <2>2, <2>3, <2>4, <2>5 DEF AskedBefore, AskedAtFirst, Asking
  <2> QED
    BY <2>8, <2>9, <2>10, <2>11 DEF Chained
<1>16. CASE kind = "slashRepair"
  <2>1. Actions!Chain = <<<<<<"sent", {}>>>>>>
    BY <1>16 DEF Actions!Chain, Actions!RepairCommand
  <2>2. Last = 1 /\ Checks(1) = 1
    BY <2>1 DEF Last, Checks
  <2>3. /\ What(1, 1) = "sent"
    BY <2>1 DEF What
  <2>4. Whom(1, 1) = Actions!Needs
    BY <1>16, <2>1 DEF Whom, Actions!Needs
  <2>5. Actions!Switch = {}
    BY <1>16 DEF Actions!Switch
  <2>6. kind \notin Actions!Reasoned
    BY <1>16 DEF Actions!Reasoned
  <2>7. ~Actions!Slash /\ ~Native
    BY <1>16 DEF Actions!Slash, Native
  <2>8. Decides
    BY <2>2, <2>3, <2>4, <2>5, <2>6, <2>7 DEF Decides, DecidingPlace, Asking
  <2>9. Records
    BY <2>2, <2>3, <2>7 DEF Records, CheckNames
  <2>10. Bounded
    BY <2>2 DEF Bounded
  <2>11. AskedBefore
    BY <2>2, <2>3, <2>4, <2>5 DEF AskedBefore, AskedAtFirst, Asking
  <2> QED
    BY <2>8, <2>9, <2>10, <2>11 DEF Chained
<1>17. CASE kind = "acknowledge"
  <2>1. Actions!Chain = <<<<<<"leave", {"manage", "moderate"}>>>>>>
    BY <1>17 DEF Actions!Chain, Actions!Acknowledge
  <2>2. Last = 1 /\ Checks(1) = 1
    BY <2>1 DEF Last, Checks
  <2>3. /\ What(1, 1) = "leave"
    BY <2>1 DEF What
  <2>4. Whom(1, 1) = Actions!Needs
    BY <1>17, <2>1 DEF Whom, Actions!Needs
  <2>5. Actions!Switch = {}
    BY <1>17 DEF Actions!Switch
  <2>6. kind \notin Actions!Reasoned
    BY <1>17 DEF Actions!Reasoned
  <2>7. ~Actions!Slash /\ ~Native
    BY <1>17 DEF Actions!Slash, Native
  <2>8. Decides
    BY <2>2, <2>3, <2>4, <2>5, <2>6, <2>7 DEF Decides, DecidingPlace, Asking
  <2>9. Records
    BY <2>2, <2>3, <2>7 DEF Records, CheckNames
  <2>10. Bounded
    BY <2>2 DEF Bounded
  <2>11. AskedBefore
    BY <2>2, <2>3, <2>4, <2>5 DEF AskedBefore, AskedAtFirst, Asking
  <2> QED
    BY <2>8, <2>9, <2>10, <2>11 DEF Chained
<1> QED
  BY <1>1, <1>2, <1>3, <1>4, <1>5, <1>6, <1>7, <1>8, <1>9, <1>10, <1>11, <1>12, <1>13, <1>14,
     <1>15, <1>16, <1>17 DEF Actions!Kinds

---------------------------------------------------------------------------
(* The chain stays, and what a press knows with it *)

\* what the constants are
LEMMA ActionConstants ==
  ASSUME ServicesAssumption
  PROVE  /\ Grants \subseteq SUBSET Actions!Permission
         /\ ConfirmTtl \in Nat /\ MaxRecords \in Nat
BY DEF ServicesAssumption, Actions!ModeratorActionsAssumption

\* What the kind determines stays with it.
LEMMA ChainStays ==
  ASSUME kind' = kind
  PROVE  /\ Actions!Chain' = Actions!Chain /\ Last' = Last
         /\ Actions!Needs' = Actions!Needs /\ Actions!Switch' = Actions!Switch
         /\ Actions!Slash' = Actions!Slash /\ Native' = Native
<1>1. Actions!Chain' = Actions!Chain
  BY DEF Actions!Chain
<1>2. Last' = Last
  BY <1>1 DEF Last
<1>3. Actions!Needs' = Actions!Needs /\ Actions!Switch' = Actions!Switch
  BY DEF Actions!Needs, Actions!Switch
<1>4. Actions!Slash' = Actions!Slash /\ Native' = Native
  BY Zenon DEF Actions!Slash, Native
<1> QED
  BY <1>1, <1>2, <1>3, <1>4

\* The fields of a press.
LEMMA PressFields ==
  ASSUME NEW l \in Actions!Press
  PROVE  /\ l.place \in 0..4 /\ l.step \in 1..5 /\ l.id \in 0..MaxRecords
         /\ l.sent \subseteq Actions!Permission /\ l.given \in BOOLEAN /\ l.fresh \in BOOLEAN
         /\ l.seen \subseteq Actions!Needed
BY DEF Actions!Press

\* What the invariant says of types.
LEMMA ActionTypes ==
  ASSUME ActionInv
  PROVE  /\ kind \in Actions!Kinds /\ Chained
         /\ granted \in Grants /\ on \subseteq Actions!Switch /\ strict \in BOOLEAN
         /\ screen \subseteq Actions!Prompt
         /\ press \in [ActionHandler -> Actions!Press]
         /\ acAge \in [1..MaxRecords -> 0..ConfirmTtl + 1]
         /\ kept \in [1..MaxRecords -> SUBSET Actions!Needed]
         /\ live \subseteq 1..MaxRecords /\ closed \subseteq 1..MaxRecords
         /\ overlapped \subseteq 1..MaxRecords
BY ChainsAgree DEF ActionInv, Actions!TypeOK

\* While nothing else changes, a press that knows its place still does.
LEMMA PressPrimed ==
  ASSUME UNCHANGED <<kind, granted, on, strict>>,
         \A h \in ActionHandler : PressSure(press'[h])
  PROVE  PressesSure'
<1>1. kind' = kind /\ granted' = granted /\ on' = on /\ strict' = strict
  OBVIOUS
<1>2. ASSUME NEW h \in ActionHandler
      PROVE  PressSure(press[h])'
  <2> DEFINE l == press'[h]
  <2>1. PressSure(l)
    OBVIOUS
  <2>2. CASE l.place = 0
    BY <2>2 DEF PressSure
  <2>3. CASE l.place # 0
    <3>1. /\ l.place \in 1..Last /\ l.step \in 1..Checks(l.place) + 1
          /\ l.id # 0 <=> Recorded(l.place, l.step)
          /\ Unchanged(l) /\ Seen(l)
      BY <2>1, <2>3 DEF PressSure
    <3>2. /\ l.place \in 1..Last' /\ l.step \in 1..Checks(press[h].place)' + 1
          /\ l.id # 0 <=> Recorded(press[h].place, press[h].step)'
      BY <1>1, <3>1, ChainStays DEF Recorded, Checks
    <3>3. Unchanged(press[h])'
      BY <1>1, <3>1, ChainStays DEF Unchanged, Stands, Checks, What, Whom, Actions!Holds
    <3>4. Seen(press[h])'
      BY <1>1, <3>1, ChainStays
         DEF Seen, Shows, Checks, What, Whom, Actions!Has, Actions!Holds, Actions!Reasoned,
             Actions!Needed
    <3> QED
      BY <3>2, <3>3, <3>4, Zenon DEF PressSure
  <2> QED
    BY <2>2, <2>3
<1> QED
  BY <1>2 DEF PressesSure

\* And so does a prompt.
LEMMA PromptPrimed ==
  ASSUME UNCHANGED <<kind, granted, on, strict>>,
         \A q \in screen' : PromptSure(q)
  PROVE  PromptsSure'
<1>1. kind' = kind /\ granted' = granted /\ on' = on /\ strict' = strict
  OBVIOUS
<1>2. ASSUME NEW q \in screen'
      PROVE  PromptSure(q)'
  <2>1. PromptSure(q)
    OBVIOUS
  <2> QED
    BY <1>1, <2>1, ChainStays, SMTT(60)
       DEF PromptSure, Stands, Recorded, Checks, What, Whom, Last, Actions!Holds
<1> QED
  BY <1>2 DEF PromptsSure

---------------------------------------------------------------------------
(* The presses that a step moves *)

\* Where a busy press is.
LEMMA PressPlace ==
  ASSUME ActionInv, NEW h \in ActionHandler, Actions!Busy(h)
  PROVE  /\ press[h] \in Actions!Press /\ PressSure(press[h])
         /\ press[h].place \in 1..Last /\ Last \in 1..4
         /\ Checks(press[h].place) \in 0..4
         /\ press[h].step \in 1..Checks(press[h].place) + 1
         /\ Unchanged(press[h]) /\ Seen(press[h])
         /\ press[h].id # 0 <=> Recorded(press[h].place, press[h].step)
<1>1. press[h] \in Actions!Press /\ PressSure(press[h])
  BY ActionTypes DEF ActionInv, PressesSure
<1>2. press[h].place # 0
  BY <1>1, PressFields DEF Actions!Busy
<1>3. Bounded
  BY ActionTypes DEF Chained
<1> QED
  BY <1>1, <1>2, <1>3 DEF PressSure, Bounded

\* A press at a check.
LEMMA PressAt ==
  ASSUME ActionInv, NEW h \in ActionHandler, NEW name, Actions!At(h, name)
  PROVE  /\ Actions!Busy(h)
         /\ press[h].step \in 1..Checks(press[h].place)
         /\ What(press[h].place, press[h].step) = name
         /\ Actions!Ahead(h)[2] = Whom(press[h].place, press[h].step)
<1>1. Actions!Busy(h) /\ ~(press[h].step > Checks(press[h].place))
  BY DEF Actions!At, Actions!Through, Actions!Steps, Checks
<1>2. /\ What(press[h].place, press[h].step) = name
      /\ Actions!Ahead(h)[2] = Whom(press[h].place, press[h].step)
  BY DEF Actions!At, Actions!Ahead, Actions!Steps, What, Whom
<1> QED
  BY <1>1, <1>2, PressPlace

\* A press through its checks.
LEMMA PressThrough ==
  ASSUME ActionInv, NEW h \in ActionHandler, Actions!Through(h)
  PROVE  Actions!Busy(h) /\ press[h].step = Checks(press[h].place) + 1
<1>1. Actions!Busy(h) /\ press[h].step > Checks(press[h].place)
  BY DEF Actions!Through, Actions!Steps, Checks
<1> QED
  BY <1>1, PressPlace

\* Who has passed the checks of the deciding place has all that is needed.
LEMMA DecidedSeen ==
  ASSUME ActionInv, NEW l \in Actions!Press, PressSure(l), l.place = DecidingPlace,
         IF Actions!Slash THEN l.step >= Checks(1) ELSE l.step > Checks(Last)
  PROVE  l.seen = Actions!Needed
<1>1. Chained /\ l.place # 0 /\ Seen(l)
  BY ActionTypes DEF PressSure, Chained, Bounded, DecidingPlace
<1>2. l.step \in Nat /\ l.seen \subseteq Actions!Needed
  BY PressFields
<1>3. Actions!Has(granted, on, strict, l.given) \subseteq l.seen
  BY <1>1 DEF Seen
<1>4. ASSUME NEW i \in 1..Checks(DecidingPlace), What(DecidingPlace, i) \in Asking \cup {"on",
     "reason"}
      PROVE  Shows(DecidingPlace, i, l.seen)
  <2>1. CASE Actions!Slash
    <3>1. What(1, Checks(1)) = "record" /\ DecidingPlace = 1
      BY <1>1, <2>1 DEF Chained, Records, DecidingPlace
    <3>2. i # Checks(1)
      BY <1>4, <3>1 DEF Asking
    <3>3. Checks(1) \in 0..4
      BY <1>1 DEF Chained, Bounded
    <3> QED
      BY <1>1, <1>2, <2>1, <3>1, <3>2, <3>3 DEF Seen
  <2>2. CASE ~Actions!Slash
    <3>1. Checks(Last) \in 0..4 /\ DecidingPlace = Last
      BY <1>1, <2>2 DEF Chained, Bounded, DecidingPlace
    <3> QED
      BY <1>1, <1>2, <2>2, <3>1 DEF Seen
  <2> QED
    BY <2>1, <2>2
<1>5. "leave" \in l.seen
  <2>1. PICK i \in 1..Checks(DecidingPlace) :
          What(DecidingPlace, i) \in Asking /\ Whom(DecidingPlace, i) = Actions!Needs
    BY <1>1 DEF Chained, Decides
  <2> QED
    BY <1>4, <2>1 DEF Shows
<1>6. "switch" \in l.seen
  <2>1. CASE Actions!Switch = {}
    BY <1>3, <2>1 DEF Actions!Has
  <2>2. CASE Actions!Switch # {}
    <3>1. PICK i \in 1..Checks(DecidingPlace) :
            What(DecidingPlace, i) = "on" /\ Actions!Switch \subseteq {Whom(DecidingPlace, i)}
      BY <1>1, <2>2 DEF Chained, Decides
    <3> QED
      BY <1>4, <3>1 DEF Shows
  <2> QED
    BY <2>1, <2>2
<1>7. "reason" \in l.seen
  <2>1. CASE kind \notin Actions!Reasoned
    BY <1>3, <2>1 DEF Actions!Has
  <2>2. CASE Native
    <3>1. ~Actions!Slash /\ Last = 4
      BY <1>1, <2>2 DEF Chained, Records
    <3> QED
      BY <1>1, <2>2, <3>1 DEF Seen, DecidingPlace
  <2>3. CASE kind \in Actions!Reasoned /\ ~Native
    <3>1. PICK i \in 1..Checks(DecidingPlace) : What(DecidingPlace, i) = "reason"
      BY <1>1, <2>3 DEF Chained, Decides
    <3> QED
      BY <1>4, <3>1 DEF Shows
  <2> QED
    BY <2>1, <2>2, <2>3
<1> QED
  BY <1>2, <1>5, <1>6, <1>7 DEF Actions!Needed

---------------------------------------------------------------------------
(* What a step leaves of the invariant *)

\* The parts of it, after a step that is none of the circumstances.
LEMMA ActionParts ==
  ASSUME ActionInv, UNCHANGED <<kind, granted, on, strict>>,
         press' \in [ActionHandler -> Actions!Press], screen' \subseteq Actions!Prompt,
         acAge' \in [1..MaxRecords -> 0..ConfirmTtl + 1],
         kept' \in [1..MaxRecords -> SUBSET Actions!Needed],
         live' \subseteq 1..MaxRecords, closed' \subseteq 1..MaxRecords,
         overlapped' \subseteq 1..MaxRecords,
         \A h \in ActionHandler : PressSure(press'[h]),
         \A q \in screen' : PromptSure(q),
         RecordsSure', ConfirmationsSure'
  PROVE  ActionInv'
<1>1. /\ kind' \in Actions!Kinds /\ granted' \in Grants /\ on' \subseteq Actions!Switch'
      /\ strict' \in BOOLEAN
  BY ActionTypes, ChainStays
<1>2. Actions!TypeOK'
  BY <1>1 DEF Actions!TypeOK, Actions!Kinds, Actions!Press, Actions!Prompt, Actions!Needed,
     Actions!Permission, Actions!Moderation
<1> QED
  BY <1>2, PressPrimed, PromptPrimed DEF ActionInv

\* One press moves.
LEMMA PressMoved ==
  ASSUME ActionInv, NEW h \in ActionHandler, NEW new \in Actions!Press,
         press' = [press EXCEPT ![h] = new], PressSure(new)
  PROVE  /\ press' \in [ActionHandler -> Actions!Press]
         /\ press'[h] = new /\ \A g \in ActionHandler \ {h} : press'[g] = press[g]
         /\ \A g \in ActionHandler : PressSure(press'[g])
<1>1. press' \in [ActionHandler -> Actions!Press]
  BY ActionTypes
<1>2. press'[h] = new /\ \A g \in ActionHandler \ {h} : press'[g] = press[g]
  BY ActionTypes
<1>3. ASSUME NEW g \in ActionHandler
      PROVE  PressSure(press'[g])
  <2>1. CASE g = h
    BY <1>2, <2>1, Zenon
  <2>2. CASE g # h
    <3>1. press'[g] = press[g] /\ PressSure(press[g])
      BY <1>2, <2>2 DEF ActionInv, PressesSure
    <3> QED
      BY <3>1, Zenon
  <2> QED
    BY <2>1, <2>2
<1> QED
  BY <1>1, <1>2, <1>3

\* Nothing is known of no press.
LEMMA NoPress ==
  ASSUME ServicesAssumption
  PROVE  /\ Actions!Idle \in Actions!Press /\ PressSure(Actions!Idle)
         /\ Actions!Idle.place = 0 /\ Actions!Idle.id = 0 /\ Actions!Idle.step = 1
<1>1. Actions!Idle \in Actions!Press
  BY ActionConstants DEF Actions!Idle, Actions!Press
<1>2. Actions!Idle.place = 0 /\ Actions!Idle.id = 0 /\ Actions!Idle.step = 1
  BY DEF Actions!Idle
<1> QED
  BY <1>1, <1>2 DEF PressSure

\* A press follows from what it was, as to its confirmation.
Follows(g) ==
  \/ press'[g].id = 0
  \/ /\ press'[g].place = press[g].place /\ press'[g].id = press[g].id
     /\ \/ press'[g].step = press[g].step \/ press[g].place # Last
        \/ press'[g].step <= Checks(Last) \/ press[g].id \notin live'

\* When all presses do and no confirmation is new or closed, what is known of these stays.
LEMMA ConfirmationsFollow ==
  ASSUME ActionInv, kind' = kind, live' \subseteq live,
         UNCHANGED <<acAge, kept, records, closed, overlapped>>,
         press' \in [ActionHandler -> Actions!Press],
         \A q \in screen' : q.id \in 0..records,
         \A g \in ActionHandler : Follows(g)
  PROVE  RecordsSure' /\ ConfirmationsSure'
<1>1. /\ acAge' = acAge /\ kept' = kept /\ records' = records /\ closed' = closed
      /\ overlapped' = overlapped
  OBVIOUS
<1>2. RecordsSure'
  <2>1. \A g \in ActionHandler : press'[g].id \in 0..records
    BY DEF Follows, ActionInv, RecordsSure
  <2> QED
    BY <1>1, <2>1, ChainStays DEF ActionInv, RecordsSure, Actions!Needed
<1>3. ASSUME NEW g \in ActionHandler, NEW id \in 1..MaxRecords, LastPress(g, id)'
      PROVE  LastPress(g, id) /\ Follows(g) /\ press'[g].id # 0
  BY <1>3, ChainStays DEF Follows, LastPress
<1>4. ASSUME NEW g \in ActionHandler, NEW id \in 1..MaxRecords, LastPress(g, id)'
      PROVE  /\ acAge[id] <= ConfirmTtl
             /\ (Actions!Slash \/ press'[g].step > Checks(Last)) => id \notin live'
             /\ (Actions!Slash \/ id \notin overlapped) =>
                  id \notin closed /\ \A k \in ActionHandler \ {g} : ~LastPress(k, id)'
  <2>1. LastPress(g, id) /\ Follows(g) /\ press'[g].id # 0
    BY <1>3, <1>4
  <2>2. LastSure(g)
    BY DEF ActionInv, ConfirmationsSure
  <2>3. /\ acAge[id] <= ConfirmTtl
        /\ (Actions!Slash \/ press[g].step > Checks(Last)) => id \notin live
        /\ (Actions!Slash \/ id \notin overlapped) =>
             id \notin closed /\ \A k \in ActionHandler \ {g} : ~LastPress(k, id)
    BY <2>1, <2>2 DEF LastSure
  <2>4. \A k \in ActionHandler \ {g} : LastPress(k, id)' => LastPress(k, id)
    BY <1>3
  <2>5. press'[g].step > Checks(Last) => press[g].step > Checks(Last) \/ id \notin live'
    <3>1. Checks(Last) \in 0..4
      BY ActionTypes DEF Chained, Bounded
    <3>2. press'[g].step \in 1..5
      BY PressFields
    <3> QED
      BY <2>1, <3>1, <3>2 DEF Follows, LastPress
  <2> QED
    BY <2>3, <2>4, <2>5
<1> QED
  BY <1>1, <1>2, <1>4, ChainStays DEF ConfirmationsSure, LastSure, Checks

---------------------------------------------------------------------------
(* The checks of a press *)

\* A press goes on to its next check.
IsNext(new, l) ==
  /\ new.place = l.place /\ new.step = l.step + 1 /\ new.id = l.id /\ new.sent = l.sent
  /\ new.given = l.given /\ new.fresh = l.fresh /\ new.seen = l.seen

\* There is such a press.
LEMMA PressNext ==
  ASSUME NEW l \in Actions!Press, l.step <= 4
  PROVE  \E new \in Actions!Press : new = [l EXCEPT !.step = @ + 1] /\ IsNext(new, l)
<1> DEFINE new == [l EXCEPT !.step = @ + 1]
<1>1. new \in Actions!Press /\ IsNext(new, l)
  BY DEF Actions!Press, IsNext
<1> HIDE DEF new
<1>2. \E r \in Actions!Press : r = new /\ IsNext(r, l)
  BY <1>1, Zenon
<1> QED
  BY <1>2 DEF new

\* The steps of a press that nobody else sees.
LEMMA PressAlone ==
  ASSUME ActionInv, NEW h \in ActionHandler, NEW new \in Actions!Press,
         press' = [press EXCEPT ![h] = new], PressSure(new), Follows(h),
         live' \subseteq live,
         UNCHANGED <<kind, granted, on, strict, acAge, kept, records, closed, overlapped>>,
         screen' \subseteq Actions!Prompt,
         \A q \in screen' : PromptSure(q) /\ q.id \in 0..records
  PROVE  ActionInv'
<1>1. /\ press' \in [ActionHandler -> Actions!Press]
      /\ \A g \in ActionHandler \ {h} : press'[g] = press[g]
      /\ \A g \in ActionHandler : PressSure(press'[g])
  BY PressMoved
<1>2. \A g \in ActionHandler : Follows(g)
  BY <1>1 DEF Follows
<1>3. RecordsSure' /\ ConfirmationsSure'
  BY <1>1, <1>2, ConfirmationsFollow
<1>4. /\ acAge' \in [1..MaxRecords -> 0..ConfirmTtl + 1]
      /\ kept' \in [1..MaxRecords -> SUBSET Actions!Needed]
      /\ live' \subseteq 1..MaxRecords /\ closed' \subseteq 1..MaxRecords
      /\ overlapped' \subseteq 1..MaxRecords
  BY ActionTypes
<1> QED
  BY <1>1, <1>3, <1>4, ActionParts

\* The prompts of before.
LEMMA PromptsOfBefore ==
  ASSUME ActionInv, NEW q \in screen
  PROVE  q \in Actions!Prompt /\ PromptSure(q) /\ q.id \in 0..records
BY ActionTypes DEF ActionInv, PromptsSure, RecordsSure

\* A press that ends.
LEMMA PressEnds ==
  ASSUME ServicesAssumption, ActionInv, NEW h \in ActionHandler, Actions!Finish(h),
         live' \subseteq live,
         UNCHANGED <<kind, granted, on, strict, acAge, kept, records, closed, overlapped>>,
         screen' \subseteq Actions!Prompt,
         \A q \in screen' : PromptSure(q) /\ q.id \in 0..records
  PROVE  ActionInv'
<1>1. press' = [press EXCEPT ![h] = Actions!Idle]
  BY DEF Actions!Finish
<1>2. press'[h].id = 0
  BY <1>1, ActionTypes, NoPress
<1> QED
  BY <1>1, <1>2, NoPress, PressAlone DEF Follows

\* What passed a check was there to be seen, and is there as long as nothing has changed.
LEMMA CheckPassed ==
  ASSUME ActionInv, NEW h \in ActionHandler,
         NEW name \in {"leave", "sent", "now", "on", "reason"}, Actions!At(h, name),
         Actions!Passes(h)
  PROVE  LET l == press[h] IN
         /\ Shows(l.place, l.step, l.seen)
         /\ l.fresh => Stands(l.place, l.step)
<1> DEFINE l == press[h]
           i == l.step
           p == l.place
<1>1. /\ What(p, i) = name /\ Actions!Ahead(h)[2] = Whom(p, i) /\ Actions!Ahead(h)[1] = name
  BY PressAt DEF Actions!At
<1>2. Actions!Busy(h)
  BY PressAt
<1>3. /\ Actions!Has(granted, on, strict, l.given) \subseteq l.seen
      /\ Actions!Holds(l.sent, Actions!Needs) => "leave" \in l.seen
      /\ l.fresh => l.sent = granted
  BY <1>2, PressPlace DEF Seen, Unchanged
<1>4. CASE name \in Asking
  <2>1. Actions!Holds(l.sent, Whom(p, i)) \/ Actions!Holds(granted, Whom(p, i))
    BY <1>1, <1>4 DEF Actions!Passes, Asking
  <2>2. Whom(p, i) = Actions!Needs => "leave" \in l.seen
    BY <1>3, <2>1 DEF Actions!Has
  <2>3. l.fresh => Actions!Holds(granted, Whom(p, i))
    BY <1>3, <2>1
  <2> QED
    BY <1>1, <1>4, <2>2, <2>3 DEF Shows, Stands, Asking
<1>5. CASE name = "on"
  <2>1. Whom(p, i) \in on
    BY <1>1, <1>5 DEF Actions!Passes
  <2>2. Actions!Switch \subseteq {Whom(p, i)} => "switch" \in l.seen
    BY <1>3, <2>1 DEF Actions!Has
  <2> QED
    BY <1>1, <1>5, <2>1, <2>2 DEF Shows, Stands, Asking
<1>6. CASE name = "reason"
  <2>1. l.given \/ ~strict
    BY <1>1, <1>6 DEF Actions!Passes
  <2>2. "reason" \in l.seen
    BY <1>3, <2>1 DEF Actions!Has
  <2> QED
    BY <1>1, <1>6, <2>2 DEF Shows, Stands, Asking
<1> QED
  BY <1>4, <1>5, <1>6 DEF Asking

\* Past a check that records nothing, a press knows its place.
LEMMA NextSure ==
  ASSUME ActionInv, NEW h \in ActionHandler, Actions!Busy(h),
         press[h].step \in 1..Checks(press[h].place),
         What(press[h].place, press[h].step) # "record",
         Shows(press[h].place, press[h].step, press[h].seen),
         press[h].fresh => press[h].place > 1 \/ Stands(press[h].place, press[h].step),
         NEW new \in Actions!Press, IsNext(new, press[h])
  PROVE  PressSure(new)
<1> DEFINE l == press[h]
<1>1. /\ l \in Actions!Press /\ l.place \in 1..Last /\ Checks(l.place) \in 0..4
      /\ Unchanged(l) /\ Seen(l) /\ (l.id # 0 <=> Recorded(l.place, l.step))
      /\ Last \in 1..4 /\ l.step \in 1..5
  BY PressPlace, PressFields
<1>2. /\ new.place = l.place /\ new.step = l.step + 1 /\ new.id = l.id /\ new.sent = l.sent
      /\ new.given = l.given /\ new.fresh = l.fresh /\ new.seen = l.seen
  BY DEF IsNext
<1> HIDE DEF l
<1>3. new.step \in 1..Checks(new.place) + 1
  BY <1>1, <1>2 DEF l
<1>4. Recorded(l.place, l.step + 1) <=> Recorded(l.place, l.step)
  <2>1. Chained
    BY ActionTypes
  <2>2. (Actions!Slash /\ l.place = 1) \/ (Native /\ l.place = 2) => l.step # Checks(l.place)
    BY <2>1 DEF Chained, Records, l
  <2> QED
    BY <1>1, <2>2 DEF Recorded, l
<1>5. Unchanged(new)
  <2>1. SUFFICES ASSUME l.fresh
                 PROVE  /\ l.sent = granted
                        /\ \A i \in 1..Checks(1) :
                             (l.place > 1 \/ i < l.step + 1) => Stands(1, i)
    BY <1>2 DEF Unchanged
  <2>2. /\ l.sent = granted
        /\ \A i \in 1..Checks(1) : (l.place > 1 \/ i < l.step) => Stands(1, i)
    BY <1>1, <2>1 DEF Unchanged
  <2>3. l.place = 1 => Stands(1, l.step)
    BY <2>1 DEF l
  <2>4. ASSUME NEW i \in 1..Checks(1), l.place > 1 \/ i < l.step + 1
        PROVE  Stands(1, i)
    <3>1. CASE l.place > 1 \/ i < l.step
      BY <2>2, <3>1
    <3>2. CASE l.place = 1 /\ i = l.step
      BY <2>3, <3>2
    <3> QED
      BY <1>1, <2>4, <3>1, <3>2
  <2> QED
    BY <2>2, <2>4
<1>6. Seen(new)
  <2>1. \A i \in 1..Checks(l.place) : i < l.step + 1 => Shows(l.place, i, l.seen)
    <3>1. \A i \in 1..Checks(l.place) : i < l.step => Shows(l.place, i, l.seen)
      BY <1>1 DEF Seen
    <3>2. Shows(l.place, l.step, l.seen)
      BY DEF l
    <3> QED
      BY <1>1, <3>1, <3>2
  <2> QED
    BY <1>1, <1>2, <2>1 DEF Seen
<1> QED
  BY <1>1, <1>2, <1>3, <1>4, <1>5, <1>6 DEF PressSure

---------------------------------------------------------------------------
(* The steps *)

\* A check that is passed leads to the next, one that is not ends the press.
LEMMA PromptCheckKept ==
  ASSUME ServicesAssumption, ActionInv, NEW h \in ActionHandler, Actions!Check(h)
  PROVE  ActionInv'
<1> DEFINE l == press[h]
<1>1. PICK name \in {"leave", "sent", "now", "on", "reason"} : Actions!At(h, name)
  BY DEF Actions!Check
<1>2. /\ kind' = kind /\ granted' = granted /\ on' = on /\ strict' = strict
      /\ screen' = screen /\ live' = live /\ acAge' = acAge /\ kept' = kept
      /\ records' = records /\ closed' = closed /\ overlapped' = overlapped
  BY DEF Actions!Check, Actions!server, Actions!memory
<1>3. \A q \in screen' : q \in Actions!Prompt /\ PromptSure(q) /\ q.id \in 0..records
  BY <1>2, PromptsOfBefore
<1>4. CASE ~Actions!Passes(h)
  <2>1. Actions!Finish(h)
    BY <1>4 DEF Actions!Check
  <2> QED
    BY <1>2, <1>3, <2>1, PressEnds
<1>5. CASE Actions!Passes(h)
  <2>1. press' = [press EXCEPT ![h].step = @ + 1]
    BY <1>5 DEF Actions!Check, Actions!Advance
  <2>2. /\ Actions!Busy(h) /\ l.step \in 1..Checks(l.place) /\ What(l.place, l.step) = name
        /\ l \in Actions!Press /\ Checks(l.place) \in 0..4 /\ l.place \in 1..Last
    BY <1>1, PressAt, PressPlace
  <2>3. PICK new \in Actions!Press : new = [l EXCEPT !.step = @ + 1] /\ IsNext(new, l)
    BY <2>2, PressNext
  <2>4. press' = [press EXCEPT ![h] = new]
    BY <2>1, <2>3, ActionTypes
  <2>5. Shows(l.place, l.step, l.seen) /\ (l.fresh => Stands(l.place, l.step))
    BY <1>1, <1>5, CheckPassed
  <2>6. PressSure(new)
    BY <1>1, <2>2, <2>3, <2>5, NextSure
  <2>7. Follows(h)
    <3>1. press'[h] = new /\ new.place = l.place /\ new.id = l.id /\ new.step = l.step + 1
      BY <2>3, <2>4, ActionTypes DEF IsNext
    <3>2. CASE Native
      <4>1. Last = 4 /\ What(4, Checks(4)) = "consume"
        BY <3>2, ActionTypes DEF Chained, Records
      <4>2. l.place = Last => l.step # Checks(Last)
        BY <1>1, <2>2, <4>1
      <4> QED
        BY <2>2, <3>1, <4>2 DEF Follows
    <3>3. CASE ~Native
      <4>1. l.place = Last => l.id = 0
        <5>1. l.id # 0 => Recorded(l.place, l.step)
          BY <2>2, PressPlace
        <5>2. Actions!Slash => Last = 2 /\ Checks(2) = 0
          BY ActionTypes DEF Chained, Records
        <5>3. Actions!Slash => l.place # Last
          BY <2>2, <5>2
        <5> QED
          BY <3>3, <5>1, <5>3 DEF Recorded
      <4> QED
        BY <3>1, <4>1 DEF Follows
    <3> QED
      BY <3>2, <3>3
  <2> QED
    BY <1>2, <1>3, <2>4, <2>6, <2>7, PressAlone
<1> QED
  BY <1>4, <1>5

\* A native confirmation is taken from the memory once all checks are passed.
LEMMA TakeKept ==
  ASSUME ActionInv, NEW h \in ActionHandler, Actions!Take(h)
  PROVE  ActionInv'
<1> DEFINE l == press[h]
<1>1. Actions!At(h, "consume") /\ press' = [press EXCEPT ![h].step = @ + 1]
  BY DEF Actions!Take, Actions!Advance
<1>2. /\ kind' = kind /\ granted' = granted /\ on' = on /\ strict' = strict
      /\ screen' = screen /\ live' = live \ {l.id} /\ acAge' = acAge /\ kept' = kept
      /\ records' = records /\ closed' = closed /\ overlapped' = overlapped
  BY DEF Actions!Take, Actions!server
<1>3. \A q \in screen' : q \in Actions!Prompt /\ PromptSure(q) /\ q.id \in 0..records
  BY <1>2, PromptsOfBefore
<1>4. /\ Actions!Busy(h) /\ l.step \in 1..Checks(l.place) /\ What(l.place, l.step) = "consume"
      /\ l \in Actions!Press /\ Checks(l.place) \in 0..4 /\ l.place \in 1..Last
  BY <1>1, PressAt, PressPlace
<1>5. PICK new \in Actions!Press : new = [l EXCEPT !.step = @ + 1] /\ IsNext(new, l)
  BY <1>4, PressNext
<1>6. press' = [press EXCEPT ![h] = new]
  BY <1>1, <1>5, ActionTypes
<1>7. l.place = 4
  BY <1>4, ActionTypes DEF Chained, Records
<1>8. PressSure(new)
  <2>1. Shows(l.place, l.step, l.seen)
    BY <1>4 DEF Shows, Asking
  <2> QED
    BY <1>4, <1>5, <1>7, <2>1, NextSure
<1>9. Follows(h)
  <2>1. press'[h] = new /\ new.place = l.place /\ new.id = l.id
    BY <1>5, <1>6, ActionTypes DEF IsNext
  <2> QED
    BY <1>2, <2>1 DEF Follows
<1> QED
  BY <1>2, <1>3, <1>6, <1>8, <1>9, PressAlone

\* A call fails.
LEMMA FailPressKept ==
  ASSUME ServicesAssumption, ActionInv, NEW h \in ActionHandler, Actions!FailPress(h)
  PROVE  ActionInv'
<1>1. /\ kind' = kind /\ granted' = granted /\ on' = on /\ strict' = strict
      /\ screen' = screen /\ live' \subseteq live /\ acAge' = acAge /\ kept' = kept
      /\ records' = records /\ closed' = closed /\ overlapped' = overlapped
  BY DEF Actions!FailPress, Actions!server
<1>2. \A q \in screen' : q \in Actions!Prompt /\ PromptSure(q) /\ q.id \in 0..records
  BY <1>1, PromptsOfBefore
<1>3. Actions!Finish(h)
  BY DEF Actions!FailPress
<1> QED
  BY <1>1, <1>2, <1>3, PressEnds

\* The prompt that follows a press.
LEMMA NextPrompt ==
  ASSUME ActionInv, NEW h \in ActionHandler, Actions!Through(h), press[h].place < Last
  PROVE  LET q == [place |-> press[h].place + 1, id |-> press[h].id, fresh |-> press[h].fresh] IN
         q \in Actions!Prompt /\ PromptSure(q) /\ q.id \in 0..records
<1> DEFINE l == press[h]
           q == [place |-> l.place + 1, id |-> l.id, fresh |-> l.fresh]
<1>1. /\ l \in Actions!Press /\ l.place \in 1..Last /\ Last \in 1..4 /\ Unchanged(l)
      /\ l.step = Checks(l.place) + 1 /\ Checks(l.place) \in 0..4
      /\ (l.id # 0 <=> Recorded(l.place, l.step))
  BY PressThrough, PressPlace
<1>2. l.id \in 0..MaxRecords /\ l.fresh \in BOOLEAN
  BY <1>1, PressFields
<1>3. q \in Actions!Prompt
  BY <1>1, <1>2 DEF Actions!Prompt
<1>4. q.place = l.place + 1 /\ q.id = l.id /\ q.fresh = l.fresh
  OBVIOUS
<1> HIDE DEF q
<1>5. Recorded(l.place, Checks(l.place) + 1) <=> Recorded(l.place + 1, 1)
  <2>1. /\ Actions!Slash => Last = 2 /\ ~Native /\ Checks(1) \in 0..4
        /\ Native => Last = 4 /\ Checks(2) \in 1..4
    BY ActionTypes DEF Chained, Records, Bounded
  <2> QED
    BY <1>1, <2>1 DEF Recorded
<1>6. l.fresh => \A i \in 1..Checks(1) : Stands(1, i)
  <2>1. l.fresh => \A i \in 1..Checks(1) : (l.place > 1 \/ i < l.step) => Stands(1, i)
    BY <1>1 DEF Unchanged
  <2> QED
    BY <1>1, <2>1
<1>7. PromptSure(q)
  BY <1>1, <1>4, <1>5, <1>6 DEF PromptSure
<1>8. q.id \in 0..records
  BY <1>4 DEF ActionInv, RecordsSure
<1> QED
  BY <1>3, <1>7, <1>8 DEF q

\* The next prompt is shown, or the case does not offer it.
LEMMA ShowNextKept ==
  ASSUME ServicesAssumption, ActionInv, NEW h \in ActionHandler, Actions!ShowNext(h)
  PROVE  ActionInv'
<1> DEFINE q == [place |-> press[h].place + 1, id |-> press[h].id, fresh |-> press[h].fresh]
<1>1. /\ kind' = kind /\ granted' = granted /\ on' = on /\ strict' = strict
      /\ live' = live /\ acAge' = acAge /\ kept' = kept
      /\ records' = records /\ closed' = closed /\ overlapped' = overlapped
  BY DEF Actions!ShowNext, Actions!server, Actions!memory
<1>2. screen' \subseteq screen \cup {q} /\ Actions!Finish(h)
  BY DEF Actions!ShowNext
<1>3. Actions!Through(h) /\ press[h].place < Last
  BY DEF Actions!ShowNext, Last
<1>4. q \in Actions!Prompt /\ PromptSure(q) /\ q.id \in 0..records
  BY <1>3, NextPrompt
<1> HIDE DEF q
<1>5. \A r \in screen' : r \in Actions!Prompt /\ PromptSure(r) /\ r.id \in 0..records
  BY <1>2, <1>4, PromptsOfBefore
<1> QED
  BY <1>1, <1>2, <1>5, PressEnds

\* A press is at the first check of a place.
IsBegun(new, p, id) == new.place = p /\ new.step = 1 /\ new.id = id

\* It has what is there at this moment.
LEMMA PressBegun ==
  ASSUME ServicesAssumption, ActionInv, NEW h \in ActionHandler, NEW p \in 1..Last,
         NEW id \in 0..records, NEW f \in BOOLEAN, Actions!Begin(h, p, id, f),
         id # 0 <=> Recorded(p, 1), f /\ p > 1 => \A i \in 1..Checks(1) : Stands(1, i)
  PROVE  \E new \in Actions!Press :
           press' = [press EXCEPT ![h] = new] /\ PressSure(new) /\ IsBegun(new, p, id)
<1>1. PICK gi \in IF Actions!HasReason(p) THEN BOOLEAN ELSE {FALSE} :
        press' = [press EXCEPT ![h] =
          [place |-> p, step |-> 1, id |-> id, sent |-> granted, given |-> gi, fresh |-> f,
           seen |-> IF id # 0 /\ Actions!Slash THEN kept[id]
                    ELSE Actions!Has(granted, on, strict, gi)
                         \cup (IF id = 0 THEN {} ELSE kept[id] \cap {"reason"})]]
  BY DEF Actions!Begin
<1>2. gi \in BOOLEAN
  BY <1>1
<1> DEFINE had == Actions!Has(granted, on, strict, gi)
           what == IF id # 0 /\ Actions!Slash THEN kept[id]
                   ELSE had \cup (IF id = 0 THEN {} ELSE kept[id] \cap {"reason"})
<1>3. had \subseteq Actions!Needed
  BY DEF Actions!Has, Actions!Needed
<1>4. /\ records \in 0..MaxRecords /\ MaxRecords \in Nat
      /\ id # 0 => kept[id] \subseteq Actions!Needed
      /\ id # 0 /\ Actions!Slash => kept[id] = Actions!Needed
      /\ id # 0 /\ Native => "reason" \in kept[id]
  <2>1. records \in 0..MaxRecords /\ MaxRecords \in Nat
    BY ActionConstants DEF ActionInv, RecordsSure
  <2>2. id # 0 => id \in 1..records /\ id \in 1..MaxRecords
    BY <2>1
  <2>3. /\ \A i \in 1..records :
             (Actions!Slash => kept[i] = Actions!Needed) /\ (Native => "reason" \in kept[i])
        /\ \A i \in 1..MaxRecords : kept[i] \subseteq Actions!Needed
    BY ActionTypes DEF ActionInv, RecordsSure
  <2> QED
    BY <2>1, <2>2, <2>3
<1>5. what \subseteq Actions!Needed /\ had \subseteq what
  BY <1>3, <1>4
<1>6. /\ id # 0 /\ Actions!Slash => what = Actions!Needed
      /\ id # 0 /\ Native /\ ~Actions!Slash => "reason" \in what
  BY <1>4
<1>7. Actions!Holds(granted, Actions!Needs) => "leave" \in had
  BY DEF Actions!Has
<1> HIDE DEF what, had
<1> DEFINE new == [place |-> p, step |-> 1, id |-> id, sent |-> granted, given |-> gi,
                   fresh |-> f, seen |-> what]
<1>8. press' = [press EXCEPT ![h] = new]
  BY <1>1 DEF what, had
<1>9. Chained /\ granted \subseteq Actions!Permission
  BY ActionTypes, ActionConstants
<1>10. new \in Actions!Press
  BY <1>2, <1>4, <1>5, <1>9 DEF Actions!Press, Chained, Bounded
<1>11. /\ new.place = p /\ new.step = 1 /\ new.id = id /\ new.sent = granted
       /\ new.given = gi /\ new.fresh = f /\ new.seen = what
  OBVIOUS
<1> HIDE DEF new
<1>12. Unchanged(new)
  BY <1>11 DEF Unchanged
<1>13. Seen(new)
  <2>1. Actions!Has(granted, on, strict, new.given) \subseteq new.seen
    BY <1>5, <1>11 DEF had
  <2>2. Actions!Holds(new.sent, Actions!Needs) => "leave" \in new.seen
    BY <1>5, <1>7, <1>11
  <2>3. Actions!Slash /\ new.place = 2 => new.seen = Actions!Needed
    BY <1>6, <1>11 DEF Recorded
  <2>4. Native /\ new.place \in {3, 4} => "reason" \in new.seen
    BY <1>6, <1>9, <1>11 DEF Recorded, Chained, Records
  <2>5. \A i \in 1..Checks(new.place) : ~(i < new.step)
    BY <1>11
  <2> QED
    BY <2>1, <2>2, <2>3, <2>4, <2>5 DEF Seen
<1>14. PressSure(new)
  <2>1. new.step \in 1..Checks(new.place) + 1
    BY <1>9, <1>11 DEF Chained, Bounded
  <2> QED
    BY <1>11, <1>12, <1>13, <2>1 DEF PressSure
<1> QED
  BY <1>8, <1>10, <1>11, <1>14 DEF IsBegun

\* A chain begins.
LEMMA StartKept ==
  ASSUME ServicesAssumption, ActionInv, NEW h \in ActionHandler, Actions!Start(h)
  PROVE  ActionInv'
<1>1. /\ kind' = kind /\ granted' = granted /\ on' = on /\ strict' = strict
      /\ screen' = screen /\ live' = live /\ acAge' = acAge /\ kept' = kept
      /\ records' = records /\ closed' = closed /\ overlapped' = overlapped
  BY DEF Actions!Start, Actions!server, Actions!memory
<1>2. \A q \in screen' : q \in Actions!Prompt /\ PromptSure(q) /\ q.id \in 0..records
  BY <1>1, PromptsOfBefore
<1>3. Actions!Begin(h, 1, 0, TRUE)
  BY DEF Actions!Start
<1>4. /\ 1 \in 1..Last /\ 0 \in 0..records /\ TRUE \in BOOLEAN /\ (0 # 0 <=> Recorded(1, 1))
      /\ TRUE /\ 1 > 1 => \A i \in 1..Checks(1) : Stands(1, i)
  BY ActionTypes DEF ActionInv, RecordsSure, Chained, Bounded, Records, Recorded
<1>5. PICK new \in Actions!Press :
        press' = [press EXCEPT ![h] = new] /\ PressSure(new) /\ IsBegun(new, 1, 0)
  BY <1>3, <1>4, PressBegun, Zenon
<1>6. Follows(h)
  BY <1>5, ActionTypes DEF Follows, IsBegun
<1> QED
  BY <1>1, <1>2, <1>5, <1>6, PressAlone

\* The process restarts: presses and recorded confirmations are gone, prompts are not.
LEMMA RestartKept ==
  ASSUME ServicesAssumption, ActionInv, Actions!Restart
  PROVE  ActionInv'
<1>1. /\ kind' = kind /\ granted' = granted /\ on' = on /\ strict' = strict
      /\ screen' = screen /\ live' = {} /\ acAge' = acAge /\ kept' = kept
      /\ records' = records /\ closed' = closed /\ overlapped' = overlapped
      /\ press' = [h \in ActionHandler |-> Actions!Idle]
  BY DEF Actions!Restart, Actions!server
<1>2. \A q \in screen' : q \in Actions!Prompt /\ PromptSure(q) /\ q.id \in 0..records
  BY <1>1, PromptsOfBefore
<1>3. /\ press' \in [ActionHandler -> Actions!Press]
      /\ \A h \in ActionHandler : press'[h] = Actions!Idle
  BY <1>1, NoPress
<1>4. \A h \in ActionHandler : PressSure(press'[h])
  BY <1>3, NoPress, Zenon
<1>5. \A h \in ActionHandler : Follows(h)
  BY <1>3, NoPress DEF Follows
<1>6. RecordsSure' /\ ConfirmationsSure'
  BY <1>1, <1>2, <1>3, <1>5, ConfirmationsFollow
<1>7. /\ acAge' \in [1..MaxRecords -> 0..ConfirmTtl + 1]
      /\ kept' \in [1..MaxRecords -> SUBSET Actions!Needed]
      /\ live' \subseteq 1..MaxRecords /\ closed' \subseteq 1..MaxRecords
      /\ overlapped' \subseteq 1..MaxRecords
  BY <1>1, ActionTypes
<1> QED
  BY <1>1, <1>2, <1>3, <1>4, <1>6, <1>7, ActionParts

---------------------------------------------------------------------------
(* The steps that change what is recorded *)

\* A press goes on with the confirmation it has recorded.
IsRecorded(new, l, id) ==
  /\ new.place = l.place /\ new.step = l.step + 1 /\ new.id = id /\ new.sent = l.sent
  /\ new.given = l.given /\ new.fresh = l.fresh /\ new.seen = l.seen

\* There is such a press.
LEMMA PressRecorded ==
  ASSUME NEW h \in ActionHandler, NEW id \in 0..MaxRecords,
         press \in [ActionHandler -> Actions!Press], press[h].step <= 4,
         press' = [press EXCEPT ![h].step = @ + 1, ![h].id = id]
  PROVE  \E new \in Actions!Press :
           press' = [press EXCEPT ![h] = new] /\ IsRecorded(new, press[h], id)
<1> DEFINE l == press[h]
           one == [l EXCEPT !.step = @ + 1]
           new == [one EXCEPT !.id = id]
<1>1. press' = [press EXCEPT ![h] = new]
  <2>1. press' = [[press EXCEPT ![h].step = @ + 1] EXCEPT ![h].id = id]
    OBVIOUS
  <2>2. [press EXCEPT ![h].step = @ + 1] = [press EXCEPT ![h] = one]
    OBVIOUS
  <2>3. press' = [[press EXCEPT ![h] = one] EXCEPT ![h].id = id]
    BY <2>1, <2>2, Zenon
  <2> HIDE DEF one
  <2> QED
    BY <2>3
<1>2. l \in Actions!Press
  OBVIOUS
<1> HIDE DEF l
<1>3. /\ one \in Actions!Press /\ one.place = l.place /\ one.step = l.step + 1
      /\ one.sent = l.sent /\ one.given = l.given /\ one.fresh = l.fresh /\ one.seen = l.seen
  <2>1. l.step <= 4
    BY DEF l
  <2> QED
    BY <1>2, <2>1 DEF Actions!Press
<1> HIDE DEF one
<1>4. new \in Actions!Press /\ IsRecorded(new, l, id)
  BY <1>3 DEF Actions!Press, IsRecorded
<1> HIDE DEF new
<1> QED
  BY <1>1, <1>4 DEF l

\* What is recorded was seen, and is new to every press.
LEMMA SaveKept ==
  ASSUME ServicesAssumption, ActionInv, NEW h \in ActionHandler, Actions!Save(h)
  PROVE  ActionInv'
<1> DEFINE l == press[h]
           id == records + 1
<1>1. /\ kind' = kind /\ granted' = granted /\ on' = on /\ strict' = strict
      /\ screen' = screen /\ acAge' = acAge /\ closed' = closed /\ overlapped' = overlapped
      /\ Actions!At(h, "record") /\ records < MaxRecords
      /\ records' = id /\ live' = Actions!Pruned \cup {id}
      /\ kept' = [kept EXCEPT ![id] = l.seen]
      /\ press' = [press EXCEPT ![h].step = @ + 1, ![h].id = id]
  BY DEF Actions!Save, Actions!server
<1>2. /\ records \in 0..MaxRecords /\ MaxRecords \in Nat /\ id \in 1..MaxRecords
      /\ Actions!Pruned \subseteq live
  BY <1>1, ActionConstants DEF ActionInv, RecordsSure, Actions!Pruned
<1>3. /\ Actions!Busy(h) /\ l.step \in 1..Checks(l.place) /\ What(l.place, l.step) = "record"
      /\ l \in Actions!Press /\ Checks(l.place) \in 0..4 /\ l.place \in 1..Last
      /\ PressSure(l) /\ Unchanged(l) /\ Seen(l) /\ l.seen \subseteq Actions!Needed
  BY <1>1, PressAt, PressPlace, PressFields
<1>4. /\ l.step = Checks(l.place)
      /\ (Actions!Slash /\ ~Native /\ l.place = 1 /\ Last = 2)
         \/ (Native /\ ~Actions!Slash /\ l.place = 2 /\ Last = 4)
  BY <1>3, ActionTypes DEF Chained, Records
<1>5. PICK new \in Actions!Press :
        press' = [press EXCEPT ![h] = new] /\ IsRecorded(new, l, id)
  <2>1. press \in [ActionHandler -> Actions!Press] /\ l.step <= 4 /\ id \in 0..MaxRecords
    BY <1>2, <1>3, ActionTypes
  <2> QED
    BY <1>1, <2>1, PressRecorded, Zenon
<1>6. /\ new.place = l.place /\ new.step = l.step + 1 /\ new.id = id /\ new.sent = l.sent
      /\ new.given = l.given /\ new.fresh = l.fresh /\ new.seen = l.seen
  BY <1>5 DEF IsRecorded
<1> HIDE DEF l, id
<1>7. Actions!Slash => l.seen = Actions!Needed
  BY <1>3, <1>4, DecidedSeen DEF DecidingPlace
<1>8. Native => "reason" \in l.seen
  <2>1. SUFFICES ASSUME Native
                 PROVE  "reason" \in l.seen
    OBVIOUS
  <2>2. PICK i \in 1..Checks(2) : What(2, i) = "reason"
    BY <2>1, ActionTypes DEF Chained, Decides
  <2>3. l.place = 2 /\ i # l.step
    BY <1>3, <1>4, <2>1, <2>2
  <2>4. Shows(2, i, l.seen)
    BY <1>3, <1>4, <2>3 DEF Seen
  <2> QED
    BY <2>2, <2>4 DEF Shows
<1>9. PressSure(new)
  <2>1. Recorded(new.place, new.step) /\ new.id # 0
    BY <1>2, <1>3, <1>4, <1>6 DEF Recorded, id
  <2>2. Unchanged(new)
    <3>1. SUFFICES ASSUME l.fresh
                   PROVE  /\ l.sent = granted
                          /\ \A i \in 1..Checks(1) :
                               (l.place > 1 \/ i < l.step + 1) => Stands(1, i)
      BY <1>6 DEF Unchanged
    <3>2. /\ l.sent = granted
          /\ \A i \in 1..Checks(1) : (l.place > 1 \/ i < l.step) => Stands(1, i)
      BY <1>3, <3>1 DEF Unchanged
    <3>3. l.place = 1 => Stands(1, l.step)
      BY <1>3 DEF Stands, Asking
    <3> QED
      BY <1>3, <3>2, <3>3
  <2>3. Seen(new)
    <3>1. \A i \in 1..Checks(l.place) : i < l.step + 1 => Shows(l.place, i, l.seen)
      <4>1. \A i \in 1..Checks(l.place) : i < l.step => Shows(l.place, i, l.seen)
        BY <1>3 DEF Seen
      <4>2. Shows(l.place, l.step, l.seen)
        BY <1>3 DEF Shows, Asking
      <4> QED
        BY <1>3, <4>1, <4>2
    <3> QED
      BY <1>3, <1>4, <1>6, <3>1 DEF Seen
  <2> QED
    BY <1>3, <1>6, <2>1, <2>2, <2>3 DEF PressSure
<1>10. /\ press' \in [ActionHandler -> Actions!Press] /\ press'[h] = new
       /\ \A g \in ActionHandler \ {h} : press'[g] = press[g]
       /\ \A g \in ActionHandler : PressSure(press'[g])
  BY <1>5, <1>9, PressMoved
<1>11. /\ \A i \in 1..records : kept'[i] = kept[i]
       /\ kept'[id] = l.seen /\ kept' \in [1..MaxRecords -> SUBSET Actions!Needed]
  <2>1. \A i \in 1..records : i # id /\ i \in 1..MaxRecords
    BY <1>2 DEF id
  <2>2. kept \in [1..MaxRecords -> SUBSET Actions!Needed]
    BY ActionTypes
  <2> QED
    BY <1>1, <1>2, <1>3, <2>1, <2>2
<1>12. /\ live' \subseteq 1..id /\ closed' \subseteq 1..id /\ live' \cap closed' = {}
       /\ \A i \in 1..id : i = id \/ i \in 1..records
       /\ live' \subseteq 1..MaxRecords
  BY <1>1, <1>2 DEF ActionInv, RecordsSure, id
<1>13. RecordsSure'
  <2>1. \A i \in 1..id : /\ Actions!Slash => kept'[i] = Actions!Needed
                         /\ Native => "reason" \in kept'[i]
    BY <1>7, <1>8, <1>11, <1>12 DEF ActionInv, RecordsSure
  <2>2. /\ \A q \in screen' : q.id \in 0..id
        /\ \A g \in ActionHandler : press'[g].id \in 0..id
    BY <1>1, <1>2, <1>6, <1>10 DEF ActionInv, RecordsSure, id
  <2>3. id \in 0..MaxRecords /\ records' = id
    BY <1>1, <1>2
  <2>4. (Actions!Slash' <=> Actions!Slash) /\ (Native' <=> Native)
    BY <1>1, ChainStays
  <2>5. \A i \in 1..id : /\ Actions!Slash' => kept'[i] = Actions!Needed
                         /\ Native' => "reason" \in kept'[i]
    BY <2>1, <2>4, Zenon
  <2> QED
    BY <1>12, <2>2, <2>3, <2>5 DEF RecordsSure, Actions!Needed
<1>14. ConfirmationsSure'
  <2>1. ASSUME NEW g \in ActionHandler, NEW i \in 1..MaxRecords, LastPress(g, i)'
        PROVE  g # h /\ LastPress(g, i) /\ i # id /\ press'[g] = press[g]
    <3>1. press'[g].place = Last /\ press'[g].id = i
      BY <1>1, <2>1, ChainStays DEF LastPress
    <3>2. g # h
      BY <1>4, <1>6, <1>10, <3>1
    <3>3. press[g].id \in 0..records
      BY DEF ActionInv, RecordsSure
    <3> QED
      BY <1>2, <1>10, <3>1, <3>2, <3>3 DEF LastPress, id
  <2>2. ASSUME NEW g \in ActionHandler, NEW i \in 1..MaxRecords, LastPress(g, i)'
        PROVE  /\ acAge[i] <= ConfirmTtl
               /\ (Actions!Slash \/ press'[g].step > Checks(Last)) => i \notin live'
               /\ (Actions!Slash \/ i \notin overlapped) =>
                    i \notin closed /\ \A k \in ActionHandler \ {g} : ~LastPress(k, i)'
    <3>1. g # h /\ LastPress(g, i) /\ i # id /\ press'[g] = press[g]
      BY <2>1, <2>2
    <3>2. LastSure(g)
      BY DEF ActionInv, ConfirmationsSure
    <3>3. /\ acAge[i] <= ConfirmTtl
          /\ (Actions!Slash \/ press[g].step > Checks(Last)) => i \notin live
          /\ (Actions!Slash \/ i \notin overlapped) =>
               i \notin closed /\ \A k \in ActionHandler \ {g} : ~LastPress(k, i)
      BY <3>1, <3>2 DEF LastSure
    <3>4. \A k \in ActionHandler : LastPress(k, i)' => LastPress(k, i)
      BY <2>1
    <3> QED
      BY <1>1, <1>2, <3>1, <3>3, <3>4
  <2> QED
    BY <1>1, <2>2, ChainStays DEF ConfirmationsSure, LastSure, Checks
<1>15. \A q \in screen' : q \in Actions!Prompt /\ PromptSure(q)
  BY <1>1, PromptsOfBefore
<1> QED
  BY <1>1, <1>10, <1>11, <1>12, <1>13, <1>14, <1>15, ActionTypes, ActionParts

\* What is to be shown of the last presses after a step.
LEMMA ConfirmationsPrimed ==
  ASSUME kind' = kind,
         \A g \in ActionHandler : \A id \in 1..MaxRecords : LastPress(g, id)' =>
           /\ acAge'[id] <= ConfirmTtl
           /\ (Actions!Slash \/ press'[g].step > Checks(Last)) => id \notin live'
           /\ (Actions!Slash \/ id \notin overlapped') =>
                id \notin closed' /\ \A k \in ActionHandler \ {g} : ~LastPress(k, id)'
  PROVE  ConfirmationsSure'
BY ChainStays DEF ConfirmationsSure, LastSure, Checks

\* What is known of a last press.
LEMMA LastPressKnown ==
  ASSUME ActionInv, NEW g \in ActionHandler, NEW id \in 1..MaxRecords, LastPress(g, id)
  PROVE  /\ acAge[id] <= ConfirmTtl
         /\ (Actions!Slash \/ press[g].step > Checks(Last)) => id \notin live
         /\ (Actions!Slash \/ id \notin overlapped) =>
              id \notin closed /\ \A k \in ActionHandler \ {g} : ~LastPress(k, id)
BY DEF ActionInv, ConfirmationsSure, LastSure

\* What was seen of the recorded stays, when none is added.
LEMMA RecordsStay ==
  ASSUME ActionInv, kind' = kind, records' = records, kept' = kept, live' \subseteq live,
         closed' \subseteq 1..records, live' \cap closed' = {},
         \A q \in screen' : q.id \in 0..records,
         \A h \in ActionHandler : press'[h].id \in 0..records
  PROVE  RecordsSure'
<1>1. (Actions!Slash' <=> Actions!Slash) /\ (Native' <=> Native)
  BY ChainStays
<1>2. \A i \in 1..records : /\ Actions!Slash' => kept[i] = Actions!Needed
                            /\ Native' => "reason" \in kept[i]
  BY <1>1, Zenon DEF ActionInv, RecordsSure
<1> QED
  BY <1>2 DEF ActionInv, RecordsSure, Actions!Needed

\* The service is called, and the confirmation is closed: it is not pending any more, and nobody
\* else is at it.
LEMMA ActKept ==
  ASSUME ServicesAssumption, ActionInv, NEW h \in ActionHandler, Actions!Act(h)
  PROVE  ActionInv'
<1> DEFINE id == press[h].id
<1>1. /\ kind' = kind /\ granted' = granted /\ on' = on /\ strict' = strict
      /\ screen' = screen /\ live' = live /\ acAge' = acAge /\ kept' = kept
      /\ records' = records /\ overlapped' = overlapped
      /\ closed' = (IF id = 0 THEN closed ELSE closed \cup {id})
      /\ Actions!Through(h) /\ press[h].place = Last
      /\ press' = [press EXCEPT ![h] = Actions!Idle]
  BY DEF Actions!Act, Actions!server, Actions!memory, Actions!Acting, Actions!Finish, Last
<1>2. id \in 0..records /\ records \in 0..MaxRecords /\ MaxRecords \in Nat
  BY ActionConstants DEF ActionInv, RecordsSure
<1>3. /\ press' \in [ActionHandler -> Actions!Press] /\ press'[h] = Actions!Idle
      /\ \A g \in ActionHandler \ {h} : press'[g] = press[g]
      /\ \A g \in ActionHandler : PressSure(press'[g])
  BY <1>1, NoPress, PressMoved
<1>4. \A q \in screen' : q \in Actions!Prompt /\ PromptSure(q) /\ q.id \in 0..records
  BY <1>1, PromptsOfBefore
<1>5. id # 0 => id \in 1..MaxRecords /\ LastPress(h, id) /\ id \notin live
  <2>1. press[h].step > Checks(Last)
    BY <1>1, PressThrough, PressPlace
  <2>2. id # 0 => id \in 1..MaxRecords /\ LastPress(h, id)
    BY <1>1, <1>2 DEF LastPress
  <2> QED
    BY <2>1, <2>2, LastPressKnown
<1>6. RecordsSure'
  <2>1. closed' \subseteq 1..records /\ live' \cap closed' = {}
    BY <1>1, <1>2, <1>5 DEF ActionInv, RecordsSure
  <2>2. \A g \in ActionHandler : press'[g].id \in 0..records
    BY <1>2, <1>3, NoPress DEF ActionInv, RecordsSure
  <2> QED
    BY <1>1, <1>4, <2>1, <2>2, RecordsStay
<1>7. ASSUME NEW g \in ActionHandler, NEW i \in 1..MaxRecords, LastPress(g, i)'
      PROVE  g # h /\ LastPress(g, i) /\ press'[g] = press[g]
  BY <1>1, <1>3, <1>7, NoPress, ChainStays DEF LastPress
<1>8. ASSUME NEW g \in ActionHandler, NEW i \in 1..MaxRecords, LastPress(g, i)'
      PROVE  /\ acAge'[i] <= ConfirmTtl
             /\ (Actions!Slash \/ press'[g].step > Checks(Last)) => i \notin live'
             /\ (Actions!Slash \/ i \notin overlapped') =>
                  i \notin closed' /\ \A k \in ActionHandler \ {g} : ~LastPress(k, i)'
  <2>1. g # h /\ LastPress(g, i) /\ press'[g] = press[g]
    BY <1>7, <1>8
  <2>2. Actions!Slash \/ i \notin overlapped => id # i
    BY <1>5, <2>1, LastPressKnown
  <2>3. \A k \in ActionHandler : LastPress(k, i)' => LastPress(k, i)
    BY <1>7
  <2> QED
    BY <1>1, <2>1, <2>2, <2>3, LastPressKnown
<1>9. ConfirmationsSure'
  BY <1>1, <1>8, ConfirmationsPrimed
<1>10. closed' \subseteq 1..MaxRecords
  BY <1>1, <1>5, ActionTypes
<1> QED
  BY <1>1, <1>3, <1>4, <1>6, <1>9, <1>10, ActionTypes, ActionParts

\* No press moves and nothing comes to be recorded.
LEMMA PressesStay ==
  ASSUME ServicesAssumption, ActionInv, UNCHANGED <<kind, granted, on, strict, press, kept,
     records>>,
         acAge' \in [1..MaxRecords -> 0..ConfirmTtl + 1], live' \subseteq live,
         closed' \subseteq 1..records, live' \cap closed' = {},
         overlapped' \subseteq 1..MaxRecords, screen' \subseteq screen,
         ConfirmationsSure'
  PROVE  ActionInv'
<1>1. records \in 0..MaxRecords /\ \A h \in ActionHandler : press[h].id \in 0..records
  BY DEF ActionInv, RecordsSure
<1>2. \A q \in screen' : q \in Actions!Prompt /\ PromptSure(q) /\ q.id \in 0..records
  BY PromptsOfBefore
<1>3. RecordsSure'
  BY <1>1, <1>2, RecordsStay
<1>4. press' = press /\ press \in [ActionHandler -> Actions!Press]
  BY ActionTypes
<1>5. ASSUME NEW h \in ActionHandler
      PROVE  PressSure(press'[h])
  <2>1. PressSure(press[h])
    BY DEF ActionInv, PressesSure
  <2> QED
    BY <1>4, <2>1, Zenon
<1>6. closed' \subseteq 1..MaxRecords /\ live' \subseteq 1..MaxRecords
  <2>1. 1..records \subseteq 1..MaxRecords
    BY <1>1, ActionConstants
  <2> QED
    BY <2>1, ActionTypes
<1>7. kept' \in [1..MaxRecords -> SUBSET Actions!Needed] /\ kind' = kind /\ granted' = granted
      /\ on' = on /\ strict' = strict /\ press' \in [ActionHandler -> Actions!Press]
  BY ActionTypes
<1> QED
  BY <1>2, <1>3, <1>5, <1>6, <1>7, ActionParts

\* A press that overlaps with a last one of the same confirmation is known.
LEMMA OverlapKnown ==
  ASSUME ActionInv, NEW id \in 0..MaxRecords, Actions!Overlapping(id)
  PROVE  /\ overlapped \subseteq overlapped' /\ overlapped' \subseteq 1..MaxRecords
         /\ id # 0 => \A g \in ActionHandler : LastPress(g, id) => id \in overlapped'
<1>1. overlapped' = overlapped \cup
        {i \in {id} \ {0} : \E h \in ActionHandler : press[h].id = i /\ press[h].place = Last}
  BY DEF Actions!Overlapping, Last
<1>2. overlapped \subseteq 1..MaxRecords
  BY ActionTypes
<1>3. id # 0 => id \in 1..MaxRecords
  <2>1. id \in 0..MaxRecords
    OBVIOUS
  <2> QED
    BY <2>1
<1> QED
  BY <1>1, <1>2, <1>3 DEF LastPress

\* A cancelled confirmation is not at its last press, or that is known.
LEMMA CancelKept ==
  ASSUME ServicesAssumption, ActionInv, NEW q \in screen, Actions!Cancel(q)
  PROVE  ActionInv'
<1>1. /\ kind' = kind /\ granted' = granted /\ on' = on /\ strict' = strict
      /\ press' = press /\ acAge' = acAge /\ kept' = kept /\ records' = records
  BY DEF Actions!Cancel, Actions!server
<1>2. acAge' \in [1..MaxRecords -> 0..ConfirmTtl + 1]
  BY <1>1, ActionTypes
<1>3. /\ live \subseteq 1..records /\ closed \subseteq 1..records /\ live \cap closed = {}
      /\ q.id \in 0..records /\ records \in 0..MaxRecords /\ MaxRecords \in Nat
  BY ActionConstants DEF ActionInv, RecordsSure
<1>4. \A g \in ActionHandler : \A i \in 1..MaxRecords : LastPress(g, i)' <=> LastPress(g, i)
  BY <1>1, ChainStays DEF LastPress
<1>5. CASE q.id = 0
  <2>1. /\ screen' \subseteq screen /\ live' = live /\ closed' = closed
        /\ overlapped' = overlapped
    BY <1>5 DEF Actions!Cancel
  <2>2. ConfirmationsSure'
    BY <1>1, <1>4, <2>1, LastPressKnown, ConfirmationsPrimed
  <2> QED
    BY <1>1, <1>2, <1>3, <2>1, <2>2, ActionTypes, PressesStay
<1>6. CASE q.id # 0
  <2>1. /\ live' = Actions!Pruned \ {q.id} /\ Actions!Overlapping(q.id)
        /\ screen' \subseteq screen
        /\ closed' = closed \/ (closed' = closed \cup {q.id} /\ q.id \in Actions!Pruned)
    BY <1>6 DEF Actions!Cancel
  <2>2. Actions!Pruned \subseteq live
    BY DEF Actions!Pruned
  <2>3. q.id \in 0..MaxRecords /\ q.id \in 1..records
    BY <1>3, <1>6
  <2>4. /\ overlapped \subseteq overlapped' /\ overlapped' \subseteq 1..MaxRecords
        /\ \A g \in ActionHandler : LastPress(g, q.id) => q.id \in overlapped'
    BY <1>6, <2>1, <2>3, OverlapKnown
  <2>5. closed' \subseteq 1..records /\ live' \cap closed' = {} /\ live' \subseteq live
    BY <1>3, <2>1, <2>2, <2>3
  <2>6. ASSUME NEW g \in ActionHandler, NEW i \in 1..MaxRecords, LastPress(g, i)'
        PROVE  /\ acAge'[i] <= ConfirmTtl
               /\ (Actions!Slash \/ press'[g].step > Checks(Last)) => i \notin live'
               /\ (Actions!Slash \/ i \notin overlapped') =>
                    i \notin closed' /\ \A k \in ActionHandler \ {g} : ~LastPress(k, i)'
    <3>1. LastPress(g, i)
      BY <1>4, <2>6
    <3>2. (Actions!Slash \/ i \notin overlapped') /\ i = q.id => closed' = closed
      BY <2>1, <2>2, <2>4, <3>1, LastPressKnown
    <3> QED
      BY <1>1, <1>4, <2>1, <2>2, <2>4, <2>5, <3>1, <3>2, LastPressKnown
  <2>7. ConfirmationsSure'
    BY <1>1, <2>6, ConfirmationsPrimed
  <2> QED
    BY <1>1, <1>2, <2>1, <2>4, <2>5, <2>7, PressesStay
<1> QED
  BY <1>5, <1>6

\* Time passes between presses only.
LEMMA PromptTickKept ==
  ASSUME ServicesAssumption, ActionInv, Actions!Tick
  PROVE  ActionInv'
<1>1. /\ kind' = kind /\ granted' = granted /\ on' = on /\ strict' = strict
      /\ press' = press /\ live' = live /\ closed' = closed /\ screen' = screen
      /\ overlapped' = overlapped /\ kept' = kept /\ records' = records
      /\ acAge' = [i \in 1..MaxRecords |->
                    IF i \in live /\ acAge[i] <= ConfirmTtl THEN acAge[i] + 1 ELSE acAge[i]]
      /\ \A h \in ActionHandler : ~Actions!Busy(h)
  BY DEF Actions!Tick, Actions!server
<1>2. acAge' \in [1..MaxRecords -> 0..ConfirmTtl + 1]
  BY <1>1, ActionTypes, ActionConstants
<1>3. /\ live \subseteq 1..records /\ closed \subseteq 1..records /\ live \cap closed = {}
  BY DEF ActionInv, RecordsSure
<1>4. \A g \in ActionHandler : \A i \in 1..MaxRecords : ~LastPress(g, i)'
  <2>1. Last \in 1..4
    BY ActionTypes DEF Chained, Bounded
  <2>2. \A g \in ActionHandler : press[g] \in Actions!Press /\ press[g].place \in 0..4
    BY ActionTypes, PressFields
  <2> QED
    BY <1>1, <2>1, <2>2, ChainStays DEF LastPress, Actions!Busy
<1>5. ConfirmationsSure'
  BY <1>1, <1>4, ConfirmationsPrimed
<1> QED
  BY <1>1, <1>2, <1>3, <1>5, ActionTypes, PressesStay

\* A prompt is pressed: what it has recorded is pending, so that no last press has taken it.
LEMMA PressPromptKept ==
  ASSUME ServicesAssumption, ActionInv, NEW h \in ActionHandler, NEW q \in screen,
         Actions!PressPrompt(h, q)
  PROVE  ActionInv'
<1>1. /\ kind' = kind /\ granted' = granted /\ on' = on /\ strict' = strict
      /\ acAge' = acAge /\ kept' = kept /\ records' = records /\ closed' = closed
      /\ screen' \subseteq screen
  BY DEF Actions!PressPrompt, Actions!server
<1>2. /\ live \subseteq 1..records /\ closed \subseteq 1..records /\ live \cap closed = {}
      /\ records \in 0..MaxRecords /\ MaxRecords \in Nat /\ Actions!Pruned \subseteq live
  BY ActionConstants DEF ActionInv, RecordsSure, Actions!Pruned
<1>3. q \in Actions!Prompt /\ PromptSure(q) /\ q.id \in 0..records
  BY PromptsOfBefore
<1>4. CASE q.id # 0 /\ q.id \notin Actions!Pruned
  <2>1. live' = Actions!Pruned /\ press' = press /\ overlapped' = overlapped
    BY <1>4 DEF Actions!PressPrompt
  <2>2. ConfirmationsSure'
    <3>1. \A g \in ActionHandler : \A i \in 1..MaxRecords : LastPress(g, i)' <=> LastPress(g, i)
      BY <1>1, <2>1, ChainStays DEF LastPress
    <3> QED
      BY <1>1, <1>2, <2>1, <3>1, LastPressKnown, ConfirmationsPrimed
  <2> QED
    BY <1>1, <1>2, <2>1, <2>2, ActionTypes, PressesStay
<1>5. CASE ~(q.id # 0 /\ q.id \notin Actions!Pruned)
  <2>1. /\ Actions!Begin(h, q.place, q.id, q.fresh)
        /\ live' = (IF q.id = 0 THEN live ELSE Actions!AfterLookup(q.id))
        /\ IF q.place = Last THEN Actions!Overlapping(q.id) ELSE overlapped' = overlapped
    BY <1>5 DEF Actions!PressPrompt, Last
  <2>2. /\ q.place \in 1..Last /\ q.fresh \in BOOLEAN /\ (q.id # 0 <=> Recorded(q.place, 1))
        /\ q.fresh => \A i \in 1..Checks(1) : Stands(1, i)
    BY <1>3 DEF PromptSure, Actions!Prompt
  <2>3. PICK new \in Actions!Press :
          press' = [press EXCEPT ![h] = new] /\ PressSure(new) /\ IsBegun(new, q.place, q.id)
    BY <1>3, <2>1, <2>2, PressBegun
  <2>4. /\ press' \in [ActionHandler -> Actions!Press] /\ press'[h] = new
        /\ \A g \in ActionHandler \ {h} : press'[g] = press[g]
        /\ \A g \in ActionHandler : PressSure(press'[g])
    BY <2>3, PressMoved
  <2>5. live' \subseteq live /\ (q.id # 0 /\ Actions!Slash => q.id \notin live')
    BY <1>2, <2>1 DEF Actions!AfterLookup
  <2>6. /\ overlapped \subseteq overlapped' /\ overlapped' \subseteq 1..MaxRecords
        /\ q.id # 0 /\ q.place = Last =>
             \A g \in ActionHandler : LastPress(g, q.id) => q.id \in overlapped'
    <3>1. q.id \in 0..MaxRecords
      BY <1>2, <1>3
    <3>2. CASE q.place = Last
      BY <2>1, <3>1, <3>2, OverlapKnown
    <3>3. CASE q.place # Last
      BY <2>1, <3>3, ActionTypes
    <3> QED
      BY <3>2, <3>3
  <2>7. RecordsSure'
    <3>1. \A g \in ActionHandler : press'[g].id \in 0..records
      BY <1>3, <2>3, <2>4 DEF ActionInv, RecordsSure, IsBegun
    <3>2. \A r \in screen' : r.id \in 0..records
      BY <1>1, PromptsOfBefore
    <3> QED
      BY <1>1, <1>2, <2>5, <3>1, <3>2, RecordsStay
  <2>8. \A g \in ActionHandler : \A i \in 1..MaxRecords :
          LastPress(g, i)' => IF g = h THEN i = q.id /\ q.place = Last ELSE LastPress(g, i)
    BY <1>1, <2>3, <2>4, ChainStays DEF LastPress, IsBegun
  <2>9. ASSUME NEW i \in 1..MaxRecords, i = q.id, q.place = Last,
               NEW k \in ActionHandler, LastPress(k, i)
        PROVE  ~(Actions!Slash \/ i \notin overlapped')
    BY <1>2, <1>5, <2>6, <2>9, LastPressKnown
  <2>10. ASSUME NEW g \in ActionHandler, NEW i \in 1..MaxRecords, LastPress(g, i)'
         PROVE  /\ acAge'[i] <= ConfirmTtl
                /\ (Actions!Slash \/ press'[g].step > Checks(Last)) => i \notin live'
                /\ (Actions!Slash \/ i \notin overlapped') =>
                     i \notin closed' /\ \A k \in ActionHandler \ {g} : ~LastPress(k, i)'
    <3>1. CASE g = h
      <4>1. i = q.id /\ q.place = Last /\ q.id # 0
        BY <2>8, <2>10, <3>1
      <4>2. i \in live /\ acAge[i] <= ConfirmTtl
        BY <1>5, <4>1 DEF Actions!Pruned
      <4>3. i \notin closed
        BY <1>2, <4>2
      <4>4. ~Actions!Slash => Checks(Last) > 0
        BY <2>2, <4>1, ActionTypes DEF Recorded, Chained, Records
      <4>5. press'[g].step = 1 /\ Checks(Last) \in 0..4
        BY <2>3, <2>4, <3>1, ActionTypes DEF IsBegun, Chained, Bounded
      <4>6. \A k \in ActionHandler \ {g} : LastPress(k, i)' => LastPress(k, i)
        BY <2>8, <3>1
      <4> QED
        BY <1>1, <2>5, <2>9, <4>1, <4>2, <4>3, <4>4, <4>5, <4>6
    <3>2. CASE g # h
      <4>1. LastPress(g, i) /\ press'[g] = press[g]
        BY <2>4, <2>8, <2>10, <3>2
      <4>2. \A k \in ActionHandler \ {g} : LastPress(k, i)' =>
              LastPress(k, i) \/ (i = q.id /\ q.place = Last)
        BY <2>8
      <4> QED
        BY <1>1, <2>5, <2>6, <2>9, <4>1, <4>2, LastPressKnown
    <3> QED
      BY <3>1, <3>2
  <2>11. ConfirmationsSure'
    BY <1>1, <2>10, ConfirmationsPrimed
  <2>12. \A r \in screen' : r \in Actions!Prompt /\ PromptSure(r)
    BY <1>1, PromptsOfBefore
  <2>13. live' \subseteq 1..MaxRecords /\ closed' \subseteq 1..MaxRecords
    BY <1>1, <2>5, ActionTypes
  <2> QED
    BY <1>1, <2>4, <2>6, <2>7, <2>11, <2>12, <2>13, ActionTypes, ActionParts
<1> QED
  BY <1>4, <1>5

---------------------------------------------------------------------------
(* The moderator's standing and the settings change *)

\* A press has seen what there is now too, and is not in the circumstances of its start.
IsTurned(new, l, has) ==
  /\ new.place = l.place /\ new.step = l.step /\ new.id = l.id /\ new.sent = l.sent
  /\ new.given = l.given /\ new.fresh = FALSE /\ new.seen = l.seen \cup has

\* There is such a press.
LEMMA PressTurned ==
  ASSUME NEW l \in Actions!Press, NEW has \in SUBSET Actions!Needed
  PROVE  \E new \in Actions!Press :
           new = [l EXCEPT !.fresh = FALSE, !.seen = @ \cup has] /\ IsTurned(new, l, has)
<1> DEFINE one == [l EXCEPT !.fresh = FALSE]
           two == [one EXCEPT !.seen = @ \cup has]
<1>1. /\ one \in Actions!Press /\ one.place = l.place /\ one.step = l.step /\ one.id = l.id
      /\ one.sent = l.sent /\ one.given = l.given /\ one.fresh = FALSE /\ one.seen = l.seen
  BY DEF Actions!Press
<1>2. two = [l EXCEPT !.fresh = FALSE, !.seen = @ \cup has]
  OBVIOUS
<1> HIDE DEF one
<1>3. two \in Actions!Press /\ IsTurned(two, l, has)
  BY <1>1, PressFields DEF Actions!Press, IsTurned
<1> HIDE DEF two
<1> QED
  BY <1>2, <1>3

\* The bounds of what a moderator may have.
LEMMA HasBounded ==
  ASSUME NEW gr, NEW en, NEW st, NEW gi
  PROVE  Actions!Has(gr, en, st, gi) \in SUBSET Actions!Needed
BY DEF Actions!Has, Actions!Needed

\* What it knows of the new circumstances.
LEMMA TurnedSure ==
  ASSUME ActionInv, kind' = kind, NEW l \in Actions!Press, PressSure(l), l.place # 0,
         NEW new \in Actions!Press,
         IsTurned(new, l, Actions!Has(granted', on', strict', l.given))
  PROVE  /\ new.place \in 1..Last /\ new.step \in 1..Checks(new.place) + 1
         /\ (new.id # 0 <=> Recorded(new.place, new.step)) /\ new.fresh = FALSE
         /\ Actions!Has(granted', on', strict', new.given) \subseteq new.seen
         /\ Actions!Holds(new.sent, Actions!Needs) => "leave" \in new.seen
         /\ \A i \in 1..Checks(new.place) : i < new.step => Shows(new.place, i, new.seen)
         /\ (Actions!Slash /\ new.place = 2) => new.seen = Actions!Needed
         /\ (Native /\ new.place \in {3, 4}) => "reason" \in new.seen
<1> DEFINE w == Actions!Has(granted', on', strict', l.given)
<1>1. /\ new.place = l.place /\ new.step = l.step /\ new.id = l.id /\ new.sent = l.sent
      /\ new.given = l.given /\ new.fresh = FALSE /\ new.seen = l.seen \cup w
  BY DEF IsTurned
<1>2. w \subseteq Actions!Needed
  BY HasBounded
<1>3. /\ l.place \in 1..Last /\ l.step \in 1..Checks(l.place) + 1 /\ Seen(l)
      /\ (l.id # 0 <=> Recorded(l.place, l.step))
  BY DEF PressSure
<1>4. Actions!Has(granted', on', strict', new.given) \subseteq new.seen
  BY <1>1
<1> HIDE DEF w
<1>5. \A i \in 1..Checks(new.place) : i < new.step => Shows(new.place, i, new.seen)
  BY <1>1, <1>3 DEF Seen, Shows
<1>6. (Actions!Slash /\ new.place = 2) => new.seen = Actions!Needed
  BY <1>1, <1>2, <1>3 DEF Seen
<1>7. /\ Actions!Holds(new.sent, Actions!Needs) => "leave" \in new.seen
      /\ (Native /\ new.place \in {3, 4}) => "reason" \in new.seen
  BY <1>1, <1>3 DEF Seen
<1> QED
  BY <1>1, <1>3, <1>4, <1>5, <1>6, <1>7

\* No press and no prompt counts as unchanged after a turn, and presses have seen what it brought.
LEMMA TurnKept ==
  ASSUME ServicesAssumption, ActionInv, Actions!Turn
  PROVE  ActionInv'
<1>1. /\ kind' = kind /\ live' = live /\ acAge' = acAge /\ kept' = kept /\ records' = records
      /\ closed' = closed /\ overlapped' = overlapped
      /\ screen' = {[q EXCEPT !.fresh = FALSE] : q \in screen}
  BY DEF Actions!Turn, Actions!memory
<1>2. press' = [h \in ActionHandler |->
        IF ~Actions!Busy(h) THEN Actions!Idle
        ELSE [press[h] EXCEPT !.fresh = FALSE,
                !.seen = @ \cup Actions!Has(granted', on', strict', press[h].given)]]
  BY DEF Actions!Turn
<1>3. granted' \in Grants /\ on' \subseteq Actions!Switch /\ strict' \in BOOLEAN
  <2>1. granted \in Grants /\ on \subseteq Actions!Switch /\ strict \in BOOLEAN
    BY ActionTypes
  <2>2. \/ granted' \in Grants \ {granted} /\ UNCHANGED <<on, strict>>
        \/ on' = Actions!Switch \ on /\ UNCHANGED <<granted, strict>>
        \/ strict' = ~strict /\ UNCHANGED <<granted, on>>
    BY DEF Actions!Turn
  <2> QED
    BY <2>1, <2>2
<1>4. ASSUME NEW h \in ActionHandler
      PROVE  /\ press'[h] \in Actions!Press
             /\ \/ press'[h] = Actions!Idle
                \/ /\ press[h].place # 0
                   /\ IsTurned(press'[h], press[h],
                               Actions!Has(granted', on', strict', press[h].given))
  <2>1. CASE ~Actions!Busy(h)
    BY <1>2, <2>1, NoPress
  <2>2. CASE Actions!Busy(h)
    <3>1. press[h] \in Actions!Press /\ press[h].place # 0
      BY <2>2, PressPlace
    <3>2. PICK new \in Actions!Press :
            /\ new = [press[h] EXCEPT !.fresh = FALSE,
                        !.seen = @ \cup Actions!Has(granted', on', strict', press[h].given)]
            /\ IsTurned(new, press[h], Actions!Has(granted', on', strict', press[h].given))
      BY <3>1, HasBounded, PressTurned
    <3>3. press'[h] = new
      BY <1>2, <2>2, <3>2
    <3> QED
      BY <3>1, <3>2, <3>3
  <2> QED
    BY <2>1, <2>2
<1>5. press' \in [ActionHandler -> Actions!Press]
  BY <1>2, <1>4
<1>6. screen' \subseteq Actions!Prompt /\ \A r \in screen' : \E q \in screen :
        r.place = q.place /\ r.id = q.id /\ r.fresh = FALSE
  <2>1. ASSUME NEW q \in screen, NEW r, r = [q EXCEPT !.fresh = FALSE]
        PROVE  r \in Actions!Prompt /\ r.place = q.place /\ r.id = q.id /\ r.fresh = FALSE
    BY <2>1, PromptsOfBefore DEF Actions!Prompt
  <2> QED
    BY <1>1, <2>1
<1>7. Actions!TypeOK'
  <2>1. kind' \in Actions!Kinds /\ on' \subseteq Actions!Switch'
    BY <1>1, <1>3, ActionTypes, ChainStays
  <2> QED
    BY <1>1, <1>3, <1>5, <1>6, <2>1, ActionTypes
       DEF Actions!TypeOK, Actions!Kinds, Actions!Press, Actions!Prompt, Actions!Needed,
           Actions!Permission, Actions!Moderation
<1>8. RecordsSure' /\ ConfirmationsSure'
  <2>1. \A h \in ActionHandler : Follows(h)
    BY <1>4, NoPress DEF Follows, IsTurned
  <2>2. \A r \in screen' : r.id \in 0..records
    BY <1>6, PromptsOfBefore
  <2> QED
    BY <1>1, <1>5, <2>1, <2>2, ConfirmationsFollow
<1>9. PromptsSure'
  <2>1. ASSUME NEW r \in screen'
        PROVE  r.place \in 2..Last /\ (r.id # 0 <=> Recorded(r.place, 1)) /\ r.fresh = FALSE
    BY <1>6, PromptsOfBefore DEF PromptSure
  <2>2. ASSUME NEW r \in screen'
        PROVE  PromptSure(r)'
    <3>1. Recorded(r.place, 1)' <=> Recorded(r.place, 1)
      BY <1>1, ChainStays DEF Recorded, Checks
    <3>2. r.place \in 2..Last' /\ (r.id # 0 <=> Recorded(r.place, 1)')
      BY <1>1, <2>1, <3>1, ChainStays, Zenon
    <3>3. ~r.fresh
      BY <2>1, <2>2
    <3> QED
      BY <3>2, <3>3, Zenon DEF PromptSure
  <2> QED
    BY <2>2 DEF PromptsSure
<1>10. ASSUME NEW h \in ActionHandler
       PROVE  PressSure(press[h])'
  <2>1. CASE press'[h] = Actions!Idle
    <3>1. press'[h].place = 0
      BY <2>1, NoPress
    <3> QED
      BY <3>1 DEF PressSure
  <2>2. CASE press'[h] # Actions!Idle
    <3>1. PICK new \in Actions!Press : new = press'[h]
      BY <1>4
    <3>2. /\ press[h] \in Actions!Press /\ PressSure(press[h]) /\ press[h].place # 0
          /\ IsTurned(new, press[h], Actions!Has(granted', on', strict', press[h].given))
      BY <1>4, <2>2, <3>1, ActionTypes DEF ActionInv, PressesSure
    <3>3. /\ new.place \in 1..Last /\ new.step \in 1..Checks(new.place) + 1
          /\ (new.id # 0 <=> Recorded(new.place, new.step)) /\ new.fresh = FALSE
          /\ Actions!Has(granted', on', strict', new.given) \subseteq new.seen
          /\ Actions!Holds(new.sent, Actions!Needs) => "leave" \in new.seen
          /\ \A i \in 1..Checks(new.place) : i < new.step => Shows(new.place, i, new.seen)
          /\ (Actions!Slash /\ new.place = 2) => new.seen = Actions!Needed
          /\ (Native /\ new.place \in {3, 4}) => "reason" \in new.seen
      BY <1>1, <3>2, TurnedSure
    <3> QED
      BY <1>1, <3>1, <3>3, ChainStays
         DEF PressSure, Unchanged, Seen, Shows, Recorded, Checks, What, Whom, Last,
             Actions!Has, Actions!Holds, Actions!Reasoned, Actions!Needed
  <2> QED
    BY <2>1, <2>2
<1> QED
  BY <1>7, <1>8, <1>9, <1>10 DEF ActionInv, PressesSure

---------------------------------------------------------------------------
(* The theorem *)

\* A step of the whole is one of the prompts', or leaves them as they are.
LEMMA ActionSteps ==
  ASSUME [Next]_vars
  PROVE  Actions!Next \/ UNCHANGED actionVars
<1>1. CASE UNCHANGED vars
  BY <1>1 DEF vars, actionable
<1>2. CASE Next
  BY <1>2 DEF Next, QuarantineNext, DetectionNext, IntakeNext, ReminderNext,
              FrequencyNext, PipelineNext, LockdownNext, ActionsNext, actionable
<1> QED
  BY <1>1, <1>2

\* Every step.
LEMMA ActionsNextKept ==
  ASSUME ServicesAssumption, ActionInv, Actions!Next
  PROVE  ActionInv'
<1>1. CASE Actions!Restart
  BY <1>1, RestartKept
<1>2. CASE Actions!Turn
  BY <1>2, TurnKept
<1>3. CASE Actions!Tick
  BY <1>3, PromptTickKept
<1>4. CASE \E q \in screen : Actions!Cancel(q)
  BY <1>4, CancelKept
<1>5. CASE \E q \in screen : \E h \in ActionHandler : Actions!PressPrompt(h, q)
  BY <1>5, PressPromptKept
<1>6. CASE \E h \in ActionHandler :
             \/ Actions!Start(h) \/ Actions!Check(h) \/ Actions!Save(h) \/ Actions!Take(h)
             \/ Actions!ShowNext(h) \/ Actions!Act(h) \/ Actions!FailPress(h)
  BY <1>6, StartKept, PromptCheckKept, SaveKept, TakeKept, ShowNextKept, ActKept, FailPressKept
<1> QED
  BY <1>1, <1>2, <1>3, <1>4, <1>5, <1>6 DEF Actions!Next

\* It holds when nothing is pressed yet.
LEMMA ActionBeginning ==
  ASSUME ServicesAssumption, Actions!Init
  PROVE  ActionInv
<1>1. /\ kind \in Actions!Kinds /\ granted \in Grants /\ on \in {{}, Actions!Switch}
      /\ screen = {} /\ live = {} /\ acAge = [i \in 1..MaxRecords |-> 0]
      /\ press = [h \in ActionHandler |-> Actions!Idle]
      /\ kept = [i \in 1..MaxRecords |-> {}] /\ closed = {} /\ overlapped = {} /\ records = 0
  BY DEF Actions!Init
<1>2. strict \in BOOLEAN
  BY DEF Actions!Init
<1>3. Actions!Idle \in Actions!Press /\ PressSure(Actions!Idle) /\ Actions!Idle.place = 0
      /\ Actions!Idle.id = 0
  BY NoPress
<1>4. Actions!TypeOK
  BY <1>1, <1>2, <1>3, ActionConstants DEF Actions!TypeOK
<1>5. \A h \in ActionHandler : press[h] = Actions!Idle
  BY <1>1
<1>6. RecordsSure
  BY <1>1, <1>3, <1>5, ActionConstants DEF RecordsSure
<1>7. PressesSure
  BY <1>3, <1>5, Zenon DEF PressesSure
<1>8. PromptsSure
  BY <1>1 DEF PromptsSure
<1>9. ConfirmationsSure
  BY <1>3, <1>5 DEF ConfirmationsSure, LastSure, LastPress
<1> QED
  BY <1>4, <1>6, <1>7, <1>8, <1>9 DEF ActionInv

\* And a step of another service.
LEMMA ActionsUnchanged ==
  ASSUME ActionInv, UNCHANGED actionVars
  PROVE  ActionInv'
<1>1. /\ kind' = kind /\ granted' = granted /\ on' = on /\ strict' = strict
      /\ screen' = screen /\ live' = live /\ acAge' = acAge /\ press' = press /\ kept' = kept
      /\ closed' = closed /\ overlapped' = overlapped /\ records' = records
  BY DEF actionVars
<1>2. \A g \in ActionHandler : \A i \in 1..MaxRecords : LastPress(g, i)' <=> LastPress(g, i)
  BY <1>1, ChainStays DEF LastPress
<1>3. ConfirmationsSure'
  BY <1>1, <1>2, LastPressKnown, ConfirmationsPrimed
<1>4. \A q \in screen' : q \in Actions!Prompt /\ PromptSure(q) /\ q.id \in 0..records
  BY <1>1, PromptsOfBefore
<1>5. RecordsSure'
  BY <1>1, <1>4, RecordsStay DEF ActionInv, RecordsSure
<1>6. ASSUME NEW h \in ActionHandler
      PROVE  PressSure(press'[h])
  <2>1. PressSure(press[h])
    BY DEF ActionInv, PressesSure
  <2> QED
    BY <1>1, <2>1, Zenon
<1> QED
  BY <1>1, <1>3, <1>4, <1>5, <1>6, ActionTypes, ActionParts

\* What was offered is not refused for want of leave or of a switch, when nothing has changed.
LEMMA OfferedPasses ==
  ASSUME ActionInv, NEW h \in ActionHandler, NEW name \in {"leave", "sent", "now", "on"},
         Actions!At(h, name), press[h].fresh, press[h].place > 1
  PROVE  Actions!Passes(h)
<1> DEFINE l == press[h]
<1>1. /\ Actions!Ahead(h)[1] = name /\ Actions!Ahead(h)[2] = Whom(l.place, l.step)
      /\ What(l.place, l.step) = name /\ l.step \in 1..Checks(l.place) /\ l.place \in 2..Last
      /\ Unchanged(l)
  BY PressAt, PressPlace DEF Actions!At
<1>2. l.sent = granted /\ \A i \in 1..Checks(1) : Stands(1, i)
  BY <1>1 DEF Unchanged
<1>3. AskedAtFirst(l.place, l.step)
  BY <1>1, ActionTypes DEF Chained, AskedBefore
<1>4. PICK j \in 1..Checks(1) :
        /\ Whom(1, j) = Whom(l.place, l.step)
        /\ What(1, j) \in Asking <=> name \in Asking
        /\ What(1, j) = "on" <=> name = "on"
  BY <1>1, <1>3 DEF AskedAtFirst, Asking
<1>5. Stands(1, j)
  BY <1>2
<1>6. CASE name = "on"
  <2>1. Actions!Ahead(h)[2] \in on
    BY <1>1, <1>4, <1>5, <1>6 DEF Stands
  <2> QED
    BY <1>1, <1>6, <2>1 DEF Actions!Passes
<1>7. CASE name \in Asking
  <2>1. Actions!Holds(granted, Actions!Ahead(h)[2]) /\ Actions!Holds(l.sent, Actions!Ahead(h)[2])
    BY <1>1, <1>2, <1>4, <1>5, <1>7 DEF Stands
  <2> QED
    BY <1>1, <1>7, <2>1 DEF Actions!Passes, Asking
<1> QED
  BY <1>6, <1>7 DEF Asking

\* A press that acts has seen all that is needed.
LEMMA ActingSeen ==
  ASSUME ActionInv, NEW h \in ActionHandler, Actions!Acting(h)
  PROVE  press[h].seen = Actions!Needed
<1> DEFINE l == press[h]
<1>1. Actions!Through(h) /\ l.place = Last
  BY DEF Actions!Acting, Last
<1>2. /\ l \in Actions!Press /\ PressSure(l) /\ Seen(l) /\ l.step = Checks(l.place) + 1
      /\ Checks(l.place) \in 0..4
  BY <1>1, PressThrough, PressPlace
<1>3. CASE Actions!Slash
  <2>1. Last = 2
    BY <1>3, ActionTypes DEF Chained, Records
  <2> QED
    BY <1>1, <1>2, <1>3, <2>1 DEF Seen
<1>4. CASE ~Actions!Slash
  <2>1. l.place = DecidingPlace /\ l.step > Checks(Last)
    BY <1>1, <1>2, <1>4 DEF DecidingPlace
  <2> QED
    BY <1>2, <1>4, <2>1, DecidedSeen
<1> QED
  BY <1>3, <1>4

\* A confirmation that is acted on is in time, taken, and not closed before.
LEMMA ActingOnce ==
  ASSUME ActionInv
  PROVE  Actions!ConfirmedOnce
<1>1. SUFFICES ASSUME NEW h \in ActionHandler, Actions!Acting(h), press[h].id # 0
               PROVE  /\ acAge[press[h].id] <= ConfirmTtl
                      /\ press[h].id \notin live
                      /\ \/ ~Actions!Slash /\ press[h].id \in overlapped
                         \/ /\ press[h].id \notin closed
                            /\ \A g \in ActionHandler \ {h} :
                                 press[g].id = press[h].id => press[g].place < Last
  BY DEF Actions!ConfirmedOnce, Last
<1> DEFINE id == press[h].id
<1>2. Actions!Through(h) /\ press[h].place = Last
  BY <1>1 DEF Actions!Acting, Last
<1>3. /\ press[h].step > Checks(Last) /\ press[h] \in Actions!Press
  BY <1>2, PressThrough, PressPlace
<1>4. id \in 1..MaxRecords
  <2>1. id \in 0..MaxRecords
    BY <1>3, PressFields
  <2> QED
    BY <1>1, <2>1
<1>5. LastPress(h, id)
  BY <1>2 DEF LastPress
<1>6. /\ acAge[id] <= ConfirmTtl /\ id \notin live
      /\ (Actions!Slash \/ id \notin overlapped) =>
           id \notin closed /\ \A k \in ActionHandler \ {h} : ~LastPress(k, id)
  BY <1>3, <1>4, <1>5, LastPressKnown
<1>7. \A g \in ActionHandler : press[g].place <= Last
  <2>1. ASSUME NEW g \in ActionHandler
        PROVE  press[g].place <= Last
    <3>1. CASE Actions!Busy(g)
      BY <3>1, PressPlace
    <3>2. CASE ~Actions!Busy(g)
      <4>1. press[g] \in Actions!Press /\ Last \in 1..4
        BY ActionTypes DEF Chained, Bounded
      <4>2. press[g].place \in 0..4 /\ ~(press[g].place > 0)
        BY <3>2, <4>1, PressFields DEF Actions!Busy
      <4> QED
        BY <4>1, <4>2
    <3> QED
      BY <3>1, <3>2
  <2> QED
    BY <2>1
<1>8. \A g \in ActionHandler : press[g].place \in 0..4 /\ Last \in 1..4
  BY ActionTypes, PressFields DEF Chained, Bounded
<1> QED
  BY <1>6, <1>7, <1>8 DEF LastPress

\* LeaveDecides, as an action.
LeaveSure ==
  \A h \in ActionHandler :
    /\ Actions!Acting(h) => press[h].seen = Actions!Needed
    /\ (\E check \in {"leave", "sent", "now", "on"} : Actions!At(h, check))
         /\ ~Actions!Passes(h) /\ press'[h] = Actions!Idle /\ upsets' = upsets
       => ~(press[h].fresh /\ press[h].place > 1)

\* The invariant of the prompts, in every behaviour of the services.
LEMMA ActionsKept ==
  ASSUME ServicesAssumption
  PROVE  Spec => []ActionInv /\ [][LeaveSure]_(Actions!vars)
<1>1. Init => ActionInv
  BY ActionBeginning DEF Init
<1>2. ActionInv /\ [Next]_vars => ActionInv'
  BY ActionSteps, ActionsNextKept, ActionsUnchanged
<1>3. ActionInv => LeaveSure
  BY OfferedPasses, ActingSeen DEF LeaveSure
<1> QED
  BY <1>1, <1>2, <1>3, PTL DEF Spec

\* For every kind of action, any number of presses that overlap, of recorded confirmations, and
\* of changes of permissions and settings, failures and restarts: an action is carried out only
\* if its permission, switch and reason were there since the press that decides; what was
\* offered is not refused for want of them as long as nothing has changed; and a recorded
\* confirmation is acted on once, in time, and not after it was cancelled, unless two presses
\* of a native action overlap (ModeratorActions).
THEOREM ActingWithLeave ==
  ASSUME ServicesAssumption
  PROVE  Spec => ActsWithLeave
<1>1. ActionInv => (part = "actions" => Actions!ConfirmedOnce)
  BY ActingOnce
<1>2. Actions!LeaveDecides <=> [][LeaveSure]_(Actions!vars)
  BY DEF Actions!LeaveDecides, LeaveSure
<1>3. ActsWithLeave <=> Actions!LeaveDecides /\ [](part = "actions" => Actions!ConfirmedOnce)
  BY DEF ActsWithLeave
<1> QED
  BY <1>1, <1>2, <1>3, ActionsKept, PTL

---------------------------------------------------------------------------
(* All the services *)

\* For every choice of the constants, the variables of the service at work have the values
\* their types allow: the invariants of all services hold whichever of them is at work.
THEOREM ServicesTypeCorrect ==
  ASSUME ServicesAssumption
  PROVE  Spec => []TypeOK
<1> DEFINE
      Chosen == part \in Part
      Inv ==
        /\ Chosen
        /\ QuarantineInv /\ DetectionInv /\ IntakeInv /\ ReminderInv
        /\ FrequencyInv /\ PipelineInv /\ LockdownInv /\ ActionInv
<1>1. Init => Chosen
  BY DEF Init
<1>2. Chosen /\ [Next]_vars => Chosen'
  BY DEF Next, vars, QuarantineNext, DetectionNext, IntakeNext, ReminderNext, FrequencyNext,
     PipelineNext, LockdownNext, ActionsNext
<1>3. Spec => []Chosen
  <2> HIDE DEF Chosen
  <2> QED
    BY <1>1, <1>2, PTL DEF Spec
<1>4. Spec => []Inv
  <2> HIDE DEF Chosen
  <2> QED
    BY <1>3, QuarantineKept, DetectionKept, IntakeKept, RemindersKept, FrequencyKept,
       PipelineKept, LockdownKept, ActionsKept, PTL
<1>5. Inv => TypeOK
  BY DEF TypeOK, QuarantineInv, DetectionInv, IntakeInv, ReminderInv, FrequencyInv,
     PipelineInv, LockdownInv, ActionInv
<1> QED
  BY <1>4, <1>5, PTL
============================================================================
