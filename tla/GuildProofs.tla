---------------------------- MODULE GuildProofs ----------------------------
(***************************************************************************)
(* Proofs about what is kept for a guild, for every value of the constants. *)
(***************************************************************************)
EXTENDS MCGuild, FiniteSetTheorems, TLAPS
---------------------------------------------------------------------------
(* The trigger role *)

\* the steps of a handler, and what it holds
RunnerStep == {"idle", "config", "decide", "again", "member", "open", "remove"}
Runner == [at : RunnerStep, member : Holder \cup {Nobody}, had : BOOLEAN, on : BOOLEAN,
           left : BOOLEAN, has : BOOLEAN]

\* a handler will start m's timer, or is taking the role away
StartsTimer(m, r) ==
  /\ r.member = m
  /\ \/ r.at \in {"again", "member"}
     \/ r.at \in {"open", "remove"} /\ ~r.left
     \/ r.at \in {"config", "decide"} /\ ~r.had /\ ~r.left /\ (r.at = "decide" => r.on)

\* a handler will stop m's timer
StopsTimer(m, r) ==
  /\ r.member = m /\ r.at \in {"config", "decide"} /\ r.had /\ ~r.left
  /\ r.at = "decide" => r.on

\* Of whoever is not excused, a handler at work explains every difference.
DifferencesExplained ==
  \A m \in Holder \ excused : on =>
    /\ m \in holds /\ m \notin timer =>
         \E h \in TriggerHandler : StartsTimer(m, runner[h])
    /\ m \notin holds /\ m \in timer =>
         \E h \in TriggerHandler : StopsTimer(m, runner[h])

TriggerTypes ==
  /\ inside \subseteq Holder /\ holds \subseteq inside /\ on \in BOOLEAN
  /\ timer \subseteq Holder /\ excused \subseteq Holder
  /\ runner \in [TriggerHandler -> Runner]
  /\ \A h \in TriggerHandler : runner[h].at # "idle" => runner[h].member \in Holder

TriggerInv == TriggerTypes /\ DifferencesExplained

\* A handler begins as one that holds nothing.
LEMMA IdleRunner ==
  /\ Trigger!Idle \in Runner /\ Trigger!Idle.at = "idle" /\ Trigger!Idle.member = Nobody
  /\ Trigger!Idle.had = FALSE /\ Trigger!Idle.on = FALSE /\ Trigger!Idle.left = FALSE
BY DEF Trigger!Idle, Runner, RunnerStep

\* The handler of an update.
LEMMA UpdateRunner ==
  ASSUME NEW h \in TriggerHandler, NEW m \in Holder, NEW had \in BOOLEAN,
         runner' = Trigger!Update(h, m, had), runner \in [TriggerHandler -> Runner]
  PROVE  \E new \in Runner : /\ runner' = [runner EXCEPT ![h] = new]
                             /\ new.member = m
                             /\ (had => StopsTimer(m, new)) /\ (~had => StartsTimer(m, new))
<1> DEFINE one == [Trigger!Idle EXCEPT !.at = "config"]
           two == [one EXCEPT !.member = m]
           new == [two EXCEPT !.had = had]
<1>1. runner' = [runner EXCEPT ![h] = new]
  BY DEF Trigger!Update, Trigger!Idle
<1>2. one \in Runner /\ one.at = "config" /\ one.left = FALSE
  BY IdleRunner DEF Runner, RunnerStep
<1> HIDE DEF one
<1>3. two \in Runner /\ two.at = "config" /\ two.left = FALSE /\ two.member = m
  BY <1>2 DEF Runner
<1> HIDE DEF two
<1>4. /\ new \in Runner /\ new.at = "config" /\ new.left = FALSE /\ new.member = m
      /\ new.had = had
  BY <1>3 DEF Runner
<1> HIDE DEF new
<1>5. (had => StopsTimer(m, new)) /\ (~had => StartsTimer(m, new))
  BY <1>4, Zenon DEF StopsTimer, StartsTimer
<1> QED
  BY <1>1, <1>4, <1>5

\* What differs after a step of one handler, it explains itself, or another one did before.
Accounted(h, new) ==
  \A m \in Holder \ excused' : on =>
    /\ m \in holds' /\ m \notin timer' =>
         \/ StartsTimer(m, new)
         \/ /\ m \in holds /\ m \notin timer /\ m \notin excused
            /\ ~StartsTimer(m, runner[h])
    /\ m \notin holds' /\ m \in timer' =>
         \/ StopsTimer(m, new)
         \/ /\ m \notin holds /\ m \in timer /\ m \notin excused
            /\ ~StopsTimer(m, runner[h])

\* A step of one handler keeps every explanation but those it gave itself.
LEMMA TriggerMove ==
  ASSUME TriggerInv, NEW h \in TriggerHandler, NEW new \in Runner,
         new.at # "idle" => new.member \in Holder,
         runner' = [runner EXCEPT ![h] = new],
         inside' \subseteq Holder, holds' \subseteq inside', timer' \subseteq Holder,
         excused' \subseteq Holder, on' = on,
         Accounted(h, new)
  PROVE  TriggerInv'
<1>1. /\ runner' \in [TriggerHandler -> Runner] /\ runner'[h] = new
      /\ \A g \in TriggerHandler : g # h => runner'[g] = runner[g]
  BY DEF TriggerInv, TriggerTypes
<1>2. TriggerTypes'
  <2>1. on' \in BOOLEAN
    BY Zenon DEF TriggerInv, TriggerTypes
  <2>2. \A g \in TriggerHandler : runner'[g].at # "idle" => runner'[g].member \in Holder
    BY <1>1 DEF TriggerInv, TriggerTypes
  <2> QED
    BY <1>1, <2>1, <2>2, Zenon DEF TriggerTypes
<1>3. ASSUME NEW m \in Holder \ excused', on', m \in holds', m \notin timer'
      PROVE  \E g \in TriggerHandler : StartsTimer(m, runner'[g])
  <2>1. CASE StartsTimer(m, new)
    BY <1>1, <2>1, Zenon
  <2>2. CASE m \in holds /\ m \notin timer /\ m \notin excused /\ ~StartsTimer(m, runner[h])
    <3>1. PICK g \in TriggerHandler : StartsTimer(m, runner[g])
      BY <1>3, <2>2, Zenon DEF TriggerInv, DifferencesExplained
    <3>2. runner'[g] = runner[g]
      BY <1>1, <2>2, <3>1, Zenon
    <3> QED
      BY <3>1, <3>2, Zenon
  <2> QED
    BY <1>3, <2>1, <2>2, Zenon DEF Accounted
<1>4. ASSUME NEW m \in Holder \ excused', on', m \notin holds', m \in timer'
      PROVE  \E g \in TriggerHandler : StopsTimer(m, runner'[g])
  <2>1. CASE StopsTimer(m, new)
    BY <1>1, <2>1, Zenon
  <2>2. CASE m \notin holds /\ m \in timer /\ m \notin excused /\ ~StopsTimer(m, runner[h])
    <3>1. PICK g \in TriggerHandler : StopsTimer(m, runner[g])
      BY <1>4, <2>2, Zenon DEF TriggerInv, DifferencesExplained
    <3>2. runner'[g] = runner[g]
      BY <1>1, <2>2, <3>1, Zenon
    <3> QED
      BY <3>1, <3>2, Zenon
  <2> QED
    BY <1>4, <2>1, <2>2, Zenon DEF Accounted
<1>5. DifferencesExplained'
  BY <1>3, <1>4, Zenon DEF DifferencesExplained
<1> QED
  BY <1>2, <1>5 DEF TriggerInv

\* The record of a handler.
LEMMA RunnerFields ==
  ASSUME NEW r \in Runner
  PROVE  /\ r.at \in RunnerStep /\ r.member \in Holder \cup {Nobody}
         /\ r.had \in BOOLEAN /\ r.on \in BOOLEAN /\ r.left \in BOOLEAN /\ r.has \in BOOLEAN
BY DEF Runner

\* A handler that goes on: at another step, with the settings, or with the member again.
LEMMA RunnerGoesOn ==
  ASSUME NEW r \in Runner, NEW step \in RunnerStep, NEW value \in BOOLEAN
  PROVE  /\ [r EXCEPT !.at = step] \in Runner
         /\ [r EXCEPT !.at = step].at = step
         /\ [r EXCEPT !.at = step].member = r.member
         /\ [r EXCEPT !.at = step].had = r.had
         /\ [r EXCEPT !.at = step].on = r.on
         /\ [r EXCEPT !.at = step].left = r.left
         /\ [r EXCEPT !.on = value] \in Runner
         /\ [r EXCEPT !.on = value].on = value
         /\ [r EXCEPT !.on = value].at = r.at
         /\ [r EXCEPT !.on = value].member = r.member
         /\ [r EXCEPT !.on = value].had = r.had
         /\ [r EXCEPT !.on = value].left = r.left
         /\ [r EXCEPT !.left = value] \in Runner
         /\ [r EXCEPT !.left = value].left = value
         /\ [r EXCEPT !.left = value].at = r.at
         /\ [r EXCEPT !.left = value].member = r.member
BY DEF Runner

\* A role is given.
LEMMA TriggerGive ==
  ASSUME Nobody \notin Holder, TriggerInv, NEW m \in Holder, Trigger!Give(m)
  PROVE  TriggerInv'
<1>1. TriggerTypes
  BY DEF TriggerInv
<1>2. PICK h \in TriggerHandler : runner[h].at = "idle" /\ runner' = Trigger!Update(h, m, FALSE)
  BY DEF Trigger!Give, Trigger!Free, Trigger!At
<1>3. PICK new \in Runner : /\ runner' = [runner EXCEPT ![h] = new] /\ new.member = m
                            /\ StartsTimer(m, new)
  <2>1. runner \in [TriggerHandler -> Runner]
    BY <1>1 DEF TriggerTypes
  <2>2. FALSE \in BOOLEAN
    OBVIOUS
  <2> QED
    BY <1>2, <2>1, <2>2, UpdateRunner, Zenon
<1>4. /\ inside' = inside /\ on' = on /\ timer' = timer
      /\ holds' = holds \cup {m} /\ m \in inside /\ excused' = excused \ {m}
  BY DEF Trigger!Give
<1>5. StartsTimer(m, new)
  BY <1>3
<1>6. \A k \in Holder : ~StartsTimer(k, runner[h]) /\ ~StopsTimer(k, runner[h])
  BY <1>2 DEF StartsTimer, StopsTimer
<1>7. Accounted(h, new)
  BY <1>4, <1>5, <1>6 DEF Accounted
<1>8. /\ inside' \subseteq Holder /\ holds' \subseteq inside' /\ timer' \subseteq Holder
      /\ excused' \subseteq Holder
  BY <1>1, <1>4 DEF TriggerTypes
<1> QED
  BY <1>3, <1>4, <1>7, <1>8, TriggerMove, Zenon

\* A role is taken away.
LEMMA TriggerTake ==
  ASSUME Nobody \notin Holder, TriggerInv, NEW m \in Holder, Trigger!Take(m)
  PROVE  TriggerInv'
<1>1. TriggerTypes
  BY DEF TriggerInv
<1>2. PICK h \in TriggerHandler : runner[h].at = "idle" /\ runner' = Trigger!Update(h, m, TRUE)
  BY DEF Trigger!Take, Trigger!Free, Trigger!At
<1>3. PICK new \in Runner : /\ runner' = [runner EXCEPT ![h] = new] /\ new.member = m
                            /\ StopsTimer(m, new)
  <2>1. runner \in [TriggerHandler -> Runner]
    BY <1>1 DEF TriggerTypes
  <2>2. TRUE \in BOOLEAN
    OBVIOUS
  <2> QED
    BY <1>2, <2>1, <2>2, UpdateRunner, Zenon
<1>4. /\ inside' = inside /\ on' = on /\ timer' = timer
      /\ holds' = holds \ {m} /\ excused' = excused
  BY DEF Trigger!Take
<1>5. StopsTimer(m, new)
  BY <1>3
<1>6. \A k \in Holder : ~StartsTimer(k, runner[h]) /\ ~StopsTimer(k, runner[h])
  BY <1>2 DEF StartsTimer, StopsTimer
<1>7. Accounted(h, new)
  BY <1>4, <1>5, <1>6 DEF Accounted
<1>8. /\ inside' \subseteq Holder /\ holds' \subseteq inside' /\ timer' \subseteq Holder
      /\ excused' \subseteq Holder
  BY <1>1, <1>4 DEF TriggerTypes
<1> QED
  BY <1>3, <1>4, <1>7, <1>8, TriggerMove, Zenon

\* Whoever leaves is excused, and handlers of others do not notice.
LEMMA TriggerLeave ==
  ASSUME Nobody \notin Holder, TriggerInv, NEW m \in Holder, Trigger!Leave(m)
  PROVE  TriggerInv'
<1>1. TriggerTypes
  BY DEF TriggerInv
<1>2. /\ inside' = inside \ {m} /\ holds' = holds \ {m} /\ on' = on
      /\ timer' = timer \ {m} /\ excused' = excused \cup {m}
  BY DEF Trigger!Leave, Trigger!Excuse
<1> DEFINE Left(h) == [[runner[h] EXCEPT !.left = TRUE] EXCEPT !.has = m \in holds]
<1>3. runner' = [h \in TriggerHandler |->
         IF runner[h].member = m /\ ~runner[h].left THEN Left(h) ELSE runner[h]]
  BY DEF Trigger!Leave
<1>4. \A h \in TriggerHandler : Left(h) \in Runner
  <2> SUFFICES ASSUME NEW h \in TriggerHandler
               PROVE  Left(h) \in Runner
    OBVIOUS
  <2> DEFINE one == [runner[h] EXCEPT !.left = TRUE]
             has1 == m \in holds
  <2>1. runner[h] \in Runner
    BY <1>1 DEF TriggerTypes
  <2>2. one \in Runner
    BY <2>1 DEF Runner
  <2>3. has1 \in BOOLEAN
    OBVIOUS
  <2> HIDE DEF one, has1
  <2>4. [one EXCEPT !.has = has1] \in Runner
    BY <2>2, <2>3 DEF Runner
  <2> QED
    BY <2>4 DEF one, has1
<1> HIDE DEF Left
<1>5. runner' \in [TriggerHandler -> Runner]
  BY <1>1, <1>3, <1>4, Zenon DEF TriggerTypes
<1>6. \A h \in TriggerHandler : runner[h].member # m => runner'[h] = runner[h]
  BY <1>3
<1>7. TriggerTypes'
  <2>1. on' \in BOOLEAN
    BY <1>1, <1>2, Zenon DEF TriggerTypes
  <2>2. inside' \subseteq Holder /\ holds' \subseteq inside' /\ timer' \subseteq Holder
        /\ excused' \subseteq Holder
    BY <1>1, <1>2 DEF TriggerTypes
  <2>3. \A h \in TriggerHandler : runner'[h].at # "idle" => runner'[h].member \in Holder
    <3> SUFFICES ASSUME NEW h \in TriggerHandler, runner[h].member = m, ~runner[h].left
                 PROVE  Left(h).member = runner[h].member /\ Left(h).at = runner[h].at
      BY <1>1, <1>3 DEF TriggerTypes
    <3>1. runner[h] \in Runner
      BY <1>1 DEF TriggerTypes
    <3> QED
      BY <3>1 DEF Runner, Left
  <2> QED
    BY <1>5, <2>1, <2>2, <2>3, Zenon DEF TriggerTypes
<1>8. ASSUME NEW k \in Holder \ excused', on'
      PROVE  /\ k \in holds' /\ k \notin timer' =>
                  \E h \in TriggerHandler : StartsTimer(k, runner'[h])
             /\ k \notin holds' /\ k \in timer' =>
                  \E h \in TriggerHandler : StopsTimer(k, runner'[h])
  <2>1. /\ k # m /\ k \in Holder \ excused /\ on
        /\ (k \in holds' <=> k \in holds) /\ (k \in timer' <=> k \in timer)
    BY <1>2, <1>8
  <2>2. ASSUME k \in holds', k \notin timer'
        PROVE  \E h \in TriggerHandler : StartsTimer(k, runner'[h])
    <3>1. k \in holds /\ k \notin timer
      BY <1>2, <2>1, <2>2
    <3>2. PICK h \in TriggerHandler : StartsTimer(k, runner[h])
      BY <2>1, <3>1, Zenon DEF TriggerInv, DifferencesExplained
    <3>3. runner'[h] = runner[h]
      BY <1>6, <2>1, <3>2 DEF StartsTimer
    <3> QED
      BY <3>2, <3>3
  <2>3. ASSUME k \notin holds', k \in timer'
        PROVE  \E h \in TriggerHandler : StopsTimer(k, runner'[h])
    <3>1. k \notin holds /\ k \in timer
      BY <1>2, <2>1, <2>3
    <3>2. PICK h \in TriggerHandler : StopsTimer(k, runner[h])
      BY <2>1, <3>1, Zenon DEF TriggerInv, DifferencesExplained
    <3>3. runner'[h] = runner[h]
      BY <1>6, <2>1, <3>2 DEF StopsTimer
    <3> QED
      BY <3>2, <3>3
  <2> QED
    BY <2>2, <2>3
<1>9. DifferencesExplained'
  BY <1>8, Zenon DEF DifferencesExplained
<1> QED
  BY <1>7, <1>9 DEF TriggerInv

\* Nobody is owed anything when the setting was changed or the process began anew.
LEMMA TriggerExcused ==
  ASSUME Nobody \notin Holder, TriggerInv, Trigger!Switch \/ Trigger!Restart
  PROVE  TriggerInv'
<1>1. TriggerTypes
  BY DEF TriggerInv
<1>2. excused' = Holder
  BY <1>1 DEF Trigger!Switch, Trigger!Restart, Trigger!Excuse, TriggerTypes
<1>3. runner' \in [TriggerHandler -> Runner]
  BY <1>1, IdleRunner DEF Trigger!Switch, Trigger!Restart, TriggerTypes
<1>4. on' \in BOOLEAN
  BY <1>1, Zenon DEF Trigger!Switch, Trigger!Restart, TriggerTypes, Trigger!guild
<1>5. inside' = inside /\ holds' = holds /\ timer' \subseteq Holder
  BY <1>1 DEF Trigger!Switch, Trigger!Restart, TriggerTypes, Trigger!guild
<1>6. TriggerTypes'
  <2>1. \A h \in TriggerHandler : runner'[h].at # "idle" => runner'[h].member \in Holder
    BY <1>1, IdleRunner DEF Trigger!Switch, Trigger!Restart, TriggerTypes
  <2> QED
    BY <1>1, <1>2, <1>3, <1>4, <1>5, <2>1, Zenon DEF TriggerTypes
<1>7. DifferencesExplained'
  BY <1>2 DEF DifferencesExplained
<1> QED
  BY <1>6, <1>7 DEF TriggerInv

\* A grace period is over: the run explains a timer that is missing.
LEMMA TriggerFire ==
  ASSUME Nobody \notin Holder, TriggerInv, NEW m \in Holder, Trigger!Fire(m)
  PROVE  TriggerInv'
<1>1. TriggerTypes
  BY DEF TriggerInv
<1> DEFINE one == [Trigger!Idle EXCEPT !.at = "again"]
           new == [one EXCEPT !.member = m]
<1>2. PICK h \in TriggerHandler : /\ runner[h].at = "idle"
                                  /\ runner' = [runner EXCEPT ![h] = new]
  BY DEF Trigger!Fire, Trigger!Free, Trigger!At, Trigger!Idle
<1>3. new \in Runner /\ new.at = "again" /\ new.member = m
  <2>1. one \in Runner /\ one.at = "again"
    BY IdleRunner, RunnerGoesOn DEF RunnerStep
  <2> HIDE DEF one
  <2> QED
    BY <2>1 DEF Runner
<1> HIDE DEF new
<1>4. /\ inside' = inside /\ on' = on /\ timer' = timer \ {m}
      /\ holds' = holds /\ excused' = excused
  BY DEF Trigger!Fire, Trigger!guild
<1>5. StartsTimer(m, new)
  BY <1>3 DEF StartsTimer
<1>6. \A k \in Holder : ~StartsTimer(k, runner[h]) /\ ~StopsTimer(k, runner[h])
  BY <1>2 DEF StartsTimer, StopsTimer
<1>7. Accounted(h, new)
  BY <1>4, <1>5, <1>6 DEF Accounted
<1>8. /\ inside' \subseteq Holder /\ holds' \subseteq inside' /\ timer' \subseteq Holder
      /\ excused' \subseteq Holder
  BY <1>1, <1>4 DEF TriggerTypes
<1> QED
  BY <1>2, <1>3, <1>4, <1>7, <1>8, TriggerMove, Zenon

\* A handler gives up: its member is excused.
LEMMA TriggerGivesUp ==
  ASSUME Nobody \notin Holder, TriggerInv, NEW h \in TriggerHandler, runner[h].at # "idle",
         Trigger!Return(h), excused' = excused \cup {runner[h].member},
         runner[h].member \in Holder,
         UNCHANGED <<inside, holds, on, timer>>
  PROVE  TriggerInv'
<1>1. TriggerTypes
  BY DEF TriggerInv
<1>2. /\ runner' = [runner EXCEPT ![h] = Trigger!Idle] /\ Trigger!Idle \in Runner
      /\ Trigger!Idle.at = "idle"
  BY IdleRunner DEF Trigger!Return
<1>3. \A k \in Holder \ excused' : ~StartsTimer(k, runner[h]) /\ ~StopsTimer(k, runner[h])
  BY DEF StartsTimer, StopsTimer
<1>4. Accounted(h, Trigger!Idle)
  BY <1>3 DEF Accounted
<1>5. /\ inside' \subseteq Holder /\ holds' \subseteq inside' /\ timer' \subseteq Holder
      /\ excused' \subseteq Holder /\ on' = on
  BY <1>1 DEF TriggerTypes
<1> QED
  BY <1>2, <1>4, <1>5, TriggerMove, Zenon

\* The settings are read, and what is decided from them is what the role demands.
LEMMA TriggerRead ==
  ASSUME Nobody \notin Holder, TriggerInv, NEW h \in TriggerHandler, Trigger!ReadSettings(h)
  PROVE  TriggerInv'
<1> DEFINE one == [runner[h] EXCEPT !.at = "decide"]
           new == [one EXCEPT !.on = on]
<1>1. TriggerTypes /\ runner[h] \in Runner /\ on \in BOOLEAN
  BY Zenon DEF TriggerInv, TriggerTypes
<1>2. runner[h].at = "config" /\ runner' = [runner EXCEPT ![h] = new]
  BY DEF Trigger!ReadSettings, Trigger!At
<1>3. /\ one \in Runner /\ one.at = "decide" /\ one.member = runner[h].member
      /\ one.had = runner[h].had /\ one.left = runner[h].left
  BY <1>1, RunnerGoesOn DEF RunnerStep
<1> HIDE DEF one
<1>4. /\ new \in Runner /\ new.at = "decide" /\ new.member = runner[h].member
      /\ new.had = runner[h].had /\ new.left = runner[h].left /\ new.on = on
  BY <1>1, <1>3 DEF Runner
<1> HIDE DEF new
<1>5. /\ UNCHANGED <<inside, holds, on, timer, excused>>
      /\ runner[h].member \in Holder
  BY <1>1, <1>2 DEF Trigger!ReadSettings, Trigger!guild, TriggerTypes
<1>6. \A k \in Holder : on =>
        /\ StartsTimer(k, runner[h]) => StartsTimer(k, new)
        /\ StopsTimer(k, runner[h]) => StopsTimer(k, new)
  BY <1>2, <1>4, Zenon DEF StartsTimer, StopsTimer
<1>7. ASSUME NEW k \in Holder \ excused, on
      PROVE  /\ k \in holds /\ k \notin timer => StartsTimer(k, new) \/ ~StartsTimer(k, runner[h])
             /\ k \notin holds /\ k \in timer => StopsTimer(k, new) \/ ~StopsTimer(k, runner[h])
  BY <1>6, <1>7
<1>8. Accounted(h, new)
  BY <1>5, <1>7 DEF Accounted
<1>9. /\ inside' \subseteq Holder /\ holds' \subseteq inside' /\ timer' \subseteq Holder
      /\ excused' \subseteq Holder
  BY <1>1, <1>5 DEF TriggerTypes
<1> QED
  BY <1>2, <1>4, <1>5, <1>8, <1>9, TriggerMove, Zenon

\* An update that decides starts a timer of somebody who has the role, and stops one of
\* somebody who has not.
LEMMA TriggerDecide ==
  ASSUME Nobody \notin Holder, TriggerInv, NEW h \in TriggerHandler, Trigger!Decide(h)
  PROVE  TriggerInv'
<1> DEFINE m == runner[h].member
<1>1. TriggerTypes /\ runner[h] \in Runner
  BY Zenon DEF TriggerInv, TriggerTypes
<1>2. /\ runner[h].at = "decide" /\ runner' = [runner EXCEPT ![h] = Trigger!Idle]
      /\ UNCHANGED <<inside, holds, on>>
  BY DEF Trigger!Decide, Trigger!Return, Trigger!At, Trigger!guild
<1>3. m \in Holder
  BY <1>1, <1>2 DEF TriggerTypes
<1>4. /\ timer' = IF ~runner[h].on THEN timer
                  ELSE IF Trigger!Schedule(h) THEN timer \cup {m}
                  ELSE IF Trigger!Cancel(h) THEN timer \ {m} ELSE timer
      /\ excused' = IF runner[h].left THEN excused \cup {m} ELSE excused
  BY DEF Trigger!Decide
<1> HIDE DEF m
<1>5. /\ timer' \subseteq Holder /\ excused' \subseteq Holder /\ excused \subseteq excused'
      /\ \A k \in Holder : k # m => (k \in timer' <=> k \in timer)
  BY <1>1, <1>3, <1>4 DEF TriggerTypes
<1>6. \A k \in Holder : k # m => ~StartsTimer(k, runner[h]) /\ ~StopsTimer(k, runner[h])
  BY DEF StartsTimer, StopsTimer, m
<1>7. ASSUME on, m \notin excused'
      PROVE  /\ m \notin excused
             /\ m \in holds /\ m \notin timer' => m \notin timer /\ ~StartsTimer(m, runner[h])
             /\ m \notin holds /\ m \in timer' => m \in timer /\ ~StopsTimer(m, runner[h])
  <2>1. ~runner[h].left
    BY <1>4, <1>7
  <2>2. Trigger!Has(h) <=> m \in holds
    BY <2>1 DEF Trigger!Has, m
  <2>3. ASSUME m \in holds, m \notin timer'
        PROVE  m \notin timer /\ ~StartsTimer(m, runner[h])
    <3>1. ~Trigger!Cancel(h)
      BY <2>2, <2>3 DEF Trigger!Cancel
    <3>2. m \notin timer
      BY <1>4, <2>3, <3>1
    <3>3. ~runner[h].on \/ ~Trigger!Schedule(h)
      BY <1>4, <2>3
    <3>4. ~runner[h].on \/ runner[h].had
      BY <2>2, <2>3, <3>3, Zenon DEF Trigger!Schedule
    <3> QED
      BY <1>2, <3>2, <3>4, Zenon DEF StartsTimer
  <2>4. ASSUME m \notin holds, m \in timer'
        PROVE  m \in timer /\ ~StopsTimer(m, runner[h])
    <3>1. ~Trigger!Schedule(h)
      BY <2>2, <2>4 DEF Trigger!Schedule
    <3>2. m \in timer
      BY <1>4, <2>4, <3>1
    <3>3. ~runner[h].on \/ ~Trigger!Cancel(h)
      BY <1>4, <2>4, <3>1
    <3>4. ~runner[h].on \/ ~runner[h].had
      BY <2>2, <2>4, <3>3, Zenon DEF Trigger!Cancel
    <3> QED
      BY <1>2, <3>2, <3>4, Zenon DEF StopsTimer
  <2> QED
    BY <1>5, <1>7, <2>3, <2>4
<1>8. Accounted(h, Trigger!Idle)
  <2> SUFFICES ASSUME NEW k \in Holder \ excused', on
               PROVE  /\ k \in holds' /\ k \notin timer' =>
                           /\ k \in holds /\ k \notin timer /\ k \notin excused
                           /\ ~StartsTimer(k, runner[h])
                      /\ k \notin holds' /\ k \in timer' =>
                           /\ k \notin holds /\ k \in timer /\ k \notin excused
                           /\ ~StopsTimer(k, runner[h])
    BY DEF Accounted
  <2>1. CASE k = m
    BY <1>2, <1>7, <2>1
  <2>2. CASE k # m
    BY <1>2, <1>5, <1>6, <2>2
  <2> QED
    BY <2>1, <2>2
<1>9. inside' \subseteq Holder /\ holds' \subseteq inside'
  BY <1>1, <1>2 DEF TriggerTypes
<1>10. Trigger!Idle \in Runner /\ (Trigger!Idle.at # "idle" => Trigger!Idle.member \in Holder)
  BY IdleRunner
<1> QED
  BY <1>2, <1>5, <1>8, <1>9, <1>10, TriggerMove, Zenon

\* An update or a run that fails, and a run that finds it has nothing to do.
LEMMA TriggerStops ==
  ASSUME Nobody \notin Holder, TriggerInv, NEW h \in TriggerHandler,
         \/ Trigger!UpdateFails(h) \/ Trigger!RunFails(h)
         \/ Trigger!RunSettings(h) /\ ~on
         \/ Trigger!RunMember(h) /\ runner[h].member \notin inside \cap holds
  PROVE  TriggerInv'
<1>1. /\ runner[h].at # "idle" /\ Trigger!Return(h)
      /\ excused' = excused \cup {runner[h].member}
      /\ UNCHANGED <<inside, holds, on, timer>>
  BY DEF Trigger!UpdateFails, Trigger!RunFails, Trigger!RunSettings, Trigger!RunMember,
     Trigger!GiveUp, Trigger!Excuse, Trigger!At, Trigger!guild
<1>2. runner[h].member \in Holder
  BY <1>1 DEF TriggerInv, TriggerTypes
<1> QED
  BY <1>1, <1>2, TriggerGivesUp, Zenon

\* A run goes on as long as the member has the role.
LEMMA TriggerRuns ==
  ASSUME Nobody \notin Holder, TriggerInv, NEW h \in TriggerHandler,
         \/ Trigger!RunSettings(h) /\ on
         \/ Trigger!RunMember(h) /\ runner[h].member \in inside \cap holds
         \/ Trigger!RunOpen(h)
  PROVE  TriggerInv'
<1>1. TriggerTypes /\ runner[h] \in Runner
  BY Zenon DEF TriggerInv, TriggerTypes
<1>2. /\ runner[h].at \in {"again", "member", "open"}
      /\ UNCHANGED <<inside, holds, on, timer>>
  BY DEF Trigger!RunSettings, Trigger!RunMember, Trigger!RunOpen, Trigger!At, Trigger!guild
<1>3. PICK new \in Runner :
        /\ runner' = [runner EXCEPT ![h] = new] /\ excused' = excused
        /\ new.member = runner[h].member /\ new.at \in {"member", "open", "remove"}
        /\ StartsTimer(new.member, runner[h]) => StartsTimer(new.member, new)
  <2>1. CASE Trigger!RunSettings(h) /\ on
    <3> DEFINE new == [runner[h] EXCEPT !.at = "member"]
    <3>1. runner' = [runner EXCEPT ![h] = new] /\ excused' = excused
      BY <2>1 DEF Trigger!RunSettings, Trigger!Goto
    <3>2. new \in Runner /\ new.at = "member" /\ new.member = runner[h].member
      BY <1>1, RunnerGoesOn DEF RunnerStep
    <3> HIDE DEF new
    <3> QED
      BY <3>1, <3>2 DEF StartsTimer
  <2>2. CASE Trigger!RunMember(h) /\ runner[h].member \in inside \cap holds
    <3> DEFINE one == [runner[h] EXCEPT !.at = "open"]
               new == [one EXCEPT !.left = FALSE]
    <3>1. runner' = [runner EXCEPT ![h] = new] /\ excused' = excused
      BY <2>2 DEF Trigger!RunMember
    <3>2. one \in Runner /\ one.at = "open" /\ one.member = runner[h].member
      BY <1>1, RunnerGoesOn DEF RunnerStep
    <3> HIDE DEF one
    <3>3. new \in Runner /\ new.at = "open" /\ new.member = runner[h].member /\ ~new.left
      BY <3>2 DEF Runner
    <3> HIDE DEF new
    <3> QED
      BY <3>1, <3>3 DEF StartsTimer
  <2>3. CASE Trigger!RunOpen(h)
    <3> DEFINE new == [runner[h] EXCEPT !.at = "remove"]
    <3>1. /\ runner' = [runner EXCEPT ![h] = new] /\ excused' = excused
          /\ runner[h].at = "open"
      BY <2>3 DEF Trigger!RunOpen, Trigger!Goto, Trigger!At
    <3>2. /\ new \in Runner /\ new.at = "remove" /\ new.member = runner[h].member
          /\ new.left = runner[h].left
      BY <1>1, RunnerGoesOn DEF RunnerStep
    <3> HIDE DEF new
    <3> QED
      BY <3>1, <3>2 DEF StartsTimer
  <2> QED
    BY <2>1, <2>2, <2>3
<1>4. runner[h].member \in Holder
  BY <1>1, <1>2 DEF TriggerTypes
<1>5. \A k \in Holder :
        /\ StartsTimer(k, runner[h]) => StartsTimer(k, new)
        /\ ~StopsTimer(k, runner[h])
  BY <1>2, <1>3 DEF StartsTimer, StopsTimer
<1>6. Accounted(h, new)
  BY <1>2, <1>3, <1>5 DEF Accounted
<1>7. /\ inside' \subseteq Holder /\ holds' \subseteq inside' /\ timer' \subseteq Holder
      /\ excused' \subseteq Holder
  BY <1>1, <1>2, <1>3 DEF TriggerTypes
<1> QED
  BY <1>2, <1>3, <1>4, <1>6, <1>7, TriggerMove, Zenon

\* The role is taken away by a run, which is an update like any other.
LEMMA TriggerRemoves ==
  ASSUME Nobody \notin Holder, TriggerInv, NEW h \in TriggerHandler, Trigger!RunRemove(h)
  PROVE  TriggerInv'
<1> DEFINE m == runner[h].member
<1>1. TriggerTypes /\ runner[h] \in Runner
  BY Zenon DEF TriggerInv, TriggerTypes
<1>2. /\ runner[h].at = "remove" /\ UNCHANGED <<inside, on, timer, excused>>
  BY DEF Trigger!RunRemove, Trigger!At
<1>3. m \in Holder
  BY <1>1, <1>2 DEF TriggerTypes
<1>4. \A k \in Holder : /\ ~StopsTimer(k, runner[h])
                        /\ k # m => ~StartsTimer(k, runner[h])
  BY <1>2 DEF StartsTimer, StopsTimer
<1>5. CASE Trigger!Has(h) /\ m \in holds
  <2>1. holds' = holds \ {m} /\ runner' = Trigger!Update(h, m, TRUE)
    BY <1>5 DEF Trigger!RunRemove
  <2> HIDE DEF m
  <2>2. PICK new \in Runner : /\ runner' = [runner EXCEPT ![h] = new] /\ new.member = m
                              /\ StopsTimer(m, new)
    <3>1. runner \in [TriggerHandler -> Runner]
      BY <1>1 DEF TriggerTypes
    <3>2. TRUE \in BOOLEAN
      OBVIOUS
    <3> QED
      BY <1>3, <2>1, <3>1, <3>2, UpdateRunner, Zenon
  <2>3. Accounted(h, new)
    BY <1>2, <1>4, <2>1, <2>2 DEF Accounted
  <2>4. /\ inside' \subseteq Holder /\ holds' \subseteq inside' /\ timer' \subseteq Holder
        /\ excused' \subseteq Holder
    BY <1>1, <1>2, <2>1 DEF TriggerTypes
  <2> QED
    BY <1>2, <1>3, <2>2, <2>3, <2>4, TriggerMove, Zenon
<1>6. CASE ~(Trigger!Has(h) /\ m \in holds)
  <2>1. holds' = holds /\ runner' = [runner EXCEPT ![h] = Trigger!Idle]
    BY <1>6 DEF Trigger!RunRemove, Trigger!Return
  <2>2. m \in holds => ~StartsTimer(m, runner[h])
    BY <1>2, <1>6 DEF StartsTimer, Trigger!Has
  <2> HIDE DEF m
  <2>3. Accounted(h, Trigger!Idle)
    BY <1>2, <1>4, <2>1, <2>2 DEF Accounted
  <2>4. /\ inside' \subseteq Holder /\ holds' \subseteq inside' /\ timer' \subseteq Holder
        /\ excused' \subseteq Holder
    BY <1>1, <1>2, <2>1 DEF TriggerTypes
  <2>5. Trigger!Idle \in Runner /\ (Trigger!Idle.at # "idle" => Trigger!Idle.member \in Holder)
    BY IdleRunner
  <2> QED
    BY <1>2, <2>1, <2>3, <2>4, <2>5, TriggerMove, Zenon
<1> QED
  BY <1>5, <1>6

\* Every step of the trigger role keeps the invariant.
LEMMA TriggerNextKept ==
  ASSUME Nobody \notin Holder, TriggerInv, Trigger!Next
  PROVE  TriggerInv'
<1>1. CASE \E m \in Holder : Trigger!ComeBack(m)
  <2>1. /\ UNCHANGED <<holds, on, timer, runner, excused>>
        /\ inside \subseteq inside' /\ inside' \subseteq Holder
    BY <1>1 DEF Trigger!ComeBack, TriggerInv, TriggerTypes
  <2> QED
    BY <2>1 DEF TriggerInv, TriggerTypes, DifferencesExplained
<1>2. CASE \E m \in Holder : Trigger!Give(m) \/ Trigger!Take(m) \/ Trigger!Leave(m) \/ Trigger!Fire(m)
  BY <1>2, TriggerGive, TriggerTake, TriggerLeave, TriggerFire
<1>3. CASE Trigger!Switch \/ Trigger!Restart
  BY <1>3, TriggerExcused
<1>4. CASE \E h \in TriggerHandler :
             \/ Trigger!ReadSettings(h) \/ Trigger!Decide(h) \/ Trigger!UpdateFails(h)
             \/ Trigger!RunSettings(h) \/ Trigger!RunMember(h) \/ Trigger!RunOpen(h)
             \/ Trigger!RunRemove(h) \/ Trigger!RunFails(h)
  <2>1. PICK h \in TriggerHandler :
             \/ Trigger!ReadSettings(h) \/ Trigger!Decide(h) \/ Trigger!UpdateFails(h)
             \/ Trigger!RunSettings(h) \/ Trigger!RunMember(h) \/ Trigger!RunOpen(h)
             \/ Trigger!RunRemove(h) \/ Trigger!RunFails(h)
    BY <1>4
  <2> QED
    BY <2>1, TriggerRead, TriggerDecide, TriggerStops, TriggerRuns, TriggerRemoves, Zenon
<1> QED
  BY <1>1, <1>2, <1>3, <1>4 DEF Trigger!Next

\* A step of the whole is a step of the trigger role, or leaves it alone.
LEMMA TriggerSteps ==
  ASSUME [Next]_vars
  PROVE  Trigger!Next \/ UNCHANGED triggerVars
<1>1. CASE UNCHANGED vars
  BY <1>1 DEF vars, byRole, triggerVars
<1>2. CASE InLive(Live!Next) \/ InConfig(Config!Next)
  BY <1>2 DEF InLive, InConfig, byRole, triggerVars
<1>3. CASE CommandNext \/ SetupNext \/ WebNext
  BY <1>3 DEF CommandNext, SetupNext, WebNext, byRole, triggerVars
<1>4. CASE TriggerNext
  BY <1>4 DEF TriggerNext
<1>5. CASE IntakeNext \/ GateNext
  BY <1>5 DEF IntakeNext, GateNext, triggerVars
<1> QED
  BY <1>1, <1>2, <1>3, <1>4, <1>5 DEF Next

\* At first nobody has the role, nobody has a timer, and no handler is at work.
LEMMA TriggerStarts ==
  ASSUME Init
  PROVE  TriggerInv
<1>1. Trigger!Init
  BY DEF Init
<1>2. /\ inside = Holder /\ holds = {} /\ timer = {} /\ excused = {}
      /\ runner = [h \in TriggerHandler |-> Trigger!Idle]
  BY <1>1 DEF Trigger!Init
<1>3. on \in BOOLEAN
  BY <1>1, Zenon DEF Trigger!Init
<1>4. \A h \in TriggerHandler : runner[h] = Trigger!Idle
  BY <1>2
<1>5. runner \in [TriggerHandler -> Runner]
  BY <1>2, IdleRunner
<1>6. \A h \in TriggerHandler : runner[h].at = "idle"
  BY <1>4, IdleRunner
<1>7. inside \subseteq Holder /\ holds \subseteq inside /\ timer \subseteq Holder
      /\ excused \subseteq Holder
  BY <1>2
<1>8. TriggerTypes
  BY <1>3, <1>5, <1>6, <1>7, Zenon DEF TriggerTypes
<1>9. DifferencesExplained
  BY <1>2 DEF DifferencesExplained
<1> QED
  BY <1>8, <1>9 DEF TriggerInv

\* The invariant of the trigger role, in every behaviour.
LEMMA TriggerInvariant == FairSpec => []TriggerInv
<1>1. Init => TriggerInv
  BY TriggerStarts
<1>2. TriggerInv /\ [Next]_vars => TriggerInv'
  <2> SUFFICES ASSUME TriggerInv, [Next]_vars
               PROVE  TriggerInv'
    OBVIOUS
  <2>1. Nobody \notin Holder
    BY GuildAssumption DEF Trigger!RoleTriggerAssumption
  <2>2. CASE Trigger!Next
    BY <2>1, <2>2, TriggerNextKept
  <2>3. CASE UNCHANGED triggerVars
    <3>1. /\ inside' = inside /\ holds' = holds /\ on' = on /\ timer' = timer
          /\ runner' = runner /\ excused' = excused
      BY <2>3 DEF triggerVars
    <3> QED
      BY <3>1, Zenon DEF TriggerInv, TriggerTypes, DifferencesExplained
  <2> QED
    BY <2>2, <2>3, TriggerSteps
<1> QED
  BY <1>1, <1>2, PTL DEF FairSpec

\* However the handlers of its updates pass each other, a member has a timer when it has
\* the trigger role, and none when it has lost it.
THEOREM TimerStaysWithRole == FairSpec => []Trigger!TimerFollowsRole
<1>1. TriggerInv => Trigger!TimerFollowsRole
  BY DEF TriggerInv, DifferencesExplained, StartsTimer, StopsTimer, Trigger!TimerFollowsRole,
         Trigger!AtWork
<1> QED
  BY <1>1, TriggerInvariant, PTL
---------------------------------------------------------------------------
(* The intake of a role *)

Batch == [at : {"idle", "next", "wait"}, execute : BOOLEAN, todo : SUBSET Crowd,
          current : Crowd \cup {Nobody}, done : Nat, opened : SUBSET Crowd,
          skipped : SUBSET Crowd, failed : SUBSET Crowd, seen : SUBSET Crowd]
Operation == [member : Crowd, at : {"find", "open"}, execute : BOOLEAN, late : BOOLEAN]

\* the members of the result
InResult(b) == b.opened \cup b.failed \cup b.skipped \cup b.seen

\* The result counts everybody once that it names, and nobody who is still to come.
BatchCounts(b) ==
  /\ b \in Batch
  /\ b.current \in Crowd <=> b.at = "wait"
  /\ b.current \notin InResult(b)
  /\ b.todo \cap (InResult(b) \cup {b.current}) = {}
  /\ b.done = Cardinality(b.opened \cup b.failed)
                + Cardinality(b.skipped) + Cardinality(b.seen)

\* An operation of this intake is the only one of its member, who is the current one, or
\* was given up.
OperationsKnown ==
  /\ op \subseteq Operation
  /\ \A o \in op : ~o.late => o.member \in batch.failed \cup {batch.current}
  /\ \A o, p \in op : ~o.late /\ ~p.late /\ o.member = p.member => o = p

\* A case that was opened for the intake is in the result when it is opened, or before.
TakenCounted == taken \subseteq batch.opened \cup batch.failed /\ batch.opened \subseteq taken

RoleIntakeInv == BatchCounts(batch) /\ OperationsKnown /\ TakenCounted

\* One more of a crowd.
LEMMA OneMore ==
  ASSUME IsFiniteSet(Crowd), NEW s \in SUBSET Crowd
  PROVE  /\ Cardinality(s) \in Nat
         /\ \A m \in Crowd : m \notin s => Cardinality(s \cup {m}) = Cardinality(s) + 1
<1>1. IsFiniteSet(s)
  BY FS_Subset
<1> QED
  BY <1>1, FS_CardinalityType, FS_AddElement

\* What a batch still has when a member is added to one part of its result.
SameCourse(b, c) ==
  c \in Batch /\ c.at = b.at /\ c.current = b.current /\ c.todo = b.todo /\ c.done = b.done

\* A batch with one more member in its result.
LEMMA BatchWithOneMore ==
  ASSUME NEW b \in Batch, NEW m \in Crowd, NEW c
  PROVE  /\ c = [b EXCEPT !.opened = @ \cup {m}] =>
              /\ SameCourse(b, c) /\ c.opened = b.opened \cup {m} /\ c.failed = b.failed
              /\ c.skipped = b.skipped /\ c.seen = b.seen
         /\ c = [b EXCEPT !.failed = @ \cup {m}] =>
              /\ SameCourse(b, c) /\ c.opened = b.opened /\ c.failed = b.failed \cup {m}
              /\ c.skipped = b.skipped /\ c.seen = b.seen
         /\ c = [b EXCEPT !.skipped = @ \cup {m}] =>
              /\ SameCourse(b, c) /\ c.opened = b.opened /\ c.failed = b.failed
              /\ c.skipped = b.skipped \cup {m} /\ c.seen = b.seen
         /\ c = [b EXCEPT !.seen = @ \cup {m}] =>
              /\ SameCourse(b, c) /\ c.opened = b.opened /\ c.failed = b.failed
              /\ c.skipped = b.skipped /\ c.seen = b.seen \cup {m}
BY DEF Batch, SameCourse

\* A batch that has counted its member.
LEMMA CountedBatch ==
  ASSUME NEW b \in Batch
  PROVE  LET c == Intake!Counted(b) IN
           /\ c \in Batch /\ c.at = "next" /\ c.current = Nobody /\ c.todo = b.todo
           /\ c.done = b.done + 1 /\ c.opened = b.opened /\ c.failed = b.failed
           /\ c.skipped = b.skipped /\ c.seen = b.seen
<1> DEFINE one == [b EXCEPT !.at = "next"]
           two == [one EXCEPT !.current = Nobody]
           new == [two EXCEPT !.done = @ + 1]
<1>1. Intake!Counted(b) = new
  BY DEF Intake!Counted
<1>2. /\ one \in Batch /\ one.at = "next" /\ one.todo = b.todo /\ one.done = b.done
      /\ one.opened = b.opened /\ one.failed = b.failed
      /\ one.skipped = b.skipped /\ one.seen = b.seen
  BY DEF Batch
<1> HIDE DEF one
<1>3. /\ two \in Batch /\ two.at = "next" /\ two.todo = b.todo /\ two.done = b.done
      /\ two.current = Nobody /\ two.opened = b.opened /\ two.failed = b.failed
      /\ two.skipped = b.skipped /\ two.seen = b.seen
  BY <1>2 DEF Batch
<1> HIDE DEF two
<1>4. /\ new \in Batch /\ new.at = "next" /\ new.todo = b.todo /\ new.done = b.done + 1
      /\ new.current = Nobody /\ new.opened = b.opened /\ new.failed = b.failed
      /\ new.skipped = b.skipped /\ new.seen = b.seen
  BY <1>3 DEF Batch
<1> HIDE DEF new
<1> QED
  BY <1>1, <1>4

\* The ways to count a member m of b in c.
InOneWay(b, c, m) ==
  \/ /\ c.opened \cup c.failed = b.opened \cup b.failed \cup {m}
     /\ c.skipped = b.skipped /\ c.seen = b.seen
  \/ /\ c.opened = b.opened /\ c.failed = b.failed
     /\ c.skipped = b.skipped \cup {m} /\ c.seen = b.seen
  \/ /\ c.opened = b.opened /\ c.failed = b.failed
     /\ c.skipped = b.skipped /\ c.seen = b.seen \cup {m}

\* A member counted in one way is counted once.
LEMMA ResultCounts ==
  ASSUME IsFiniteSet(Crowd), Nobody \notin Crowd, NEW b, BatchCounts(b), b.at = "wait",
         NEW c \in Batch, c.at = "next", c.current = Nobody, c.todo = b.todo,
         c.done = b.done + 1, InOneWay(b, c, b.current)
  PROVE  BatchCounts(c)
<1>1. /\ b \in Batch /\ b.current \in Crowd /\ b.current \notin InResult(b)
      /\ b.todo \cap (InResult(b) \cup {b.current}) = {}
      /\ b.done = Cardinality(b.opened \cup b.failed)
                    + Cardinality(b.skipped) + Cardinality(b.seen)
  BY DEF BatchCounts
<1>2. /\ b.opened \cup b.failed \in SUBSET Crowd /\ b.skipped \in SUBSET Crowd
      /\ b.seen \in SUBSET Crowd /\ b.todo \in SUBSET Crowd
      /\ c.opened \cup c.failed \in SUBSET Crowd /\ c.skipped \in SUBSET Crowd
      /\ c.seen \in SUBSET Crowd /\ c.todo \in SUBSET Crowd
  BY <1>1 DEF Batch
<1>3. /\ Cardinality(b.opened \cup b.failed) \in Nat /\ Cardinality(b.skipped) \in Nat
      /\ Cardinality(b.seen) \in Nat
  BY <1>2, OneMore
<1>4. InResult(c) = InResult(b) \cup {b.current}
  BY DEF InOneWay, InResult
<1>5. c.done = Cardinality(c.opened \cup c.failed)
                 + Cardinality(c.skipped) + Cardinality(c.seen)
  <2>1. CASE /\ c.opened \cup c.failed = b.opened \cup b.failed \cup {b.current}
             /\ c.skipped = b.skipped /\ c.seen = b.seen
    <3>1. Cardinality(c.opened \cup c.failed) = Cardinality(b.opened \cup b.failed) + 1
      BY <1>1, <1>2, <2>1, OneMore DEF InResult
    <3> QED
      BY <1>1, <1>3, <2>1, <3>1
  <2>2. CASE /\ c.opened = b.opened /\ c.failed = b.failed
             /\ c.skipped = b.skipped \cup {b.current} /\ c.seen = b.seen
    <3>1. Cardinality(c.skipped) = Cardinality(b.skipped) + 1
      BY <1>1, <1>2, <2>2, OneMore DEF InResult
    <3> QED
      BY <1>1, <1>3, <2>2, <3>1
  <2>3. CASE /\ c.opened = b.opened /\ c.failed = b.failed
             /\ c.skipped = b.skipped /\ c.seen = b.seen \cup {b.current}
    <3>1. Cardinality(c.seen) = Cardinality(b.seen) + 1
      BY <1>1, <1>2, <2>3, OneMore DEF InResult
    <3> QED
      BY <1>1, <1>3, <2>3, <3>1
  <2> QED
    BY <2>1, <2>2, <2>3 DEF InOneWay
<1>6. InResult(c) \subseteq Crowd
  BY <1>2 DEF InResult
<1>7. c.todo \cap (InResult(c) \cup {c.current}) = {}
  BY <1>1, <1>2, <1>4
<1> QED
  BY <1>5, <1>6, <1>7 DEF BatchCounts

\* What the end of an operation does to the batch.
LEMMA ResultTaken ==
  ASSUME IsFiniteSet(Crowd), Nobody \notin Crowd, BatchCounts(batch), NEW o \in Operation,
         Intake!Awaited(o), NEW result, batch' = Intake!Counted(result),
         result \in {[batch EXCEPT !.skipped = @ \cup {o.member}],
                     [batch EXCEPT !.seen = @ \cup {o.member}],
                     Intake!Failed(o), Intake!Opened(o), Intake!OpenedWithoutRole(o)}
  PROVE  /\ BatchCounts(batch') /\ batch'.current = Nobody
         /\ batch'.opened = result.opened /\ batch'.failed = result.failed
         /\ batch.failed \subseteq result.failed
<1>1. /\ batch \in Batch /\ batch.at = "wait" /\ batch.current = o.member /\ o.member \in Crowd
  BY DEF Intake!Awaited, BatchCounts, Operation
<1>2. /\ SameCourse(batch, result) /\ InOneWay(batch, result, o.member)
      /\ batch.failed \subseteq result.failed
  <2>1. CASE result = [batch EXCEPT !.skipped = @ \cup {o.member}]
    BY <1>1, <2>1, BatchWithOneMore DEF InOneWay
  <2>2. CASE result = [batch EXCEPT !.seen = @ \cup {o.member}]
    BY <1>1, <2>2, BatchWithOneMore DEF InOneWay
  <2>3. CASE result = Intake!Failed(o)
    <3>1. result = [batch EXCEPT !.failed = @ \cup {o.member}]
      BY <2>3 DEF Intake!Failed
    <3>2. /\ SameCourse(batch, result) /\ result.failed = batch.failed \cup {o.member}
          /\ result.opened = batch.opened /\ result.skipped = batch.skipped
          /\ result.seen = batch.seen
      BY <1>1, <3>1 DEF Batch, SameCourse
    <3> QED
      BY <3>2 DEF InOneWay
  <2>4. CASE result = Intake!Opened(o)
    <3>1. result = [batch EXCEPT !.opened = @ \cup {o.member}]
      BY <2>4 DEF Intake!Opened
    <3>2. /\ SameCourse(batch, result) /\ result.opened = batch.opened \cup {o.member}
          /\ result.failed = batch.failed /\ result.skipped = batch.skipped
          /\ result.seen = batch.seen
      BY <1>1, <3>1 DEF Batch, SameCourse
    <3> QED
      BY <3>2 DEF InOneWay
  <2>5. CASE result = Intake!OpenedWithoutRole(o)
    <3> DEFINE one == Intake!Opened(o)
    <3>1. one = [batch EXCEPT !.opened = @ \cup {o.member}]
      BY DEF Intake!Opened
    <3>2. /\ SameCourse(batch, one) /\ one.opened = batch.opened \cup {o.member}
          /\ one.failed = batch.failed /\ one.skipped = batch.skipped
          /\ one.seen = batch.seen
      BY <1>1, <3>1 DEF Batch, SameCourse
    <3>3. result = [one EXCEPT !.failed = @ \cup {o.member}]
      BY <2>5 DEF Intake!OpenedWithoutRole
    <3> HIDE DEF one
    <3>4. /\ SameCourse(one, result) /\ result.failed = one.failed \cup {o.member}
          /\ result.opened = one.opened /\ result.skipped = one.skipped
          /\ result.seen = one.seen
      <4>1. one \in Batch
        BY <3>2 DEF SameCourse
      <4> QED
        BY <1>1, <3>3, <4>1 DEF Batch, SameCourse
    <3> QED
      BY <3>2, <3>4 DEF InOneWay, SameCourse
  <2> QED
    BY <2>1, <2>2, <2>3, <2>4, <2>5
<1>3. /\ batch' \in Batch /\ batch'.at = "next" /\ batch'.current = Nobody
      /\ batch'.todo = batch.todo /\ batch'.done = batch.done + 1
      /\ batch'.opened = result.opened /\ batch'.failed = result.failed
      /\ batch'.skipped = result.skipped /\ batch'.seen = result.seen
  BY <1>2, CountedBatch DEF SameCourse
<1>4. InOneWay(batch, batch', batch.current)
  BY <1>1, <1>2, <1>3 DEF InOneWay
<1> QED
  BY <1>1, <1>2, <1>3, <1>4, ResultCounts DEF SameCourse

\* The invariant after an operation has ended.
LEMMA OperationEnds ==
  ASSUME IsFiniteSet(Crowd), Nobody \notin Crowd, RoleIntakeInv, NEW o \in op,
         op' = op \ {o}, NEW result,
         result \in {[batch EXCEPT !.skipped = @ \cup {o.member}],
                     [batch EXCEPT !.seen = @ \cup {o.member}],
                     Intake!Failed(o), Intake!Opened(o), Intake!OpenedWithoutRole(o)},
         Intake!Results(o, result),
         taken' \in {taken, IF o.late THEN taken ELSE taken \cup {o.member}},
         Intake!Awaited(o) => /\ taken' \subseteq result.opened \cup result.failed
                              /\ result.opened \subseteq taken'
  PROVE  RoleIntakeInv'
<1>1. o \in Operation /\ BatchCounts(batch)
  BY DEF RoleIntakeInv, OperationsKnown
<1>2. CASE Intake!Awaited(o)
  <2>1. batch' = Intake!Counted(result)
    BY <1>2 DEF Intake!Results
  <2>2. /\ BatchCounts(batch') /\ batch'.current = Nobody
        /\ batch'.opened = result.opened /\ batch'.failed = result.failed
    BY <1>1, <1>2, <2>1, ResultTaken
  <2>3. batch.failed \subseteq batch'.failed
    <3>1. batch \in Batch /\ o.member \in Crowd
      BY <1>1 DEF BatchCounts, Operation
    <3>2. batch.failed \subseteq result.failed
      BY <1>1, <1>2, <2>1, ResultTaken
    <3> QED
      BY <2>2, <3>2
  <2>4. ~o.late /\ batch.current = o.member
    BY <1>2 DEF Intake!Awaited
  <2>5. OperationsKnown'
    <3>1. op' \subseteq Operation
      BY DEF RoleIntakeInv, OperationsKnown
    <3>2. ASSUME NEW p \in op', ~p.late
          PROVE  p.member \in batch'.failed
      <4>1. p \in op /\ p # o
        BY <3>2
      <4>2. p.member # o.member
        BY <2>4, <3>2, <4>1, Zenon DEF RoleIntakeInv, OperationsKnown
      <4>3. p.member \in batch.failed \cup {batch.current}
        BY <3>2, <4>1, Zenon DEF RoleIntakeInv, OperationsKnown
      <4> QED
        BY <2>3, <2>4, <4>2, <4>3
    <3>3. \A p, q \in op' : ~p.late /\ ~q.late /\ p.member = q.member => p = q
      <4>1. op' \subseteq op
        OBVIOUS
      <4> QED
        BY <4>1, Zenon DEF RoleIntakeInv, OperationsKnown
    <3>4. \A p \in op' : ~p.late => p.member \in batch'.failed \cup {batch'.current}
      BY <3>2
    <3> QED
      BY <3>1, <3>3, <3>4, Zenon DEF OperationsKnown
  <2>6. TakenCounted'
    BY <1>2, <2>2 DEF TakenCounted
  <2> QED
    BY <2>2, <2>5, <2>6 DEF RoleIntakeInv
<1>3. CASE ~Intake!Awaited(o)
  <2>1. batch' = batch
    BY <1>3 DEF Intake!Results
  <2>2. op' \subseteq op
    OBVIOUS
  <2>3. OperationsKnown'
    BY <2>1, <2>2, Zenon DEF RoleIntakeInv, OperationsKnown
  <2>4. ~o.late => o.member \in batch.failed
    <3>1. ~o.late => o.member \in batch.failed \cup {batch.current}
      BY Zenon DEF RoleIntakeInv, OperationsKnown
    <3>2. ~o.late => ~(batch.at = "wait" /\ batch.current = o.member)
      BY <1>3, Zenon DEF Intake!Awaited
    <3>3. o.member \in Crowd /\ (batch.current \in Crowd => batch.at = "wait")
      BY <1>1 DEF BatchCounts, Operation
    <3>4. batch.current = o.member => batch.at = "wait"
      BY <3>3
    <3>5. ~o.late => batch.current # o.member
      BY <3>2, <3>4, Zenon
    <3> QED
      BY <3>1, <3>5
  <2>5. taken' = taken \/ (~o.late /\ taken' = taken \cup {o.member})
    BY Zenon
  <2>6. TakenCounted'
    <3>1. taken \subseteq batch.opened \cup batch.failed /\ batch.opened \subseteq taken
      BY DEF RoleIntakeInv, TakenCounted
    <3>2. CASE taken' = taken
      BY <2>1, <3>1, <3>2 DEF TakenCounted
    <3>3. CASE ~o.late /\ taken' = taken \cup {o.member}
      BY <2>1, <2>4, <3>1, <3>3 DEF TakenCounted
    <3> QED
      BY <2>5, <3>2, <3>3
  <2> QED
    BY <1>1, <2>1, <2>3, <2>6 DEF RoleIntakeInv
<1> QED
  BY <1>2, <1>3

\* A batch at rest, or at its beginning.
LEMMA EmptyBatch ==
  ASSUME NEW b \in Batch, b.current \notin Crowd, b.at # "wait", InResult(b) = {}, b.done = 0,
         b.current \notin b.todo
  PROVE  BatchCounts(b)
<1>1. b.opened \cup b.failed = {} /\ b.skipped = {} /\ b.seen = {}
  BY DEF InResult
<1>2. Cardinality({}) = 0
  BY FS_EmptySet
<1> QED
  BY <1>1, <1>2 DEF BatchCounts

\* No intake: nothing is counted.
LEMMA NoBatchFields ==
  /\ Intake!NoBatch \in Batch /\ Intake!NoBatch.at = "idle" /\ Intake!NoBatch.current = Nobody
  /\ Intake!NoBatch.done = 0 /\ Intake!NoBatch.todo = {} /\ Intake!NoBatch.opened = {}
  /\ Intake!NoBatch.failed = {} /\ InResult(Intake!NoBatch) = {}
BY DEF Intake!NoBatch, Batch, InResult

\* An intake starts with an empty result, and leaves the operations of the last one behind.
LEMMA IntakeStarts ==
  ASSUME IsFiniteSet(Crowd), Nobody \notin Crowd, RoleIntakeInv, Intake!StartIntake
  PROVE  RoleIntakeInv'
<1>1. PICK s \in SUBSET Crowd, execute \in BOOLEAN :
        batch' = [Intake!NoBatch EXCEPT !.at = "next", !.execute = execute, !.todo = s]
  BY DEF Intake!StartIntake, Intake!Selections
<1> DEFINE one == [Intake!NoBatch EXCEPT !.at = "next"]
           two == [one EXCEPT !.execute = execute]
           new == [two EXCEPT !.todo = s]
<1>2. batch' = new
  BY <1>1
<1>3. /\ one \in Batch /\ one.at = "next" /\ one.current = Nobody /\ one.done = 0
      /\ one.opened = {} /\ one.failed = {} /\ one.skipped = {} /\ one.seen = {}
  BY NoBatchFields DEF Batch, InResult
<1> HIDE DEF one
<1>4. /\ two \in Batch /\ two.at = "next" /\ two.current = Nobody /\ two.done = 0
      /\ two.opened = {} /\ two.failed = {} /\ two.skipped = {} /\ two.seen = {}
  BY <1>3 DEF Batch
<1> HIDE DEF two
<1>5. /\ new \in Batch /\ new.at = "next" /\ new.current = Nobody /\ new.done = 0
      /\ new.opened = {} /\ new.failed = {} /\ new.skipped = {} /\ new.seen = {}
      /\ new.todo = s
  BY <1>4 DEF Batch
<1> HIDE DEF new
<1>6. BatchCounts(new)
  <2>1. InResult(new) = {} /\ new.current \notin Crowd /\ new.current \notin new.todo
    BY <1>5 DEF InResult
  <2> QED
    BY <1>5, <2>1, EmptyBatch
<1>7. op' = {[o EXCEPT !.late = TRUE] : o \in op} /\ taken' = {}
  BY DEF Intake!StartIntake
<1>8. \A o \in op' : o \in Operation /\ o.late
  <2> TAKE p \in op'
  <2>1. PICK o \in op : p = [o EXCEPT !.late = TRUE]
    BY <1>7
  <2>2. o \in Operation
    BY DEF RoleIntakeInv, OperationsKnown
  <2> QED
    BY <2>1, <2>2 DEF Operation
<1>9. OperationsKnown'
  BY <1>8 DEF OperationsKnown
<1>10. TakenCounted'
  BY <1>2, <1>5, <1>7 DEF TakenCounted
<1> QED
  BY <1>2, <1>6, <1>9, <1>10 DEF RoleIntakeInv

\* The next member is nobody of the result, and has no operation.
LEMMA IntakeGoesOn ==
  ASSUME IsFiniteSet(Crowd), Nobody \notin Crowd, RoleIntakeInv, Intake!NextMember
  PROVE  RoleIntakeInv'
<1>1. PICK m \in batch.todo :
        /\ batch' = [batch EXCEPT !.at = "wait", !.todo = @ \ {m}, !.current = m]
        /\ op' = op \cup {[member |-> m, at |-> "find", execute |-> batch.execute, late |-> FALSE]}
  BY DEF Intake!NextMember
<1>2. /\ batch.at = "next" /\ taken' = taken /\ BatchCounts(batch) /\ batch \in Batch
  BY DEF Intake!NextMember, RoleIntakeInv, BatchCounts
<1> DEFINE one == [batch EXCEPT !.at = "wait"]
           two == [one EXCEPT !.todo = @ \ {m}]
           new == [two EXCEPT !.current = m]
<1>3. batch' = new
  BY <1>1
<1>4. m \in Crowd
  BY <1>2 DEF Batch
<1>5. /\ one \in Batch /\ one.at = "wait" /\ one.todo = batch.todo /\ one.done = batch.done
      /\ one.opened = batch.opened /\ one.failed = batch.failed
      /\ one.skipped = batch.skipped /\ one.seen = batch.seen
  BY <1>2 DEF Batch
<1> HIDE DEF one
<1>6. /\ two \in Batch /\ two.at = "wait" /\ two.todo = batch.todo \ {m}
      /\ two.done = batch.done
      /\ two.opened = batch.opened /\ two.failed = batch.failed
      /\ two.skipped = batch.skipped /\ two.seen = batch.seen
  BY <1>5 DEF Batch
<1> HIDE DEF two
<1>7. /\ new \in Batch /\ new.at = "wait" /\ new.todo = batch.todo \ {m}
      /\ new.done = batch.done /\ new.current = m
      /\ new.opened = batch.opened /\ new.failed = batch.failed
      /\ new.skipped = batch.skipped /\ new.seen = batch.seen
  BY <1>4, <1>6 DEF Batch
<1> HIDE DEF new
<1>8. m \notin InResult(batch) /\ batch.current \notin Crowd
  BY <1>2 DEF BatchCounts
<1>9. BatchCounts(new)
  BY <1>2, <1>4, <1>7, <1>8 DEF BatchCounts, InResult
<1> DEFINE o == [member |-> m, at |-> "find", execute |-> batch.execute, late |-> FALSE]
<1>10. o \in Operation /\ o.member = m /\ ~o.late
  <2>1. batch.execute \in BOOLEAN
    BY <1>2, Zenon DEF Batch
  <2> QED
    BY <1>4, <2>1 DEF Operation
<1>11. op' = op \cup {o}
  BY <1>1
<1> HIDE DEF o
<1>12. \A p \in op : ~p.late => p.member \in batch.failed
  <2> TAKE p \in op
  <2>1. p \in Operation /\ (~p.late => p.member \in batch.failed \cup {batch.current})
    BY Zenon DEF RoleIntakeInv, OperationsKnown
  <2>2. p.member \in Crowd
    BY <2>1 DEF Operation
  <2> QED
    BY <1>8, <2>1, <2>2
<1>13. \A p \in op : ~p.late => p.member # m
  BY <1>8, <1>12 DEF InResult
<1>14. OperationsKnown'
  <2>1. op' \subseteq Operation
    BY <1>10, <1>11 DEF RoleIntakeInv, OperationsKnown
  <2>2. \A p \in op' : ~p.late => p.member \in batch'.failed \cup {batch'.current}
    BY <1>3, <1>7, <1>10, <1>11, <1>12
  <2>3. \A p, q \in op' : ~p.late /\ ~q.late /\ p.member = q.member => p = q
    <3>1. \A p, q \in op : ~p.late /\ ~q.late /\ p.member = q.member => p = q
      BY Zenon DEF RoleIntakeInv, OperationsKnown
    <3> QED
      BY <1>10, <1>11, <1>13, <3>1
  <2> QED
    BY <2>1, <2>2, <2>3, Zenon DEF OperationsKnown
<1>15. TakenCounted'
  BY <1>2, <1>3, <1>7 DEF RoleIntakeInv, TakenCounted
<1> QED
  BY <1>3, <1>9, <1>14, <1>15 DEF RoleIntakeInv

\* An intake that is over keeps its result.
LEMMA IntakeIsOver ==
  ASSUME RoleIntakeInv, Intake!EndIntake
  PROVE  RoleIntakeInv'
<1> DEFINE new == [batch EXCEPT !.at = "idle"]
<1>1. /\ batch.at = "next" /\ batch' = new /\ op' = op /\ taken' = taken
      /\ BatchCounts(batch) /\ batch \in Batch
  BY DEF Intake!EndIntake, RoleIntakeInv, BatchCounts
<1>2. /\ new \in Batch /\ new.at = "idle" /\ new.todo = batch.todo
      /\ new.done = batch.done /\ new.current = batch.current
      /\ new.opened = batch.opened /\ new.failed = batch.failed
      /\ new.skipped = batch.skipped /\ new.seen = batch.seen
  BY <1>1 DEF Batch
<1> HIDE DEF new
<1>3. BatchCounts(new)
  BY <1>1, <1>2 DEF BatchCounts, InResult
<1>4. OperationsKnown'
  BY <1>1, <1>2 DEF RoleIntakeInv, OperationsKnown
<1>5. TakenCounted'
  BY <1>1, <1>2 DEF RoleIntakeInv, TakenCounted
<1> QED
  BY <1>1, <1>3, <1>4, <1>5 DEF RoleIntakeInv

\* A member that takes too long is counted as failed, and its operation goes on.
LEMMA IntakeGivesUp ==
  ASSUME IsFiniteSet(Crowd), Nobody \notin Crowd, RoleIntakeInv, Intake!Timeout
  PROVE  RoleIntakeInv'
<1> DEFINE one == [batch EXCEPT !.failed = @ \cup {batch.current}]
<1>1. /\ batch.at = "wait" /\ batch' = Intake!Counted(one) /\ op' = op /\ taken' = taken
      /\ BatchCounts(batch) /\ batch \in Batch /\ batch.current \in Crowd
  BY DEF Intake!Timeout, Intake!GivenUp, RoleIntakeInv, BatchCounts
<1>2. /\ one \in Batch /\ one.todo = batch.todo /\ one.done = batch.done
      /\ one.opened = batch.opened /\ one.failed = batch.failed \cup {batch.current}
      /\ one.skipped = batch.skipped /\ one.seen = batch.seen
  BY <1>1 DEF Batch
<1> HIDE DEF one
<1>3. /\ batch' \in Batch /\ batch'.at = "next" /\ batch'.current = Nobody
      /\ batch'.todo = one.todo /\ batch'.done = one.done + 1
      /\ batch'.opened = one.opened /\ batch'.failed = one.failed
      /\ batch'.skipped = one.skipped /\ batch'.seen = one.seen
  BY <1>1, <1>2, CountedBatch
<1>4. InOneWay(batch, batch', batch.current)
  BY <1>2, <1>3 DEF InOneWay
<1>5. BatchCounts(batch')
  BY <1>1, <1>2, <1>3, <1>4, ResultCounts
<1>6. OperationsKnown'
  <2>1. batch.failed \cup {batch.current} \subseteq batch'.failed \cup {batch'.current}
    BY <1>2, <1>3
  <2> QED
    BY <1>1, <2>1, Zenon DEF RoleIntakeInv, OperationsKnown
<1>7. TakenCounted'
  BY <1>1, <1>2, <1>3 DEF RoleIntakeInv, TakenCounted
<1> QED
  BY <1>5, <1>6, <1>7 DEF RoleIntakeInv

\* An operation finds a case, or goes on to open one.
LEMMA OperationLooks ==
  ASSUME IsFiniteSet(Crowd), Nobody \notin Crowd, RoleIntakeInv, NEW o \in op,
         Intake!FindActive(o)
  PROVE  RoleIntakeInv'
<1>1. o \in Operation /\ BatchCounts(batch) /\ batch \in Batch /\ o.member \in Crowd
  BY DEF RoleIntakeInv, OperationsKnown, BatchCounts, Operation
<1>2. taken' = taken
  BY DEF Intake!FindActive
<1>3. ASSUME NEW result, op' = op \ {o}, Intake!Results(o, result),
             result \in {[batch EXCEPT !.skipped = @ \cup {o.member}],
                         [batch EXCEPT !.seen = @ \cup {o.member}]}
      PROVE  RoleIntakeInv'
  <2>1. result.opened = batch.opened /\ result.failed = batch.failed
    BY <1>1, <1>3 DEF Batch
  <2>2. taken' \subseteq result.opened \cup result.failed /\ result.opened \subseteq taken'
    BY <1>2, <2>1 DEF RoleIntakeInv, TakenCounted
  <2> QED
    BY <1>2, <1>3, <2>2, OperationEnds
<1>4. CASE /\ op' = (op \ {o}) \cup {[o EXCEPT !.at = "open"]} /\ batch' = batch
  <2> DEFINE new == [o EXCEPT !.at = "open"]
  <2>1. new \in Operation /\ new.member = o.member /\ (~new.late => ~o.late)
    BY <1>1 DEF Operation
  <2>2. op' = (op \ {o}) \cup {new}
    BY <1>4
  <2> HIDE DEF new
  <2>3. op' \subseteq Operation
    BY <2>1, <2>2 DEF RoleIntakeInv, OperationsKnown
  <2>4. \A p \in op' : ~p.late =>
          \E q \in op : ~q.late /\ q.member = p.member /\ (p = q \/ (p = new /\ q = o))
    BY <2>1, <2>2
  <2>5. \A p \in op' : ~p.late => p.member \in batch.failed \cup {batch.current}
    BY <2>4, Zenon DEF RoleIntakeInv, OperationsKnown
  <2>6. ASSUME NEW p \in op', NEW q \in op', ~p.late, ~q.late, p.member = q.member
        PROVE  p = q
    <3>1. PICK r \in op : ~r.late /\ r.member = p.member /\ (p = r \/ (p = new /\ r = o))
      BY <2>4, <2>6, Zenon
    <3>2. PICK s \in op : ~s.late /\ s.member = q.member /\ (q = s \/ (q = new /\ s = o))
      BY <2>4, <2>6, Zenon
    <3>3. r = s
      BY <2>6, <3>1, <3>2, Zenon DEF RoleIntakeInv, OperationsKnown
    <3>4. (p = o => p = new) /\ (q = o => q = new)
      BY <2>2
    <3>5. (p = r \/ (p = new /\ r = o)) /\ (q = r \/ (q = new /\ r = o))
      BY <3>1, <3>2, <3>3
    <3> QED
      BY <3>4, <3>5
  <2>7. OperationsKnown'
    BY <1>4, <2>3, <2>5, <2>6, Zenon DEF OperationsKnown
  <2>8. TakenCounted'
    BY <1>2, <1>4 DEF RoleIntakeInv, TakenCounted
  <2> QED
    BY <1>1, <1>4, <2>7, <2>8 DEF RoleIntakeInv
<1> QED
  BY <1>3, <1>4, Zenon DEF Intake!FindActive

\* A case is opened: it is in the result if the intake still waits for it.
LEMMA OperationOpens ==
  ASSUME IsFiniteSet(Crowd), Nobody \notin Crowd, RoleIntakeInv, NEW o \in op,
         Intake!OpenCase(o)
  PROVE  RoleIntakeInv'
<1>1. o \in Operation /\ BatchCounts(batch) /\ batch \in Batch /\ o.member \in Crowd
  BY DEF RoleIntakeInv, OperationsKnown, BatchCounts, Operation
<1>2. /\ op' = op \ {o}
      /\ taken' = IF o.late THEN taken ELSE taken \cup {o.member}
      /\ Intake!Results(o, Intake!Opened(o)) \/ Intake!Results(o, Intake!OpenedWithoutRole(o))
  BY DEF Intake!OpenCase
<1>3. PICK result \in {Intake!Opened(o), Intake!OpenedWithoutRole(o)} : Intake!Results(o, result)
  BY <1>2
<1>4. batch.failed \subseteq result.failed /\ result.opened = batch.opened \cup {o.member}
  <2> DEFINE one == Intake!Opened(o)
  <2>1. /\ one \in Batch /\ one.failed = batch.failed
        /\ one.opened = batch.opened \cup {o.member}
    BY <1>1 DEF Batch, Intake!Opened
  <2>2. CASE result = one
    BY <2>1, <2>2
  <2>3. CASE result = [one EXCEPT !.failed = @ \cup {o.member}]
    <3> HIDE DEF one
    <3> QED
      BY <1>1, <2>1, <2>3 DEF Batch
  <2> QED
    BY <1>3, <2>2, <2>3 DEF Intake!OpenedWithoutRole
<1>5. ASSUME Intake!Awaited(o)
      PROVE  taken' \subseteq result.opened \cup result.failed /\ result.opened \subseteq taken'
  <2>1. ~o.late
    BY <1>5 DEF Intake!Awaited
  <2>2. taken' = taken \cup {o.member}
    BY <1>2, <2>1, Zenon
  <2> QED
    BY <1>4, <2>2 DEF RoleIntakeInv, TakenCounted
<1> QED
  BY <1>2, <1>3, <1>5, OperationEnds

\* An operation fails, before the case is opened or after.
LEMMA OperationStops ==
  ASSUME IsFiniteSet(Crowd), Nobody \notin Crowd, RoleIntakeInv, NEW o \in op,
         Intake!OperationFails(o)
  PROVE  RoleIntakeInv'
<1>1. o \in Operation /\ BatchCounts(batch) /\ batch \in Batch /\ o.member \in Crowd
  BY DEF RoleIntakeInv, OperationsKnown, BatchCounts, Operation
<1>2. /\ op' = op \ {o} /\ Intake!Results(o, Intake!Failed(o))
      /\ \/ taken' = taken
         \/ taken' = IF o.late THEN taken ELSE taken \cup {o.member}
  BY DEF Intake!OperationFails
<1>3. /\ Intake!Failed(o).opened = batch.opened
      /\ Intake!Failed(o).failed = batch.failed \cup {o.member}
  BY <1>1 DEF Intake!Failed, Batch
<1>4. taken' = taken \/ taken' = taken \cup {o.member}
  BY <1>2, Zenon
<1>5. /\ taken' \subseteq Intake!Failed(o).opened \cup Intake!Failed(o).failed
      /\ Intake!Failed(o).opened \subseteq taken'
  BY <1>3, <1>4 DEF RoleIntakeInv, TakenCounted
<1> QED
  BY <1>2, <1>5, OperationEnds

\* Every step of the role intake keeps the invariant.
LEMMA RoleIntakeNextKept ==
  ASSUME IsFiniteSet(Crowd), Nobody \notin Crowd, RoleIntakeInv, Intake!Next
  PROVE  RoleIntakeInv'
<1>1. CASE Intake!StartIntake \/ Intake!NextMember \/ Intake!EndIntake \/ Intake!Timeout
  BY <1>1, IntakeStarts, IntakeGoesOn, IntakeIsOver, IntakeGivesUp
<1>2. CASE \E o \in op : Intake!FindActive(o) \/ Intake!OpenCase(o) \/ Intake!OperationFails(o)
  BY <1>2, OperationLooks, OperationOpens, OperationStops
<1>3. CASE Intake!Others
  BY <1>3 DEF Intake!Others, RoleIntakeInv, OperationsKnown, TakenCounted
<1>4. CASE Intake!Restart
  <2>1. batch' = Intake!NoBatch /\ op' = {} /\ taken' = {}
    BY <1>4 DEF Intake!Restart
  <2>2. BatchCounts(batch')
    <3>1. Intake!NoBatch.current \notin Crowd /\ Intake!NoBatch.current \notin Intake!NoBatch.todo
      BY NoBatchFields
    <3> QED
      BY <2>1, <3>1, NoBatchFields, EmptyBatch
  <2> QED
    BY <2>1, <2>2, NoBatchFields DEF RoleIntakeInv, OperationsKnown, TakenCounted
<1> QED
  BY <1>1, <1>2, <1>3, <1>4 DEF Intake!Next

\* A step of the whole is a step of the role intake, or leaves it alone.
LEMMA RoleIntakeSteps ==
  ASSUME [Next]_vars
  PROVE  Intake!Next \/ UNCHANGED intakeVars
<1>1. CASE UNCHANGED vars
  BY <1>1 DEF vars, byRole, intakeVars
<1>2. CASE InLive(Live!Next) \/ InConfig(Config!Next)
  BY <1>2 DEF InLive, InConfig, byRole, intakeVars
<1>3. CASE CommandNext \/ SetupNext \/ WebNext
  BY <1>3 DEF CommandNext, SetupNext, WebNext, byRole, intakeVars
<1>4. CASE IntakeNext
  BY <1>4 DEF IntakeNext
<1>5. CASE TriggerNext \/ GateNext
  BY <1>5 DEF TriggerNext, GateNext, intakeVars
<1> QED
  BY <1>1, <1>2, <1>3, <1>4, <1>5 DEF Next

\* The invariant of the role intake, in every behaviour.
LEMMA RoleIntakeInvariant == FairSpec => []RoleIntakeInv
<1>1. IsFiniteSet(Crowd) /\ Nobody \notin Crowd
  <2>1. IsFiniteSet(Crowd)
    BY GuildAssumption DEF Intake!RoleIntakeAssumption, IsFiniteSet, Intake!IsFiniteSet
  <2>2. Nobody \notin Crowd
    BY GuildAssumption DEF Intake!RoleIntakeAssumption
  <2> QED
    BY <2>1, <2>2
<1>2. Init => RoleIntakeInv
  <2> SUFFICES ASSUME Init
               PROVE  RoleIntakeInv
    OBVIOUS
  <2>1. batch = Intake!NoBatch /\ op = {} /\ taken = {}
    BY DEF Init, Intake!Init
  <2>2. BatchCounts(batch)
    <3>1. Intake!NoBatch.current \notin Crowd /\ Intake!NoBatch.current \notin Intake!NoBatch.todo
      BY <1>1, NoBatchFields
    <3> QED
      BY <2>1, <3>1, NoBatchFields, EmptyBatch
  <2> QED
    BY <2>1, <2>2, NoBatchFields DEF RoleIntakeInv, OperationsKnown, TakenCounted
<1>3. RoleIntakeInv /\ [Next]_vars => RoleIntakeInv'
  <2> SUFFICES ASSUME RoleIntakeInv, [Next]_vars
               PROVE  RoleIntakeInv'
    OBVIOUS
  <2>1. CASE Intake!Next
    BY <1>1, <2>1, RoleIntakeNextKept
  <2>2. CASE UNCHANGED intakeVars
    BY <2>2 DEF intakeVars, RoleIntakeInv, OperationsKnown, TakenCounted
  <2> QED
    BY <2>1, <2>2, RoleIntakeSteps
<1> QED
  BY <1>2, <1>3, PTL DEF FairSpec

\* Whoever an intake opened a case for, is in its result as opened or failed, even if the
\* case came after the intake had given up on it, and everybody is counted once.
THEOREM IntakeStaysCounted == FairSpec => []Intake!IntakeIsCounted
<1>1. RoleIntakeInv => Intake!IntakeIsCounted
  <2> SUFFICES ASSUME RoleIntakeInv
               PROVE  Intake!IntakeIsCounted
    OBVIOUS
  <2>1. /\ taken \subseteq batch.opened \cup batch.failed \cup {batch.current}
        /\ batch.opened \subseteq taken
    BY DEF RoleIntakeInv, TakenCounted
  <2>2. batch.done = Cardinality(batch.opened \cup batch.failed)
                       + Cardinality(batch.skipped) + Cardinality(batch.seen)
    BY Zenon DEF RoleIntakeInv, BatchCounts
  <2> QED
    BY <2>1, <2>2, Zenon DEF Intake!IntakeIsCounted, Cardinality, Intake!Cardinality
<1> QED
  BY <1>1, RoleIntakeInvariant, PTL

\* The two together, as the run checks them.
THEOREM RolesAreTakenIn == FairSpec => []RoleIsTakenIn
<1>1. Trigger!TimerFollowsRole /\ Intake!IntakeIsCounted => RoleIsTakenIn
  BY DEF RoleIsTakenIn
<1> QED
  BY <1>1, TimerStaysWithRole, IntakeStaysCounted, PTL
---------------------------------------------------------------------------
(* The role gate *)

GatePreview == [enabled : BOOLEAN, remove : BOOLEAN, add : BOOLEAN, quarantined : BOOLEAN]
GateStep == {"idle", "resolve", "remove", "add", "told"}
Resolver == [at : GateStep, close : BOOLEAN, preview : GatePreview,
             honeypot : {"untold", "gone", "failed"}, access : {"untold", "there", "failed"}]

\* What a resolution says or will say is so: the bot's cache may be behind, but what it
\* shows of the two roles can only have gone the way the resolution wants it.
SaidIsSo(r) ==
  /\ r.preview.remove => "honeypot" \in gate /\ ("honeypot" \in has => "honeypot" \in seen)
  /\ "access" \in seen => "access" \in has
  /\ r.honeypot = "gone" => r.preview.remove /\ "honeypot" \notin has
  /\ r.access = "there" => "access" \in has

Said(h) == resolver[h].at # "idle" => SaidIsSo(resolver[h])

GateInv == Gate!TypeOK /\ \A h \in GateHandler \ disturbed : Said(h)

\* What a resolution may change: the honeypot role of an enabled gate is only taken, and
\* the access role only given.
GateWorld ==
  /\ UNCHANGED <<seen, gate, exists, mighty>>
  /\ has' \subseteq exists
  /\ "honeypot" \in has' => "honeypot" \in has \/ "honeypot" \notin gate
  /\ "access" \in has => "access" \in has'

\* What is said stays so.
LEMMA SaidStaysSo ==
  ASSUME NEW r, SaidIsSo(r), GateWorld
  PROVE  SaidIsSo(r)'
<1>1. r.preview.remove =>
        /\ "honeypot" \in gate' /\ ("honeypot" \in has' => "honeypot" \in seen')
  BY DEF SaidIsSo, GateWorld
<1>2. "access" \in seen' => "access" \in has'
  BY DEF SaidIsSo, GateWorld
<1>3. r.honeypot = "gone" => r.preview.remove /\ "honeypot" \notin has'
  BY DEF SaidIsSo, GateWorld
<1>4. r.access = "there" => "access" \in has'
  BY DEF SaidIsSo, GateWorld
<1> QED
  BY <1>1, <1>2, <1>3, <1>4, Zenon DEF SaidIsSo

\* A step of one resolution keeps the invariant when what it says itself is so.
LEMMA GateMove ==
  ASSUME GateInv, GateWorld, NEW h \in GateHandler, NEW new \in Resolver,
         resolver' = [resolver EXCEPT ![h] = new],
         disturbed' \subseteq GateHandler, disturbed \ {h} \subseteq disturbed',
         snapshot' \subseteq Gate!Role, open' \in BOOLEAN, update' \in BOOLEAN,
         h \notin disturbed' /\ new.at # "idle" => SaidIsSo(new)'
  PROVE  GateInv'
<1>1. /\ has \subseteq exists /\ seen \subseteq exists /\ gate \subseteq Gate!Role
      /\ exists \subseteq Gate!Role /\ resolver \in [GateHandler -> Resolver]
  BY DEF GateInv, Gate!TypeOK, Resolver, GatePreview, GateStep
<1>2. /\ resolver' \in [GateHandler -> Resolver] /\ resolver'[h] = new
      /\ \A g \in GateHandler : g # h => resolver'[g] = resolver[g]
  BY <1>1
<1>3. Gate!TypeOK'
  <2>1. /\ has' \subseteq exists' /\ seen' \subseteq exists' /\ gate' \subseteq Gate!Role
        /\ exists' \subseteq Gate!Role
    BY <1>1 DEF GateWorld
  <2>2. mighty' \in BOOLEAN
    BY Zenon DEF GateWorld, GateInv, Gate!TypeOK
  <2> QED
    BY <1>2, <2>1, <2>2, Zenon DEF Gate!TypeOK, Resolver, GatePreview, GateStep
<1>4. ASSUME NEW g \in GateHandler \ disturbed'
      PROVE  Said(g)'
  <2>1. CASE g = h
    <3>1. resolver'[g] = new /\ (new.at # "idle" => SaidIsSo(new)')
      BY <1>2, <1>4, <2>1
    <3> QED
      BY <3>1, Zenon DEF Said, SaidIsSo
  <2>2. CASE g # h
    <3>1. resolver'[g] = resolver[g] /\ g \in GateHandler \ disturbed
      BY <1>2, <1>4, <2>2
    <3>2. Said(g)
      BY <3>1 DEF GateInv
    <3>3. CASE resolver[g].at = "idle"
      BY <3>1, <3>3, Zenon DEF Said
    <3>4. CASE SaidIsSo(resolver[g])
      <4>1. PICK r : r = resolver[g]
        OBVIOUS
      <4>2. SaidIsSo(r)
        BY <3>4, <4>1, Zenon
      <4>3. SaidIsSo(r)'
        BY <4>2, SaidStaysSo, Zenon
      <4> QED
        BY <3>1, <4>1, <4>3, Zenon DEF Said, SaidIsSo
    <3> QED
      BY <3>2, <3>3, <3>4, Zenon DEF Said
  <2> QED
    BY <2>1, <2>2
<1> QED
  BY <1>3, <1>4, Zenon DEF GateInv

\* What the types give of a resolution.
LEMMA GateTypes ==
  ASSUME GateInv
  PROVE  /\ has \subseteq exists /\ seen \subseteq exists /\ gate \subseteq Gate!Role
         /\ exists \subseteq Gate!Role /\ snapshot \subseteq Gate!Role
         /\ resolver \in [GateHandler -> Resolver] /\ disturbed \subseteq GateHandler
         /\ open \in BOOLEAN /\ update \in BOOLEAN /\ mighty \in BOOLEAN
         /\ Gate!Role = {"honeypot", "access"}
BY DEF GateInv, Gate!TypeOK, Gate!Role, Resolver, GatePreview, GateStep

\* A resolution at rest has said nothing.
LEMMA IdleResolver ==
  /\ Gate!Idle \in Resolver /\ Gate!Idle.at = "idle"
  /\ Gate!Idle.honeypot = "untold" /\ Gate!Idle.access = "untold"
  /\ ~Gate!Idle.preview.remove
BY DEF Gate!Idle, Gate!NoPreview, Resolver, GatePreview, GateStep

\* A resolution ends: it says nothing any more.
LEMMA GateReturns ==
  ASSUME GateInv, GateWorld, NEW h \in GateHandler,
         resolver' = [resolver EXCEPT ![h] = Gate!Idle], disturbed' = disturbed,
         snapshot' \subseteq Gate!Role, open' \in BOOLEAN, update' \in BOOLEAN
  PROVE  GateInv'
<1>1. disturbed' \subseteq GateHandler /\ disturbed \ {h} \subseteq disturbed'
  BY GateTypes
<1> QED
  BY <1>1, IdleResolver, GateMove, Zenon

\* A new resolution has said nothing, and the cache is what it goes by.
LEMMA GatePressed ==
  ASSUME GateInv, NEW h \in GateHandler, Gate!Press(h)
  PROVE  GateInv'
<1>1. PICK close \in BOOLEAN :
        \/ resolver' = [resolver EXCEPT ![h] =
             [Gate!Idle EXCEPT !.at = "resolve", !.close = close, !.preview = Gate!Preview]]
        \/ resolver' = [resolver EXCEPT ![h] =
             [Gate!Idle EXCEPT !.at = "resolve", !.close = close]]
  BY DEF Gate!Press
<1> DEFINE one == [Gate!Idle EXCEPT !.at = "resolve"]
           two == [one EXCEPT !.close = close]
           three == [two EXCEPT !.preview = Gate!Preview]
<1>2. resolver' = [resolver EXCEPT ![h] = two] \/ resolver' = [resolver EXCEPT ![h] = three]
  BY <1>1
<1>3. Gate!Preview \in GatePreview /\ (Gate!Preview.remove => "honeypot" \in gate)
  <2>1. Gate!Preview \in GatePreview
    BY DEF Gate!Preview, GatePreview
  <2>2. Gate!Preview.remove => "honeypot" \in gate
    BY DEF Gate!Preview
  <2> QED
    BY <2>1, <2>2
<1>4. /\ one \in Resolver /\ one.at = "resolve" /\ one.honeypot = "untold"
      /\ one.access = "untold" /\ ~one.preview.remove
  BY IdleResolver DEF Resolver, GateStep
<1> HIDE DEF one
<1>5. /\ two \in Resolver /\ two.at = "resolve" /\ two.honeypot = "untold"
      /\ two.access = "untold" /\ ~two.preview.remove
  BY <1>4 DEF Resolver
<1> HIDE DEF two
<1>6. /\ three \in Resolver /\ three.at = "resolve" /\ three.honeypot = "untold"
      /\ three.access = "untold" /\ three.preview = Gate!Preview
  BY <1>3, <1>5 DEF Resolver
<1> HIDE DEF three
<1>7. UNCHANGED <<has, seen, gate, exists, mighty, open, snapshot, update>>
  BY DEF Gate!Press
<1>8. GateWorld
  BY <1>7, GateTypes DEF GateWorld
<1>9. /\ disturbed' \subseteq GateHandler /\ disturbed \ {h} \subseteq disturbed'
      /\ h \notin disturbed' => seen = has
  BY GateTypes DEF Gate!Press
<1>10. PICK r \in Resolver : r \in {two, three} /\ resolver' = [resolver EXCEPT ![h] = r]
  BY <1>2, <1>5, <1>6
<1>11. h \notin disturbed' /\ r.at # "idle" => SaidIsSo(r)'
  <2>1. r.preview.remove => "honeypot" \in gate'
    <3>1. CASE r = two
      BY <1>5, <3>1, Zenon
    <3>2. CASE r = three
      BY <1>3, <1>6, <1>7, <3>2, Zenon
    <3> QED
      BY <1>10, <3>1, <3>2
  <2>2. r.honeypot # "gone" /\ r.access # "there"
    BY <1>5, <1>6, <1>10
  <2>3. h \notin disturbed' => has' = seen'
    BY <1>7, <1>9
  <2> QED
    BY <2>1, <2>2, <2>3, Zenon DEF SaidIsSo
<1>12. /\ snapshot' \subseteq Gate!Role
       /\ open' \in BOOLEAN /\ update' \in BOOLEAN
  BY <1>7, GateTypes
<1> QED
  BY <1>8, <1>9, <1>10, <1>11, <1>12, GateMove, Zenon

\* What the quarantine gives back is nothing that the gate takes.
LEMMA GivenBackFits ==
  ASSUME GateInv, has' = has \/ has' = has \cup Gate!GivenBack,
         UNCHANGED <<seen, gate, exists, mighty>>
  PROVE  GateWorld
<1>1. Gate!GivenBack \subseteq exists /\ ("honeypot" \in Gate!GivenBack => "honeypot" \notin gate)
  BY DEF Gate!GivenBack
<1> QED
  BY <1>1, GateTypes DEF GateWorld

\* The resolution: the case is closed, and the roles are given back.
LEMMA GateResolved ==
  ASSUME GateInv, NEW h \in GateHandler, Gate!Resolve(h) \/ Gate!ResolveFails(h)
  PROVE  GateInv'
<1>1. /\ has' = has \/ has' = has \cup Gate!GivenBack
      /\ UNCHANGED <<seen, gate, exists, mighty, update, disturbed>>
      /\ resolver[h].at = "resolve"
  BY DEF Gate!Resolve, Gate!ResolveFails, Gate!At
<1>2. GateWorld
  BY <1>1, GivenBackFits
<1>3. snapshot' \subseteq Gate!Role /\ open' \in BOOLEAN /\ update' \in BOOLEAN
  <2>1. snapshot' \in {snapshot, {}} /\ open' \in {open, FALSE} /\ update' = update
    BY DEF Gate!Resolve, Gate!ResolveFails
  <2> QED
    BY <2>1, GateTypes
<1>4. CASE resolver' = [resolver EXCEPT ![h] = Gate!Idle]
  BY <1>1, <1>2, <1>3, <1>4, GateReturns
<1>5. CASE resolver' = [resolver EXCEPT ![h] = [resolver[h] EXCEPT !.at = "remove"]]
  <2> DEFINE new == [resolver[h] EXCEPT !.at = "remove"]
  <2>1. resolver[h] \in Resolver
    BY GateTypes
  <2>2. /\ new \in Resolver /\ new.at = "remove" /\ new.honeypot = resolver[h].honeypot
        /\ new.access = resolver[h].access /\ new.preview = resolver[h].preview
    BY <2>1 DEF Resolver, GateStep
  <2> HIDE DEF new
  <2>3. ASSUME h \notin disturbed
        PROVE  SaidIsSo(resolver[h])
    BY <1>1, <2>3, Zenon DEF GateInv, Said
  <2>4. PICK r \in Resolver : r = new
    BY <2>2
  <2>5. ASSUME h \notin disturbed'
        PROVE  SaidIsSo(r)'
    <3>1. SaidIsSo(r)
      <4>1. SaidIsSo(resolver[h])
        BY <1>1, <2>3, <2>5
      <4> QED
        BY <2>2, <2>4, <4>1, Zenon DEF SaidIsSo
    <3> QED
      BY <1>2, <3>1, SaidStaysSo, Zenon
  <2>6. /\ resolver' = [resolver EXCEPT ![h] = r] /\ disturbed' \subseteq GateHandler
        /\ disturbed \ {h} \subseteq disturbed'
    BY <1>1, <1>5, <2>4, GateTypes DEF new
  <2> QED
    BY <1>2, <1>3, <2>5, <2>6, GateMove, Zenon
<1>6. \/ resolver' = [resolver EXCEPT ![h] = Gate!Idle]
      \/ resolver' = [resolver EXCEPT ![h] = [resolver[h] EXCEPT !.at = "remove"]]
  <2>1. resolver \in [GateHandler -> Resolver]
    BY GateTypes
  <2> QED
    BY <2>1 DEF Gate!Resolve, Gate!ResolveFails
<1> QED
  BY <1>4, <1>5, <1>6

\* A resolution tells the result for a role, and goes on.
LEMMA GateTells ==
  ASSUME GateInv, GateWorld, NEW h \in GateHandler, resolver[h].at # "idle",
         NEW role \in Gate!Role, NEW next \in GateStep,
         NEW result, role = "honeypot" => result \in {"untold", "gone", "failed"},
         role = "access" => result \in {"untold", "there", "failed"},
         Gate!Tell(h, role, result, next),
         UNCHANGED <<open, snapshot, update, disturbed>>,
         h \notin disturbed /\ role = "honeypot" /\ result = "gone" =>
           resolver[h].preview.remove /\ "honeypot" \notin has',
         h \notin disturbed /\ role = "access" /\ result = "there" => "access" \in has'
  PROVE  GateInv'
<1>1. resolver \in [GateHandler -> Resolver] /\ resolver[h] \in Resolver
  BY GateTypes
<1>2. h \notin disturbed => SaidIsSo(resolver[h])
  BY Zenon DEF GateInv, Said
<1>3. /\ snapshot' \subseteq Gate!Role /\ open' \in BOOLEAN /\ update' \in BOOLEAN
      /\ disturbed' \subseteq GateHandler /\ disturbed \ {h} \subseteq disturbed'
      /\ disturbed' = disturbed
  BY GateTypes
<1>4. CASE role = "honeypot"
  <2> DEFINE one == [resolver[h] EXCEPT !.honeypot = result]
             new == [one EXCEPT !.at = next]
  <2>1. resolver' = [resolver EXCEPT ![h] = new]
    BY <1>1, <1>4 DEF Gate!Tell
  <2>2. /\ one \in Resolver /\ one.honeypot = result
        /\ one.access = resolver[h].access /\ one.preview = resolver[h].preview
    BY <1>1, <1>4 DEF Resolver
  <2> HIDE DEF one
  <2>3. /\ new \in Resolver /\ new.honeypot = result
        /\ new.access = resolver[h].access /\ new.preview = resolver[h].preview
    BY <2>2 DEF Resolver
  <2> HIDE DEF new
  <2>4. PICK r \in Resolver :
          /\ resolver' = [resolver EXCEPT ![h] = r] /\ r.honeypot = result
          /\ r.access = resolver[h].access /\ r.preview = resolver[h].preview
    BY <2>1, <2>3
  <2>5. ASSUME h \notin disturbed'
        PROVE  SaidIsSo(r)'
    <3>1. SaidIsSo(resolver[h])
      BY <1>2, <1>3, <2>5
    <3>2. r.preview.remove =>
            /\ "honeypot" \in gate' /\ ("honeypot" \in has' => "honeypot" \in seen')
      BY <2>4, <3>1 DEF SaidIsSo, GateWorld
    <3>3. "access" \in seen' => "access" \in has'
      BY <3>1 DEF SaidIsSo, GateWorld
    <3>4. r.honeypot = "gone" => r.preview.remove /\ "honeypot" \notin has'
      BY <1>3, <1>4, <2>4, <2>5, Zenon
    <3>5. r.access = "there" => "access" \in has'
      BY <2>4, <3>1 DEF SaidIsSo, GateWorld
    <3> QED
      BY <3>2, <3>3, <3>4, <3>5, Zenon DEF SaidIsSo
  <2> QED
    BY <1>3, <2>4, <2>5, GateMove, Zenon
<1>5. CASE role = "access"
  <2> DEFINE one == [resolver[h] EXCEPT !.access = result]
             new == [one EXCEPT !.at = next]
  <2>1. resolver' = [resolver EXCEPT ![h] = new]
    BY <1>1, <1>5 DEF Gate!Tell
  <2>2. /\ one \in Resolver /\ one.access = result
        /\ one.honeypot = resolver[h].honeypot /\ one.preview = resolver[h].preview
    BY <1>1, <1>5 DEF Resolver
  <2> HIDE DEF one
  <2>3. /\ new \in Resolver /\ new.access = result
        /\ new.honeypot = resolver[h].honeypot /\ new.preview = resolver[h].preview
    BY <2>2 DEF Resolver
  <2> HIDE DEF new
  <2>4. PICK r \in Resolver :
          /\ resolver' = [resolver EXCEPT ![h] = r] /\ r.access = result
          /\ r.honeypot = resolver[h].honeypot /\ r.preview = resolver[h].preview
    BY <2>1, <2>3
  <2>5. ASSUME h \notin disturbed'
        PROVE  SaidIsSo(r)'
    <3>1. SaidIsSo(resolver[h])
      BY <1>2, <1>3, <2>5
    <3>2. r.preview.remove =>
            /\ "honeypot" \in gate' /\ ("honeypot" \in has' => "honeypot" \in seen')
      BY <2>4, <3>1 DEF SaidIsSo, GateWorld
    <3>3. "access" \in seen' => "access" \in has'
      BY <3>1 DEF SaidIsSo, GateWorld
    <3>4. r.honeypot = "gone" => r.preview.remove
      BY <2>4, <3>1, Zenon DEF SaidIsSo
    <3>5. r.honeypot = "gone" => "honeypot" \notin has'
      BY <2>4, <3>1 DEF SaidIsSo, GateWorld
    <3>6. r.access = "there" => "access" \in has'
      BY <1>3, <1>5, <2>4, <2>5, Zenon
    <3> QED
      BY <3>2, <3>3, <3>4, <3>5, <3>6, Zenon DEF SaidIsSo
  <2> QED
    BY <1>3, <2>4, <2>5, GateMove, Zenon
<1> QED
  BY <1>4, <1>5 DEF Gate!Role

\* The honeypot role is told to be gone when it is.
LEMMA GateRemoves ==
  ASSUME GateInv, NEW h \in GateHandler, Gate!RemoveHoneypot(h)
  PROVE  GateInv'
<1>1. PICK result \in {"untold", "gone", "failed"} :
        /\ Gate!Tell(h, "honeypot", result, "add")
        /\ result = "gone" =>
             /\ resolver[h].preview.remove
             /\ "honeypot" \notin exists \/ "honeypot" \notin seen \/ "honeypot" \notin has'
  <2>1. CASE ~resolver[h].preview.remove
    BY <2>1 DEF Gate!RemoveHoneypot
  <2>2. CASE resolver[h].preview.remove
    <3>1. CASE "honeypot" \notin exists
      <4>1. PICK result \in {"gone", "failed"} : Gate!Tell(h, "honeypot", result, "add")
        BY <2>2, <3>1 DEF Gate!RemoveHoneypot
      <4> QED
        BY <2>2, <3>1, <4>1
    <3>2. CASE "honeypot" \in exists /\ ~mighty
      BY <2>2, <3>2 DEF Gate!RemoveHoneypot
    <3>3. CASE "honeypot" \in exists /\ mighty /\ "honeypot" \notin seen
      BY <2>2, <3>3 DEF Gate!RemoveHoneypot, Gate!Absent
    <3>4. CASE "honeypot" \in exists /\ mighty /\ "honeypot" \in seen
      BY <2>2, <3>4 DEF Gate!RemoveHoneypot, Gate!Absent
    <3> QED
      BY <3>1, <3>2, <3>3, <3>4
  <2> QED
    BY <2>1, <2>2
<1>2. /\ has' \in {has, has \ {"honeypot"}} /\ resolver[h].at = "remove"
      /\ UNCHANGED <<seen, gate, exists, mighty, open, snapshot, update, disturbed>>
  BY DEF Gate!RemoveHoneypot, Gate!At
<1>3. GateWorld
  BY <1>2, GateTypes DEF GateWorld
<1>4. ASSUME h \notin disturbed, result = "gone"
      PROVE  resolver[h].preview.remove /\ "honeypot" \notin has'
  <2>1. SaidIsSo(resolver[h])
    BY <1>2, <1>4, Zenon DEF GateInv, Said
  <2>2. "honeypot" \in has => "honeypot" \in seen /\ "honeypot" \in exists
    BY <1>1, <1>4, <2>1, GateTypes DEF SaidIsSo
  <2>3. "honeypot" \notin has'
    BY <1>1, <1>2, <1>4, <2>2
  <2> QED
    BY <1>1, <1>4, <2>3
<1>5. "honeypot" \in Gate!Role /\ "add" \in GateStep /\ "honeypot" # "access"
  BY DEF Gate!Role, GateStep
<1> QED
  BY <1>1, <1>2, <1>3, <1>4, <1>5, GateTells

\* The access role is told to be there when it is.
LEMMA GateAdds ==
  ASSUME GateInv, NEW h \in GateHandler, Gate!AddAccess(h)
  PROVE  GateInv'
<1>1. PICK result \in {"untold", "there", "failed"} :
        /\ Gate!Tell(h, "access", result, "told")
        /\ result = "there" => "access" \in seen \/ "access" \in has'
  BY DEF Gate!AddAccess
<1>2. /\ has' = has \/ (has' = has \cup {"access"} /\ "access" \in exists)
      /\ resolver[h].at = "add"
      /\ UNCHANGED <<seen, gate, exists, mighty, open, snapshot, update, disturbed>>
  BY DEF Gate!AddAccess, Gate!At
<1>3. GateWorld
  BY <1>2, GateTypes DEF GateWorld
<1>4. ASSUME h \notin disturbed, result = "there"
      PROVE  "access" \in has'
  <2>1. SaidIsSo(resolver[h])
    BY <1>2, <1>4, Zenon DEF GateInv, Said
  <2>2. "access" \in seen => "access" \in has
    BY <2>1 DEF SaidIsSo
  <2> QED
    BY <1>1, <1>2, <1>4, <2>2
<1>5. "access" \in Gate!Role /\ "told" \in GateStep /\ "honeypot" # "access"
  BY DEF Gate!Role, GateStep
<1> QED
  BY <1>1, <1>2, <1>3, <1>4, <1>5, GateTells

\* What others do disturbs every resolution at work, or is that of nobody yet.
LEMMA GateOthers ==
  ASSUME GateInv,
         \/ \E role \in Gate!Role : Gate!Give(role) \/ Gate!Take(role)
         \/ Gate!Configure \/ Gate!Deliver \/ Gate!Honeypot
  PROVE  GateInv'
<1>1. resolver' = resolver
  BY DEF Gate!Give, Gate!Take, Gate!Configure, Gate!Deliver, Gate!Honeypot
<1>2. Gate!TypeOK'
  <2>1. /\ has' \subseteq exists' /\ seen' \subseteq exists' /\ gate' \subseteq Gate!Role
        /\ exists' \subseteq Gate!Role /\ snapshot' \subseteq Gate!Role
        /\ disturbed' \subseteq GateHandler
    <3>1. CASE \E role \in Gate!Role : Gate!Give(role) \/ Gate!Take(role)
      BY <3>1, GateTypes DEF Gate!Give, Gate!Take, Gate!Disturb
    <3>2. CASE Gate!Configure
      BY <3>2, GateTypes DEF Gate!Configure, Gate!Disturb
    <3>3. CASE Gate!Deliver
      BY <3>3, GateTypes DEF Gate!Deliver
    <3>4. CASE Gate!Honeypot
      BY <3>4, GateTypes DEF Gate!Honeypot, Gate!Disturb
    <3> QED
      BY <3>1, <3>2, <3>3, <3>4
  <2>2. mighty' = mighty /\ open' \in {open, TRUE} /\ update' \in BOOLEAN
    BY GateTypes DEF Gate!Give, Gate!Take, Gate!Configure, Gate!Deliver, Gate!Honeypot
  <2>3. mighty' \in BOOLEAN /\ open' \in BOOLEAN
    BY <2>2, GateTypes
  <2> QED
    BY <1>1, <2>1, <2>2, <2>3, GateTypes, Zenon
       DEF Gate!TypeOK, Resolver, GatePreview, GateStep
<1>3. CASE Gate!Disturb
  <2>1. \A h \in GateHandler \ disturbed' : resolver'[h].at = "idle"
    BY <1>1, <1>3 DEF Gate!Disturb, Gate!At
  <2> QED
    BY <1>2, <2>1, Zenon DEF GateInv, Said
<1>4. CASE Gate!Deliver
  <2>1. seen' = has /\ UNCHANGED <<has, gate, disturbed>>
    BY <1>4 DEF Gate!Deliver
  <2>2. ASSUME NEW h \in GateHandler \ disturbed', resolver[h].at # "idle"
        PROVE  SaidIsSo(resolver[h])'
    <3>1. SaidIsSo(resolver[h])
      BY <2>1, <2>2, Zenon DEF GateInv, Said
    <3> QED
      BY <1>1, <2>1, <3>1, Zenon DEF SaidIsSo
  <2> QED
    BY <1>1, <1>2, <2>2, Zenon DEF GateInv, Said
<1>5. CASE UNCHANGED <<has, seen, gate, disturbed>>
  <2>1. ASSUME NEW h \in GateHandler
        PROVE  Said(h) => Said(h)'
    BY <1>1, <1>5, Zenon DEF Said, SaidIsSo
  <2>2. disturbed' = disturbed
    BY <1>5
  <2> QED
    BY <1>2, <2>1, <2>2, Zenon DEF GateInv
<1> QED
  BY <1>3, <1>4, <1>5 DEF Gate!Give, Gate!Take, Gate!Configure, Gate!Honeypot

\* Every step of the role gate keeps the invariant.
LEMMA GateNextKept ==
  ASSUME GateInv, Gate!Next
  PROVE  GateInv'
<1>1. CASE \E h \in GateHandler : Gate!Answer(h)
  <2>1. PICK h \in GateHandler : Gate!Answer(h)
    BY <1>1
  <2>2. /\ resolver' = [resolver EXCEPT ![h] = Gate!Idle]
        /\ UNCHANGED <<has, seen, gate, exists, mighty, open, snapshot, update, disturbed>>
    BY <2>1 DEF Gate!Answer
  <2>3. GateWorld
    BY <2>2, GateTypes DEF GateWorld
  <2> QED
    BY <2>2, <2>3, GateTypes, GateReturns
<1> QED
  BY <1>1, GateOthers, GatePressed, GateResolved, GateRemoves, GateAdds DEF Gate!Next

\* A step of the whole is a step of the role gate, or leaves it alone.
LEMMA GateSteps ==
  ASSUME [Next]_vars
  PROVE  Gate!Next \/ UNCHANGED gateVars
<1>1. CASE UNCHANGED vars
  BY <1>1 DEF vars, byRole, gateVars
<1>2. CASE InLive(Live!Next) \/ InConfig(Config!Next)
  BY <1>2 DEF InLive, InConfig, byRole, gateVars
<1>3. CASE CommandNext \/ SetupNext \/ WebNext
  BY <1>3 DEF CommandNext, SetupNext, WebNext, byRole, gateVars
<1>4. CASE GateNext
  BY <1>4 DEF GateNext
<1>5. CASE TriggerNext \/ IntakeNext
  BY <1>5 DEF TriggerNext, IntakeNext, gateVars
<1> QED
  BY <1>1, <1>2, <1>3, <1>4, <1>5 DEF Next

\* The invariant of the resolutions, in every behaviour.
LEMMA GateKept == FairSpec => []GateInv
<1>1. Init => GateInv
  <2> SUFFICES ASSUME Init
               PROVE  GateInv
    OBVIOUS
  <2>1. Gate!Init
    BY DEF Init
  <2>2. /\ has \subseteq exists /\ seen \subseteq exists /\ gate \subseteq Gate!Role
        /\ exists \subseteq Gate!Role /\ snapshot \subseteq Gate!Role /\ disturbed = {}
    BY <2>1 DEF Gate!Init, Gate!Role
  <2>3. resolver = [h \in GateHandler |-> Gate!Idle]
    BY <2>1 DEF Gate!Init
  <2>4. resolver \in [GateHandler -> Resolver]
    BY <2>3, IdleResolver
  <2>5. \A h \in GateHandler : resolver[h].at = "idle"
    BY <2>3, IdleResolver
  <2>6. mighty \in BOOLEAN /\ open \in BOOLEAN /\ update \in BOOLEAN
    BY <2>1, Zenon DEF Gate!Init
  <2>7. Gate!TypeOK
    BY <2>2, <2>4, <2>6 DEF Gate!TypeOK, Resolver, GatePreview, GateStep
  <2> QED
    BY <2>5, <2>7, Zenon DEF GateInv, Said
<1>2. GateInv /\ [Next]_vars => GateInv'
  <2> SUFFICES ASSUME GateInv, [Next]_vars
               PROVE  GateInv'
    OBVIOUS
  <2>1. CASE Gate!Next
    BY <2>1, GateNextKept
  <2>2. CASE UNCHANGED gateVars
    <3>1. /\ has' = has /\ seen' = seen /\ gate' = gate /\ exists' = exists
          /\ mighty' = mighty /\ open' = open /\ snapshot' = snapshot /\ update' = update
          /\ resolver' = resolver /\ disturbed' = disturbed
      BY <2>2 DEF gateVars
    <3> QED
      BY <3>1, Zenon DEF GateInv, Said, SaidIsSo, Gate!TypeOK
  <2> QED
    BY <2>1, <2>2, GateSteps
<1> QED
  BY <1>1, <1>2, PTL DEF FairSpec

\* What the moderator is told of the roles is so, whatever the bot's cache showed, unless
\* others changed something while the case was being resolved.
THEOREM ToldIsSo == FairSpec => []GateIsAsTold
<1>1. GateInv => GateIsAsTold
  <2> SUFFICES ASSUME GateInv, NEW h \in GateHandler \ disturbed, resolver[h].at = "told"
               PROVE  /\ resolver[h].honeypot = "gone" => "honeypot" \notin has
                      /\ resolver[h].access = "there" => "access" \in has
    BY DEF GateIsAsTold, Gate!GateIsAsTold, Gate!At
  <2>1. SaidIsSo(resolver[h])
    BY Zenon DEF GateInv, Said
  <2> QED
    BY <2>1, Zenon DEF SaidIsSo
<1> QED
  BY <1>1, GateKept, PTL
---------------------------------------------------------------------------
(* The setup *)

SetupTypes ==
  /\ row \in [role : Setup!Role \cup {0}, channel : Setup!Channel \cup {0}]
  /\ roles \subseteq Setup!Role /\ channels \subseteq Setup!Channel
  /\ newest \in [role : Setup!Role \cup {0}, channel : Setup!Channel \cup {0}]
  /\ admits \in [Setup!Channel -> Setup!Role \cup {0}]
  /\ handler \in [SetupHandler -> Setup!Local]
  /\ UNION {created, saved, told, dropped, deleted} \subseteq Setup!Thing
  /\ loose \subseteq Setup!Channel /\ doubt \in BOOLEAN

\* Whatever is named anywhere was created before the next thing will be.
Older(thing) == IF thing[1] = "role" THEN thing[2] <= newest.role ELSE thing[2] <= newest.channel
HandIsOlder(l) ==
  /\ l.role <= newest.role
  /\ l.chosen <= newest.channel /\ l.candidate <= newest.channel /\ l.channel <= newest.channel
Numbered ==
  /\ \A r \in roles : r <= newest.role
  /\ \A c \in channels : c <= newest.channel
  /\ row.role <= newest.role /\ row.channel <= newest.channel
  /\ \A thing \in created : Older(thing)
  /\ \A h \in SetupHandler : HandIsOlder(handler[h])

\* What a setup has made is what it will save, and the bot's joining makes no role.
HandFits(l) ==
  /\ l.at \in {"idle", "find", "role", "validate"} => l.made = {}
  /\ l.at = "channel" => l.made \subseteq {<<"role", l.role>>}
  /\ l.at \in {"final", "save"} =>
       l.channel # 0 /\ l.made \subseteq {<<"role", l.role>>, <<"channel", l.channel>>}
  /\ l.surface = "join" =>
       /\ l.at \in {"idle", "channel", "save", "undo"} /\ l.chosen = 0
       /\ \A thing \in l.made : thing[1] = "channel"

\* As long as setups do not overlap, what one of them has in hand is what it takes it for.
HandIsSure(l) ==
  /\ <<"role", row.role>> \notin l.made /\ <<"channel", row.channel>> \notin l.made
  /\ l.surface = "join" /\ l.at \in {"channel", "save"} => l.role = row.role
  /\ l.at \in {"final", "save"} /\ l.chosen = 0 /\ l.channel # 0 => admits[l.channel] = l.role
  /\ l.at = "save" =>
       /\ l.surface # "join" /\ l.role # 0 => l.role \in roles \/ <<"role", l.role>> \in deleted
       /\ l.channel # 0 => l.channel \in channels \/ <<"channel", l.channel>> \in deleted

Alone == \A g, h \in SetupHandler : g # h => handler[g].at = "idle" \/ handler[h].at = "idle"

\* The row names what is there, and its channel lets its role in.
RowFits ==
  /\ row.role # 0 => row.role \in roles \/ <<"role", row.role>> \in deleted
  /\ row.channel # 0 => row.channel \in channels \/ <<"channel", row.channel>> \in deleted
  /\ row.channel \in channels \ loose => admits[row.channel] = row.role

Undoubted == Alone /\ RowFits /\ \A h \in SetupHandler : HandIsSure(handler[h])

SetupInv ==
  /\ SetupTypes /\ Numbered
  /\ \A h \in SetupHandler : HandFits(handler[h])
  /\ Setup!NothingIsLeft
  /\ doubt \/ Undoubted

\* What no other setup has in hand, while h is at work.
OthersIdle(h) == \A g \in SetupHandler : g # h => handler[g].at = "idle"

\* What was created is not lost by a step of the setup h.
NothingLost(h, new) ==
  /\ saved \subseteq saved' /\ told \subseteq told' /\ dropped \subseteq dropped'
  /\ \A thing \in created' : Setup!Exists(thing)' =>
       \/ thing \in saved' \cup told' \cup dropped' \cup new.made
       \/ thing \in created /\ Setup!Exists(thing) /\ thing \notin handler[h].made

\* the types of everything but the setups at work
SetupWorldTypes ==
  /\ row \in [role : Setup!Role \cup {0}, channel : Setup!Channel \cup {0}]
  /\ roles \subseteq Setup!Role /\ channels \subseteq Setup!Channel
  /\ newest \in [role : Setup!Role \cup {0}, channel : Setup!Channel \cup {0}]
  /\ admits \in [Setup!Channel -> Setup!Role \cup {0}]
  /\ UNION {created, saved, told, dropped, deleted} \subseteq Setup!Thing
  /\ loose \subseteq Setup!Channel /\ doubt \in BOOLEAN

NumberedWorld ==
  /\ \A r \in roles : r <= newest.role
  /\ \A c \in channels : c <= newest.channel
  /\ row.role <= newest.role /\ row.channel <= newest.channel
  /\ \A thing \in created : Older(thing)

\* Numbers of roles and channels are numbers.
LEMMA SetupNumbers ==
  /\ Setup!Role \cup {0} \subseteq Nat /\ Setup!Channel \cup {0} \subseteq Nat
  /\ 0 \notin Setup!Role /\ 0 \notin Setup!Channel
  /\ MaxRoles \in Nat /\ MaxChannels \in Nat
<1>1. MaxRoles \in Nat /\ MaxChannels \in Nat
  BY GuildAssumption DEF Setup!GuildSetupAssumption
<1> QED
  BY <1>1 DEF Setup!Role, Setup!Channel

\* A setup at rest is older than anything, fits and is sure.
LEMMA IdleHand ==
  ASSUME NEW l \in Setup!Local, l.at = "idle", HandFits(l)
  PROVE  l.made = {} /\ HandIsSure(l)
BY DEF HandFits, HandIsSure

\* While nothing is in doubt, a setup at work is alone.
LEMMA AloneAtWork ==
  ASSUME SetupInv, NEW h \in SetupHandler, handler[h].at # "idle", ~doubt
  PROVE  OthersIdle(h)
BY DEF SetupInv, Undoubted, Alone, OthersIdle

\* A step of one setup keeps the invariant.
LEMMA SetupMove ==
  ASSUME SetupInv, NEW h \in SetupHandler, NEW new \in Setup!Local,
         handler' = [handler EXCEPT ![h] = new],
         SetupWorldTypes', NumberedWorld',
         newest.role <= newest'.role, newest.channel <= newest'.channel,
         HandIsOlder(new)', HandFits(new), NothingLost(h, new),
         ~doubt' => ~doubt /\ OthersIdle(h) /\ RowFits' /\ HandIsSure(new)'
  PROVE  SetupInv'
<1>1. handler \in [SetupHandler -> Setup!Local]
  BY DEF SetupInv, SetupTypes
<1>2. /\ handler' \in [SetupHandler -> Setup!Local] /\ handler'[h] = new
      /\ \A g \in SetupHandler : g # h => handler'[g] = handler[g]
  BY <1>1
<1>3. SetupTypes'
  BY <1>2, Zenon DEF SetupWorldTypes, SetupTypes
<1>4. ASSUME NEW g \in SetupHandler
      PROVE  HandIsOlder(handler[g])'
  <2>1. CASE g = h
    BY <1>2, <2>1 DEF HandIsOlder
  <2>2. CASE g # h
    <3>1. handler'[g] = handler[g] /\ HandIsOlder(handler[g])
      BY <1>2, <2>2 DEF SetupInv, Numbered
    <3>2. handler[g] \in Setup!Local
      BY <1>1
    <3>3. /\ handler[g].role \in Nat /\ handler[g].chosen \in Nat
          /\ handler[g].candidate \in Nat /\ handler[g].channel \in Nat
      BY <3>2, SetupNumbers DEF Setup!Local
    <3>4. newest.role \in Nat /\ newest.channel \in Nat /\ newest'.role \in Nat /\ newest'.channel \in Nat
      BY SetupNumbers DEF SetupInv, SetupTypes, SetupWorldTypes
    <3> QED
      BY <3>1, <3>3, <3>4 DEF HandIsOlder
  <2> QED
    BY <2>1, <2>2
<1>5. Numbered'
  BY <1>4 DEF Numbered, NumberedWorld
<1>6. \A g \in SetupHandler : HandFits(handler'[g])
  BY <1>2 DEF SetupInv
<1>7. Setup!NothingIsLeft'
  <2> SUFFICES ASSUME NEW thing \in created', Setup!Exists(thing)'
               PROVE  \/ thing \in saved' \cup told' \cup dropped'
                      \/ \E g \in SetupHandler : thing \in handler'[g].made
    BY DEF Setup!NothingIsLeft
  <2>1. CASE thing \in saved' \cup told' \cup dropped' \cup new.made
    BY <1>2, <2>1
  <2>2. CASE thing \in created /\ Setup!Exists(thing) /\ thing \notin handler[h].made
    <3>1. \/ thing \in saved \cup told \cup dropped
          \/ \E g \in SetupHandler : thing \in handler[g].made
      BY <2>2 DEF SetupInv, Setup!NothingIsLeft
    <3>2. CASE thing \in saved \cup told \cup dropped
      BY <3>2 DEF NothingLost
    <3>3. CASE \E g \in SetupHandler : thing \in handler[g].made
      BY <1>2, <2>2, <3>3
    <3> QED
      BY <3>1, <3>2, <3>3
  <2> QED
    BY <2>1, <2>2 DEF NothingLost
<1>8. doubt' \/ Undoubted'
  <2> SUFFICES ASSUME ~doubt'
               PROVE  Undoubted'
    OBVIOUS
  <2>1. Alone'
    BY <1>2 DEF Alone, OthersIdle
  <2>2. ASSUME NEW g \in SetupHandler
        PROVE  HandIsSure(handler[g])'
    <3>1. CASE g = h
      <4>1. handler'[g] = new /\ HandIsSure(new)'
        BY <1>2, <3>1
      <4> QED
        BY <4>1, Zenon DEF HandIsSure
    <3>2. CASE g # h
      <4>1. handler'[g] \in Setup!Local /\ handler'[g].at = "idle" /\ HandFits(handler'[g])
        BY <1>1, <1>2, <1>6, <3>2 DEF OthersIdle
      <4> QED
        BY <4>1 DEF HandFits, HandIsSure
    <3> QED
      BY <3>1, <3>2
  <2> QED
    BY <2>1, <2>2 DEF Undoubted
<1> QED
  BY <1>3, <1>5, <1>6, <1>7, <1>8, Zenon DEF SetupInv

SetupStep == {"idle", "find", "role", "validate", "channel", "final", "save", "undo"}

\* What the invariant gives of the numbers.
LEMMA SetupFacts ==
  ASSUME SetupInv
  PROVE  /\ newest.role \in Nat /\ newest.channel \in Nat /\ row.role \in Nat /\ row.channel \in Nat
         /\ newest.role \in Setup!Role \cup {0} /\ newest.channel \in Setup!Channel \cup {0}
         /\ row.role \in Setup!Role \cup {0} /\ row.channel \in Setup!Channel \cup {0}
         /\ roles \subseteq Setup!Role /\ channels \subseteq Setup!Channel
         /\ handler \in [SetupHandler -> Setup!Local]
         /\ \A h \in SetupHandler :
              /\ handler[h] \in Setup!Local /\ HandFits(handler[h]) /\ HandIsOlder(handler[h])
              /\ ~doubt => HandIsSure(handler[h])
         /\ SetupWorldTypes /\ NumberedWorld
<1>1. SetupWorldTypes /\ NumberedWorld
  BY Zenon DEF SetupInv, SetupTypes, SetupWorldTypes, Numbered, NumberedWorld
<1>2. /\ newest.role \in Setup!Role \cup {0} /\ newest.channel \in Setup!Channel \cup {0}
      /\ row.role \in Setup!Role \cup {0} /\ row.channel \in Setup!Channel \cup {0}
      /\ roles \subseteq Setup!Role /\ channels \subseteq Setup!Channel
  BY <1>1 DEF SetupWorldTypes
<1>3. handler \in [SetupHandler -> Setup!Local]
  BY DEF SetupInv, SetupTypes
<1>4. \A h \in SetupHandler :
        /\ HandFits(handler[h]) /\ HandIsOlder(handler[h]) /\ (~doubt => HandIsSure(handler[h]))
  BY Zenon DEF SetupInv, Numbered, Undoubted
<1> QED
  BY <1>1, <1>2, <1>3, <1>4, SetupNumbers

\* A setup goes on to a step.
IsHandAt(new, l, s) ==
  /\ new = [l EXCEPT !.at = s] /\ new.at = s /\ new.surface = l.surface /\ new.role = l.role
  /\ new.chosen = l.chosen /\ new.candidate = l.candidate /\ new.channel = l.channel
  /\ new.made = l.made

\* There is such a hand.
LEMMA HandGoesOn ==
  ASSUME NEW l \in Setup!Local, NEW s \in SetupStep
  PROVE  \E new \in Setup!Local : IsHandAt(new, l, s)
<1> DEFINE new == [l EXCEPT !.at = s]
<1>1. /\ new \in Setup!Local /\ new.at = s /\ new.surface = l.surface /\ new.role = l.role
      /\ new.chosen = l.chosen /\ new.candidate = l.candidate /\ new.channel = l.channel
      /\ new.made = l.made
  BY DEF Setup!Local, SetupStep
<1>2. new = [l EXCEPT !.at = s]
  OBVIOUS
<1> HIDE DEF new
<1> QED
  BY <1>1, <1>2 DEF IsHandAt

\* A setup at rest.
LEMMA NoSetup ==
  /\ Setup!Idle \in Setup!Local /\ Setup!Idle.at = "idle" /\ Setup!Idle.made = {}
  /\ Setup!Idle.role = 0 /\ Setup!Idle.chosen = 0 /\ Setup!Idle.candidate = 0
  /\ Setup!Idle.channel = 0 /\ Setup!Idle.surface = "join" /\ HandFits(Setup!Idle)
  /\ SetupInv => HandIsOlder(Setup!Idle)
<1>1. /\ Setup!Idle \in Setup!Local /\ Setup!Idle.at = "idle" /\ Setup!Idle.made = {}
      /\ Setup!Idle.role = 0 /\ Setup!Idle.chosen = 0 /\ Setup!Idle.candidate = 0
      /\ Setup!Idle.channel = 0 /\ Setup!Idle.surface = "join"
  BY DEF Setup!Idle, Setup!Local, Setup!Surface
<1> QED
  BY <1>1, SetupFacts DEF HandFits, HandIsOlder

\* A setup that changes nothing but what it has in hand.
LEMMA SetupLocal ==
  ASSUME SetupInv, NEW h \in SetupHandler, handler[h].at # "idle", NEW new \in Setup!Local,
         handler' = [handler EXCEPT ![h] = new],
         UNCHANGED <<row, roles, channels, newest, admits, created, saved, told, dropped,
                     deleted, loose, doubt>>,
         handler[h].made \subseteq new.made, HandIsOlder(new), HandFits(new),
         ~doubt /\ HandIsSure(handler[h]) => HandIsSure(new)
  PROVE  SetupInv'
<1>1. SetupWorldTypes' /\ NumberedWorld'
  <2>1. SetupWorldTypes /\ NumberedWorld
    BY SetupFacts
  <2>2. /\ row' = row /\ roles' = roles /\ channels' = channels /\ newest' = newest
        /\ admits' = admits /\ created' = created /\ saved' = saved /\ told' = told
        /\ dropped' = dropped /\ deleted' = deleted /\ loose' = loose /\ doubt' = doubt
    OBVIOUS
  <2> QED
    BY <2>1, <2>2, Zenon DEF SetupWorldTypes, NumberedWorld, Older
<1>2. newest.role <= newest'.role /\ newest.channel <= newest'.channel
  BY SetupFacts
<1>3. HandIsOlder(new)'
  BY DEF HandIsOlder
<1>4. NothingLost(h, new)
  BY DEF NothingLost, Setup!Exists, SetupInv, Setup!NothingIsLeft
<1>5. ASSUME ~doubt'
      PROVE  ~doubt /\ OthersIdle(h) /\ RowFits' /\ HandIsSure(new)'
  <2>1. doubt' = doubt
    OBVIOUS
  <2>2. ~doubt
    BY <1>5, <2>1
  <2>3. OthersIdle(h)
    BY <2>2, AloneAtWork
  <2>4. RowFits
    BY <2>2, Zenon DEF SetupInv, Undoubted
  <2>5. RowFits'
    BY <2>4 DEF RowFits
  <2>6. HandIsSure(new)
    BY <2>2, SetupFacts
  <2>7. HandIsSure(new)'
    BY <2>6 DEF HandIsSure
  <2> QED
    BY <2>2, <2>3, <2>5, <2>7
<1> QED
  BY <1>1, <1>2, <1>3, <1>4, <1>5, SetupMove

\* A setup with nothing in hand ends.
LEMMA SetupReturns ==
  ASSUME SetupInv, NEW h \in SetupHandler, handler[h].at # "idle", handler[h].made = {},
         Setup!Return(h),
         UNCHANGED <<row, roles, channels, newest, admits, created, saved, told, dropped,
                     deleted, loose, doubt>>
  PROVE  SetupInv'
<1>1. handler' = [handler EXCEPT ![h] = Setup!Idle]
  BY DEF Setup!Return, Setup!On
<1>2. PICK new \in Setup!Local : new = Setup!Idle
  BY NoSetup
<1>3. /\ handler[h].made \subseteq new.made /\ HandIsOlder(new) /\ HandFits(new)
      /\ HandIsSure(new)
  BY <1>2, NoSetup, IdleHand DEF HandIsOlder
<1> QED
  BY <1>1, <1>2, <1>3, SetupLocal

\* nothing but what is in hand changes
SetupStays ==
  UNCHANGED <<row, roles, channels, newest, admits, created, saved, told, dropped, deleted,
              loose, doubt>>

\* A channel is found, or not.
LEMMA SetupFindsChannel ==
  ASSUME SetupInv, NEW h \in SetupHandler, Setup!FindChannel(h)
  PROVE  SetupInv'
<1> DEFINE l == handler[h]
<1>1. l \in Setup!Local /\ l.at = "find" /\ HandFits(l) /\ HandIsOlder(l) /\ SetupStays
  BY SetupFacts DEF Setup!FindChannel, Setup!At, Setup!world, Setup!history, SetupStays
<1>2. l.made = {} /\ l.surface # "join"
  BY <1>1 DEF HandFits
<1>3. CASE Setup!Return(h)
  BY <1>1, <1>2, <1>3, SetupReturns DEF SetupStays
<1>4. ASSUME NEW c \in (IF l.chosen # 0 THEN {l.chosen} ELSE Setup!Candidate(row.channel, channels)),
             NEW s \in {"role", "validate"},
             Setup!On(h, [l EXCEPT !.candidate = c, !.at = s])
      PROVE  SetupInv'
  <2>1. c \in Setup!Channel \cup {0} /\ c <= newest.channel
    <3>1. l.chosen \in Setup!Channel \cup {0} /\ l.chosen <= newest.channel
      BY <1>1 DEF Setup!Local, HandIsOlder
    <3>2. c \in {l.chosen, row.channel, 0} \cup channels
      BY DEF Setup!Candidate
    <3> QED
      BY <3>1, <3>2, SetupFacts DEF NumberedWorld
  <2> DEFINE one == [l EXCEPT !.candidate = c]
             two == [one EXCEPT !.at = s]
  <2>2. handler' = [handler EXCEPT ![h] = two]
    BY <1>4 DEF Setup!On
  <2>3. /\ one \in Setup!Local /\ one.surface = l.surface /\ one.role = l.role
        /\ one.chosen = l.chosen /\ one.candidate = c /\ one.channel = l.channel
        /\ one.made = l.made
    BY <1>1, <2>1 DEF Setup!Local
  <2> HIDE DEF one
  <2>4. /\ two \in Setup!Local /\ two.at = s /\ two.surface = one.surface /\ two.role = one.role
         /\ two.chosen = one.chosen /\ two.candidate = one.candidate
         /\ two.channel = one.channel /\ two.made = one.made
    BY <2>3 DEF Setup!Local
  <2> HIDE DEF two
  <2>5. PICK new \in Setup!Local :
          /\ new = two /\ new.at = s /\ new.surface = l.surface /\ new.role = l.role
          /\ new.chosen = l.chosen /\ new.candidate = c /\ new.channel = l.channel
          /\ new.made = l.made
    BY <2>3, <2>4
  <2>6. HandIsOlder(new) /\ HandFits(new)
    BY <1>1, <1>2, <2>1, <2>5 DEF HandIsOlder, HandFits
  <2>7. HandIsSure(new)
    BY <1>2, <2>5 DEF HandIsSure
  <2> QED
    BY <1>1, <2>2, <2>5, <2>6, <2>7, SetupLocal DEF SetupStays
<1> QED
  BY <1>3, <1>4 DEF Setup!FindChannel

\* A role is found, or not.
LEMMA SetupFindsRole ==
  ASSUME SetupInv, NEW h \in SetupHandler, Setup!FindRole(h)
  PROVE  SetupInv'
<1> DEFINE l == handler[h]
<1>1. l \in Setup!Local /\ l.at = "role" /\ HandFits(l) /\ HandIsOlder(l) /\ SetupStays
  BY SetupFacts DEF Setup!FindRole, Setup!At, Setup!world, Setup!history, SetupStays
<1>2. l.made = {} /\ l.surface # "join"
  BY <1>1 DEF HandFits
<1>3. CASE Setup!Return(h)
  BY <1>1, <1>2, <1>3, SetupReturns DEF SetupStays
<1>4. ASSUME NEW c \in (IF l.role # 0 THEN {l.role} ELSE Setup!Candidate(row.role, roles)),
             Setup!On(h, [l EXCEPT !.role = c, !.at = "channel"])
      PROVE  SetupInv'
  <2>1. c \in Setup!Role \cup {0} /\ c <= newest.role
    <3>1. l.role \in Setup!Role \cup {0} /\ l.role <= newest.role
      BY <1>1 DEF Setup!Local, HandIsOlder
    <3>2. c \in {l.role, row.role, 0} \cup roles
      BY DEF Setup!Candidate
    <3> QED
      BY <3>1, <3>2, SetupFacts DEF NumberedWorld
  <2> DEFINE one == [l EXCEPT !.role = c]
             two == [one EXCEPT !.at = "channel"]
  <2>2. handler' = [handler EXCEPT ![h] = two]
    BY <1>4 DEF Setup!On
  <2>3. /\ one \in Setup!Local /\ one.surface = l.surface /\ one.role = c
        /\ one.chosen = l.chosen /\ one.candidate = l.candidate /\ one.channel = l.channel
        /\ one.made = l.made
    BY <1>1, <2>1 DEF Setup!Local
  <2> HIDE DEF one
  <2>4. /\ two \in Setup!Local /\ two.at = "channel" /\ two.surface = one.surface
         /\ two.role = one.role /\ two.chosen = one.chosen
         /\ two.candidate = one.candidate /\ two.channel = one.channel /\ two.made = one.made
    BY <2>3 DEF Setup!Local
  <2> HIDE DEF two
  <2>5. PICK new \in Setup!Local :
          /\ new = two /\ new.at = "channel" /\ new.surface = l.surface /\ new.role = c
          /\ new.chosen = l.chosen /\ new.candidate = l.candidate /\ new.channel = l.channel
          /\ new.made = l.made
    BY <2>3, <2>4
  <2>6. HandIsOlder(new) /\ HandFits(new)
    BY <1>1, <1>2, <2>1, <2>5 DEF HandIsOlder, HandFits
  <2>7. HandIsSure(new)
    BY <1>2, <2>5 DEF HandIsSure
  <2> QED
    BY <1>1, <2>2, <2>5, <2>6, <2>7, SetupLocal DEF SetupStays
<1> QED
  BY <1>3, <1>4 DEF Setup!FindRole

\* A setup that goes on with what it has in hand.
LEMMA SetupGoesTo ==
  ASSUME SetupInv, NEW h \in SetupHandler, NEW s \in SetupStep, Setup!Goto(h, s), SetupStays,
         \/ s = "undo" /\ handler[h].at \in {"channel", "final"}
         \/ s = "channel" /\ handler[h].at = "validate"
         \/ s = "save" /\ handler[h].at = "final" /\ Setup!Ready(h)
  PROVE  SetupInv'
<1> DEFINE l == handler[h]
<1>1. l \in Setup!Local /\ HandFits(l) /\ HandIsOlder(l)
  BY SetupFacts
<1>2. handler' = [handler EXCEPT ![h] = [l EXCEPT !.at = s]]
  BY SetupFacts DEF Setup!Goto
<1>3. PICK new \in Setup!Local :
        /\ new = [l EXCEPT !.at = s] /\ new.at = s /\ new.surface = l.surface /\ new.role = l.role
        /\ new.chosen = l.chosen /\ new.candidate = l.candidate /\ new.channel = l.channel
        /\ new.made = l.made
  <2>1. \E new \in Setup!Local : IsHandAt(new, l, s)
    BY <1>1, HandGoesOn
  <2> QED
    BY <2>1, Zenon DEF IsHandAt
<1>4. HandIsOlder(new) /\ HandFits(new)
  BY <1>1, <1>3 DEF HandIsOlder, HandFits
<1>5. ASSUME HandIsSure(l)
      PROVE  HandIsSure(new)
  <2>1. CASE s # "save"
    BY <1>1, <1>3, <1>5, <2>1 DEF HandIsSure, HandFits
  <2>2. CASE s = "save"
    <3>1. /\ l.role # 0 => l.role \in roles
          /\ l.channel # 0 => l.channel \in channels
      BY <2>2 DEF Setup!Ready, Setup!RoleMissing, Setup!ChannelMissing
    <3> QED
      BY <1>1, <1>3, <1>5, <2>2, <3>1 DEF HandIsSure, HandFits
  <2> QED
    BY <2>1, <2>2
<1>6. l.at # "idle"
  OBVIOUS
<1> QED
  BY <1>2, <1>3, <1>4, <1>5, <1>6, SetupLocal DEF SetupStays

\* A chosen channel is taken.
LEMMA SetupUsesChosen ==
  ASSUME SetupInv, NEW h \in SetupHandler, Setup!UseChosen(h)
  PROVE  SetupInv'
<1> DEFINE l == handler[h]
<1>1. /\ l \in Setup!Local /\ l.at = "channel" /\ HandFits(l) /\ HandIsOlder(l) /\ SetupStays
      /\ l.chosen # 0
  BY SetupFacts DEF Setup!UseChosen, Setup!At, Setup!world, Setup!history, SetupStays
<1> DEFINE one == [l EXCEPT !.channel = l.chosen]
           two == [one EXCEPT !.at = "final"]
<1>2. handler' = [handler EXCEPT ![h] = two]
  BY DEF Setup!UseChosen, Setup!On
<1>3. /\ one \in Setup!Local /\ one.surface = l.surface /\ one.role = l.role
      /\ one.chosen = l.chosen /\ one.candidate = l.candidate /\ one.channel = l.chosen
      /\ one.made = l.made
  BY <1>1 DEF Setup!Local
<1> HIDE DEF one
<1>4. /\ two \in Setup!Local /\ two.at = "final" /\ two.surface = one.surface
       /\ two.role = one.role /\ two.chosen = one.chosen
       /\ two.candidate = one.candidate /\ two.channel = one.channel /\ two.made = one.made
  BY <1>3 DEF Setup!Local
<1> HIDE DEF two
<1>5. PICK new \in Setup!Local :
        /\ new = two /\ new.at = "final" /\ new.surface = l.surface /\ new.role = l.role
        /\ new.chosen = l.chosen /\ new.candidate = l.candidate /\ new.channel = l.chosen
        /\ new.made = l.made
  BY <1>3, <1>4
<1>6. HandIsOlder(new) /\ HandFits(new)
  BY <1>1, <1>5 DEF HandIsOlder, HandFits
<1>7. HandIsSure(l) => HandIsSure(new)
  BY <1>1, <1>5 DEF HandIsSure
<1> QED
  BY <1>1, <1>2, <1>5, <1>6, <1>7, SetupLocal DEF SetupStays

\* The steps that change nothing but what a setup has in hand.
LEMMA SetupLocalSteps ==
  ASSUME SetupInv, NEW h \in SetupHandler,
         \/ Setup!FindChannel(h) \/ Setup!FindRole(h) \/ Setup!Validate(h)
         \/ Setup!UseChosen(h) \/ Setup!ChannelFails(h) \/ Setup!FinalValidation(h)
         \/ Setup!Undone(h)
  PROVE  SetupInv'
<1>1. CASE Setup!Validate(h)
  <2>1. SetupStays /\ handler[h].at = "validate" /\ (Setup!Return(h) \/ Setup!Goto(h, "channel"))
    BY <1>1 DEF Setup!Validate, Setup!At, Setup!world, Setup!history, SetupStays
  <2>2. handler[h].made = {}
    BY <2>1, SetupFacts DEF HandFits
  <2>3. CASE Setup!Return(h)
    BY <2>1, <2>2, <2>3, SetupReturns DEF SetupStays
  <2> QED
    BY <2>1, <2>3, SetupGoesTo DEF SetupStep
<1>2. CASE Setup!ChannelFails(h)
  <2>1. SetupStays /\ handler[h].at = "channel" /\ Setup!Goto(h, "undo")
    BY <1>2 DEF Setup!ChannelFails, Setup!At, Setup!world, Setup!history, SetupStays
  <2> QED
    BY <2>1, SetupGoesTo DEF SetupStep
<1>3. CASE Setup!FinalValidation(h)
  <2>1. /\ SetupStays /\ handler[h].at = "final"
        /\ Setup!Goto(h, "undo") \/ (Setup!Ready(h) /\ Setup!Goto(h, "save"))
    BY <1>3 DEF Setup!FinalValidation, Setup!At, Setup!world, Setup!history, SetupStays
  <2> QED
    BY <2>1, SetupGoesTo DEF SetupStep
<1>4. CASE Setup!Undone(h)
  <2>1. SetupStays /\ handler[h].at = "undo" /\ handler[h].made = {} /\ Setup!Return(h)
    BY <1>4 DEF Setup!Undone, Setup!At, Setup!world, Setup!history, SetupStays
  <2> QED
    BY <2>1, SetupReturns DEF SetupStays
<1> QED
  BY <1>1, <1>2, <1>3, <1>4, SetupFindsChannel, SetupFindsRole, SetupUsesChosen

\* A setup begins.
LEMMA SetupBegins ==
  ASSUME SetupInv, NEW h \in SetupHandler, NEW new \in Setup!Local, Setup!Begin(h, new),
         new.made = {}, HandIsOlder(new),
         \/ new.at \in {"find", "validate"} /\ new.surface # "join"
         \/ new.at = "channel" /\ new.surface = "join" /\ new.role = row.role /\ new.chosen = 0
  PROVE  SetupInv'
<1>1. /\ handler[h].at = "idle" /\ handler' = [handler EXCEPT ![h] = new]
      /\ doubt' = (doubt \/ Setup!Busy # {})
      /\ row' = row /\ roles' = roles /\ channels' = channels /\ newest' = newest
      /\ admits' = admits /\ created' = created /\ saved' = saved /\ told' = told
      /\ dropped' = dropped /\ deleted' = deleted /\ loose' = loose
  BY DEF Setup!Begin, Setup!At, Setup!On, Setup!world
<1>2. SetupWorldTypes' /\ NumberedWorld'
  <2>1. SetupWorldTypes /\ NumberedWorld
    BY SetupFacts
  <2>2. doubt' \in BOOLEAN
    BY <1>1, <2>1, Zenon DEF SetupWorldTypes
  <2> QED
    BY <1>1, <2>1, <2>2, Zenon DEF SetupWorldTypes, NumberedWorld, Older
<1>3. newest.role <= newest'.role /\ newest.channel <= newest'.channel
  BY <1>1, SetupFacts
<1>4. HandIsOlder(new)' /\ HandFits(new)
  BY <1>1 DEF HandIsOlder, HandFits
<1>5. handler[h].made = {}
  BY <1>1, SetupFacts, IdleHand
<1>6. NothingLost(h, new)
  BY <1>1, <1>5, Zenon DEF NothingLost, Setup!Exists
<1>7. ASSUME ~doubt'
      PROVE  ~doubt /\ OthersIdle(h) /\ RowFits' /\ HandIsSure(new)'
  <2>1. ~doubt /\ Setup!Busy = {}
    BY <1>1, <1>7, Zenon
  <2>2. OthersIdle(h)
    BY <2>1 DEF Setup!Busy, Setup!At, OthersIdle
  <2>3. RowFits
    BY <2>1, Zenon DEF SetupInv, Undoubted
  <2>4. RowFits'
    BY <1>1, <2>3, Zenon DEF RowFits
  <2>5. HandIsSure(new)'
    BY <1>1 DEF HandIsSure
  <2> QED
    BY <2>1, <2>2, <2>4, <2>5
<1> QED
  BY <1>1, <1>2, <1>3, <1>4, <1>6, <1>7, SetupMove

\* What a setup begins with, whether or not it has been told its channel.
IsFindingHand(new, u, r, c) ==
  /\ new = [Setup!Idle EXCEPT !.surface = u, !.role = r, !.chosen = c, !.at = "find"]
  /\ new.surface = u /\ new.role = r /\ new.chosen = c /\ new.candidate = 0
  /\ new.channel = 0 /\ new.made = {} /\ new.at = "find"
IsValidatingHand(new, u, r, c) ==
  /\ new = [Setup!Idle EXCEPT !.surface = u, !.role = r, !.chosen = c,
              !.candidate = c, !.at = "validate"]
  /\ new.surface = u /\ new.role = r /\ new.chosen = c /\ new.candidate = c
  /\ new.channel = 0 /\ new.made = {} /\ new.at = "validate"

\* What a setup begins with that has still to find its channel.
LEMMA FindingHand ==
  ASSUME NEW u \in Setup!Surface, NEW r \in Setup!Role \cup {0}, NEW c \in Setup!Channel \cup {0}
  PROVE  \E new \in Setup!Local : IsFindingHand(new, u, r, c)
<1> DEFINE one == [Setup!Idle EXCEPT !.surface = u]
           two == [one EXCEPT !.role = r]
           three == [two EXCEPT !.chosen = c]
           new == [three EXCEPT !.at = "find"]
<1>1. new = [Setup!Idle EXCEPT !.surface = u, !.role = r, !.chosen = c, !.at = "find"]
  OBVIOUS
<1>2. /\ one \in Setup!Local /\ one.surface = u /\ one.role = 0 /\ one.chosen = 0
      /\ one.candidate = 0 /\ one.channel = 0 /\ one.made = {} /\ one.at = "idle"
  BY NoSetup DEF Setup!Local
<1> HIDE DEF one
<1>3. /\ two \in Setup!Local /\ two.surface = u /\ two.role = r /\ two.chosen = 0
      /\ two.candidate = 0 /\ two.channel = 0 /\ two.made = {} /\ two.at = "idle"
  BY <1>2 DEF Setup!Local
<1> HIDE DEF two
<1>4. /\ three \in Setup!Local /\ three.surface = u /\ three.role = r /\ three.chosen = c
      /\ three.candidate = 0 /\ three.channel = 0 /\ three.made = {} /\ three.at = "idle"
  BY <1>3 DEF Setup!Local
<1> HIDE DEF three
<1>5. /\ new \in Setup!Local /\ new.surface = u /\ new.role = r /\ new.chosen = c
      /\ new.candidate = 0 /\ new.channel = 0 /\ new.made = {} /\ new.at = "find"
  BY <1>4 DEF Setup!Local
<1> HIDE DEF new
<1> QED
  BY <1>1, <1>5 DEF IsFindingHand

\* What a setup begins with that has been told its channel.
LEMMA ValidatingHand ==
  ASSUME NEW u \in Setup!Surface, NEW r \in Setup!Role \cup {0}, NEW c \in Setup!Channel \cup {0}
  PROVE  \E new \in Setup!Local : IsValidatingHand(new, u, r, c)
<1> DEFINE one == [Setup!Idle EXCEPT !.surface = u]
           two == [one EXCEPT !.role = r]
           three == [two EXCEPT !.chosen = c]
           four == [three EXCEPT !.candidate = c]
           new == [four EXCEPT !.at = "validate"]
<1>1. new = [Setup!Idle EXCEPT !.surface = u, !.role = r, !.chosen = c, !.candidate = c,
               !.at = "validate"]
  OBVIOUS
<1>2. /\ one \in Setup!Local /\ one.surface = u /\ one.role = 0 /\ one.chosen = 0
      /\ one.candidate = 0 /\ one.channel = 0 /\ one.made = {} /\ one.at = "idle"
  BY NoSetup DEF Setup!Local
<1> HIDE DEF one
<1>3. /\ two \in Setup!Local /\ two.surface = u /\ two.role = r /\ two.chosen = 0
      /\ two.candidate = 0 /\ two.channel = 0 /\ two.made = {} /\ two.at = "idle"
  BY <1>2 DEF Setup!Local
<1> HIDE DEF two
<1>4. /\ three \in Setup!Local /\ three.surface = u /\ three.role = r /\ three.chosen = c
      /\ three.candidate = 0 /\ three.channel = 0 /\ three.made = {} /\ three.at = "idle"
  BY <1>3 DEF Setup!Local
<1> HIDE DEF three
<1>5. /\ four \in Setup!Local /\ four.surface = u /\ four.role = r /\ four.chosen = c
      /\ four.candidate = c /\ four.channel = 0 /\ four.made = {} /\ four.at = "idle"
  BY <1>4 DEF Setup!Local
<1> HIDE DEF four
<1>6. /\ new \in Setup!Local /\ new.surface = u /\ new.role = r /\ new.chosen = c
      /\ new.candidate = c /\ new.channel = 0 /\ new.made = {} /\ new.at = "validate"
  BY <1>5 DEF Setup!Local
<1> HIDE DEF new
<1> QED
  BY <1>1, <1>6 DEF IsValidatingHand

\* What the bot's joining begins with.
IsJoiningHand(new, r) ==
  /\ new = [Setup!Idle EXCEPT !.surface = "join", !.role = r, !.at = "channel"]
  /\ new.surface = "join" /\ new.role = r /\ new.chosen = 0 /\ new.candidate = 0
  /\ new.channel = 0 /\ new.made = {} /\ new.at = "channel"

\* There is such a hand.
LEMMA JoiningHand ==
  ASSUME NEW r \in Setup!Role \cup {0}
  PROVE  \E new \in Setup!Local : IsJoiningHand(new, r)
<1> DEFINE one == [Setup!Idle EXCEPT !.surface = "join"]
           two == [one EXCEPT !.role = r]
           new == [two EXCEPT !.at = "channel"]
<1>1. new = [Setup!Idle EXCEPT !.surface = "join", !.role = r, !.at = "channel"]
  OBVIOUS
<1>2. /\ one \in Setup!Local /\ one.surface = "join" /\ one.role = 0 /\ one.chosen = 0
      /\ one.candidate = 0 /\ one.channel = 0 /\ one.made = {} /\ one.at = "idle"
  BY NoSetup DEF Setup!Local, Setup!Surface
<1> HIDE DEF one
<1>3. /\ two \in Setup!Local /\ two.surface = "join" /\ two.role = r /\ two.chosen = 0
      /\ two.candidate = 0 /\ two.channel = 0 /\ two.made = {} /\ two.at = "idle"
  BY <1>2 DEF Setup!Local
<1> HIDE DEF two
<1>4. /\ new \in Setup!Local /\ new.surface = "join" /\ new.role = r /\ new.chosen = 0
      /\ new.candidate = 0 /\ new.channel = 0 /\ new.made = {} /\ new.at = "channel"
  BY <1>3 DEF Setup!Local
<1> HIDE DEF new
<1> QED
  BY <1>1, <1>4 DEF IsJoiningHand

\* Whichever surface it is begun at.
LEMMA SetupBeginnings ==
  ASSUME SetupInv, NEW h \in SetupHandler,
         \/ Setup!ConfigSetup(h) \/ Setup!VerificationCommand(h) \/ Setup!SetupForm(h)
         \/ Setup!WebRequest(h) \/ Setup!GuildCreate(h)
  PROVE  SetupInv'
<1>1. /\ \A r \in roles \cup {0} : r \in Setup!Role \cup {0} /\ r <= newest.role
      /\ \A c \in channels \cup {0} : c \in Setup!Channel \cup {0} /\ c <= newest.channel
      /\ newest.role \in Nat /\ newest.channel \in Nat
  BY SetupFacts DEF NumberedWorld
<1>2. ASSUME NEW u \in {"config", "command"}, NEW r \in roles \cup {0},
             NEW c \in channels \cup {0},
             Setup!Begin(h, [Setup!Idle EXCEPT !.surface = u, !.role = r, !.chosen = c,
                               !.at = "find"])
      PROVE  SetupInv'
  <2>1. /\ u \in Setup!Surface /\ r \in Setup!Role \cup {0} /\ r <= newest.role
        /\ c \in Setup!Channel \cup {0} /\ c <= newest.channel
    BY <1>1 DEF Setup!Surface
  <2>2. PICK new \in Setup!Local : IsFindingHand(new, u, r, c)
    BY <2>1, FindingHand
  <2>3. HandIsOlder(new)
    BY <1>1, <2>1, <2>2 DEF HandIsOlder, IsFindingHand
  <2>4. Setup!Begin(h, new)
    BY <1>2, <2>2 DEF IsFindingHand
  <2> QED
    BY <2>2, <2>3, <2>4, SetupBegins DEF IsFindingHand
<1>3. ASSUME NEW u \in {"form", "web"}, NEW r \in roles \cup {0}, NEW c \in channels \cup {0},
             Setup!Begin(h, [Setup!Idle EXCEPT !.surface = u, !.role = r, !.chosen = c,
                               !.candidate = c, !.at = "validate"])
      PROVE  SetupInv'
  <2>1. /\ u \in Setup!Surface /\ r \in Setup!Role \cup {0} /\ r <= newest.role
        /\ c \in Setup!Channel \cup {0} /\ c <= newest.channel
    BY <1>1 DEF Setup!Surface
  <2>2. PICK new \in Setup!Local : IsValidatingHand(new, u, r, c)
    BY <2>1, ValidatingHand
  <2>3. HandIsOlder(new)
    BY <1>1, <2>1, <2>2 DEF HandIsOlder, IsValidatingHand
  <2>4. Setup!Begin(h, new)
    BY <1>3, <2>2 DEF IsValidatingHand
  <2> QED
    BY <2>2, <2>3, <2>4, SetupBegins DEF IsValidatingHand
<1>4. CASE Setup!GuildCreate(h)
  <2>1. PICK new \in Setup!Local :
          /\ new = [Setup!Idle EXCEPT !.surface = "join", !.role = row.role, !.at = "channel"]
          /\ new.surface = "join" /\ new.role = row.role /\ new.chosen = 0
          /\ new.candidate = 0 /\ new.channel = 0 /\ new.made = {} /\ new.at = "channel"
    <3>1. \E new \in Setup!Local : IsJoiningHand(new, row.role)
      BY SetupFacts, JoiningHand
    <3> QED
      BY <3>1, Zenon DEF IsJoiningHand
  <2>2. HandIsOlder(new)
    BY <1>1, <2>1, SetupFacts DEF HandIsOlder, NumberedWorld
  <2>3. Setup!Begin(h, new)
    BY <1>4, <2>1 DEF Setup!GuildCreate
  <2> QED
    BY <2>1, <2>2, <2>3, SetupBegins
<1>5. CASE Setup!ConfigSetup(h)
  BY <1>2, <1>5 DEF Setup!ConfigSetup
<1>6. CASE Setup!VerificationCommand(h)
  BY <1>2, <1>6 DEF Setup!VerificationCommand
<1>7. CASE Setup!SetupForm(h)
  BY <1>3, <1>7 DEF Setup!SetupForm
<1>8. CASE Setup!WebRequest(h)
  BY <1>3, <1>8 DEF Setup!WebRequest
<1> QED
  BY <1>4, <1>5, <1>6, <1>7, <1>8

\* A new role is the newest; the row is none the worse for it.
LEMMA RoleAppears ==
  ASSUME SetupInv, NEW new, new = <<"role", newest.role + 1>>, newest.role < MaxRoles,
         newest' = [newest EXCEPT !.role = newest.role + 1],
         roles' = roles \cup {newest.role + 1},
         created \subseteq created', created' \subseteq created \cup {new},
         dropped \subseteq dropped', dropped' \subseteq dropped \cup {new},
         UNCHANGED <<row, channels, admits, saved, told, deleted, loose, doubt>>
  PROVE  /\ SetupWorldTypes' /\ NumberedWorld'
         /\ newest.role + 1 \in Setup!Role /\ newest'.role = newest.role + 1
         /\ newest.role <= newest'.role /\ newest.channel <= newest'.channel
         /\ RowFits => RowFits'
<1> DEFINE r == newest.role + 1
<1>1. /\ newest.role \in Nat /\ newest.channel \in Nat /\ row.role \in Nat /\ row.channel \in Nat
      /\ newest.channel \in Setup!Channel \cup {0} /\ SetupWorldTypes /\ NumberedWorld
  BY SetupFacts
<1>2. r \in Setup!Role /\ new \in Setup!Thing
  BY <1>1, SetupNumbers DEF Setup!Role, Setup!Thing
<1>3. /\ newest' \in [role : Setup!Role \cup {0}, channel : Setup!Channel \cup {0}]
      /\ newest'.role = r /\ newest'.channel = newest.channel
  BY <1>1, <1>2 DEF SetupWorldTypes
<1>4. /\ row' = row /\ channels' = channels /\ admits' = admits /\ saved' = saved /\ told' = told
      /\ deleted' = deleted /\ loose' = loose /\ doubt' = doubt
  OBVIOUS
<1>5. UNION {created', saved', told', dropped', deleted'} \subseteq Setup!Thing
  BY <1>1, <1>2, <1>4 DEF SetupWorldTypes
<1>6. SetupWorldTypes'
  <2>1. roles' \subseteq Setup!Role
    BY <1>1, <1>2 DEF SetupWorldTypes
  <2> QED
    BY <1>1, <1>3, <1>4, <1>5, <2>1, Zenon DEF SetupWorldTypes
<1>7. NumberedWorld'
  <2>1. \A x \in roles' : x <= newest'.role
    <3>1. \A x \in roles : x \in Nat /\ x <= newest.role
      BY <1>1, SetupNumbers, SetupFacts DEF NumberedWorld
    <3> QED
      BY <1>1, <1>3, <3>1
  <2>2. \A thing \in created' : Older(thing)'
    <3>1. ASSUME NEW thing \in created
          PROVE  Older(thing)'
      <4>1. Older(thing) /\ thing \in Setup!Thing
        BY <1>1 DEF NumberedWorld, SetupWorldTypes
      <4>2. thing[2] \in Nat
        BY <4>1, SetupNumbers DEF Setup!Thing
      <4> QED
        BY <1>1, <1>3, <4>1, <4>2 DEF Older
    <3>2. Older(new)'
      BY <1>1, <1>3 DEF Older
    <3> QED
      BY <3>1, <3>2
  <2>3. row'.role <= newest'.role /\ row'.channel <= newest'.channel
    BY <1>1, <1>3, <1>4 DEF NumberedWorld
  <2>4. \A x \in channels' : x <= newest'.channel
    BY <1>1, <1>3, <1>4 DEF NumberedWorld
  <2> QED
    BY <2>1, <2>2, <2>3, <2>4 DEF NumberedWorld
<1>8. RowFits => RowFits'
  BY <1>4 DEF RowFits
<1> QED
  BY <1>1, <1>2, <1>3, <1>6, <1>7, <1>8

\* A new channel is the newest; it is not the row's.
LEMMA ChannelAppears ==
  ASSUME SetupInv, NEW new, new = <<"channel", newest.channel + 1>>,
         newest.channel < MaxChannels,
         newest' = [newest EXCEPT !.channel = newest.channel + 1],
         channels' = channels \cup {newest.channel + 1},
         \/ admits' = admits
         \/ \E r \in Setup!Role \cup {0} : admits' = [admits EXCEPT ![newest.channel + 1] = r],
         created \subseteq created', created' \subseteq created \cup {new},
         dropped \subseteq dropped', dropped' \subseteq dropped \cup {new},
         UNCHANGED <<row, roles, saved, told, deleted, loose, doubt>>
  PROVE  /\ SetupWorldTypes' /\ NumberedWorld'
         /\ newest.channel + 1 \in Setup!Channel /\ newest'.channel = newest.channel + 1
         /\ newest.role <= newest'.role /\ newest.channel <= newest'.channel
         /\ RowFits => RowFits'
<1> DEFINE c == newest.channel + 1
<1>1. /\ newest.role \in Nat /\ newest.channel \in Nat /\ row.role \in Nat /\ row.channel \in Nat
      /\ newest.role \in Setup!Role \cup {0} /\ SetupWorldTypes /\ NumberedWorld
  BY SetupFacts
<1>2. c \in Setup!Channel /\ new \in Setup!Thing
  BY <1>1, SetupNumbers DEF Setup!Channel, Setup!Thing
<1>3. /\ newest' \in [role : Setup!Role \cup {0}, channel : Setup!Channel \cup {0}]
      /\ newest'.channel = c /\ newest'.role = newest.role
  BY <1>1, <1>2 DEF SetupWorldTypes
<1>4. /\ row' = row /\ roles' = roles /\ saved' = saved /\ told' = told
      /\ deleted' = deleted /\ loose' = loose /\ doubt' = doubt
  OBVIOUS
<1>5. UNION {created', saved', told', dropped', deleted'} \subseteq Setup!Thing
  BY <1>1, <1>2, <1>4 DEF SetupWorldTypes
<1>6. /\ admits' \in [Setup!Channel -> Setup!Role \cup {0}]
      /\ \A x \in Setup!Channel : x # c => admits'[x] = admits[x]
  <2>1. admits \in [Setup!Channel -> Setup!Role \cup {0}]
    BY <1>1 DEF SetupWorldTypes
  <2> QED
    BY <1>2, <2>1
<1>7. SetupWorldTypes'
  <2>1. channels' \subseteq Setup!Channel
    BY <1>1, <1>2 DEF SetupWorldTypes
  <2> QED
    BY <1>1, <1>3, <1>4, <1>5, <1>6, <2>1, Zenon DEF SetupWorldTypes
<1>8. NumberedWorld'
  <2>1. \A x \in channels' : x <= newest'.channel
    <3>1. \A x \in channels : x \in Nat /\ x <= newest.channel
      BY <1>1, SetupNumbers, SetupFacts DEF NumberedWorld
    <3> QED
      BY <1>1, <1>3, <3>1
  <2>2. \A thing \in created' : Older(thing)'
    <3>1. ASSUME NEW thing \in created
          PROVE  Older(thing)'
      <4>1. Older(thing) /\ thing \in Setup!Thing
        BY <1>1 DEF NumberedWorld, SetupWorldTypes
      <4>2. thing[2] \in Nat
        BY <4>1, SetupNumbers DEF Setup!Thing
      <4> QED
        BY <1>1, <1>3, <4>1, <4>2 DEF Older
    <3>2. Older(new)'
      BY <1>1, <1>3 DEF Older
    <3> QED
      BY <3>1, <3>2
  <2>3. row'.role <= newest'.role /\ row'.channel <= newest'.channel
    BY <1>1, <1>3, <1>4 DEF NumberedWorld
  <2>4. \A x \in roles' : x <= newest'.role
    BY <1>1, <1>3, <1>4 DEF NumberedWorld
  <2> QED
    BY <2>1, <2>2, <2>3, <2>4 DEF NumberedWorld
<1>9. ASSUME RowFits
      PROVE  RowFits'
  <2>1. row.channel # c
    BY <1>1 DEF NumberedWorld
  <2>2. row.channel \in Setup!Channel => admits'[row.channel] = admits[row.channel]
    BY <1>6, <2>1
  <2>3. row.channel \in channels' <=> row.channel \in channels
    BY <2>1
  <2>4. channels \subseteq Setup!Channel
    BY <1>1 DEF SetupWorldTypes
  <2> QED
    BY <1>4, <1>9, <2>2, <2>3, <2>4 DEF RowFits
<1> QED
  BY <1>1, <1>2, <1>3, <1>7, <1>8, <1>9

\* What exists of what setups had created, when a thing appears.
LEMMA NothingReappears ==
  ASSUME SetupInv, NEW new \in Setup!Thing, new \notin created,
         roles' = IF new[1] = "role" THEN roles \cup {new[2]} ELSE roles,
         channels' = IF new[1] = "role" THEN channels ELSE channels \cup {new[2]}
  PROVE  \A thing \in created : Setup!Exists(thing)' => Setup!Exists(thing)
<1> SUFFICES ASSUME NEW thing \in created, Setup!Exists(thing)'
             PROVE  Setup!Exists(thing)
  OBVIOUS
<1>1. thing \in Setup!Thing /\ thing # new
  BY SetupFacts DEF SetupWorldTypes
<1>2. thing[1] # new[1] \/ thing[2] # new[2]
  BY <1>1 DEF Setup!Thing
<1>3. thing[1] \in {"role", "channel"} /\ new[1] \in {"role", "channel"}
  BY <1>1 DEF Setup!Thing
<1> QED
  BY <1>2, <1>3 DEF Setup!Exists

\* A setup creates the role.
LEMMA SetupCreatesRole ==
  ASSUME SetupInv, NEW h \in SetupHandler, Setup!CreateRole(h)
  PROVE  SetupInv'
<1> DEFINE l == handler[h]
           r == newest.role + 1
           thing == <<"role", r>>
<1>1. /\ l \in Setup!Local /\ l.at = "role" /\ HandFits(l) /\ HandIsOlder(l)
      /\ newest.role < MaxRoles /\ newest' = [newest EXCEPT !.role = r]
      /\ roles' = roles \cup {r} /\ created' = created \cup {thing}
      /\ row' = row /\ channels' = channels /\ admits' = admits /\ saved' = saved
      /\ told' = told /\ deleted' = deleted /\ loose' = loose /\ doubt' = doubt
  BY SetupFacts DEF Setup!CreateRole, Setup!At
<1>2. l.made = {} /\ l.surface # "join"
  BY <1>1 DEF HandFits
<1>3. dropped' = dropped \/ dropped' = dropped \cup {thing}
  BY DEF Setup!CreateRole
<1>4. /\ SetupWorldTypes' /\ NumberedWorld'
      /\ r \in Setup!Role /\ newest'.role = r
      /\ newest.role <= newest'.role /\ newest.channel <= newest'.channel
      /\ RowFits => RowFits'
  BY <1>1, <1>3, RoleAppears
<1>5. thing \in Setup!Thing /\ thing \notin created
  <2>1. thing \in Setup!Thing
    BY <1>4 DEF Setup!Thing
  <2>2. ~Older(thing)
    BY SetupFacts DEF Older
  <2> QED
    BY <2>1, <2>2, SetupFacts DEF NumberedWorld
<1>6. \A x \in created : Setup!Exists(x)' => Setup!Exists(x)
  BY <1>1, <1>5, NothingReappears
<1>7. ASSUME ~doubt'
      PROVE  ~doubt /\ OthersIdle(h) /\ RowFits'
  <2>1. ~doubt
    BY <1>1, <1>7
  <2>2. RowFits
    BY <2>1, Zenon DEF SetupInv, Undoubted
  <2> QED
    BY <1>1, <1>4, <2>1, <2>2, AloneAtWork
<1>8. ASSUME NEW new \in Setup!Local, handler' = [handler EXCEPT ![h] = new],
             HandIsOlder(new)', HandFits(new), ~doubt' => HandIsSure(new)',
             thing \in dropped' \cup new.made
      PROVE  SetupInv'
  <2>1. NothingLost(h, new)
    <3>1. dropped \subseteq dropped'
      BY <1>3
    <3> QED
      BY <1>1, <1>2, <1>6, <1>8, <3>1 DEF NothingLost
  <2> QED
    BY <1>4, <1>7, <1>8, <2>1, SetupMove
<1>9. CASE Setup!Return(h) /\ dropped' = dropped \cup {thing}
  <2>1. PICK new \in Setup!Local : new = Setup!Idle
    BY NoSetup
  <2>2. handler' = [handler EXCEPT ![h] = new]
    BY <1>9, <2>1 DEF Setup!Return, Setup!On
  <2>3. newest'.role \in Nat /\ newest'.channel \in Nat
    BY <1>4, SetupNumbers DEF SetupWorldTypes
  <2>4. HandIsOlder(new)'
    BY <2>1, <2>3, NoSetup DEF HandIsOlder
  <2>5. HandFits(new) /\ new.at = "idle" /\ new.made = {}
    BY <2>1, NoSetup
  <2>6. HandIsSure(new)'
    BY <2>5 DEF HandIsSure, HandFits
  <2> QED
    BY <1>8, <1>9, <2>2, <2>4, <2>5, <2>6
<1>10. CASE Setup!On(h, [l EXCEPT !.role = r, !.made = {thing}, !.at = "channel"])
  <2> DEFINE one == [l EXCEPT !.role = r]
             two == [one EXCEPT !.made = {thing}]
             three == [two EXCEPT !.at = "channel"]
  <2>1. handler' = [handler EXCEPT ![h] = three]
    BY <1>10 DEF Setup!On
  <2>2. /\ one \in Setup!Local /\ one.surface = l.surface /\ one.role = r
        /\ one.chosen = l.chosen /\ one.candidate = l.candidate /\ one.channel = l.channel
    BY <1>1, <1>4 DEF Setup!Local
  <2> HIDE DEF one
  <2>3. /\ two \in Setup!Local /\ two.surface = l.surface /\ two.role = r
        /\ two.chosen = l.chosen /\ two.candidate = l.candidate /\ two.channel = l.channel
        /\ two.made = {thing}
    BY <1>5, <2>2 DEF Setup!Local
  <2> HIDE DEF two
  <2>4. /\ three \in Setup!Local /\ three.surface = l.surface /\ three.role = r
        /\ three.chosen = l.chosen /\ three.candidate = l.candidate
        /\ three.channel = l.channel /\ three.made = {thing} /\ three.at = "channel"
    BY <2>3 DEF Setup!Local
  <2> HIDE DEF three
  <2>5. PICK new \in Setup!Local :
          /\ new = three /\ new.surface = l.surface /\ new.role = r /\ new.chosen = l.chosen
          /\ new.candidate = l.candidate /\ new.channel = l.channel /\ new.made = {thing}
          /\ new.at = "channel"
    BY <2>4
  <2>6. HandIsOlder(new)'
    <3>1. /\ l.chosen \in Nat /\ l.candidate \in Nat /\ l.channel \in Nat
          /\ newest'.channel \in Nat /\ newest.channel \in Nat /\ r \in Nat
      BY <1>1, <1>4, SetupNumbers, SetupFacts DEF SetupWorldTypes, Setup!Local
    <3> QED
      BY <1>1, <1>4, <2>5, <3>1 DEF HandIsOlder
  <2>7. HandFits(new)
    BY <1>2, <2>5 DEF HandFits
  <2>8. HandIsSure(new)'
    <3>1. row'.role # r
      BY <1>1, SetupFacts DEF NumberedWorld
    <3> QED
      BY <1>2, <2>5, <3>1 DEF HandIsSure
  <2>9. handler' = [handler EXCEPT ![h] = new] /\ thing \in new.made
    BY <2>1, <2>5
  <2> QED
    BY <1>8, <2>6, <2>7, <2>8, <2>9
<1> QED
  BY <1>9, <1>10 DEF Setup!CreateRole

\* What a setup goes on with that has its channel.
IsChannelHand(new, l, c, things, s) ==
  /\ new = [l EXCEPT !.channel = c, !.made = things, !.at = s]
  /\ new.surface = l.surface /\ new.role = l.role /\ new.chosen = l.chosen
  /\ new.candidate = l.candidate /\ new.channel = c /\ new.made = things /\ new.at = s

IsSyncedHand(new, l, c, s) ==
  /\ new = [l EXCEPT !.channel = c, !.at = s]
  /\ new.surface = l.surface /\ new.role = l.role /\ new.chosen = l.chosen
  /\ new.candidate = l.candidate /\ new.channel = c /\ new.made = l.made /\ new.at = s

\* There is such a hand.
LEMMA ChannelHand ==
  ASSUME NEW l \in Setup!Local, NEW c \in Setup!Channel, NEW things \in SUBSET Setup!Thing,
         NEW s \in SetupStep
  PROVE  \E new \in Setup!Local : IsChannelHand(new, l, c, things, s)
<1> DEFINE one == [l EXCEPT !.channel = c]
           two == [one EXCEPT !.made = things]
           new == [two EXCEPT !.at = s]
<1>1. new = [l EXCEPT !.channel = c, !.made = things, !.at = s]
  OBVIOUS
<1>2. /\ one \in Setup!Local /\ one.surface = l.surface /\ one.role = l.role
      /\ one.chosen = l.chosen /\ one.candidate = l.candidate /\ one.channel = c
  BY DEF Setup!Local
<1> HIDE DEF one
<1>3. /\ two \in Setup!Local /\ two.surface = l.surface /\ two.role = l.role
      /\ two.chosen = l.chosen /\ two.candidate = l.candidate /\ two.channel = c
      /\ two.made = things
  BY <1>2 DEF Setup!Local
<1> HIDE DEF two
<1>4. /\ new \in Setup!Local /\ new.surface = l.surface /\ new.role = l.role
      /\ new.chosen = l.chosen /\ new.candidate = l.candidate /\ new.channel = c
      /\ new.made = things /\ new.at = s
  BY <1>3 DEF Setup!Local, SetupStep
<1> HIDE DEF new
<1> QED
  BY <1>1, <1>4 DEF IsChannelHand

\* There is a hand with a channel and all that was made before.
LEMMA SyncedHand ==
  ASSUME NEW l \in Setup!Local, NEW c \in Setup!Channel, NEW s \in SetupStep
  PROVE  \E new \in Setup!Local : IsSyncedHand(new, l, c, s)
<1> DEFINE one == [l EXCEPT !.channel = c]
           new == [one EXCEPT !.at = s]
<1>1. new = [l EXCEPT !.channel = c, !.at = s]
  OBVIOUS
<1>2. /\ one \in Setup!Local /\ one.surface = l.surface /\ one.role = l.role
      /\ one.chosen = l.chosen /\ one.candidate = l.candidate /\ one.channel = c
      /\ one.made = l.made
  BY DEF Setup!Local
<1> HIDE DEF one
<1>3. /\ new \in Setup!Local /\ new.surface = l.surface /\ new.role = l.role
      /\ new.chosen = l.chosen /\ new.candidate = l.candidate /\ new.channel = c
      /\ new.made = l.made /\ new.at = s
  BY <1>2 DEF Setup!Local, SetupStep
<1> HIDE DEF new
<1> QED
  BY <1>1, <1>3 DEF IsSyncedHand

\* A setup goes on to take back what it made.
LEMMA UndoingHand ==
  ASSUME SetupInv, NEW h \in SetupHandler, handler[h].surface # "join" \/ handler[h].at = "channel",
         Setup!Goto(h, "undo"),
         newest'.role \in Nat, newest'.channel \in Nat,
         newest.role <= newest'.role, newest.channel <= newest'.channel, row' = row
  PROVE  \E new \in Setup!Local :
           /\ handler' = [handler EXCEPT ![h] = new] /\ new.made = handler[h].made
           /\ HandIsOlder(new)' /\ HandFits(new) /\ (HandIsSure(handler[h]) => HandIsSure(new)')
<1> DEFINE l == handler[h]
<1>1. l \in Setup!Local /\ HandFits(l) /\ HandIsOlder(l)
  BY SetupFacts
<1>2. handler' = [handler EXCEPT ![h] = [l EXCEPT !.at = "undo"]]
  BY SetupFacts DEF Setup!Goto
<1>3. PICK new \in Setup!Local :
        /\ new = [l EXCEPT !.at = "undo"] /\ new.at = "undo" /\ new.surface = l.surface
        /\ new.role = l.role /\ new.chosen = l.chosen /\ new.candidate = l.candidate
        /\ new.channel = l.channel /\ new.made = l.made
  <2>1. "undo" \in SetupStep
    BY DEF SetupStep
  <2>2. \E new \in Setup!Local : IsHandAt(new, l, "undo")
    BY <1>1, <2>1, HandGoesOn
  <2> QED
    BY <2>2, Zenon DEF IsHandAt
<1>4. HandIsOlder(new)'
  <2>1. /\ l.role \in Nat /\ l.chosen \in Nat /\ l.candidate \in Nat /\ l.channel \in Nat
        /\ newest.role \in Nat /\ newest.channel \in Nat
    BY <1>1, SetupNumbers, SetupFacts DEF Setup!Local
  <2> QED
    BY <1>1, <1>3, <2>1 DEF HandIsOlder
<1>5. HandFits(new)
  BY <1>1, <1>3 DEF HandFits
<1>6. HandIsSure(l) => HandIsSure(new)'
  BY <1>3 DEF HandIsSure
<1> QED
  BY <1>2, <1>3, <1>4, <1>5, <1>6

\* A setup lets its role into a channel that is there.
LEMMA SetupSyncsChannel ==
  ASSUME SetupInv, NEW h \in SetupHandler, Setup!SyncChannel(h)
  PROVE  SetupInv'
<1> DEFINE l == handler[h]
<1>1. PICK c \in Setup!Configured(h) :
        /\ admits' = [admits EXCEPT ![c] = l.role] /\ loose' = loose \cup {c}
        /\ \/ Setup!On(h, [l EXCEPT !.channel = c, !.at = Setup!AfterChannel(h)])
           \/ Setup!Goto(h, "undo")
  BY DEF Setup!SyncChannel
<1>2. /\ l \in Setup!Local /\ l.at = "channel" /\ l.chosen = 0 /\ HandFits(l) /\ HandIsOlder(l)
      /\ row' = row /\ roles' = roles /\ channels' = channels /\ newest' = newest
      /\ created' = created /\ saved' = saved /\ told' = told /\ dropped' = dropped
      /\ deleted' = deleted /\ doubt' = doubt
  BY SetupFacts DEF Setup!SyncChannel, Setup!At
<1>3. c \in channels
  BY <1>1 DEF Setup!Configured
<1>4. c \in Setup!Channel /\ l.role \in Setup!Role \cup {0} /\ c <= newest.channel
  BY <1>2, <1>3, SetupFacts DEF Setup!Local, NumberedWorld
<1>5. /\ admits' \in [Setup!Channel -> Setup!Role \cup {0}] /\ admits'[c] = l.role
      /\ \A x \in Setup!Channel : x # c => admits'[x] = admits[x]
  <2>1. admits \in [Setup!Channel -> Setup!Role \cup {0}]
    BY SetupFacts DEF SetupWorldTypes
  <2> QED
    BY <1>1, <1>4, <2>1
<1>6. SetupWorldTypes' /\ NumberedWorld'
  <2>1. SetupWorldTypes /\ NumberedWorld
    BY SetupFacts
  <2>2. loose' \subseteq Setup!Channel
    BY <1>1, <1>4, <2>1 DEF SetupWorldTypes
  <2> QED
    BY <1>2, <1>5, <2>1, <2>2, Zenon DEF SetupWorldTypes, NumberedWorld, Older
<1>7. ASSUME ~doubt'
      PROVE  ~doubt /\ OthersIdle(h) /\ RowFits' /\ HandIsSure(l)
  <2>1. ~doubt
    BY <1>2, <1>7
  <2>2. RowFits
    BY <2>1, Zenon DEF SetupInv, Undoubted
  <2>3. RowFits'
    BY <1>1, <1>2, <1>5, <2>2, SetupFacts DEF RowFits
  <2> QED
    BY <1>2, <2>1, <2>3, AloneAtWork, SetupFacts
<1>8. /\ newest.role \in Nat /\ newest.channel \in Nat /\ newest'.role \in Nat
      /\ newest'.channel \in Nat /\ newest.role <= newest'.role
      /\ newest.channel <= newest'.channel
  BY <1>2, SetupFacts
<1>9. ASSUME NEW new \in Setup!Local, handler' = [handler EXCEPT ![h] = new],
             HandIsOlder(new)', HandFits(new), HandIsSure(l) => HandIsSure(new)',
             new.made = l.made
      PROVE  SetupInv'
  <2>1. NothingLost(h, new)
    BY <1>2, <1>9 DEF NothingLost, Setup!Exists
  <2> QED
    BY <1>6, <1>7, <1>8, <1>9, <2>1, SetupMove
<1>10. CASE Setup!Goto(h, "undo")
  <2>1. PICK new \in Setup!Local :
          /\ handler' = [handler EXCEPT ![h] = new] /\ new.made = l.made
          /\ HandIsOlder(new)' /\ HandFits(new) /\ (HandIsSure(l) => HandIsSure(new)')
    BY <1>2, <1>8, <1>10, UndoingHand
  <2> QED
    BY <1>9, <2>1
<1>11. CASE Setup!On(h, [l EXCEPT !.channel = c, !.at = Setup!AfterChannel(h)])
  <2>1. PICK s \in {"save", "final"} :
          s = Setup!AfterChannel(h) /\ (s = "save" <=> l.surface = "join")
    BY DEF Setup!AfterChannel, Setup!Is
  <2>2. PICK new \in Setup!Local : IsSyncedHand(new, l, c, s)
    <3>1. s \in SetupStep
      BY DEF SetupStep
    <3> QED
      BY <1>2, <1>4, <3>1, SyncedHand
  <2>3. handler' = [handler EXCEPT ![h] = new]
    BY <1>11, <2>1, <2>2 DEF Setup!On, IsSyncedHand
  <2>4. HandIsOlder(new)'
    BY <1>2, <1>4, <2>2 DEF HandIsOlder, IsSyncedHand
  <2>5. HandFits(new) /\ new.made = l.made
    <3>1. c # 0
      BY <1>4, SetupNumbers
    <3> QED
      BY <1>2, <2>1, <2>2, <3>1 DEF HandFits, IsSyncedHand
  <2>6. ASSUME HandIsSure(l)
        PROVE  HandIsSure(new)'
    <3>1. l.surface = "join" => l.role = row.role
      BY <1>2, <2>6 DEF HandIsSure
    <3> QED
      BY <1>2, <1>3, <1>5, <2>1, <2>2, <2>6, <3>1 DEF HandIsSure, IsSyncedHand
  <2> QED
    BY <1>9, <2>3, <2>4, <2>5, <2>6
<1> QED
  BY <1>1, <1>10, <1>11

\* A setup creates the channel.
LEMMA SetupCreatesChannel ==
  ASSUME SetupInv, NEW h \in SetupHandler, Setup!CreateChannel(h)
  PROVE  SetupInv'
<1> DEFINE l == handler[h]
           c == newest.channel + 1
           thing == <<"channel", c>>
<1>1. /\ l \in Setup!Local /\ l.at = "channel" /\ l.chosen = 0 /\ HandFits(l) /\ HandIsOlder(l)
      /\ newest.channel < MaxChannels /\ newest' = [newest EXCEPT !.channel = c]
      /\ channels' = channels \cup {c} /\ created' = created \cup {thing}
      /\ admits' = [admits EXCEPT ![c] = l.role]
      /\ row' = row /\ roles' = roles /\ saved' = saved
      /\ told' = told /\ deleted' = deleted /\ loose' = loose /\ doubt' = doubt
  BY SetupFacts DEF Setup!CreateChannel, Setup!At
<1>2. l.role \in Setup!Role \cup {0}
  BY <1>1 DEF Setup!Local
<1>3. dropped' = dropped \/ dropped' = dropped \cup {thing}
  BY DEF Setup!CreateChannel
<1>4. /\ SetupWorldTypes' /\ NumberedWorld'
      /\ c \in Setup!Channel /\ newest'.channel = c
      /\ newest.role <= newest'.role /\ newest.channel <= newest'.channel
      /\ RowFits => RowFits'
  <2>1. \E r \in Setup!Role \cup {0} : admits' = [admits EXCEPT ![newest.channel + 1] = r]
    BY <1>1, <1>2
  <2> QED
    BY <1>1, <1>3, <2>1, ChannelAppears
<1>5. thing \in Setup!Thing /\ thing \notin created
  <2>1. thing \in Setup!Thing
    BY <1>4 DEF Setup!Thing
  <2>2. ~Older(thing)
    BY SetupFacts DEF Older
  <2> QED
    BY <2>1, <2>2, SetupFacts DEF NumberedWorld
<1>6. \A x \in created : Setup!Exists(x)' => Setup!Exists(x)
  BY <1>1, <1>5, NothingReappears
<1>7. ASSUME ~doubt'
      PROVE  ~doubt /\ OthersIdle(h) /\ RowFits' /\ HandIsSure(l)
  <2>1. ~doubt
    BY <1>1, <1>7
  <2>2. RowFits
    BY <2>1, Zenon DEF SetupInv, Undoubted
  <2> QED
    BY <1>1, <1>4, <2>1, <2>2, AloneAtWork, SetupFacts
<1>8. ASSUME NEW new \in Setup!Local, handler' = [handler EXCEPT ![h] = new],
             HandIsOlder(new)', HandFits(new), HandIsSure(l) => HandIsSure(new)',
             l.made \subseteq new.made, thing \in dropped' \cup new.made
      PROVE  SetupInv'
  <2>1. dropped \subseteq dropped' /\ saved \subseteq saved' /\ told \subseteq told'
    BY <1>1, <1>3
  <2>2. NothingLost(h, new)
    <3> SUFFICES ASSUME NEW x \in created', Setup!Exists(x)'
                 PROVE  \/ x \in saved' \cup told' \cup dropped' \cup new.made
                        \/ x \in created /\ Setup!Exists(x) /\ x \notin l.made
      BY <2>1 DEF NothingLost
    <3>1. x = thing \/ x \in created
      BY <1>1
    <3> QED
      BY <1>6, <1>8, <3>1
  <2> QED
    BY <1>4, <1>7, <1>8, <2>2, SetupMove
<1>9. newest'.role \in Nat /\ newest'.channel \in Nat
  BY <1>4, SetupNumbers DEF SetupWorldTypes
<1>10. CASE Setup!Goto(h, "undo") /\ dropped' = dropped \cup {thing}
  <2>1. PICK new \in Setup!Local :
          /\ handler' = [handler EXCEPT ![h] = new] /\ new.made = l.made
          /\ HandIsOlder(new)' /\ HandFits(new) /\ (HandIsSure(l) => HandIsSure(new)')
    BY <1>1, <1>4, <1>9, <1>10, UndoingHand
  <2> QED
    BY <1>8, <1>10, <2>1
<1>11. CASE Setup!On(h, [l EXCEPT !.channel = c, !.made = l.made \cup {thing},
                           !.at = Setup!AfterChannel(h)])
  <2>1. PICK s \in {"save", "final"} :
          s = Setup!AfterChannel(h) /\ (s = "save" <=> l.surface = "join")
    BY DEF Setup!AfterChannel, Setup!Is
  <2>2. PICK things \in SUBSET Setup!Thing : things = l.made \cup {thing}
    BY <1>1, <1>5 DEF Setup!Local
  <2>3. PICK new \in Setup!Local : IsChannelHand(new, l, c, things, s)
    <3>1. s \in SetupStep
      BY DEF SetupStep
    <3> QED
      BY <1>1, <1>4, <3>1, ChannelHand
  <2>4. handler' = [handler EXCEPT ![h] = new]
    BY <1>11, <2>1, <2>2, <2>3 DEF Setup!On, IsChannelHand
  <2>5. /\ new.surface = l.surface /\ new.role = l.role /\ new.chosen = 0
        /\ new.candidate = l.candidate /\ new.channel = c /\ new.made = l.made \cup {thing}
        /\ new.at = s
    BY <1>1, <2>2, <2>3 DEF IsChannelHand
  <2>6. HandIsOlder(new)'
    <3>1. /\ l.role \in Nat /\ l.chosen \in Nat /\ l.candidate \in Nat
          /\ newest.role \in Nat /\ newest.channel \in Nat
      BY <1>1, SetupNumbers, SetupFacts DEF Setup!Local
    <3> QED
      BY <1>1, <1>4, <1>9, <2>5, <3>1 DEF HandIsOlder
  <2>7. HandFits(new)
    <3>1. l.made \subseteq {<<"role", l.role>>} /\ (l.surface = "join" => l.made = {})
      BY <1>1 DEF HandFits
    <3>2. c # 0
      BY <1>4, SetupNumbers
    <3> QED
      BY <2>1, <2>5, <3>1, <3>2 DEF HandFits
  <2>8. ASSUME HandIsSure(l)
        PROVE  HandIsSure(new)'
    <3>1. l.surface = "join" => l.role = row.role
      BY <1>1, <2>8 DEF HandIsSure
    <3>2. row'.channel # c
      BY <1>1, SetupFacts DEF NumberedWorld
    <3>3. <<"role", row'.role>> \notin new.made /\ <<"channel", row'.channel>> \notin new.made
      BY <1>1, <2>5, <2>8, <3>2 DEF HandIsSure
    <3>4. admits'[c] = l.role /\ c \in channels'
      <4>1. admits \in [Setup!Channel -> Setup!Role \cup {0}]
        BY SetupFacts DEF SetupWorldTypes
      <4> QED
        BY <1>1, <1>4, <4>1
    <3> QED
      BY <1>1, <2>1, <2>5, <3>1, <3>3, <3>4 DEF HandIsSure
  <2> QED
    BY <1>8, <2>4, <2>5, <2>6, <2>7, <2>8
<1> QED
  BY <1>10, <1>11 DEF Setup!CreateChannel

\* The row that a setup writes names all that the setup made.
LEMMA SetupWrites ==
  ASSUME SetupInv, NEW h \in SetupHandler, handler[h].at = "save", Setup!Write(h),
         UNCHANGED <<roles, channels, newest, admits, created, told, deleted>>
  PROVE  /\ row' \in [role : Setup!Role \cup {0}, channel : Setup!Channel \cup {0}]
         /\ row'.role <= newest.role /\ row'.channel <= newest.channel
         /\ saved \subseteq saved' /\ saved' \subseteq Setup!Thing /\ loose' \subseteq Setup!Channel
         /\ handler[h].made \subseteq saved'
         /\ ~doubt => RowFits'
<1> DEFINE l == handler[h]
           role == IF l.surface = "join" THEN row.role ELSE l.role
<1>1. /\ l \in Setup!Local /\ l.at = "save" /\ HandFits(l) /\ HandIsOlder(l)
      /\ ~doubt => HandIsSure(l)
  BY SetupFacts
<1>2. row' = [role |-> role, channel |-> l.channel]
  BY DEF Setup!Write, Setup!Config, Setup!Is
<1>3. role \in Setup!Role \cup {0} /\ role <= newest.role
  BY <1>1, SetupFacts DEF Setup!Local, HandIsOlder, NumberedWorld
<1>4. l.channel \in Setup!Channel \cup {0} /\ l.channel <= newest.channel
  BY <1>1 DEF Setup!Local, HandIsOlder
<1> HIDE DEF role
<1>5. row'.role = role /\ row'.channel = l.channel
  BY <1>2
<1>6. row' \in [role : Setup!Role \cup {0}, channel : Setup!Channel \cup {0}]
  BY <1>2, <1>3, <1>4
<1>7. saved' = saved \cup ({<<"role", role>>, <<"channel", l.channel>>} \cap Setup!Thing)
  BY <1>5 DEF Setup!Write, Setup!Things
<1>8. saved \subseteq saved' /\ saved' \subseteq Setup!Thing
  BY <1>7, SetupFacts DEF SetupWorldTypes
<1>9. loose' \subseteq Setup!Channel
  <2>1. loose \subseteq Setup!Channel
    BY SetupFacts DEF SetupWorldTypes
  <2>2. CASE l.chosen = 0
    BY <2>1, <2>2 DEF Setup!Write
  <2>3. CASE l.chosen # 0 /\ l.channel # 0
    BY <1>4, <2>1, <2>3 DEF Setup!Write
  <2>4. CASE l.chosen # 0 /\ l.channel = 0
    BY <1>1, <2>4 DEF HandFits
  <2> QED
    BY <2>2, <2>3, <2>4
<1>10. l.made \subseteq saved'
  <2> SUFFICES ASSUME NEW thing \in l.made
               PROVE  thing \in saved'
    OBVIOUS
  <2>1. thing \in Setup!Thing
    BY <1>1 DEF Setup!Local
  <2>2. thing = <<"role", l.role>> \/ thing = <<"channel", l.channel>>
    BY <1>1 DEF HandFits
  <2>3. l.surface = "join" => thing = <<"channel", l.channel>>
    BY <1>1, <2>2 DEF HandFits
  <2>4. thing = <<"role", role>> \/ thing = <<"channel", l.channel>>
    BY <2>2, <2>3 DEF role
  <2> QED
    BY <1>7, <2>1, <2>4
<1>11. ASSUME ~doubt
       PROVE  RowFits'
  <2>1. HandIsSure(l) /\ RowFits
    BY <1>1, <1>11, Zenon DEF SetupInv, Undoubted
  <2>2. role # 0 => role \in roles \/ <<"role", role>> \in deleted
    BY <1>1, <2>1 DEF HandIsSure, RowFits, role
  <2>3. l.channel # 0 => l.channel \in channels \/ <<"channel", l.channel>> \in deleted
    BY <1>1, <2>1 DEF HandIsSure
  <2>4. ASSUME l.channel \in channels, l.channel \notin loose'
        PROVE  admits[l.channel] = role
    <3>1. l.chosen = 0
      BY <2>4 DEF Setup!Write
    <3>2. l.channel # 0
      BY <2>4, SetupNumbers, SetupFacts
    <3>3. admits[l.channel] = l.role
      BY <1>1, <2>1, <3>1, <3>2 DEF HandIsSure
    <3>4. l.surface = "join" => l.role = row.role
      BY <1>1, <2>1 DEF HandIsSure
    <3> QED
      BY <3>3, <3>4 DEF role
  <2> QED
    BY <1>5, <2>2, <2>3, <2>4 DEF RowFits
<1> QED
  BY <1>5, <1>3, <1>4, <1>6, <1>8, <1>9, <1>10, <1>11

\* A setup saves.
LEMMA SetupSaves ==
  ASSUME SetupInv, NEW h \in SetupHandler, Setup!Save(h)
  PROVE  SetupInv'
<1>1. /\ handler[h].at = "save" /\ Setup!Write(h)
      /\ handler' = [handler EXCEPT ![h] = Setup!Idle]
      /\ roles' = roles /\ channels' = channels /\ newest' = newest /\ admits' = admits
      /\ created' = created /\ told' = told /\ dropped' = dropped /\ deleted' = deleted
      /\ doubt' = doubt
  BY DEF Setup!Save, Setup!At, Setup!Return, Setup!On, Setup!world
<1>2. /\ row' \in [role : Setup!Role \cup {0}, channel : Setup!Channel \cup {0}]
      /\ row'.role <= newest.role /\ row'.channel <= newest.channel
      /\ saved \subseteq saved' /\ saved' \subseteq Setup!Thing /\ loose' \subseteq Setup!Channel
      /\ handler[h].made \subseteq saved'
      /\ ~doubt => RowFits'
  BY <1>1, SetupWrites
<1>3. SetupWorldTypes'
  <2>1. SetupWorldTypes
    BY SetupFacts
  <2>2. UNION {created', saved', told', dropped', deleted'} \subseteq Setup!Thing
    BY <1>1, <1>2, <2>1 DEF SetupWorldTypes
  <2> QED
    BY <1>1, <1>2, <2>1, <2>2, Zenon DEF SetupWorldTypes
<1>4. NumberedWorld'
  BY <1>1, <1>2, SetupFacts DEF NumberedWorld, Older
<1>5. PICK new \in Setup!Local : new = Setup!Idle
  BY NoSetup
<1>6. /\ handler' = [handler EXCEPT ![h] = new] /\ HandFits(new) /\ new.at = "idle"
      /\ new.made = {}
  BY <1>1, <1>5, NoSetup
<1>7. HandIsOlder(new)'
  BY <1>1, <1>5, NoSetup, SetupFacts DEF HandIsOlder
<1>8. NothingLost(h, new)
  BY <1>1, <1>2 DEF NothingLost, Setup!Exists
<1>9. ASSUME ~doubt'
      PROVE  ~doubt /\ OthersIdle(h) /\ RowFits' /\ HandIsSure(new)'
  <2>1. ~doubt
    BY <1>1, <1>9
  <2>2. HandIsSure(new)'
    BY <1>6 DEF HandIsSure
  <2> QED
    BY <1>1, <1>2, <2>1, <2>2, AloneAtWork
<1>10. newest.role <= newest'.role /\ newest.channel <= newest'.channel
  BY <1>1, SetupFacts
<1> QED
  BY <1>3, <1>4, <1>6, <1>7, <1>8, <1>9, <1>10, SetupMove

\* Its save fails, or its answer is lost.
LEMMA SetupSaveFails ==
  ASSUME SetupInv, NEW h \in SetupHandler, Setup!SaveFails(h)
  PROVE  SetupInv'
<1> DEFINE l == handler[h]
<1>1. /\ l.at = "save"
      /\ roles' = roles /\ channels' = channels /\ newest' = newest /\ admits' = admits
      /\ created' = created /\ told' = told /\ deleted' = deleted
      /\ \/ row' = row /\ saved' = saved /\ loose' = loose /\ doubt' = doubt
         \/ Setup!Write(h) /\ doubt' = TRUE
      /\ IF l.surface = "join" THEN Setup!Return(h) /\ dropped' = dropped \cup l.made
         ELSE Setup!Goto(h, "undo") /\ dropped' = dropped
  BY DEF Setup!SaveFails, Setup!At, Setup!Is, Setup!world
<1>2. l \in Setup!Local /\ HandFits(l) /\ HandIsOlder(l) /\ SetupWorldTypes /\ NumberedWorld
  BY SetupFacts
<1>3. /\ row' \in [role : Setup!Role \cup {0}, channel : Setup!Channel \cup {0}]
      /\ row'.role <= newest.role /\ row'.channel <= newest.channel
      /\ saved \subseteq saved' /\ saved' \subseteq Setup!Thing /\ loose' \subseteq Setup!Channel
  <2>1. CASE Setup!Write(h)
    BY <1>1, <2>1, SetupWrites
  <2>2. CASE row' = row /\ saved' = saved /\ loose' = loose
    BY <1>2, <2>2, Zenon DEF SetupWorldTypes, NumberedWorld
  <2> QED
    BY <1>1, <2>1, <2>2
<1>4. doubt' \in BOOLEAN
  BY <1>1, <1>2, Zenon DEF SetupWorldTypes
<1>5. dropped \subseteq dropped' /\ dropped' \subseteq Setup!Thing
  BY <1>1, <1>2 DEF SetupWorldTypes, Setup!Local
<1>6. SetupWorldTypes'
  <2>1. UNION {created', saved', told', dropped', deleted'} \subseteq Setup!Thing
    BY <1>1, <1>2, <1>3, <1>5 DEF SetupWorldTypes
  <2> QED
    BY <1>1, <1>2, <1>3, <1>4, <2>1, Zenon DEF SetupWorldTypes
<1>7. NumberedWorld'
  BY <1>1, <1>2, <1>3 DEF NumberedWorld, Older
<1>8. /\ newest.role <= newest'.role /\ newest.channel <= newest'.channel
      /\ newest'.role \in Nat /\ newest'.channel \in Nat
  BY <1>1, SetupFacts
<1>9. ASSUME ~doubt'
      PROVE  ~doubt /\ OthersIdle(h) /\ RowFits' /\ HandIsSure(l) /\ row' = row
  <2>1. row' = row /\ loose' = loose /\ doubt' = doubt
    BY <1>1, <1>9
  <2>2. ~doubt
    BY <1>9, <2>1
  <2>3. RowFits
    BY <2>2, Zenon DEF SetupInv, Undoubted
  <2>4. RowFits'
    BY <1>1, <2>1, <2>3 DEF RowFits
  <2> QED
    BY <1>1, <2>1, <2>2, <2>4, AloneAtWork, SetupFacts
<1>10. ASSUME NEW new \in Setup!Local, handler' = [handler EXCEPT ![h] = new],
              HandIsOlder(new)', HandFits(new), ~doubt' => HandIsSure(new)',
              l.made \subseteq dropped' \cup new.made
       PROVE  SetupInv'
  <2>1. NothingLost(h, new)
    BY <1>1, <1>3, <1>5, <1>10 DEF NothingLost, Setup!Exists
  <2> QED
    BY <1>6, <1>7, <1>8, <1>9, <1>10, <2>1, SetupMove
<1>11. CASE l.surface = "join"
  <2>1. PICK new \in Setup!Local : new = Setup!Idle
    BY NoSetup
  <2>2. handler' = [handler EXCEPT ![h] = new]
    BY <1>1, <1>11, <2>1 DEF Setup!Return, Setup!On
  <2>3. HandIsOlder(new)'
    BY <1>8, <2>1, NoSetup DEF HandIsOlder
  <2>4. HandFits(new) /\ new.at = "idle" /\ new.made = {}
    BY <2>1, NoSetup
  <2>5. HandIsSure(new)'
    BY <2>4 DEF HandIsSure
  <2> QED
    BY <1>1, <1>10, <1>11, <2>2, <2>3, <2>4, <2>5
<1>12. CASE l.surface # "join"
  <2>1. handler' = [handler EXCEPT ![h] = [l EXCEPT !.at = "undo"]]
    BY <1>1, <1>12, SetupFacts DEF Setup!Goto
  <2>2. PICK new \in Setup!Local :
          /\ new = [l EXCEPT !.at = "undo"] /\ new.at = "undo" /\ new.surface = l.surface
          /\ new.role = l.role /\ new.chosen = l.chosen /\ new.candidate = l.candidate
          /\ new.channel = l.channel /\ new.made = l.made
    <3>1. "undo" \in SetupStep
      BY DEF SetupStep
    <3>2. \E new \in Setup!Local : IsHandAt(new, l, "undo")
      BY <1>2, <3>1, HandGoesOn
    <3> QED
      BY <3>2, Zenon DEF IsHandAt
  <2>3. HandIsOlder(new)'
    BY <1>1, <1>2, <2>2 DEF HandIsOlder
  <2>4. HandFits(new)
    BY <1>12, <2>2 DEF HandFits
  <2>5. ~doubt' => HandIsSure(new)'
    BY <1>9, <2>2 DEF HandIsSure
  <2>6. handler' = [handler EXCEPT ![h] = new] /\ l.made \subseteq new.made
    BY <2>1, <2>2
  <2> QED
    BY <1>10, <2>3, <2>4, <2>5, <2>6
<1> QED
  BY <1>11, <1>12

\* The first of what was made is one of it.
LEMMA FirstIsOne ==
  ASSUME NEW made \in SUBSET Setup!Thing, made # {}
  PROVE  Setup!FirstOf(made) \in made
<1>1. \E thing \in made : thing[1] = "channel" \/ \A other \in made : other[1] = "role"
  BY DEF Setup!Thing
<1> QED
  BY <1>1 DEF Setup!FirstOf

\* A setup takes back one of the things it made.
LEMMA SetupUndoes ==
  ASSUME SetupInv, NEW h \in SetupHandler, Setup!Undo(h)
  PROVE  SetupInv'
<1> DEFINE l == handler[h]
           thing == Setup!FirstOf(l.made)
<1>1. /\ l \in Setup!Local /\ l.at = "undo" /\ l.made # {} /\ HandFits(l) /\ HandIsOlder(l)
      /\ SetupWorldTypes /\ NumberedWorld
      /\ row' = row /\ newest' = newest /\ admits' = admits /\ created' = created
      /\ saved' = saved /\ dropped' = dropped /\ deleted' = deleted /\ loose' = loose
      /\ doubt' = doubt
  BY SetupFacts DEF Setup!Undo, Setup!At
<1>2. handler' = [handler EXCEPT ![h] = [l EXCEPT !.made = l.made \ {thing}]]
  BY DEF Setup!Undo, Setup!On, Setup!AfterUndo
<1>3. thing \in l.made /\ thing \in Setup!Thing
  <2>1. l.made \in SUBSET Setup!Thing
    BY <1>1 DEF Setup!Local
  <2> QED
    BY <1>1, <2>1, FirstIsOne
<1>4. \/ Setup!Without(thing) /\ told' = told
      \/ told' = told \cup {thing} /\ (Setup!Without(thing) \/ UNCHANGED <<roles, channels>>)
  BY DEF Setup!Undo
<1> HIDE DEF thing
<1>5. PICK new \in Setup!Local :
        /\ new = [l EXCEPT !.made = l.made \ {thing}] /\ new.made = l.made \ {thing}
        /\ new.at = l.at /\ new.surface = l.surface /\ new.role = l.role
        /\ new.chosen = l.chosen /\ new.candidate = l.candidate /\ new.channel = l.channel
  <2> DEFINE one == [l EXCEPT !.made = l.made \ {thing}]
  <2>1. /\ one \in Setup!Local /\ one.made = l.made \ {thing}
        /\ one.at = l.at /\ one.surface = l.surface /\ one.role = l.role
        /\ one.chosen = l.chosen /\ one.candidate = l.candidate /\ one.channel = l.channel
    BY <1>1 DEF Setup!Local
  <2>2. one = [l EXCEPT !.made = l.made \ {thing}]
    OBVIOUS
  <2> HIDE DEF one
  <2> QED
    BY <2>1, <2>2
<1>6. /\ roles' \subseteq roles /\ channels' \subseteq channels
      /\ \A r \in roles : r \in roles' \/ thing = <<"role", r>>
      /\ \A c \in channels : c \in channels' \/ thing = <<"channel", c>>
      /\ told \subseteq told' /\ told' \subseteq told \cup {thing}
  BY <1>3, <1>4 DEF Setup!Without, Setup!Thing
<1>7. SetupWorldTypes'
  <2>1. UNION {created', saved', told', dropped', deleted'} \subseteq Setup!Thing
    BY <1>1, <1>3, <1>6 DEF SetupWorldTypes
  <2>2. roles' \subseteq Setup!Role /\ channels' \subseteq Setup!Channel
    BY <1>1, <1>6 DEF SetupWorldTypes
  <2> QED
    BY <1>1, <2>1, <2>2, Zenon DEF SetupWorldTypes
<1>8. NumberedWorld'
  BY <1>1, <1>6 DEF NumberedWorld, Older
<1>9. HandIsOlder(new)' /\ HandFits(new)
  BY <1>1, <1>5 DEF HandIsOlder, HandFits
<1>10. NothingLost(h, new)
  <2>1. ASSUME NEW x \in created', Setup!Exists(x)'
        PROVE  \/ x \in saved' \cup told' \cup dropped' \cup new.made
               \/ x \in created /\ Setup!Exists(x) /\ x \notin l.made
    <3>1. CASE x = thing
      <4>1. ~Setup!Without(thing)
        BY <1>3, <2>1, <3>1 DEF Setup!Without, Setup!Exists, Setup!Thing
      <4> QED
        BY <1>4, <3>1, <4>1
    <3>2. CASE x # thing
      BY <1>1, <1>5, <1>6, <2>1, <3>2 DEF Setup!Exists
    <3> QED
      BY <3>1, <3>2
  <2> QED
    BY <1>1, <1>6, <2>1 DEF NothingLost
<1>11. ASSUME ~doubt'
       PROVE  ~doubt /\ OthersIdle(h) /\ RowFits' /\ HandIsSure(new)'
  <2>1. ~doubt
    BY <1>1, <1>11
  <2>2. RowFits /\ HandIsSure(l)
    BY <2>1, SetupFacts, Zenon DEF SetupInv, Undoubted
  <2>3. thing # <<"role", row.role>> /\ thing # <<"channel", row.channel>>
    BY <1>3, <2>2 DEF HandIsSure
  <2>4. RowFits'
    BY <1>1, <1>6, <2>2, <2>3 DEF RowFits
  <2>5. HandIsSure(new)'
    BY <1>1, <1>5, <2>2 DEF HandIsSure
  <2> QED
    BY <1>1, <2>1, <2>4, <2>5, AloneAtWork
<1>12. newest.role <= newest'.role /\ newest.channel <= newest'.channel
  BY <1>1, SetupFacts
<1>13. handler' = [handler EXCEPT ![h] = new]
  BY <1>2, <1>5
<1> QED
  BY <1>7, <1>8, <1>9, <1>10, <1>11, <1>12, <1>13, SetupMove

\* A crash ends all setups and drops what they made.
LEMMA SetupsCrash ==
  ASSUME SetupInv, Setup!Crash
  PROVE  SetupInv'
<1>1. /\ handler' = [h \in SetupHandler |-> Setup!Idle]
      /\ dropped' = dropped \cup UNION {handler[h].made : h \in SetupHandler}
      /\ row' = row /\ roles' = roles /\ channels' = channels /\ newest' = newest
      /\ admits' = admits /\ created' = created /\ saved' = saved /\ told' = told
      /\ deleted' = deleted /\ loose' = loose /\ doubt' = doubt
  BY DEF Setup!Crash, Setup!world
<1>2. \A h \in SetupHandler : handler[h].made \subseteq Setup!Thing
  BY SetupFacts DEF Setup!Local
<1>3. dropped' \subseteq Setup!Thing
  BY <1>1, <1>2, SetupFacts DEF SetupWorldTypes
<1>4. SetupWorldTypes /\ NumberedWorld
  BY SetupFacts
<1>5. SetupTypes'
  <2>1. UNION {created', saved', told', dropped', deleted'} \subseteq Setup!Thing
    BY <1>1, <1>3, <1>4 DEF SetupWorldTypes
  <2>2. handler' \in [SetupHandler -> Setup!Local]
    BY <1>1, NoSetup
  <2> QED
    BY <1>1, <1>4, <2>1, <2>2, Zenon DEF SetupWorldTypes, SetupTypes
<1>6. \A h \in SetupHandler : handler'[h] = Setup!Idle
  BY <1>1
<1>7. Numbered'
  <2>1. HandIsOlder(Setup!Idle)'
    BY <1>1, NoSetup DEF HandIsOlder
  <2>2. \A h \in SetupHandler : HandIsOlder(handler[h])'
    BY <1>6, <2>1 DEF HandIsOlder
  <2>3. NumberedWorld'
    BY <1>1, <1>4, Zenon DEF NumberedWorld, Older
  <2> QED
    BY <2>2, <2>3 DEF Numbered, NumberedWorld
<1>8. \A h \in SetupHandler : HandFits(handler'[h])
  BY <1>6, NoSetup
<1>9. Setup!NothingIsLeft'
  <2> SUFFICES ASSUME NEW thing \in created', Setup!Exists(thing)'
               PROVE  thing \in saved' \cup told' \cup dropped'
    BY DEF Setup!NothingIsLeft
  <2>1. Setup!Exists(thing)
    BY <1>1 DEF Setup!Exists
  <2>2. \/ thing \in saved \cup told \cup dropped
        \/ \E h \in SetupHandler : thing \in handler[h].made
    BY <1>1, <2>1 DEF SetupInv, Setup!NothingIsLeft
  <2> QED
    BY <1>1, <2>2
<1>10. ASSUME ~doubt'
       PROVE  Undoubted'
  <2>1. ~doubt
    BY <1>1, <1>10
  <2>2. RowFits
    BY <2>1, Zenon DEF SetupInv, Undoubted
  <2>3. RowFits'
    BY <1>1, <2>2, Zenon DEF RowFits
  <2>4. Alone'
    BY <1>6, NoSetup DEF Alone
  <2>5. HandIsSure(Setup!Idle)'
    BY NoSetup DEF HandIsSure
  <2>6. \A h \in SetupHandler : HandIsSure(handler[h])'
    BY <1>6, <2>5, Zenon DEF HandIsSure
  <2> QED
    BY <2>3, <2>4, <2>6 DEF Undoubted
<1> QED
  BY <1>5, <1>7, <1>8, <1>9, <1>10, Zenon DEF SetupInv

\* What administrators do changes nothing that a setup has in hand.
LEMMA SetupOutside ==
  ASSUME SetupInv,
         UNCHANGED <<row, admits, handler, created, saved, told, dropped, loose, doubt>>,
         SetupWorldTypes', NumberedWorld',
         newest.role <= newest'.role, newest.channel <= newest'.channel,
         \A r \in roles : r \in roles' \/ <<"role", r>> \in deleted',
         \A c \in channels : c \in channels' \/ <<"channel", c>> \in deleted',
         deleted \subseteq deleted',
         \A thing \in created : Setup!Exists(thing)' => Setup!Exists(thing),
         RowFits => RowFits'
  PROVE  SetupInv'
<1>1. /\ row' = row /\ admits' = admits /\ handler' = handler /\ created' = created
      /\ saved' = saved /\ told' = told /\ dropped' = dropped /\ loose' = loose
      /\ doubt' = doubt
  OBVIOUS
<1>2. handler \in [SetupHandler -> Setup!Local]
  BY SetupFacts
<1>3. SetupTypes'
  BY <1>1, <1>2, Zenon DEF SetupTypes, SetupWorldTypes
<1>4. Numbered'
  <2>1. ASSUME NEW h \in SetupHandler
        PROVE  HandIsOlder(handler[h])'
    <3>1. HandIsOlder(handler[h]) /\ handler[h] \in Setup!Local
      BY SetupFacts
    <3>2. /\ handler[h].role \in Nat /\ handler[h].chosen \in Nat
          /\ handler[h].candidate \in Nat /\ handler[h].channel \in Nat
      BY <3>1, SetupNumbers DEF Setup!Local
    <3>3. newest.role \in Nat /\ newest.channel \in Nat /\ newest'.role \in Nat /\ newest'.channel \in Nat
      BY SetupFacts, SetupNumbers DEF SetupWorldTypes
    <3> QED
      BY <1>1, <3>1, <3>2, <3>3 DEF HandIsOlder
  <2> QED
    BY <2>1 DEF Numbered, NumberedWorld
<1>5. \A h \in SetupHandler : HandFits(handler'[h])
  BY <1>1, SetupFacts
<1>6. Setup!NothingIsLeft'
  BY <1>1 DEF SetupInv, Setup!NothingIsLeft
<1>7. ASSUME ~doubt'
      PROVE  Undoubted'
  <2>1. ~doubt
    BY <1>1, <1>7
  <2>2. Undoubted
    BY <2>1, Zenon DEF SetupInv
  <2>3. RowFits' /\ Alone'
    BY <1>1, <2>2 DEF Undoubted, Alone
  <2>4. ASSUME NEW h \in SetupHandler
        PROVE  HandIsSure(handler[h])'
    <3>1. HandIsSure(handler[h])
      BY <2>2 DEF Undoubted
    <3> QED
      BY <1>1, <3>1 DEF HandIsSure
  <2> QED
    BY <2>3, <2>4 DEF Undoubted
<1> QED
  BY <1>3, <1>4, <1>5, <1>6, <1>7, Zenon DEF SetupInv

\* An administrator deletes a role or a channel.
LEMMA SetupLoses ==
  ASSUME SetupInv, Setup!DeleteThing
  PROVE  SetupInv'
<1>1. PICK thing \in Setup!Thing :
        /\ Setup!Without(thing) /\ deleted' = deleted \cup {thing}
        /\ UNCHANGED <<row, newest, admits, handler, created, saved, told, dropped, loose, doubt>>
  BY DEF Setup!DeleteThing
<1>2. SetupWorldTypes /\ NumberedWorld
  BY SetupFacts
<1>3. /\ roles' \subseteq roles /\ channels' \subseteq channels
      /\ \A r \in roles : r \in roles' \/ thing = <<"role", r>>
      /\ \A c \in channels : c \in channels' \/ thing = <<"channel", c>>
  BY <1>1 DEF Setup!Without, Setup!Thing
<1>4. SetupWorldTypes'
  <2>1. /\ row' = row /\ newest' = newest /\ admits' = admits /\ created' = created
        /\ saved' = saved /\ told' = told /\ dropped' = dropped /\ loose' = loose
        /\ doubt' = doubt
    BY <1>1
  <2>2. UNION {created', saved', told', dropped', deleted'} \subseteq Setup!Thing
    BY <1>1, <1>2, <2>1 DEF SetupWorldTypes
  <2>3. roles' \subseteq Setup!Role /\ channels' \subseteq Setup!Channel
    BY <1>2, <1>3 DEF SetupWorldTypes
  <2> QED
    BY <1>2, <2>1, <2>2, <2>3, Zenon DEF SetupWorldTypes
<1>5. NumberedWorld'
  BY <1>1, <1>2, <1>3 DEF NumberedWorld, Older
<1>6. \A x \in created : Setup!Exists(x)' => Setup!Exists(x)
  BY <1>3 DEF Setup!Exists
<1>7. RowFits => RowFits'
  BY <1>1, <1>3 DEF RowFits
<1>8. newest.role <= newest'.role /\ newest.channel <= newest'.channel
  BY <1>1, SetupFacts
<1> QED
  BY <1>1, <1>3, <1>4, <1>5, <1>6, <1>7, <1>8, SetupOutside

\* An administrator creates a role or a channel.
LEMMA SetupGains ==
  ASSUME SetupInv, Setup!CreateThing
  PROVE  SetupInv'
<1>1. UNCHANGED <<row, admits, handler, created, saved, told, dropped, deleted, loose, doubt>>
  BY DEF Setup!CreateThing, Setup!history
<1>2. newest \in [role : Setup!Role \cup {0}, channel : Setup!Channel \cup {0}]
  BY SetupFacts DEF SetupWorldTypes
<1>3. CASE /\ newest.role < MaxRoles /\ newest' = [newest EXCEPT !.role = newest.role + 1]
           /\ roles' = roles \cup {newest'.role} /\ channels' = channels
  <2> DEFINE thing == <<"role", newest.role + 1>>
  <2>1. newest'.role = newest.role + 1
    BY <1>2, <1>3
  <2>2. /\ SetupWorldTypes' /\ NumberedWorld' /\ newest.role + 1 \in Setup!Role
        /\ newest.role <= newest'.role /\ newest.channel <= newest'.channel
        /\ RowFits => RowFits'
    BY <1>1, <1>3, <2>1, RoleAppears
  <2>3. thing \in Setup!Thing /\ thing \notin created
    <3>1. thing \in Setup!Thing
      BY <2>2 DEF Setup!Thing
    <3>2. ~Older(thing)
      BY SetupFacts DEF Older
    <3> QED
      BY <3>1, <3>2, SetupFacts DEF NumberedWorld
  <2>4. \A x \in created : Setup!Exists(x)' => Setup!Exists(x)
    BY <1>3, <2>1, <2>3, NothingReappears
  <2> QED
    BY <1>1, <1>3, <2>2, <2>4, SetupOutside
<1>4. CASE /\ newest.channel < MaxChannels
           /\ newest' = [newest EXCEPT !.channel = newest.channel + 1]
           /\ channels' = channels \cup {newest'.channel} /\ roles' = roles
  <2> DEFINE thing == <<"channel", newest.channel + 1>>
  <2>1. newest'.channel = newest.channel + 1
    BY <1>2, <1>4
  <2>2. /\ SetupWorldTypes' /\ NumberedWorld' /\ newest.channel + 1 \in Setup!Channel
        /\ newest.role <= newest'.role /\ newest.channel <= newest'.channel
        /\ RowFits => RowFits'
    BY <1>1, <1>4, <2>1, ChannelAppears
  <2>3. thing \in Setup!Thing /\ thing \notin created
    <3>1. thing \in Setup!Thing
      BY <2>2 DEF Setup!Thing
    <3>2. ~Older(thing)
      BY SetupFacts DEF Older
    <3> QED
      BY <3>1, <3>2, SetupFacts DEF NumberedWorld
  <2>4. \A x \in created : Setup!Exists(x)' => Setup!Exists(x)
    BY <1>4, <2>1, <2>3, NothingReappears
  <2> QED
    BY <1>1, <1>4, <2>2, <2>4, SetupOutside
<1> QED
  BY <1>3, <1>4 DEF Setup!CreateThing

\* Every step of the setups keeps the invariant.
LEMMA SetupNextKept ==
  ASSUME SetupInv, Setup!Next
  PROVE  SetupInv'
<1>1. CASE Setup!Crash
  BY <1>1, SetupsCrash
<1>2. CASE Setup!DeleteThing \/ Setup!CreateThing
  BY <1>2, SetupLoses, SetupGains
<1>3. ASSUME NEW h \in SetupHandler,
             \/ Setup!ConfigSetup(h) \/ Setup!VerificationCommand(h) \/ Setup!SetupForm(h)
             \/ Setup!WebRequest(h) \/ Setup!GuildCreate(h)
      PROVE  SetupInv'
  BY <1>3, SetupBeginnings
<1>4. ASSUME NEW h \in SetupHandler,
             \/ Setup!FindChannel(h) \/ Setup!FindRole(h) \/ Setup!Validate(h)
             \/ Setup!UseChosen(h) \/ Setup!ChannelFails(h) \/ Setup!FinalValidation(h)
             \/ Setup!Undone(h)
      PROVE  SetupInv'
  BY <1>4, SetupLocalSteps
<1>5. ASSUME NEW h \in SetupHandler,
             \/ Setup!CreateRole(h) \/ Setup!SyncChannel(h) \/ Setup!CreateChannel(h)
             \/ Setup!Save(h) \/ Setup!SaveFails(h) \/ Setup!Undo(h)
      PROVE  SetupInv'
  BY <1>5, SetupCreatesRole, SetupSyncsChannel, SetupCreatesChannel, SetupSaves,
     SetupSaveFails, SetupUndoes
<1> QED
  BY <1>1, <1>2, <1>3, <1>4, <1>5 DEF Setup!Next

\* A step of the whole is a step of the setups, or leaves them alone.
LEMMA SetupSteps ==
  ASSUME [Next]_vars
  PROVE  Setup!Next \/ UNCHANGED setupVars
<1>1. CASE UNCHANGED vars
  BY <1>1 DEF vars, admin, setupVars
<1>2. CASE InLive(Live!Next) \/ InConfig(Config!Next)
  BY <1>2 DEF InLive, InConfig, admin, setupVars
<1>3. CASE SetupNext
  BY <1>3 DEF SetupNext
<1>4. CASE CommandNext \/ WebNext
  BY <1>4 DEF CommandNext, WebNext, setupVars
<1>5. CASE TriggerNext \/ IntakeNext \/ GateNext
  BY <1>5 DEF TriggerNext, IntakeNext, GateNext, admin, setupVars
<1> QED
  BY <1>1, <1>2, <1>3, <1>4, <1>5 DEF Next

\* The setup's invariant, in every behaviour.
LEMMA SetupInvariant == FairSpec => []SetupInv
<1>1. Init => SetupInv
  <2> SUFFICES ASSUME Init
               PROVE  SetupInv
    OBVIOUS
  <2>1. /\ row = [role |-> 0, channel |-> 0] /\ newest = [role |-> 0, channel |-> 0]
        /\ roles = {} /\ channels = {} /\ admits = [c \in Setup!Channel |-> 0]
        /\ handler = [h \in SetupHandler |-> Setup!Idle]
        /\ created = {} /\ saved = {} /\ told = {} /\ dropped = {} /\ deleted = {}
        /\ loose = {} /\ doubt = FALSE
    BY DEF Init, Setup!Init
  <2>2. SetupTypes
    <3>1. UNION {created, saved, told, dropped, deleted} \subseteq Setup!Thing
      BY <2>1
    <3>2. handler \in [SetupHandler -> Setup!Local]
      BY <2>1, NoSetup
    <3>3. doubt \in BOOLEAN
      BY <2>1
    <3>4. /\ row \in [role : Setup!Role \cup {0}, channel : Setup!Channel \cup {0}]
          /\ newest \in [role : Setup!Role \cup {0}, channel : Setup!Channel \cup {0}]
          /\ admits \in [Setup!Channel -> Setup!Role \cup {0}]
      BY <2>1
    <3>5. roles \subseteq Setup!Role /\ channels \subseteq Setup!Channel /\ loose \subseteq Setup!Channel
      BY <2>1
    <3> QED
      BY <3>1, <3>2, <3>3, <3>4, <3>5, Zenon DEF SetupTypes
  <2>3. \A h \in SetupHandler : handler[h] = Setup!Idle
    BY <2>1
  <2>4. Numbered
    <3>1. newest.role = 0 /\ newest.channel = 0 /\ row.role = 0 /\ row.channel = 0
      BY <2>1
    <3>2. HandIsOlder(Setup!Idle)
      BY <3>1, NoSetup DEF HandIsOlder
    <3> QED
      BY <2>1, <2>3, <3>1, <3>2 DEF Numbered
  <2>5. \A h \in SetupHandler : HandFits(handler[h])
    BY <2>3, NoSetup
  <2>6. Setup!NothingIsLeft
    BY <2>1 DEF Setup!NothingIsLeft
  <2>7. Undoubted
    <3>1. RowFits
      BY <2>1 DEF RowFits
    <3>2. Alone
      BY <2>3, NoSetup DEF Alone
    <3>3. \A h \in SetupHandler : HandIsSure(handler[h])
      BY <2>3, NoSetup, IdleHand
    <3> QED
      BY <3>1, <3>2, <3>3 DEF Undoubted
  <2> QED
    BY <2>2, <2>4, <2>5, <2>6, <2>7, Zenon DEF SetupInv
<1>2. SetupInv /\ [Next]_vars => SetupInv'
  <2> SUFFICES ASSUME SetupInv, [Next]_vars
               PROVE  SetupInv'
    OBVIOUS
  <2>1. CASE Setup!Next
    BY <2>1, SetupNextKept
  <2>2. CASE UNCHANGED setupVars
    <3>1. /\ row' = row /\ roles' = roles /\ channels' = channels /\ newest' = newest
          /\ admits' = admits /\ handler' = handler /\ created' = created /\ saved' = saved
          /\ told' = told /\ dropped' = dropped /\ deleted' = deleted /\ loose' = loose
          /\ doubt' = doubt
      BY <2>2 DEF setupVars
    <3>2. SetupTypes' /\ Numbered'
      BY <3>1, Zenon DEF SetupInv, SetupTypes, Numbered, Older, HandIsOlder
    <3>3. (\A h \in SetupHandler : HandFits(handler[h]))' /\ Setup!NothingIsLeft'
      BY <3>1, Zenon DEF SetupInv, Setup!NothingIsLeft, Setup!Exists
    <3>4. doubt' \/ Undoubted'
      BY <3>1, Zenon DEF SetupInv, Undoubted, Alone, RowFits, HandIsSure
    <3> QED
      BY <3>2, <3>3, <3>4, Zenon DEF SetupInv
  <2> QED
    BY <2>1, <2>2, SetupSteps
<1> QED
  BY <1>1, <1>2, PTL DEF FairSpec

\* A setup leaves nothing behind that it does not tell of, and as long as setups do not
\* overlap what the row names is there, and its channel lets its role in.
THEOREM SetupsSettle == FairSpec => []SetupIsSettled
<1>1. SetupInv => SetupIsSettled
  <2> SUFFICES ASSUME SetupInv
               PROVE  Setup!NothingIsLeft /\ Setup!RowIsUsable
    BY DEF SetupIsSettled, Setup!SetupIsSettled
  <2>1. ASSUME ~doubt
        PROVE  /\ \A thing \in Setup!Things(row) : Setup!Exists(thing) \/ thing \in deleted
               /\ row.channel \in channels \ loose => admits[row.channel] = row.role
    <3>1. RowFits
      BY <2>1, Zenon DEF SetupInv, Undoubted
    <3>2. \A thing \in Setup!Things(row) :
            \/ thing = <<"role", row.role>> /\ row.role # 0
            \/ thing = <<"channel", row.channel>> /\ row.channel # 0
      BY SetupNumbers DEF Setup!Things, Setup!Thing
    <3> QED
      BY <3>1, <3>2 DEF RowFits, Setup!Exists
  <2> QED
    BY <2>1 DEF SetupInv, Setup!RowIsUsable
<1> QED
  BY <1>1, SetupInvariant, PTL
============================================================================
