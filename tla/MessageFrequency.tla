-------------------------- MODULE MessageFrequency --------------------------
(***************************************************************************)
(* HeuristicService's memory of one member in one guild: the timestamps of  *)
(* the last messages, cut to the time frame and to as many as are needed,   *)
(* and dropped by a clean-up that any member's message may cause.  Checks    *)
(* run to their end without an await.  The settings are those of the cache  *)
(* of the configuration (ConfigStore) and may change between two checks.    *)
(***************************************************************************)
EXTENDS Integers, FiniteSets, Sequences

CONSTANTS
  Threshold, Timeframe,   \* message_threshold and timeframe the settings may have
  CleanupEvery,  \* cleanupIntervalMs
  MaxNow,        \* bound: the last moment
  MaxChecks,     \* bound: messages of the member
  MaxChanges     \* bound: changes of the settings

\* what the constants are assumed to be
MessageFrequencyAssumption ==
  /\ Threshold \subseteq Nat \ {0} /\ Timeframe \subseteq Nat \ {0} /\ CleanupEvery \in Nat \ {0}
  /\ MaxNow \in Nat /\ MaxChecks \in Nat /\ MaxChanges \in Nat

VARIABLES
  settings,  \* getCachedHeuristicSettings
  now,
  times,     \* userMessagesByServer: the timestamps kept of the member
  cleanedAt, \* lastCleanupAt
  checks,    \* every message, the settings and what was found (history)
  changes

vars == <<settings, now, times, cleanedAt, checks, changes>>

Settings == [limit : Threshold, span : Timeframe]

Init ==
  /\ settings \in Settings
  /\ now = 0 /\ times = <<>> /\ cleanedAt = -CleanupEvery
  /\ checks = <<>> /\ changes = 0

---------------------------------------------------------------------------
\* The timestamps up to the first in the time frame are passed over.
InSpan(seq) ==
  LET cutoff == now - settings.span
      start == CHOOSE i \in 1..Len(seq) + 1 :
                 /\ \A j \in 1..i - 1 : seq[j] <= cutoff
                 /\ i <= Len(seq) => seq[i] > cutoff IN
  SubSeq(seq, start, Len(seq))

\* Mutant: no more timestamps are kept than are allowed.
LastAllowed(seq) ==
  IF Len(seq) > settings.limit THEN Tail(seq) ELSE seq
\* one more is kept than is allowed
LastNeeded(seq) ==
  LET surplus == Len(seq) - (settings.limit + 1) IN
  IF surplus > 0 THEN SubSeq(seq, surplus + 1, Len(seq)) ELSE seq

CleanupDue == now - cleanedAt >= CleanupEvery
\* maybeCleanupMessageHistory: a member is dropped whose last message is too old
Cleaned ==
  IF CleanupDue /\ times # <<>> /\ times[Len(times)] <= now - settings.span
  THEN <<>> ELSE times
CleanedAt == IF CleanupDue THEN now ELSE cleanedAt

\* isFrequencyAboveThreshold
CheckMessage ==
  LET kept == LastNeeded(InSpan(Append(Cleaned, now))) IN
  /\ Len(checks) < MaxChecks
  /\ times' = kept /\ cleanedAt' = CleanedAt
  /\ checks' = Append(checks, [time |-> now, settings |-> settings, changes |-> changes,
                               tooFast |-> Len(kept) > settings.limit])
  /\ UNCHANGED <<settings, now, changes>>

\* a message of another member
Traffic ==
  /\ CleanupDue
  /\ times' = Cleaned /\ cleanedAt' = CleanedAt
  /\ UNCHANGED <<settings, now, checks, changes>>

Tick ==
  /\ now < MaxNow /\ now' = now + 1
  /\ UNCHANGED <<settings, times, cleanedAt, checks, changes>>

\* the process stops, and its memory with it
Restart ==
  /\ changes < MaxChanges /\ changes' = changes + 1
  /\ times' = <<>> /\ cleanedAt' = -CleanupEvery
  /\ UNCHANGED <<settings, now, checks>>

ChangeSettings ==
  /\ changes < MaxChanges /\ changes' = changes + 1
  /\ settings' \in Settings \ {settings}
  /\ UNCHANGED <<now, times, cleanedAt, checks>>

Next == CheckMessage \/ Traffic \/ Tick \/ Restart \/ ChangeSettings

Spec == Init /\ [][Next]_vars

---------------------------------------------------------------------------
Check == [time : 0..MaxNow, settings : Settings, changes : 0..MaxChanges, tooFast : BOOLEAN]

TypeOK ==
  /\ settings \in Settings /\ now \in 0..MaxNow
  /\ times \in Seq(0..MaxNow) /\ cleanedAt \in (-CleanupEvery)..MaxNow
  /\ checks \in Seq(Check) /\ changes \in 0..MaxChanges

\* the messages in the time frame of the i-th, and whether they are too many
Frame(i) == {j \in 1..i : checks[j].time > checks[i].time - checks[i].settings.span}
TooMany(i) == Cardinality(Frame(i)) > checks[i].settings.limit

\* Cutting, capping and cleaning up lose nothing: a message is found too fast only
\* if too many were written in its time frame, and is found so whenever there were,
\* unless the process was restarted or other settings had been in force in that
\* time frame.
FrequencyIsExact ==
  \A i \in DOMAIN checks :
    /\ checks[i].tooFast => TooMany(i)
    /\ TooMany(i) /\ (\A j \in Frame(i) : checks[j].changes = checks[i].changes)
         => checks[i].tooFast
=============================================================================
