--------------------------- MODULE ConfigStore ---------------------------
(***************************************************************************)
(* The configuration of one guild: its row in servers, the bot's cache of   *)
(* it, which is used while it is younger than the time to live, and the     *)
(* writers.  The bot writes the settings as one JSON value, made of what    *)
(* its cache or its reading said; the web merges a patch into the JSON in   *)
(* SQL, but writes the ids it read back.  A failed reading without a cached *)
(* row leaves the default configuration in the cache.                       *)
(***************************************************************************)
EXTENDS Naturals

CONSTANTS
  Setting,     \* keys of the settings
  Id,          \* the channel and role ids: columns of their own
  NoRow,       \* no row, nothing cached
  Handler,     \* calls of the bot that can be in flight at one time
  Ttl,         \* SERVER_CONFIG_CACHE_TTL_MS, in ticks
  MaxUpdates,  \* bound: updates by the bot or the web
  MaxFaults    \* bound: failed statements and restarts

\* what the constants are assumed to be
ConfigStoreAssumption ==
  Setting \cap Id = {} /\ Ttl \in Nat \ {0} /\ MaxUpdates \in Nat /\ MaxFaults \in Nat

Field == Setting \cup Id
\* 0 is a field's default, other values say which update wrote it
Config == [Field -> 0..MaxUpdates]
Default == [f \in Field |-> 0]

VARIABLES
  row,       \* the row of servers
  cache,     \* serverCache
  age,       \* ticks since serverCacheLoadedAt, up to Ttl
  handler,   \* next step and local variables of the calls in flight
  web,       \* the same for the web's updateGuildSetup
  updates, faults

vars == <<row, cache, age, handler, web, updates, faults>>

\* got: the row as read or returned; held: the cached row at the beginning
Local == [at : {"idle", "read", "insert", "reread", "load", "write", "returned"},
          got : Config \cup {NoRow}, held : Config \cup {NoRow},
          field : Field \cup {NoRow}, value : 0..MaxUpdates]
Idle == [at |-> "idle", got |-> NoRow, held |-> NoRow, field |-> NoRow, value |-> 0]

Init ==
  /\ row \in {NoRow, Default}
  /\ cache = NoRow /\ age = Ttl
  /\ handler = [h \in Handler |-> Idle] /\ web = Idle
  /\ updates = 0 /\ faults = 0

At(h, step) == handler[h].at = step
Set(h, local) == handler' = [handler EXCEPT ![h] = local]
Goto(h, step) == handler' = [handler EXCEPT ![h].at = step]
Store(config) == cache' = config /\ age' = 0
NoCache == UNCHANGED <<cache, age>>

\* Mutant: what is cached stays fresh.
FreshForEver == cache # NoRow

\* isServerConfigCacheFresh
Fresh == cache # NoRow /\ age < Ttl

\* getServerConfig has its answer: a caller that only reads is done, one that
\* sets a setting goes on with the answer and its patch.
Answered(h, config) ==
  IF handler[h].field = NoRow THEN Set(h, Idle)
  ELSE Set(h, [handler[h] EXCEPT !.at = "write",
                 !.got = [config EXCEPT ![handler[h].field] = handler[h].value]])

---------------------------------------------------------------------------
(* getServerConfig *)

\* A handler of the bot asks for the configuration; a fresh cached row answers
\* it at once and changes nothing.
Use(h) ==
  /\ At(h, "idle") /\ ~Fresh
  /\ Set(h, [Idle EXCEPT !.at = "read", !.held = cache])
  /\ NoCache /\ UNCHANGED <<row, web, updates, faults>>

\* updateServerSettings: a command, the stamp of a reminder
SetSetting(h, f) ==
  LET wanted == [Idle EXCEPT !.held = cache, !.field = f, !.value = updates + 1] IN
  /\ At(h, "idle") /\ updates < MaxUpdates /\ updates' = updates + 1
  /\ IF Fresh
     THEN Set(h, [wanted EXCEPT !.at = "write", !.got = [cache EXCEPT ![f] = updates + 1]])
     ELSE Set(h, [wanted EXCEPT !.at = "read"])
  /\ NoCache /\ UNCHANGED <<row, web, faults>>

\* updateServerConfig of a column: written alone
SetColumn(h, f) ==
  /\ At(h, "idle") /\ updates < MaxUpdates /\ updates' = updates + 1
  /\ Set(h, [Idle EXCEPT !.at = "write", !.field = f, !.value = updates + 1])
  /\ NoCache /\ UNCHANGED <<row, web, faults>>

\* findByGuildId; its answer arrives later.
Read(h) ==
  /\ At(h, "read") \/ At(h, "reread")
  /\ Set(h, [handler[h] EXCEPT !.got = row,
       !.at = IF row = NoRow /\ @ = "read" THEN "insert" ELSE "load"])
  /\ NoCache /\ UNCHANGED <<row, web, updates, faults>>

\* The default configuration is upserted and read again.
InsertDefault(h) ==
  /\ At(h, "insert")
  /\ row' = Default
  /\ Goto(h, "reread")
  /\ NoCache /\ UNCHANGED <<web, updates, faults>>

Load(h) ==
  LET config == IF handler[h].got = NoRow THEN Default ELSE handler[h].got IN
  /\ At(h, "load")
  /\ Store(config) /\ Answered(h, config)
  /\ UNCHANGED <<row, web, updates, faults>>

\* A statement fails: the row cached before is the answer, without a new
\* date, or else the default configuration, which is cached.
FailRead(h) ==
  /\ At(h, "read") \/ At(h, "insert") \/ At(h, "reread")
  /\ faults < MaxFaults /\ faults' = faults + 1
  /\ IF handler[h].held # NoRow
     THEN NoCache /\ Answered(h, handler[h].held)
     ELSE Store(Default) /\ Answered(h, Default)
  /\ UNCHANGED <<row, web, updates>>

---------------------------------------------------------------------------
(* updateServerConfig *)

\* upsertByGuildId: all the settings or the one column; what was not given
\* keeps its value.
Upsert(h) ==
  LET f == handler[h].field
      old == IF row = NoRow THEN Default ELSE row
      new == IF f \in Setting
             THEN [g \in Field |-> IF g \in Setting THEN handler[h].got[g] ELSE old[g]]
             ELSE [old EXCEPT ![f] = handler[h].value]
  IN
  /\ At(h, "write")
  /\ row' = new
  /\ Set(h, [handler[h] EXCEPT !.at = "returned", !.got = new])
  /\ NoCache /\ UNCHANGED <<web, updates, faults>>

\* The row it returned is cached when the answer arrives.
CacheUpdated(h) ==
  /\ At(h, "returned")
  /\ Store(handler[h].got) /\ Set(h, Idle)
  /\ UNCHANGED <<row, web, updates, faults>>

FailUpsert(h) ==
  /\ At(h, "write") /\ faults < MaxFaults /\ faults' = faults + 1
  /\ Set(h, Idle)
  /\ NoCache /\ UNCHANGED <<row, web, updates>>

---------------------------------------------------------------------------
(* updateGuildSetup of the web *)

WebRead(f) ==
  /\ web.at = "idle" /\ updates < MaxUpdates /\ updates' = updates + 1
  /\ web' = [Idle EXCEPT !.at = "write", !.got = row, !.field = f, !.value = updates + 1]
  /\ NoCache /\ UNCHANGED <<row, handler, faults>>

WebWrite ==
  LET old == IF row = NoRow THEN Default ELSE row
      ids == IF web.got = NoRow THEN Default ELSE web.got
  IN
  /\ web.at = "write"
  /\ row' = [f \in Field |-> IF f = web.field THEN web.value
                             ELSE IF f \in Id THEN ids[f] ELSE old[f]]
  /\ web' = Idle
  /\ NoCache /\ UNCHANGED <<handler, updates, faults>>

---------------------------------------------------------------------------
Tick == age < Ttl /\ age' = age + 1 /\ UNCHANGED <<row, cache, handler, web, updates, faults>>

\* A new process loads the active servers, or fails to.
Restart ==
  /\ faults < MaxFaults /\ faults' = faults + 1
  /\ handler' = [h \in Handler |-> Idle]
  /\ \/ cache' = row /\ age' = (IF row = NoRow THEN Ttl ELSE 0)
     \/ cache' = NoRow /\ age' = Ttl
  /\ UNCHANGED <<row, web, updates>>

Work(h) ==
  \/ Read(h) \/ InsertDefault(h) \/ Load(h) \/ FailRead(h)
  \/ Upsert(h) \/ CacheUpdated(h) \/ FailUpsert(h)

Next ==
  \/ \E h \in Handler :
       \/ Use(h) \/ Work(h)
       \/ \E f \in Setting : SetSetting(h, f)
       \/ \E f \in Id : SetColumn(h, f)
  \/ (\E f \in Field : WebRead(f)) \/ WebWrite
  \/ Tick \/ Restart

Spec == Init /\ [][Next]_vars

\* Time passes, statements are answered, and messages of members keep asking
\* for the configuration.
Fairness ==
  /\ WF_vars(Tick) /\ WF_vars(WebWrite)
  /\ \A h \in Handler : WF_vars(Work(h)) /\ WF_vars(Use(h))

---------------------------------------------------------------------------
(* Properties *)

\* Types of the variables: the row, the cache, the calls in flight.
TypeOK ==
  /\ row \in Config \cup {NoRow} /\ cache \in Config \cup {NoRow}
  /\ age \in 0..Ttl
  /\ handler \in [Handler -> Local] /\ web \in Local
  /\ updates \in 0..MaxUpdates /\ faults \in 0..MaxFaults

\* Whatever was cached late, by a failure or from before an update: when
\* nobody updates any more, the bot uses what the row says in the end.
SettingsSettle == <>[](cache = row)

\* A command of the bot changes the setting it is about and no other.
SettingsAreKept ==
  [][\A h \in Handler, f \in Setting :
       At(h, "write") /\ handler'[h].at = "returned" /\ row # NoRow /\ row'[f] # row[f]
       => f = handler[h].field]_vars
============================================================================
