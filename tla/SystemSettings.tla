--------------------------- MODULE SystemSettings ---------------------------
(***************************************************************************)
(* src/src/lib/system-settings.ts: the single settings row, the 30-second  *)
(* cache that one copy of the module keeps of it, the getters that read    *)
(* through it or around it, and the setters and drops that refresh it.     *)
(*                                                                         *)
(* A field is represented by the version of the write that set it, so a    *)
(* row tells which writes it reflects.  Unlike user-status.ts and          *)
(* report-cache.ts this cache has no generation: a load that was in flight *)
(* when a setter refreshed the cache overwrites what the setter put there. *)
(*                                                                         *)
(* "log", "committedAt", "told" and the readers' "floor" and "began" are     *)
(* history: only the properties read them.                                 *)
(***************************************************************************)
EXTENDS Naturals, Sequences, FiniteSets, Functions

CONSTANTS
  Fields,     \* columns of the row that different setters write
  Readers,    \* concurrent getters
  Setters,    \* concurrent handlers that write the row
  TTL,        \* CACHE_TTL_MS, in clock ticks
  Latency,    \* the longest a query, and the code after it, takes
  MaxWrites,  \* bound: committed writes
  MaxTime,    \* bound: clock ticks
  NoRow

Row == [Fields -> Nat]
CacheEntry == [row: Row, loadedAt: Nat]

Parameters ==
  /\ Fields # {} /\ TTL \in Nat \ {0}
  /\ {Latency, MaxWrites, MaxTime} \subseteq Nat
  /\ NoRow \notin Row \cup CacheEntry

VARIABLES
  log,          \* the rows the table has held; the last one is current
  committedAt,  \* when the second and the following ones were committed
  cache,
  reader,       \* per reader: the getter it is executing
  setter,       \* per setter: the handler it is executing
  told,         \* version at the last refresh nothing else overlapped
  now

vars == <<log, committedAt, cache, reader, setter, told, now>>

version == Len(log) - 1
table == log[Len(log)]

\* The writes a row reflects.
Reflects(row) == CHOOSE v \in 0 .. version : log[v + 1] = row

IdleReader == [pc |-> "idle", cached |-> TRUE, row |-> NoRow,
               floor |-> 0, began |-> 0]

IdleSetter == [pc |-> "idle", drops |-> FALSE, row |-> NoRow, since |-> 0]

Init ==
  /\ log = <<[f \in Fields |-> 0]>> /\ committedAt = <<>>
  /\ cache = NoRow
  /\ reader = [r \in Readers |-> IdleReader]
  /\ setter = [s \in Setters |-> IdleSetter]
  /\ told = 0 /\ now = 0
----------------------------------------------------------------------------
(* Getters                                                                 *)

Asked(r, pc, cached, row) ==
  reader' = [reader EXCEPT ![r] =
    [pc |-> pc, cached |-> cached, row |-> row, floor |-> told,
     began |-> now]]

Fresh == cache # NoRow /\ now - cache.loadedAt < TTL

\* getCached answers from the cache.
Hit(r) ==
  /\ reader[r].pc = "idle" /\ Fresh
  /\ Asked(r, "answered", TRUE, cache.row)
  /\ UNCHANGED <<log, committedAt, cache, setter, told, now>>

\* getCached goes to the table; nothing stops a second caller from doing so too.
Miss(r) ==
  /\ reader[r].pc = "idle" /\ ~Fresh
  /\ Asked(r, "issued", TRUE, NoRow)
  /\ UNCHANGED <<log, committedAt, cache, setter, told, now>>

\* getBranding always goes to the table.
Brand(r) ==
  /\ reader[r].pc = "idle"
  /\ Asked(r, "issued", FALSE, NoRow)
  /\ UNCHANGED <<log, committedAt, cache, setter, told, now>>

ReadRow(r) ==
  /\ reader[r].pc = "issued"
  /\ reader' = [reader EXCEPT ![r].pc = "read", ![r].row = table]
  /\ UNCHANGED <<log, committedAt, cache, setter, told, now>>

\* The query fails: getCached rejects, getBrandingSafe answers the defaults.
FailRead(r) ==
  /\ reader[r].pc = "issued"
  /\ reader' = [reader EXCEPT ![r] = IdleReader]
  /\ UNCHANGED <<log, committedAt, cache, setter, told, now>>

\* getCached publishes what it read, whatever has happened meanwhile.
Deliver(r) ==
  /\ reader[r].pc = "read"
  /\ reader' = [reader EXCEPT ![r].pc = "answered"]
  /\ cache' = IF reader[r].cached THEN [row |-> reader[r].row, loadedAt |-> now]
                                  ELSE cache
  /\ UNCHANGED <<log, committedAt, setter, told, now>>

Return(r) ==
  /\ reader[r].pc = "answered"
  /\ reader' = [reader EXCEPT ![r] = IdleReader]
  /\ UNCHANGED <<log, committedAt, cache, setter, told, now>>
----------------------------------------------------------------------------
(* Setters                                                                 *)

Committed(written) ==
  /\ version < MaxWrites
  /\ log' = Append(log, [f \in Fields |->
                           IF f \in written THEN version + 1 ELSE table[f]])
  /\ committedAt' = Append(committedAt, now)

\* An upsert commits, and returns the row as it left it.
Upsert(s, f) ==
  /\ setter[s].pc = "idle" /\ Committed({f})
  /\ setter' = [setter EXCEPT ![s] = [pc |-> "committed", drops |-> FALSE,
                  row |-> log'[Len(log')], since |-> now]]
  /\ UNCHANGED <<cache, reader, told, now>>

\* A restore or a wipe rewrites the whole row behind the module's back.
Rewrite(s) ==
  /\ setter[s].pc = "idle" /\ Committed(Fields)
  /\ setter' = [setter EXCEPT ![s] = [pc |-> "committed", drops |-> TRUE,
                  row |-> log'[Len(log')], since |-> now]]
  /\ UNCHANGED <<cache, reader, told, now>>

\* A setter that runs in another copy of the module.
UpsertElsewhere(f) ==
  /\ Committed({f})
  /\ UNCHANGED <<cache, reader, setter, told, now>>

\* Variant: the setter patches its own field into the cached row.
RefreshedPatched(s) ==
  IF setter[s].drops \/ cache = NoRow THEN NoRow
  ELSE [row |-> [f \in Fields |->
          IF setter[s].row[f] = Reflects(setter[s].row) THEN setter[s].row[f]
          ELSE cache.row[f]],
        loadedAt |-> now]

\* Variant: the setter does not touch the cache.
RefreshedNot(s) == cache

\* cacheRow puts the returned row in the cache whole;
\* invalidateSystemSettingsCache empties it.
Refreshed(s) == IF setter[s].drops THEN NoRow
                ELSE [row |-> setter[s].row, loadedAt |-> now]

\* Another query is between its read or commit and its effect on the cache.
Overlapped(s) ==
  \/ \E r \in Readers : reader[r].pc \in {"issued", "read"} /\ reader[r].cached
  \/ \E x \in Setters \ {s} : setter[x].pc = "committed"

Refresh(s) ==
  /\ setter[s].pc = "committed"
  /\ cache' = Refreshed(s)
  /\ told' = IF Overlapped(s) THEN told ELSE Reflects(setter[s].row)
  /\ setter' = [setter EXCEPT ![s] = IdleSetter]
  /\ UNCHANGED <<log, committedAt, reader, now>>

\* Time passes, but neither a load nor a setter takes longer than Latency.
Tick ==
  /\ now < MaxTime
  /\ \A r \in Readers : reader[r].pc \in {"issued", "read"} => now - reader[r].began < Latency
  /\ \A s \in Setters : setter[s].pc = "committed" => now - setter[s].since < Latency
  /\ now' = now + 1
  /\ UNCHANGED <<log, committedAt, cache, reader, setter, told>>
----------------------------------------------------------------------------
Next ==
  \/ \E r \in Readers :
       Hit(r) \/ Miss(r) \/ Brand(r) \/ ReadRow(r) \/ FailRead(r) \/ Deliver(r) \/ Return(r)
  \/ \E s \in Setters, f \in Fields : Upsert(s, f)
  \/ \E s \in Setters : Rewrite(s) \/ Refresh(s)
  \/ \E f \in Fields : UpsertElsewhere(f)
  \/ Tick

Spec == Init /\ [][Next]_vars
----------------------------------------------------------------------------
(* Properties                                                              *)

\* The types, and what cacheRow is for ("Every setter goes through this so adding
\* a field can't leave one setter silently resetting it"): the cache holds a row
\* the table has held, never one that mixes two moments, whatever the order of
\* setters of different fields, loads, drops and setters elsewhere.
TypeOK ==
  /\ log \in Seq(Row) /\ log # <<>> /\ committedAt \in Seq(Nat)
  /\ cache \in CacheEntry \cup {NoRow}
  /\ reader \in [Readers -> [pc: {"idle", "issued", "read", "answered"},
       cached: BOOLEAN, row: Row \cup {NoRow}, floor: Nat, began: Nat]]
  /\ setter \in [Setters -> [pc: {"idle", "committed"}, drops: BOOLEAN,
       row: Row \cup {NoRow}, since: Nat]]
  /\ told \in Nat /\ now \in Nat
  /\ cache # NoRow => cache.row \in Range(log)

\* A setting changed anywhere is seen by every getter that begins the lifetime of
\* a cache entry plus one query later, late loads and late refreshes included.
StalenessBounded ==
  \A r \in Readers : reader[r].pc = "answered" =>
    \A v \in 1 .. version :
      reader[r].began >= committedAt[v] + TTL + Latency => v <= Reflects(reader[r].row)

\* A getter that begins after a setter answered sees that setter's row or a
\* later one, for good, when no load and no other setter overlapped the refresh.
QuietSetterObeyed ==
  \A r \in Readers : reader[r].pc = "answered" => reader[r].floor <= Reflects(reader[r].row)
=============================================================================
