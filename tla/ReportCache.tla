---------------------------- MODULE ReportCache ----------------------------
(***************************************************************************)
(* src/src/lib/report-cache.ts: the bounded cache of report results that   *)
(* the interactive report, dashboard and compliance routes share.  One     *)
(* copy of the module is modelled; writes made where another copy is       *)
(* loaded never announce themselves to it.                                 *)
(*                                                                         *)
(* A report is represented by the version of the tables its loader read.   *)
(* A loader that runs several queries counts for the oldest of them.       *)
(* "version", "committedAt", "told" and the callers' "floor" and "began"   *)
(* are history: nothing reads them but the properties.                     *)
(***************************************************************************)
EXTENDS Integers, Sequences, FiniteSets, Functions

CONSTANTS
  Keys,         \* cache keys: a scope and a filter set
  Callers,      \* concurrent calls; a load is named by its starter
  Writers,      \* concurrent handlers that change report inputs
  RawTTLs,      \* what REPORT_CACHE_TTL_MS may hold; negative: invalid
  RawCaps,      \* what REPORT_CACHE_MAX_ENTRIES may hold
  DefaultTTL,   \* DEFAULT_TTL_MS, in clock ticks
  DefaultCap,   \* DEFAULT_MAX_ENTRIES
  SweepBatch,   \* SWEEP_BATCH
  Latency,      \* the longest a loader runs
  MaxWrites,    \* bound: committed writes
  MaxTime,      \* bound: clock ticks
  NoEntry, NoLoad

ASSUME ParamAssumption ==
  /\ Keys # {}
  /\ RawTTLs \subseteq Int /\ RawCaps \subseteq Int
  /\ DefaultTTL \in Nat \ {0} /\ DefaultCap \in Nat \ {0}
  /\ SweepBatch \in Nat /\ Latency \in Nat
  /\ MaxWrites \in Nat /\ MaxTime \in Nat

Entry == [ver: Nat, expiresAt: Nat]

ASSUME DistinctAssumption == NoEntry \notin Entry /\ NoLoad \notin Callers

VARIABLES
  ttl, cap,    \* TTL_MS and MAX_ENTRIES of this process
  version,     \* how many writes have committed
  committedAt, \* when each of them did
  told,        \* version at the last invalidation
  store,       \* per key: its entry
  order,       \* the keys of the store in the Map's insertion order
  inflight,    \* per key: the load new callers join
  generation,
  load,        \* per caller: the load it started
  caller,      \* per caller: the call it is executing
  writer,      \* per writer: "idle", or "committed" and yet to invalidate
  now

vars == <<ttl, cap, version, committedAt, told, store, order, inflight,
          generation, load, caller, writer, now>>
config == <<ttl, cap>>
data == <<version, committedAt, told, writer>>
----------------------------------------------------------------------------
TTLOf(raw) == IF raw >= 0 THEN raw ELSE DefaultTTL

CapOf(raw) == IF raw > 0 THEN raw ELSE DefaultCap

NoLoadRec == [pc |-> "none", key |-> CHOOSE k \in Keys : TRUE,
              startedAt |-> 0, issued |-> 0, ver |-> 0]

IdleCaller == [pc |-> "idle", on |-> NoLoad, floor |-> 0, began |-> 0, ver |-> 0]

Init ==
  /\ \E raw \in RawTTLs : ttl = TTLOf(raw)
  /\ \E raw \in RawCaps : cap = CapOf(raw)
  /\ version = 0 /\ told = 0 /\ generation = 0 /\ now = 0
  /\ committedAt = <<>>
  /\ store = [k \in Keys |-> NoEntry] /\ order = <<>>
  /\ inflight = [k \in Keys |-> NoLoad]
  /\ load = [c \in Callers |-> NoLoadRec]
  /\ caller = [c \in Callers |-> IdleCaller]
  /\ writer = [w \in Writers |-> "idle"]
----------------------------------------------------------------------------
(* The store: a Map whose insertion order is the order of last use.        *)

\* Variant: an entry answers until the tick after its lifetime.
FreshTooLong(k) == store[k] # NoEntry /\ store[k].expiresAt >= now

Fresh(k) == store[k] # NoEntry /\ store[k].expiresAt > now

\* Map.delete: the other keys keep their order.
Without(keys, k) ==
  IF k \notin Range(keys) THEN keys
  ELSE LET i == CHOOSE i \in 1 .. Len(keys) : keys[i] = k
       IN  SubSeq(keys, 1, i - 1) \o SubSeq(keys, i + 1, Len(keys))

\* Variant: the sweep drops the least recently used entries, expired or not.
SweptBlindly == {i \in 1 .. Len(order) : i <= SweepBatch}

\* The positions sweepExpired drops: at most a batch of them, from the least
\* recently used on, stopping at the first fresh entry.
Swept == {i \in 1 .. Len(order) :
            i <= SweepBatch /\ \A j \in 1 .. i : ~Fresh(order[j])}

AfterSweep == SubSeq(order, Cardinality(Swept) + 1, Len(order))

\* Variant: the oldest goes one insertion too late.
TrimLate(keys) ==
  IF Len(keys) > cap + 1 THEN SubSeq(keys, Len(keys) - cap, Len(keys)) ELSE keys

\* The loop at the end of publish: the oldest go until the cap is met.
Trim(keys) ==
  IF Len(keys) > cap THEN SubSeq(keys, Len(keys) - cap + 1, Len(keys)) ELSE keys

OrderAfterPublish(k) == Trim(Append(Without(AfterSweep, k), k))
----------------------------------------------------------------------------
(* cachedReport: what a call does before its first await.                  *)

Asked(c, pc, on, ver) ==
  caller' = [caller EXCEPT ![c] =
    [pc |-> pc, on |-> on, floor |-> told, began |-> now, ver |-> ver]]

NewLoad(c, k) ==
  load' = [load EXCEPT ![c] =
    [pc |-> "issued", key |-> k, startedAt |-> generation, issued |-> now,
     ver |-> 0]]

\* A call may start a load when the one it started before has settled.
MayCall(c) == caller[c].pc = "idle" /\ load[c].pc = "none"

\* TTL_MS === 0: the loader runs, and nothing is shared or stored.
Bypass(c, k) ==
  /\ MayCall(c) /\ ttl = 0
  /\ NewLoad(c, k) /\ Asked(c, "waiting", c, 0)
  /\ UNCHANGED <<config, data, store, order, inflight, generation, now>>

\* A fresh entry answers, and moves to the tail.
Hit(c, k) ==
  /\ MayCall(c) /\ ttl > 0 /\ Fresh(k)
  /\ order' = Append(Without(order, k), k)
  /\ Asked(c, "answered", NoLoad, store[k].ver)
  /\ UNCHANGED <<config, data, store, inflight, generation, load, now>>

\* An expired entry is deleted there and then.
DropExpired(k) ==
  /\ store' = [store EXCEPT ![k] = NoEntry]
  /\ order' = Without(order, k)

Join(c, k) ==
  /\ MayCall(c) /\ ttl > 0 /\ ~Fresh(k) /\ inflight[k] # NoLoad
  /\ DropExpired(k)
  /\ Asked(c, "waiting", inflight[k], 0)
  /\ UNCHANGED <<config, data, inflight, generation, load, now>>

StartLoad(c, k) ==
  /\ MayCall(c) /\ ttl > 0 /\ ~Fresh(k) /\ inflight[k] = NoLoad
  /\ DropExpired(k)
  /\ NewLoad(c, k) /\ Asked(c, "waiting", c, 0)
  /\ inflight' = [inflight EXCEPT ![k] = c]
  /\ UNCHANGED <<config, data, generation, now>>
----------------------------------------------------------------------------
(* The promise a load resolves.                                            *)

\* The loader's queries are answered.
ReadRows(l) ==
  /\ load[l].pc = "issued"
  /\ load' = [load EXCEPT ![l].pc = "read", ![l].ver = version]
  /\ UNCHANGED <<config, data, store, order, inflight, generation, caller, now>>

FailLoad(l) ==
  /\ load[l].pc = "issued"
  /\ load' = [load EXCEPT ![l].pc = "failed"]
  /\ UNCHANGED <<config, data, store, order, inflight, generation, caller, now>>

\* Variant: a superseded load publishes too.
PublishesAlways(l) == ttl > 0

Publishes(l) == ttl > 0 /\ generation = load[l].startedAt

\* The async function goes on after the loader: publish if still current.
Publish(l) ==
  LET k == load[l].key
      kept == OrderAfterPublish(k)
  IN
  /\ load[l].pc = "read"
  /\ load' = [load EXCEPT ![l].pc = "published"]
  /\ IF Publishes(l)
       THEN /\ order' = kept
            /\ store' = [x \in Keys |->
                 IF x \notin Range(kept) THEN NoEntry
                 ELSE IF x = k THEN [ver |-> load[l].ver, expiresAt |-> now + ttl]
                 ELSE store[x]]
       ELSE UNCHANGED <<order, store>>
  /\ UNCHANGED <<config, data, inflight, generation, caller, now>>

\* Variant: the slot is cleared whoever holds it.
ClearsSlotAnyway(l) == ttl > 0

ClearsSlot(l) == ttl > 0 /\ inflight[load[l].key] = l

Settled(c, l) ==
  IF load[l].pc = "failed" THEN [caller[c] EXCEPT !.pc = "failed", !.on = NoLoad]
  ELSE [caller[c] EXCEPT !.pc = "answered", !.on = NoLoad, !.ver = load[l].ver]

Awaits(c, l) == caller[c].on = l

\* .finally: give up the slot if it is still this load's; every caller that
\* awaits the promise gets its value, or its error.
Settle(l) ==
  /\ load[l].pc \in {"published", "failed"}
  /\ load' = [load EXCEPT ![l] = NoLoadRec]
  /\ inflight' = IF ClearsSlot(l) THEN [inflight EXCEPT ![load[l].key] = NoLoad]
                                  ELSE inflight
  /\ caller' = [c \in Callers |-> IF Awaits(c, l) THEN Settled(c, l) ELSE caller[c]]
  /\ UNCHANGED <<config, data, store, order, generation, now>>

Return(c) ==
  /\ caller[c].pc \in {"answered", "failed"}
  /\ caller' = [caller EXCEPT ![c] = IdleCaller]
  /\ UNCHANGED <<config, data, store, order, inflight, generation, load, now>>
----------------------------------------------------------------------------
(* Writers of report inputs.                                               *)

Committed ==
  /\ version < MaxWrites
  /\ version' = version + 1
  /\ committedAt' = Append(committedAt, now)

\* A mutation commits; its handler is about to invalidate.
Commit(w) ==
  /\ writer[w] = "idle" /\ Committed
  /\ writer' = [writer EXCEPT ![w] = "committed"]
  /\ UNCHANGED <<config, told, store, order, inflight, generation, load, caller,
                 now>>

\* A write whose handler invalidates another copy of the module, or none.
CommitElsewhere ==
  /\ Committed
  /\ UNCHANGED <<config, told, writer, store, order, inflight, generation, load,
                 caller, now>>

NoneInflight == [k \in Keys |-> NoLoad]

\* invalidateReportCache
Invalidate(w) ==
  /\ writer[w] = "committed"
  /\ generation' = generation + 1
  /\ store' = [k \in Keys |-> NoEntry] /\ order' = <<>>
  /\ inflight' = NoneInflight
  /\ told' = version
  /\ writer' = [writer EXCEPT ![w] = "idle"]
  /\ UNCHANGED <<config, version, committedAt, load, caller, now>>

\* Time passes, but no loader runs for longer than Latency.
Tick ==
  /\ now < MaxTime
  /\ \A l \in Callers : load[l].pc # "none" => now - load[l].issued < Latency
  /\ now' = now + 1
  /\ UNCHANGED <<config, data, store, order, inflight, generation, load, caller>>
----------------------------------------------------------------------------
Call(c, k) == Bypass(c, k) \/ Hit(c, k) \/ Join(c, k) \/ StartLoad(c, k)

LoadStep(l) == ReadRows(l) \/ FailLoad(l) \/ Publish(l) \/ Settle(l)

Next ==
  \/ \E c \in Callers, k \in Keys : Call(c, k)
  \/ \E c \in Callers : LoadStep(c) \/ Return(c)
  \/ \E w \in Writers : Commit(w) \/ Invalidate(w)
  \/ CommitElsewhere
  \/ Tick

Spec == Init /\ [][Next]_vars
----------------------------------------------------------------------------
(* Properties                                                              *)

\* The type invariant.
TypeOK ==
  /\ ttl \in Nat /\ cap \in Nat \ {0}
  /\ version \in Nat /\ told \in Nat /\ generation \in Nat /\ now \in Nat
  /\ committedAt \in Seq(Nat)
  /\ store \in [Keys -> Entry \cup {NoEntry}] /\ order \in Seq(Keys)
  /\ inflight \in [Keys -> Callers \cup {NoLoad}]
  /\ load \in [Callers -> [pc: {"none", "issued", "read", "failed", "published"},
                 key: Keys, startedAt: Nat, issued: Nat, ver: Nat]]
  /\ caller \in [Callers -> [pc: {"idle", "waiting", "answered", "failed"},
                   on: Callers \cup {NoLoad}, floor: Nat, began: Nat, ver: Nat]]
  /\ writer \in [Writers -> {"idle", "committed"}]

\* The promise made to the routes, as seen by one that calls cachedReport.
view == [c \in Callers |->
  [pc |-> caller[c].pc, floor |-> caller[c].floor, ver |-> caller[c].ver]]

Promise == INSTANCE FreshReads WITH Readers <- Callers, reader <- view

\* README.md: "Any change made in the app flushes the cache immediately, so you
\* will never see data from before an import or an edit."  However calls, loads,
\* commits and invalidations interleave, a call that begins after an
\* invalidation is answered with what that writer committed, or newer.
KeepsPromise == Promise!Spec

Stored == {k \in Keys : store[k] # NoEntry}

\* "The store is bounded": after any sequence of hits, publishes, sweeps and
\* expiries it holds at most MAX_ENTRIES, and the recency order lists what it
\* holds, each key once.
StoreBounded ==
  /\ Cardinality(Stored) <= cap
  /\ Range(order) = Stored /\ \A i, j \in 1 .. Len(order) : order[i] = order[j] => i = j

\* An entry that could still answer is dropped by an invalidation, or by a
\* publish that fills the store to its cap, and then it was the entry unused
\* for longest.
FreshSurvives ==
  [][\A k \in Keys :
       Fresh(k) /\ store'[k] = NoEntry /\ generation' = generation
       => /\ Cardinality({x \in Keys : store'[x] # NoEntry}) = cap
          /\ \A i \in 1 .. Len(order) : order[i] = k => \A j \in 1 .. i - 1 : ~Fresh(order[j])]_vars

\* A burst of identical calls costs one loader run: two unsettled loads of a key
\* are never of the same generation.
OneLoadPerKey ==
  \A l, m \in Callers :
    /\ ttl > 0 /\ l # m
    /\ load[l].pc # "none" /\ load[m].pc # "none"
    /\ load[l].key = load[m].key
    => load[l].startedAt # load[m].startedAt

\* No caller is left awaiting a load that has already settled.
NoLostWakeup ==
  \A c \in Callers : caller[c].pc = "waiting" =>
    caller[c].on \in Callers /\ load[caller[c].on].pc # "none"

\* Both: a computation is shared by exactly the calls it is for.
LoadsAreShared == OneLoadPerKey /\ NoLostWakeup

\* "30s staleness is approved": a write nobody announced to this copy is in
\* every answer to a call made the lifetime of an entry plus one loader run later.
StalenessBounded ==
  \A c \in Callers : caller[c].pc = "answered" =>
    \A v \in 1 .. version :
      caller[c].began >= committedAt[v] + ttl + Latency => v <= caller[c].ver
=============================================================================
