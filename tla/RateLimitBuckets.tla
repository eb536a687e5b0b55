--------------------------- MODULE RateLimitBuckets ---------------------------
(***************************************************************************)
(* The table rate_limit_buckets and the two libraries that keep rows in    *)
(* it: rate-limit.ts counts attempts per key and window, cron-nonce.ts     *)
(* remembers which signed requests were already used.  Each prunes expired *)
(* rows of both kinds, now and then, without waiting for the answer; an    *)
(* administrator clears the rows of one address.                           *)
(*                                                                         *)
(* Every call reads the clock, then awaits one statement that carries the  *)
(* time it read.  The statement is atomic, but executes later, in any      *)
(* order with those of other calls.                                        *)
(*                                                                         *)
(* Time is in ticks, PerSecond of them to a second.  A statement executes  *)
(* within one tick of the clock reading it carries.                        *)
(*                                                                         *)
(* "verdicts" and "accepted" are history, read by the properties alone.    *)
(*                                                                         *)
(* A definition whose comment begins "Variant:" is one edit away from the  *)
(* definition it precedes, and is there to show which property sees it.    *)
(***************************************************************************)
EXTENDS Integers, Sequences, FiniteSets

CONSTANTS
  Limited,          \* limiter keys: "login:<ip>", "api:<key id>", ...
  Nonces,           \* the nonces of signed cron requests
  Addresses,        \* client addresses
  AddressOf,        \* the address a limiter key ends in, if it ends in one
  Requests,         \* calls in progress
  Instances,        \* copies of the module state (one per bundle)
  MaxAttempts,      \* attempts admitted per window
  Window,           \* windowMs, in ticks
  PerSecond,        \* ticks per second
  Skew,             \* CRON_MAX_SKEW_SECONDS
  CleanupInterval,  \* CLEANUP_INTERVAL_MS, in ticks
  Workloads,        \* the mixes of calls to consider
  MaxTime,          \* bound on the clock
  NoRow

\* A mix: the limiter keys and nonces in use, the number of calls.
Workload == [limited: SUBSET Limited, nonces: SUBSET Nonces, calls: Nat]

Parameters ==
  /\ AddressOf \in [Limited -> Addresses \cup {NoRow}]
  /\ Limited \cap Nonces = {}
  /\ MaxAttempts \in Nat \ {0} /\ Window \in Nat \ {0, 1}
  /\ PerSecond \in Nat \ {0} /\ Skew \in Nat \ {0}
  /\ CleanupInterval \in Nat /\ MaxTime \in Nat
  /\ Workloads \subseteq Workload
  /\ Instances # {} /\ Requests # {}
  /\ NoRow \notin Addresses \cup [count: Nat, resetAt: Nat]

RowKeys == Limited \cup Nonces

VARIABLES
  workload,     \* the mix of this behaviour
  rows,         \* the table: per key its row or NoRow
  request,      \* per call in progress: what its statement will do
  prunes,       \* cut-offs of the deletes of expired rows in flight
  lastCleanup,  \* per copy and library: when it last launched a delete
  signed,       \* per nonce: the second its sender signed
  calls,        \* calls so far
  now,
  verdicts,     \* per limiter key: clock reading and verdict of the calls so far
  accepted      \* per nonce: the clock readings of the calls accepted

vars == <<workload, rows, request, prunes, lastCleanup, signed, calls, now,
          verdicts, accepted>>
----------------------------------------------------------------------------
Libraries == {"rate-limit", "cron-nonce"}
Row == [count: Nat, resetAt: Nat]
Idle == [pc |-> "idle"]
Pending == [pc: {"pending"}, key: RowKeys, at: 0..MaxTime]

NonceTTL == Skew * 2 * PerSecond
Second(t) == t \div PerSecond

\* Date.now() is large against every interval when a copy starts with 0.
Never == 0 - CleanupInterval

Init ==
  /\ workload \in Workloads
  /\ rows = [k \in RowKeys |-> NoRow]
  /\ request = [r \in Requests |-> Idle]
  /\ prunes = {}
  /\ lastCleanup = [copy \in Instances \X Libraries |-> Never]
  /\ signed \in [Nonces -> 0..Second(MaxTime)]
  /\ \A n \in Nonces \ workload.nonces : signed[n] = 0
  /\ calls = 0
  /\ now = 0
  /\ verdicts = [k \in Limited |-> <<>>]
  /\ accepted = [n \in Nonces |-> <<>>]
----------------------------------------------------------------------------
\* Both libraries' maybeCleanup: a delete of what has expired, at most one per
\* copy and interval, that nobody awaits.
MaybeCleanup(i, library) ==
  IF now - lastCleanup[<<i, library>>] < CleanupInterval
    THEN UNCHANGED <<lastCleanup, prunes>>
    ELSE /\ lastCleanup' = [lastCleanup EXCEPT ![<<i, library>>] = now]
         /\ prunes' = prunes \cup {now}

\* Both start by reading the clock and cleaning up; then they await their
\* statement.
Begin(r, i, library, k) ==
  /\ calls < workload.calls
  /\ request[r] = Idle
  /\ MaybeCleanup(i, library)
  /\ request' = [request EXCEPT ![r] = [pc |-> "pending", key |-> k, at |-> now]]
  /\ calls' = calls + 1
  /\ UNCHANGED <<workload, rows, signed, now, verdicts, accepted>>

\* checkRateLimit is called.
CheckRateLimit(r, i, k) == k \in workload.limited /\ Begin(r, i, "rate-limit", k)

\* verifyCronRequest's time check; the signature itself is taken as authentic.
Timely(n) ==
  /\ ~(Second(now) - signed[n] > Skew)
  /\ ~(signed[n] - Second(now) > Skew)

\* authorizeCronRequest, for a request that may be delivered any number of
\* times.
AuthorizeCronRequest(r, i, n) ==
  /\ n \in workload.nonces
  /\ Timely(n)
  /\ Begin(r, i, "cron-nonce", n)

\* Variant: every attempt moves the end of its window.
BucketRolling(row, t) ==
  IF row = NoRow \/ row.resetAt <= t
    THEN [count |-> 1, resetAt |-> t + Window]
    ELSE [count |-> row.count + 1, resetAt |-> t + Window]

\* The row the upsert of an attempt that read the clock at t leaves.
Bucket(row, t) ==
  IF row = NoRow \/ row.resetAt <= t
    THEN [count |-> 1, resetAt |-> t + Window]
    ELSE [count |-> row.count + 1, resetAt |-> row.resetAt]

Finish(r) ==
  /\ request' = [request EXCEPT ![r] = Idle]
  /\ UNCHANGED <<workload, prunes, lastCleanup, signed, calls, now>>

\* The upsert executes.  Its caller is judged by the row it returns, or let
\* through if the answer is lost on the way.
Attempt(r) ==
  /\ request[r] # Idle /\ request[r].key \in Limited
  /\ LET k == request[r].key
         t == request[r].at
         row == Bucket(rows[k], t)
     IN  /\ rows' = [rows EXCEPT ![k] = row]
         /\ \E verdict \in {IF row.count <= MaxAttempts THEN "allowed" ELSE "refused",
                            "open"} :
              verdicts' = [verdicts EXCEPT ![k] = Append(@, [at |-> t, is |-> verdict])]
  /\ UNCHANGED accepted
  /\ Finish(r)

RetainedUntil(t) == t + NonceTTL

\* INSERT ... ON CONFLICT DO NOTHING executes.  Whoever inserted proceeds, unless
\* the answer is lost on the way.
Consume(r) ==
  /\ request[r] # Idle /\ request[r].key \in Nonces
  /\ LET n == request[r].key
         t == request[r].at
     IN  IF rows[n] = NoRow
           THEN /\ rows' = [rows EXCEPT ![n] = [count |-> 0, resetAt |-> RetainedUntil(t)]]
                /\ \/ accepted' = [accepted EXCEPT ![n] = Append(@, t)]
                   \/ UNCHANGED accepted
           ELSE UNCHANGED <<rows, accepted>>
  /\ UNCHANGED verdicts
  /\ Finish(r)

\* The statement never executes: an attempt is let through (the limiter fails
\* open), a signed request is refused (the nonce fails closed).
Fail(r) ==
  /\ request[r] # Idle
  /\ UNCHANGED <<rows, accepted, verdicts>>
  /\ Finish(r)

\* The delete's WHERE clause.
Expired(row, cutoff) == row # NoRow /\ row.resetAt < cutoff

\* A delete of expired rows executes, on rows of both kinds, or fails unnoticed.
Prune(cutoff) ==
  /\ prunes' = prunes \ {cutoff}
  /\ \/ rows' = [k \in RowKeys |-> IF Expired(rows[k], cutoff) THEN NoRow ELSE rows[k]]
     \/ UNCHANGED rows
  /\ UNCHANGED <<workload, request, lastCleanup, signed, calls, now, verdicts, accepted>>

\* An administrator unblocks an address; what was admitted before counts no
\* longer.
UnblockIp(ip) ==
  /\ \E k \in workload.limited : AddressOf[k] = ip /\ rows[k] # NoRow
  /\ rows' = [k \in RowKeys |-> IF k \in Limited /\ AddressOf[k] = ip THEN NoRow ELSE rows[k]]
  /\ verdicts' = [k \in Limited |-> IF AddressOf[k] = ip THEN <<>> ELSE verdicts[k]]
  /\ UNCHANGED <<workload, request, prunes, lastCleanup, signed, calls, now, accepted>>

\* Every statement a tick old has executed.
Tick ==
  /\ now < MaxTime
  /\ \A r \in Requests : request[r] # Idle => request[r].at = now
  /\ now' = now + 1
  /\ UNCHANGED <<workload, rows, request, prunes, lastCleanup, signed, calls,
                 verdicts, accepted>>

Next ==
  \/ \E r \in Requests, i \in Instances :
       \/ \E k \in Limited : CheckRateLimit(r, i, k)
       \/ \E n \in Nonces : AuthorizeCronRequest(r, i, n)
  \/ \E r \in Requests : Attempt(r) \/ Consume(r) \/ Fail(r)
  \/ \E cutoff \in prunes : Prune(cutoff)
  \/ \E ip \in Addresses : UnblockIp(ip)
  \/ Tick

Spec == Init /\ [][Next]_vars
----------------------------------------------------------------------------
TypeOK ==
  /\ workload \in Workloads
  /\ rows \in [RowKeys -> Row \cup {NoRow}]
  \* A nonce's row counts nothing, so no query for blocked keys finds it.
  /\ \A k \in RowKeys : rows[k] # NoRow => (rows[k].count = 0 <=> k \in Nonces)
  /\ request \in [Requests -> {Idle} \cup Pending]
  /\ prunes \subseteq 0..MaxTime
  /\ lastCleanup \in [Instances \X Libraries -> {Never} \cup 0..MaxTime]
  /\ signed \in [Nonces -> Nat]
  /\ calls \in Nat /\ now \in 0..MaxTime
  /\ verdicts \in [Limited -> Seq([at: Nat, is: {"allowed", "refused", "open"}])]
  /\ accepted \in [Nonces -> Seq(Nat)]

At(k, verdict) == {j \in DOMAIN verdicts[k] : verdicts[k][j].is = verdict}

\* In no span of Window ticks does a key admit more than twice MaxAttempts,
\* however statements overtake one another and whatever is pruned: one window
\* may end in the span and one begin.  (checkRateLimit, maybeCleanup.)
AdmissionsBounded ==
  \A k \in Limited, t \in 0..MaxTime :
    Cardinality({j \in At(k, "allowed") : verdicts[k][j].at \in t..(t + Window - 1)})
      <= 2 * MaxAttempts

\* A caller is refused only if MaxAttempts calls got through in the last Window
\* ticks: refusals do not extend the block, so polling never prolongs it.
\* (The reset_at of the upsert in checkRateLimit.)
RefusedOnlyWhenFull ==
  \A k \in Limited : \A j \in At(k, "refused") :
    Cardinality({i \in At(k, "allowed") \cup At(k, "open") :
                   verdicts[k][i].at >= verdicts[k][j].at - Window})
      >= MaxAttempts

\* Both: the limiter admits no more than it says, and no fewer.
AdmissionsExact == AdmissionsBounded /\ RefusedOnlyWhenFull

\* A signed request delivered twice is carried out once, although its row is
\* pruned in the end: the row outlives the time its stamp is accepted.  The one
\* exception is a sender a full Skew ahead: the row then expires within the last
\* second that still accepts the stamp.  (NONCE_TTL_MS against verifyCronRequest.)
SingleUse ==
  \A n \in Nonces :
    \/ Len(accepted[n]) <= 1
    \/ signed[n] >= Second(accepted[n][1]) + Skew
=============================================================================
