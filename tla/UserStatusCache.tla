-------------------------- MODULE UserStatusCache --------------------------
(***************************************************************************)
(* The session-revocation lookups of src/src/lib/user-status.ts: a cached  *)
(* snapshot of the users table, one per module instance, and the three     *)
(* predicates every guard of lib/auth.ts awaits before it lets a request   *)
(* through.  Requests, the shared load they join, and the handlers that    *)
(* write a row and then drop the snapshot interleave at every await.       *)
(*                                                                         *)
(* A row's "born", "rev" and "changedAt", "version", "told" and the        *)
(* request fields "floor", "began", "doomed" and "open" are history:       *)
(* nothing reads them but the properties.                                  *)
(*                                                                         *)
(* A definition whose comment begins "Variant:" is one edit away from the  *)
(* definition it precedes, and is there to show which property sees it.    *)
(***************************************************************************)
EXTENDS Naturals

CONSTANTS
  Users,      \* account ids; an id is never used for a second account
  Instances,  \* copies of the module, each with its own cache
  Requests,   \* concurrent guarded requests; a load is named by its starter
  Writers,    \* concurrent handlers that change users rows
  Ops,        \* the writes the handlers may make
  TTL,        \* TTL_MS, in clock ticks
  Latency,    \* the longest a snapshot query stays unanswered
  MaxWrites,  \* bound: committed writes
  MaxTime,    \* bound: clock ticks
  NoLoad, NoSnap

AllOps == {"create", "disable", "enable", "revoke", "delete", "wipe"}

Row == [present: BOOLEAN, disabled: BOOLEAN, epoch: Nat,
        born: Nat, rev: Nat, changedAt: Nat]
Rows == [Users -> Row]
Snapshot == [rows: Rows, ver: Nat, readAt: Nat]
CacheEntry == [snap: Snapshot, at: Nat]

ASSUME ParamAssumption ==
  /\ Users # {} /\ Instances # {}
  /\ Ops \subseteq AllOps
  /\ TTL \in Nat /\ Latency \in Nat /\ MaxWrites \in Nat /\ MaxTime \in Nat

ASSUME DistinctAssumption ==
  /\ NoLoad \notin Requests
  /\ NoSnap \notin Snapshot
  /\ NoSnap \notin CacheEntry

VARIABLES
  users,       \* the users table
  version,     \* how many writes have committed
  cache,       \* per instance: the published snapshot
  inflight,    \* per instance: the load new callers join
  generation,  \* per instance: number of invalidations
  told,        \* per instance: version when a handler of it that takes
               \* something away from a session last answered
  load,        \* per request: the load it started
  request,     \* per request: the guard it is executing
  writer,      \* per writer: the instance it has yet to invalidate
  now

vars == <<users, version, cache, inflight, generation, told, load, request,
          writer, now>>
----------------------------------------------------------------------------
Checks == {"isUserDisabled", "isUserDeleted", "isSessionEpochStale"}
Verdicts == {"accepted", "refused"}

\* A row as the next committed write leaves it.
NewRow(present, disabled, epoch, born) ==
  [present |-> present, disabled |-> disabled, epoch |-> epoch,
   born |-> born, rev |-> version + 1, changedAt |-> now]

NoLoadRec == [pc |-> "none", inst |-> CHOOSE i \in Instances : TRUE,
              startedAt |-> 0, issued |-> 0, snap |-> NoSnap]

IdleRequest == [pc |-> "idle", inst |-> CHOOSE i \in Instances : TRUE,
                user |-> CHOOSE u \in Users : TRUE, epoch |-> 0,
                wait |-> NoLoad, snap |-> NoSnap,
                floor |-> 0, began |-> 0, doomed |-> FALSE, open |-> FALSE]

IdleWriter == [pc |-> "idle", inst |-> CHOOSE i \in Instances : TRUE]

Init ==
  \* One account exists; any other is yet to be created.
  /\ \E u0 \in Users :
       users = [u \in Users |->
                  [present |-> u = u0, disabled |-> FALSE, epoch |-> 0,
                   born |-> 0, rev |-> 0, changedAt |-> 0]]
  /\ version = 0
  /\ cache = [i \in Instances |-> NoSnap]
  /\ inflight = [i \in Instances |-> NoLoad]
  /\ generation = [i \in Instances |-> 0]
  /\ told = [i \in Instances |-> 0]
  /\ load = [r \in Requests |-> NoLoadRec]
  /\ request = [r \in Requests |-> IdleRequest]
  /\ writer = [w \in Writers |-> IdleWriter]
  /\ now = 0
----------------------------------------------------------------------------
(* Requests: the guards of lib/auth.ts run the predicates in this order.   *)

\* What the three predicates ask of a row, read without a cache.
Live(row, tokenEpoch) ==
  row.present /\ ~row.disabled /\ ~(tokenEpoch < row.epoch)

\* The row is dead for this token and no later write can bring it back.
DeadForGood(row, tokenEpoch) ==
  ~row.present \/ tokenEpoch < row.epoch

\* A cookie of account u, minted at some epoch the account has had, arrives.
Start(r, i, u, e) ==
  /\ request[r].pc = "idle"
  /\ users[u].present \/ users[u].rev > 0
  /\ e <= users[u].epoch
  /\ request' = [request EXCEPT ![r] =
       [IdleRequest EXCEPT !.pc = "isUserDisabled", !.inst = i, !.user = u,
          !.epoch = e, !.floor = told[i], !.began = now,
          !.doomed = users[u].rev <= told[i] /\ DeadForGood(users[u], e)]]
  /\ UNCHANGED <<users, version, cache, inflight, generation, told, load,
                 writer, now>>

Asking(r) ==
  request[r].pc \in Checks /\ request[r].wait = NoLoad /\ request[r].snap = NoSnap

\* Variant: the entry still counts as fresh when its age reaches TTL_MS.
FreshTooLong(i) == cache[i] # NoSnap /\ now - cache[i].at <= TTL

Fresh(i) == cache[i] # NoSnap /\ now - cache[i].at < TTL

\* getSnapshot answers from the cache.
CacheHit(r) ==
  LET i == request[r].inst IN
  /\ Asking(r) /\ Fresh(i)
  /\ request' = [request EXCEPT ![r].snap = cache[i].snap]
  /\ UNCHANGED <<users, version, cache, inflight, generation, told, load,
                 writer, now>>

\* getSnapshot joins the load another request started.
JoinLoad(r) ==
  LET i == request[r].inst IN
  /\ Asking(r) /\ ~Fresh(i)
  /\ inflight[i] # NoLoad
  /\ request' = [request EXCEPT ![r].wait = inflight[i]]
  /\ UNCHANGED <<users, version, cache, inflight, generation, told, load,
                 writer, now>>

\* getSnapshot starts a load, stamped with the generation before the query.
StartLoad(r) ==
  LET i == request[r].inst IN
  /\ Asking(r) /\ ~Fresh(i)
  /\ inflight[i] = NoLoad
  /\ load' = [load EXCEPT ![r] = [pc |-> "issued", inst |-> i,
                startedAt |-> generation[i], issued |-> now, snap |-> NoSnap]]
  /\ inflight' = [inflight EXCEPT ![i] = r]
  /\ request' = [request EXCEPT ![r].wait = r]
  /\ UNCHANGED <<users, version, cache, generation, told, writer, now>>

\* loadSnapshot: the database answers the query with the rows of this moment.
ReadRows(r) ==
  /\ load[r].pc = "issued"
  /\ load' = [load EXCEPT ![r].pc = "read",
                ![r].snap = [rows |-> users, ver |-> version, readAt |-> now]]
  /\ UNCHANGED <<users, version, cache, inflight, generation, told, request,
                 writer, now>>

\* The query fails instead: .then is skipped.
FailRead(r) ==
  /\ load[r].pc = "issued"
  /\ load' = [load EXCEPT ![r].pc = "failed"]
  /\ UNCHANGED <<users, version, cache, inflight, generation, told, request,
                 writer, now>>

\* Variant: publish whatever was read.
MayAlwaysPublish(r) == TRUE

MayPublish(r) == generation[load[r].inst] = load[r].startedAt

\* .then: publish unless an invalidation has moved the generation.
Publish(r) ==
  LET i == load[r].inst IN
  /\ load[r].pc = "read"
  /\ load' = [load EXCEPT ![r].pc = "published"]
  /\ cache' = IF MayPublish(r)
                THEN [cache EXCEPT ![i] = [snap |-> load[r].snap, at |-> now]]
                ELSE cache
  /\ UNCHANGED <<users, version, inflight, generation, told, request, writer,
                 now>>

NextCheck(pc) == CASE pc = "isUserDisabled" -> "isUserDeleted"
                   [] pc = "isUserDeleted" -> "isSessionEpochStale"
                   [] OTHER -> "accepted"

\* Variant: the error of a failed lookup is not caught.
FailLoudly(q) == [q EXCEPT !.pc = "error", !.wait = NoLoad, !.open = TRUE]

\* The predicate cannot tell: it reports false (fails open).
FailOpen(q) == [q EXCEPT !.pc = NextCheck(@), !.wait = NoLoad, !.open = TRUE]

\* Variant: clear the slot even when a newer load occupies it.
ClearsAnySlot(r) == TRUE

ClearsSlot(r) == inflight[load[r].inst] = r

\* Variant: a superseded load never settles for those who joined it.
AwaitsCurrent(q, r) == request[q].wait = r /\ MayPublish(r)

Awaits(q, r) == request[q].wait = r

\* .finally: clear the slot if it is still this load's, and settle the promise
\* every joined request awaits.
Settle(r) ==
  LET i == load[r].inst IN
  /\ load[r].pc \in {"published", "failed"}
  /\ load' = [load EXCEPT ![r] = NoLoadRec]
  /\ inflight' = IF ClearsSlot(r) THEN [inflight EXCEPT ![i] = NoLoad] ELSE inflight
  /\ request' = [q \in Requests |->
       IF ~Awaits(q, r) THEN request[q]
       ELSE IF load[r].pc = "failed" THEN FailOpen(request[q])
       ELSE [request[q] EXCEPT !.wait = NoLoad, !.snap = load[r].snap]]
  /\ UNCHANGED <<users, version, cache, generation, told, writer, now>>

\* Variant: absence from the snapshot is taken for the verdict.
JudgementUnconfirmed(pc, row, tokenEpoch) ==
  CASE pc = "isUserDisabled" /\ row.disabled -> "refused"
    [] pc = "isUserDeleted" /\ ~row.present -> "refused"
    [] pc = "isSessionEpochStale" /\ tokenEpoch < row.epoch -> "refused"
    [] OTHER -> NextCheck(pc)

\* What the awaited predicate makes of the snapshot it was handed.
Judgement(pc, row, tokenEpoch) ==
  CASE pc = "isUserDisabled" /\ row.disabled -> "refused"
    [] pc = "isUserDeleted" /\ ~row.present -> "confirm"
    [] pc = "isSessionEpochStale" /\ tokenEpoch < row.epoch -> "refused"
    [] OTHER -> NextCheck(pc)

\* A deleted row has no disabledAt and no sessionEpoch left to read.
Visible(row) == IF row.present THEN row
                ELSE [row EXCEPT !.disabled = FALSE, !.epoch = 0]

Judge(r) ==
  LET q == request[r] IN
  /\ q.pc \in Checks /\ q.snap # NoSnap
  /\ request' = [request EXCEPT
       ![r].pc = Judgement(q.pc, Visible(q.snap.rows[q.user]), q.epoch),
       ![r].snap = NoSnap]
  /\ UNCHANGED <<users, version, cache, inflight, generation, told, load,
                 writer, now>>

\* isUserDeleted: an id absent from the snapshot is confirmed by primary key.
Confirm(r) ==
  LET q == request[r] IN
  /\ q.pc = "confirm"
  /\ request' = [request EXCEPT ![r].pc =
       IF users[q.user].present THEN "isSessionEpochStale" ELSE "refused"]
  /\ UNCHANGED <<users, version, cache, inflight, generation, told, load,
                 writer, now>>

ConfirmFails(r) ==
  /\ request[r].pc = "confirm"
  /\ request' = [request EXCEPT ![r].pc = "isSessionEpochStale", ![r].open = TRUE]
  /\ UNCHANGED <<users, version, cache, inflight, generation, told, load,
                 writer, now>>

Finish(r) ==
  /\ request[r].pc \in Verdicts
  /\ request' = [request EXCEPT ![r] = IdleRequest]
  /\ UNCHANGED <<users, version, cache, inflight, generation, told, load,
                 writer, now>>
----------------------------------------------------------------------------
(* Writers: the handlers that change a users row, awaited before they      *)
(* call invalidateUserStatusCache() in their own instance.                 *)

\* A user is created (users POST, setup): no invalidation follows.
Create(u) ==
  /\ "create" \in Ops /\ version < MaxWrites
  /\ ~users[u].present /\ users[u].rev = 0
  /\ users' = [users EXCEPT ![u] = NewRow(TRUE, FALSE, 0, version + 1)]
  /\ version' = version + 1
  /\ UNCHANGED <<cache, inflight, generation, told, load, request, writer, now>>

\* The row an update leaves behind.
Updated(op, row) ==
  CASE op = "disable" -> NewRow(TRUE, TRUE, row.epoch, row.born)
    [] op = "enable" -> NewRow(TRUE, FALSE, row.epoch, row.born)
    [] op = "revoke" -> NewRow(TRUE, row.disabled, row.epoch + 1, row.born)
    [] op = "delete" -> NewRow(FALSE, FALSE, row.epoch, row.born)

\* users PATCH, users PUT / reset-password / change-password, users DELETE.
Commit(w, i, op, u) ==
  /\ writer[w].pc = "idle" /\ version < MaxWrites
  /\ op \in Ops \ {"create", "wipe"}
  /\ users[u].present
  /\ users' = [users EXCEPT ![u] = Updated(op, @)]
  /\ version' = version + 1
  /\ writer' = [writer EXCEPT ![w] = [pc |-> "committed", inst |-> i]]
  /\ UNCHANGED <<cache, inflight, generation, told, load, request, now>>

DroppedInflight(i) == [inflight EXCEPT ![i] = NoLoad]

NextGeneration(i) == [generation EXCEPT ![i] = @ + 1]

\* The last step of those handlers before the response: invalidateUserStatusCache.
Invalidate(w) ==
  LET i == writer[w].inst IN
  /\ writer[w].pc = "committed"
  /\ cache' = [cache EXCEPT ![i] = NoSnap]
  /\ generation' = NextGeneration(i)
  /\ inflight' = DroppedInflight(i)
  /\ told' = [told EXCEPT ![i] = version]
  /\ writer' = [writer EXCEPT ![w] = IdleWriter]
  /\ UNCHANGED <<users, version, load, request, now>>

\* admin/wipe with scope "all": every user goes, and the snapshot stays.
Wipe(i) ==
  /\ "wipe" \in Ops /\ version < MaxWrites
  /\ \E u \in Users : users[u].present
  /\ users' = [u \in Users |->
       IF users[u].present THEN NewRow(FALSE, FALSE, users[u].epoch, users[u].born)
                           ELSE users[u]]
  /\ version' = version + 1
  /\ told' = [told EXCEPT ![i] = version + 1]
  /\ UNCHANGED <<cache, inflight, generation, load, request, writer, now>>

\* Time passes, but no query stays unanswered for longer than Latency.
Tick ==
  /\ now < MaxTime
  /\ \A r \in Requests : load[r].pc # "none" => now - load[r].issued < Latency
  /\ now' = now + 1
  /\ UNCHANGED <<users, version, cache, inflight, generation, told, load,
                 request, writer>>
----------------------------------------------------------------------------
RequestStep(r) ==
  \/ \E i \in Instances, u \in Users, e \in 0 .. MaxWrites : Start(r, i, u, e)
  \/ CacheHit(r) \/ JoinLoad(r) \/ StartLoad(r)
  \/ Judge(r) \/ Confirm(r) \/ ConfirmFails(r) \/ Finish(r)

LoadStep(r) == ReadRows(r) \/ FailRead(r) \/ Publish(r) \/ Settle(r)

WriterStep(w) ==
  \/ \E i \in Instances, op \in Ops, u \in Users : Commit(w, i, op, u)
  \/ Invalidate(w)

Next ==
  \/ \E r \in Requests : RequestStep(r)
  \/ \E r \in Requests : LoadStep(r)
  \/ \E w \in Writers : WriterStep(w)
  \/ \E u \in Users : Create(u)
  \/ \E i \in Instances : Wipe(i)
  \/ Tick

Spec == Init /\ [][Next]_vars
----------------------------------------------------------------------------
(* Properties                                                              *)

LoadRec == [pc: {"none", "issued", "read", "published", "failed"},
            inst: Instances, startedAt: Nat, issued: Nat,
            snap: Snapshot \cup {NoSnap}]

RequestRec == [pc: Checks \cup Verdicts \cup {"idle", "confirm"},
               inst: Instances, user: Users, epoch: Nat,
               wait: Requests \cup {NoLoad}, snap: Snapshot \cup {NoSnap},
               floor: Nat, began: Nat, doomed: BOOLEAN, open: BOOLEAN]

\* The type invariant.
TypeOK ==
  /\ users \in Rows /\ version \in Nat /\ now \in Nat
  /\ cache \in [Instances -> CacheEntry \cup {NoSnap}]
  /\ inflight \in [Instances -> Requests \cup {NoLoad}]
  /\ generation \in [Instances -> Nat] /\ told \in [Instances -> Nat]
  /\ load \in [Requests -> LoadRec]
  /\ request \in [Requests -> RequestRec]
  /\ writer \in [Writers -> [pc: {"idle", "committed"}, inst: Instances]]

Pending(r) == load[r].pc # "none"

\* The comment on invalidateUserStatusCache: the generation check is exactly
\* equivalent to checking that the load still owns the in-flight slot.
GenerationIsOwnership ==
  \A r \in Requests : Pending(r) =>
    LET i == load[r].inst IN
    (generation[i] = load[r].startedAt) <=> (inflight[i] = r)

\* No publish resurrects rows an invalidation of the same instance has
\* superseded, however the query, the commit and the invalidation interleave.
CacheNotSuperseded ==
  \A i \in Instances : cache[i] # NoSnap => cache[i].snap.ver >= told[i]

\* A request is never left awaiting a load that can no longer settle, and the
\* load it awaits is one of its own instance.
NoLostWakeup ==
  \A r \in Requests : request[r].wait # NoLoad =>
    /\ Pending(request[r].wait)
    /\ load[request[r].wait].inst = request[r].inst

\* A burst of requests costs one query per generation, never two.
OneLoadPerGeneration ==
  \A r, s \in Requests :
    /\ Pending(r) /\ Pending(s)
    /\ load[r].inst = load[s].inst
    /\ load[r].startedAt = load[s].startedAt
    => r = s

\* The three together: the in-flight slot is shared by exactly the requests it is
\* for.  A settling load never clears its successor's slot, a burst costs one
\* query, and an invalidation strands nobody.
LoadsAreShared == GenerationIsOwnership /\ NoLostWakeup /\ OneLoadPerGeneration

\* The guard let a session through that its instance had been told is dead for
\* good (deleted account, older epoch), though no lookup failed.
LetDeadThrough(r) ==
  request[r].pc = "accepted" /\ request[r].doomed /\ ~request[r].open

\* A handler that has invalidated is obeyed by every request that starts later
\* in its instance, whatever is written afterwards, but for one order of events:
\* the account of the revoked session is deleted between the existence check and
\* the epoch check, and the epoch of an absent row reads as 0.
RevokedIsRefusedUnlessDeleted ==
  \A r \in Requests :
    LetDeadThrough(r) =>
      LET row == users[request[r].user] IN
      ~row.present /\ row.rev > request[r].floor

Exact(q) ==
  q.pc \in Verdicts /\ ~q.open
  => (q.pc = "accepted" <=> Live(users[q.user], q.epoch))

\* When a handler of this instance answered after the row's last change and
\* before the request began, the verdict agrees with the row in both directions:
\* a suspended, deleted or revoked session is refused, and an account that was
\* just restored is admitted.
VerdictExactWhenTold ==
  \A r \in Requests :
    LET q == request[r] IN users[q.user].rev <= q.floor => Exact(q)

\* An account nobody has touched since it was created is never turned away,
\* though the snapshots of the last TTL_MS do not list it.
FreshAccountAdmitted ==
  \A r \in Requests :
    LET row == users[request[r].user] IN
    request[r].pc = "refused" => ~(row.present /\ row.rev = row.born)

\* The three together: the verdict of the guard agrees with the row, but for
\* the order of events RevokedIsRefusedUnlessDeleted names.
VerdictsFollowRows ==
  RevokedIsRefusedUnlessDeleted /\ VerdictExactWhenTold /\ FreshAccountAdmitted

\* In an instance nobody told (another copy of the module, or after a wipe), a
\* change takes effect TTL_MS plus the time of one query after it was committed.
VerdictExactWhenAged ==
  \A r \in Requests :
    LET q == request[r] IN
    q.began >= users[q.user].changedAt + TTL + Latency => Exact(q)

\* The event loop runs every callback and the database answers every query.
Fairness ==
  \A r \in Requests :
    /\ WF_vars(ReadRows(r) \/ FailRead(r)) /\ WF_vars(Publish(r)) /\ WF_vars(Settle(r))
    /\ WF_vars(CacheHit(r) \/ JoinLoad(r) \/ StartLoad(r))
    /\ WF_vars(Judge(r)) /\ WF_vars(Confirm(r) \/ ConfirmFails(r))

FairSpec == Spec /\ Fairness

\* Every guard that starts to run gives a verdict: no invalidation strands it.
EveryGuardAnswers ==
  \A r \in Requests : request[r].pc = "isUserDisabled" ~> request[r].pc \in Verdicts
=============================================================================
