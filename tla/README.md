# Training Tracker: a TLA+ model

This directory models the parts of Training Tracker whose correctness depends on
the order in which things happen: a multi-tenant Next.js application (route
handlers and an edge proxy over Prisma and PostgreSQL), the shell scripts that
update it in place, and the timers that run its jobs. The TLA+ modules are read
from the code; TLC checks them on small instances and TLAPS proves the most
important invariants for instances of any size.

Paths below are relative to the repository root. The application's TypeScript
is under `src/`, the deployment scripts under `deploy/`.

Contents: [1 the system](#1-the-system), [2 what is hard](#2-what-is-hard),
[3 the modules](#3-the-modules), [4 the runs](#4-the-runs),
[5 the theorems](#5-the-theorems), [6 findings](#6-findings),
[7 what is not modelled](#7-what-is-not-modelled), [8 the plan](#8-the-plan),
[9 running it](#9-running-it).

## 1. The system

Every request passes `src/proxy.ts` (edge: no database), then a route handler
(Node: one event loop, interleaved at every `await`) that reads and writes
PostgreSQL through Prisma. Module-level variables are per *module instance*:
route handlers and server components are bundled separately, so one process
holds several copies of a cache, and each copy learns of a write only from the
handlers of its own copy or by expiry.

| Component | State it keeps | Operations | What makes it correct |
|---|---|---|---|
| Session-revocation lookups, `src/lib/user-status.ts` | per instance: cached snapshot of `users`, in-flight load, generation | three predicates, invalidate | a change is obeyed at once where the handler ran and within a bound elsewhere; nobody is stranded; one query per burst |
| Tokens and guards, `src/lib/auth.ts`, `src/proxy.ts` | claims in the cookie (role, epoch, pending MFA, session start, idle window) | mint, verify, slide, clear, require* | no session outlives its cap, its idle window or its sign-out; a user who is active stays signed in; no stale claim is honoured |
| Idle timer and sign-out, `src/components/auth/**` | per tab: last activity, last ping, warning, deadline | activity, ping, warning, sign-out | as above, in every tab that shares the cookie |
| Account handlers, `src/app/api/admin/users/**`, `src/app/api/auth/**` | `users` rows | create, edit, suspend, delete, reset, change password, MFA set-up/verify/disable, login, first-run set-up | the instance keeps a usable SuperAdmin; a live token carries the row's authority |
| Limiter and nonces, `src/lib/rate-limit.ts`, `src/lib/cron-nonce.ts`, `src/lib/cron-auth.ts` | `rate_limit_buckets` rows of two kinds, last clean-up per copy | check, consume, prune, unblock | a window never admits more than its maximum; a block ends; a signed request is carried out once |
| Login lockout, `src/lib/login-attempts.ts`, `src/lib/failed-attempts.ts` | `users.failedLoginAttempts`, `users.lockedUntil` | register failure and success, unblock | the account is locked after enough failures, for long enough, and only then |
| Report cache, `src/lib/report-cache.ts` | LRU map, in-flight map, generation | cachedReport, invalidate, sweep | bounded; never republishes what an invalidation superseded |
| System settings, `src/lib/system-settings.ts` | `system_settings` row, 30 s cache | getters, setters, invalidate | a setter's value is what later readers see |
| Catalogue and completions, `src/app/api/training-data/**`, `src/app/api/training-taken/**`, `src/lib/olx.ts`, `src/lib/training-group.ts` | `training_data`, `olx_sub_item_relations`, `training_taken` | create, edit, rename, retype, merge, delete, import, recompute OLX parents | a parent completion is held exactly when its sub-items are; lists without a foreign key name trainings there are; no completion is lost |
| Learners, countries, companies, `src/lib/student-import.ts`, `src/app/api/students/**`, `src/app/api/region-data/**`, `src/app/api/admin/companies/**` | `students`, `region_data`, `companies`, `training_taken` | create, edit, delete, import in chunks | an import is its rows one by one and says so; an Admin touches the companies they have access to and no other |
| Compliance plans, `src/lib/compliance-plan.ts` | none (pure) | gaps, cost, allocation of people | the figures are feasible and not inflated; carried out, a plan closes what it says on the dashboards |
| Backup and restore, `src/app/api/admin/backup/**` | archive files, every table | generate, restore full or configuration | a restore brings back what was archived under the partner it belonged to, touches nothing else, and ends the sessions it must |
| Scheduled exports, `src/app/api/admin/scheduled-exports/**`, `src/lib/run-export.ts` | schedule rows, `lastRunAt` | due check, run, record, edit | an export that is due is run |
| Export credentials, `src/lib/credential-health.ts`, `src/lib/export-destinations.ts`, the OAuth wizard | sealed tokens, health columns, the state cookie | connect, probe, refresh, persist, mark | a rotated refresh token is never lost; health is honest |
| In-place updates, `src/app/api/admin/updates/**`, `deploy/update-agent.sh`, `deploy/auto-update.sh`, `deploy/perform-update.sh` | request and status files, `.env`, the working tree, `node_modules`, the build, the database schema | request, switch channel, claim, update, roll back | an update ends with code, build and schema that belong together |
| Public API, `src/lib/api-key.ts`, `src/lib/public-api.ts`, `src/lib/company-scope.ts` | `api_keys`, grants | authorise, resolve company filter | a key never sees a company it was not granted |
| Reports and forecasts, `src/lib/report-queries.ts`, `src/lib/program-report.ts`, `src/lib/renewal-forecast.ts` | none (read-only sums) | queries | figures that agree with their definition |
| UI, documents, install scripts | browser state; none | rendering, formatting | see section 7 |

How they interact. A guard of `lib/auth.ts` trusts three things: the claims in
the cookie, which nothing ever compares with the row; the snapshot of
`user-status.ts`; and, before that, whatever the account handlers bumped (the
session epoch) to make old cookies stale. So the account handlers and the
revocation lookups meet in two places: the handler calls
`invalidateUserStatusCache()` after its write, and the epoch it writes must be
above the one every outstanding cookie carries. A restore meets both: it replaces
the accounts wholesale, and its epoch floor has to end every session it knows of.
The proxy re-signs what it verified while handlers replace or clear the same
cookie, and the idle timers of the tabs decide whether anybody pings it. Report
routes share `report-cache.ts`; the handlers that change a report's inputs call
`invalidateReportCache()`, in their own copy of the module. The limiter and the
nonce store share one table and prune each other's rows. Handlers of the catalogue
and the imports write first and recompute the OLX parents they affected afterwards,
outside the transaction. Compliance plans and dashboards compute the same
populations and the same ladder in separate code. Exports and credential checks
refresh one token. Updates are asked for through a file that a root-owned systemd
unit watches, and a cron entry starts the same script on its own account.

## 2. What is hard

* **Interleaving at every `await`.** Handlers read, decide and write in separate
  statements, mostly outside transactions. Two of them at once are what no test
  of the repository exercises.
* **Caches with in-flight loads.** A query issued before a write can come back
  after the write's invalidation. `user-status.ts` and `report-cache.ts` carry a
  generation number against this, `system-settings.ts` does not.
* **Several copies of a module.** An invalidation reaches one copy; the others
  wait for the TTL.
* **Statements that carry a clock of their own.** The limiter's upsert and the
  nonce's insert compute times in the application and execute later.
* **A token is a claim, not a row.** Whoever mints it from a row read earlier
  freezes what was true then; and the browser keeps the cookie of the response
  that arrives last.
* **Two clocks.** The idle timer of a tab and the expiry in the token measure the
  same window from different events.
* **Derived rows.** A parent completion is recomputed from rows that other
  requests are changing; lists of titles have no foreign key.
* **Partial failure and kills.** A chunk of an import is rolled back and run again
  row by row. The updater's steps fail one by one, its unit has a start timeout,
  the host can reboot, and its rollback restores some of what the update changed
  and not the rest.
* **Rotating tokens.** A provider that forgets the old refresh token turns a lost
  answer or an overlapping probe into a broken connection.
* **Archives that mix two moments and installs whose ids differ.** A backup reads
  its tables one by one; a restore renumbers companies, users, product types.
* **Two computations of one figure.** Plans and dashboards.
* **At-most-once and at-least-once.** A signed cron request may be delivered twice;
  a schedule is due in one minute only.

`PROJECT.json` lists each of these under `hazards`, with the line where it bites
and the properties that would see it go wrong.

## 3. The modules

Every module names its state after the code's. Variables or record fields called
*history* in a module's header are written by the actions and read only by the
properties. A definition whose comment begins "Variant:" is a plausible mistake,
one edit away from the definition below it, and belongs to no specification: it
shows which property would notice.

### UserStatusCache (`src/lib/user-status.ts`, guards of `src/lib/auth.ts`)

`cache`, `inflight` and `generation` are the module-level variables of one copy
of the module, indexed by `Instances`. A load is named after the request that
started it and passes through the points between which JavaScript may run
something else: issued, read (`ReadRows`; the database answers), published
(`Publish`; the continuation of the query, which checks the generation), settled
(`Settle`; the `.finally` that gives up the slot, and the resumption of everyone
who awaits the promise). A request (`Start`) runs the three predicates in the
guards' order; each may hit the cache, join a load or start one, and each fails
open on an error. `Confirm` is the uncached second look at an account the
snapshot does not list. A handler (`Commit`, `Invalidate`) writes a row and, one
await later, drops the snapshot; `Wipe` is a factory reset, which never tells
the lookups. A row is abstracted to presence, suspension and epoch.

### Accounts (`src/app/api/admin/users/**`, `src/app/api/auth/**`)

One record per request in progress (`handler`): what it is, whose cookie it came
with, and the row it read. `Request` is its guard, `Read` its first `findUnique`
and the checks on it, `Count` the call of `countUsableSuperAdmins`, `Write` the
one statement that changes the row and the cookie that some handlers answer with,
`Refuse` every early return and error path. `SignIn` and `Mint` are the login
route, which signs the token from the row it read at the start. The operations
are the handlers' names; `Written`, `RevokesSessions` and `Reissues` are what
each of them writes, when an edit bumps the session epoch, and who gets a new
cookie with which claims. Guards judge the row of the moment: the lag of the
lookups is UserStatusCache's subject and left out here.

Most of what this module promises holds only if certain requests do not overlap.
The overlaps left out are named twice: in the property (`Serialised({...})`) and
in the mix of requests the run considers (`Workloads`), so that nothing is hidden
in a bound. One run puts an overlap back and shows what goes wrong.

### FreshReads and ReportCache (`src/lib/report-cache.ts`)

FreshReads is the promise without the mechanism: data has versions, some writes
are announced, and a reader is answered with a version at least as new as the
last announcement made before it asked. ReportCache is the mechanism: the `Map`
whose insertion order is the order of last use (`store`, `order`), the in-flight
map, the generation, both TTL modes (`Bypass` when the TTL is 0), the batch sweep
and the trim to the cap (`OrderAfterPublish`), and the environment's raw values
through the code's own fallbacks (`TTLOf`, `CapOf`). A report is represented by
the version of the data its loader read. `CommitElsewhere` is a write whose
handler invalidates another copy, or none (`src/app/api/region-data/route.ts` and
the company routes change report inputs and do not invalidate). ReportCache
implements FreshReads under the mapping `view`, which forgets what a caller is
waiting for.

### SystemSettings (`src/lib/system-settings.ts`)

The row, the 30-second cache of one copy, getters that read through it
(`Hit`/`Miss`) or around it (`Brand`), setters that put the row their upsert
returned into the cache (`Refreshed`), and drops after a restore. A field is
represented by the version of the write that set it, so a row mixed from two
moments would be visible.

### RateLimitBuckets (`src/lib/rate-limit.ts`, `src/lib/cron-nonce.ts`, `src/lib/cron-auth.ts`)

The table holds rows of both kinds. A call reads the clock, may launch an
unawaited prune (`MaybeCleanup`), and awaits one atomic statement that carries
the time it read: the upsert of an attempt (`Attempt`, `Bucket`), or the insert
of a nonce (`Consume`). Statements overtake one another within a tick. The
limiter fails open and the nonce fails closed (`Fail`, and the lost answers in
`Attempt` and `Consume`). `Timely` is the time check of `verifyCronRequest` on
seconds, the rest of the module counts in fractions of one (`PerSecond`): the
stamp is floored and the row's expiry is not.

### LoginLockout (`src/lib/login-attempts.ts`)

The two columns of one account and the sign-ins that overlap on them: the read,
the early refusal, the increment (`CountFailure`), the computation of the lock
from the returned counter (`ComputeLock`), the second statement (`WriteLock`),
and `RegisterSuccess` with its early return judged by what was read at the start.

### Updater (`deploy/perform-update.sh`, `deploy/update-agent.sh`, `deploy/auto-update.sh`, `deploy/check-update.sh`, `src/app/api/admin/updates/**`)

One action per step of `perform-update.sh`, each with the failures the script
tolerates or turns into a rollback, and one per step of the rollback. A commit is
a number; commit *n* brings migration *n*; a branch is a point on the one
history. `tree`, `head` and `local` are the checkout and its refs, `deps`
`node_modules`, `client` the generated Prisma client, `build` `.next`, `schema`
the last applied migration, `saved` `.update-backup`. `Apply` and `SwitchChannel`
are the two routes that write the request file, `TakeRequest` the agent, `CronRun`
the schedule, `Push` the world. `TimeOut` and `Reboot` stop updaters anywhere,
in the middle of an install, of the migrations or of a build included.

`git`, `npm`, `prisma`, `pg_dump`, `psql` and systemd are modelled by what the
scripts rely on. In particular a plain dump replayed onto a database that has
moved on restores nothing it cannot create, and takes nothing away (`Replayed`).

### Sessions (`src/proxy.ts`, `src/lib/auth.ts`, `src/app/api/auth/**`, `src/components/auth/**`)

One browser and the cookie its tabs share. A request carries the cookie of the
moment it was sent, and its response the cookies to set; `Arrives` stores the last
of them. Between the two are `Login`, `Unauthorized` (with the redirect that clears
the cookie of a page load) and `Serve`: the proxy's verification and cap, its slide
(`Due`, `Slid`, `Slides`, `issuesOwnAuthCookie`), then the route's own guard and
handler. In the tab there are AuthProvider (`Begin`, `Enter`, `Depart`, `Evict`) and the
idle timer (`onActivity`, `stayAlive`, and the timer's callback inside `Tick`). The
clock is in a unit of the model, and `Tick` runs the timer of every tab. The account
itself is its session epoch, raised by this browser or from elsewhere (`Revoke`).
Three history variables and two fields of a tab say when a session was last let in,
which one was ended undisturbed, and whether the tab's user has been attentive.

### Catalogue (`src/app/api/training-data/**`, `src/app/api/training-taken/**`, `src/lib/olx.ts`, `src/lib/training-group.ts`, `src/lib/catalogue-integrity.ts`)

`training` and `members` are `training_data` and `olx_sub_item_relations`; `taken`
is `training_taken` with its row ids, because plans are applied by id. A request is read
and checked in one action and written in the next; what it affected
it recomputes afterwards (`Evaluate` draws up a plan, `Apply` carries it out,
`ApplyFails` leaves it). `pc` is how far it has come, `call` its operation, its body and
what it read, `todo` the recomputations left, `plan` the one drawn up last. A behaviour
begins with a catalogue of its workload that is in order (`InOrder`): completions of
parents as earned, no list naming what is gone, markers as the types allow. A title is a spelling; a holder of one spelling of a
sub-item holds the sub-item (`Groups`, `Holders`). `certification[]` and `replacedBy[]`
are sets of titles nothing constrains; `Rewrite`, `Sanitized` and `Expanded` are the code
that keeps them in order. The actions are the handlers: completions, `PostTraining`,
`PutTraining`, `DeleteTraining`, a Full Title's `PatchGroup`, `RenameGroup`, `MergeGroup`,
`DeleteGroup` and `MoveAliases`, the two maintenance endpoints, and the import of a
catalogue row by row.

### Learners (`src/lib/student-import.ts`, `src/app/api/students/**`, `src/app/api/region-data/**`, `src/app/api/admin/companies/**`)

`db` is the tables; `imports` is what an import holds in memory: the companies it
decided on, its copy of what the file refers to, the position, the counts. A chunk is
worked out on the copy (`Simulated`) and written in one transaction (`Flushed`); if that
fails it is rolled back and run again with a query and a statement per row on the same
copy (`SlowLookup`, `SlowCreate`). The other
handlers (learners, countries and their import, companies, deleting a training) read
and check, then write. An `Export` is a file that is made from the tables at the
moment it is imported.

### Exports (`src/app/api/admin/scheduled-exports/**`, `src/lib/run-export.ts`, `src/lib/export-destinations.ts`, `src/lib/credential-health.ts`)

`schedules` and `cred` are the two tables, `handler` the requests in progress, `cookie`
the wizard's state. `honoured` is the provider: the refresh tokens it would accept now.
`Box` forgets a token when it grants the next. `Execute` is cron's batch, `RunNow` a run by
hand; both go through `Collect`, `Grant`, `Upload`, `Persist` and `Record`, a check through `Grant`
and `Mark`, with the failures the code distinguishes (`Outcomes`) and a crash at any step.
What is written of the credential is `Verdict`: an upload that is refused in words
`isAuthError` matches (`src/lib/box-upload.ts:17`) is "rejected", and says "expired" of a token
just honoured (`byUpload`); a report that fails says nothing of it ("unseen").

### Restore (`src/app/api/admin/backup/**`)

`db` is one install: every table an archive holds, with the sequences the ids come
from. A backup reads its tables in two moments (`cuts`), in either of its kinds and with
the files its version had. A restore is one transaction: `RestoreFull` renumbers companies
(`CompanyIds`) and carries learners, offerings, sets, terms and access along; `RestoreConfig` merges by name (`RowCompany`, `Linked`). `EpochFloor` is what the
accounts start from. The installs a behaviour may restore on are the one the archive
came from, another one whose ids stand for other companies, and a new one.

### Allocation, CompliancePlan and PlanScenarios (`src/lib/compliance-plan.ts`, `src/lib/program-compliance.ts`)

Allocation is the greedy loop `allocateCandidates`, unrolled so that it can be proved
about: a gap is taken up, a person nominated, offered to the counterparts, settled.
CompliancePlan extends it with what surrounds the loop: the populations and
requirement instances of a request (`BuildInstances`), the gaps (`GapsOf`), the number
of new people (`GroupCost`, `NetNewTotal`), the specialisations a tier takes; and,
translated from other files, the dashboards' own ladder (`RequirementMet`,
`TierReached`). Its transitions are those of Allocation; the rest are functions of
its state. PlanScenarios holds fifteen questions about small catalogues.

### MC modules

`MCSessions`, `MCStores` and `MCData` check several components in one run. The
components share no state in them: the variable `part` says which one a behaviour
exercises, and the others stand still in an initial state, so that the cost is a sum
of state spaces and not a product. `MCAccounts`, `MCCatalogue`, `MCExports` and
`MCUpdater` give one module its instances. `MCSessions` takes Sessions with its theorems
(`INSTANCE Sessions_proofs`), so that they can be cited for its two instances, and
`MCData` takes Learners the same way. Administration_proofs extends both Accounts and
Updater, which share no state; that is why Updater's specification has names of its own
(`UpdaterSpec`, `UpdaterNext`, `UpdaterTypeOK`).

## 4. The runs

The check of each property against a deliberate mistake is listed in
`PROJECT.json` under `mutants`. State counts are of distinct states.

| Run | Instance | States | What it shows |
|---|---|---|---|
| `sessions` | snapshot: 1 copy, 2 accounts, 2 requests, 1 handler, 2 writes, clock stopped; session: 1 browser, 2 tabs, up to 3 choices of the user, idle window 5 or 7 units, cap 9 or 12, requests answered within 0 or 1 unit | 1.6 M | told revocations are obeyed; a session ends when it must and not before |
| `status_staleness` | snapshot: 2 copies, 1 account, 1 request, 1 handler, revoke and wipe, TTL and latency 1, 3 ticks, fair | 460 k | how long an untold copy is stale; guards answer |
| `accounts_serial` | 2 accounts, 2 cookie jars, 2 handlers, five mixes of handlers, 2 or 3 writes | 890 k | what holds once the named overlaps are left out |
| `accounts_lockout_race` | two SuperAdmins, overlapping PATCH | violation | finding 1 |
| `stores` | report cache: 3 keys, 2 callers, 1 handler, caps 1 (default 2 via 0), TTL 0 and 1; settings: 2 getters, 1 setter of 1 field, 2 ticks, and 1 getter, 2 setters of 2 fields, 3 ticks; limiter: 1 key, 4 attempts, or 1 nonce, 3 deliveries, 2 overlapping, 6 ticks; lockout: 2 overlapping sign-ins, 4 failures, a ladder of 4 then 5 ticks, 9 ticks | 1.1 M | both caches, limiter, nonces, lockout |
| `update` | 2 branches, 3 commits of which the newest does not start, 1 request, 1 scheduled run, 1 kill | 650 k | the updater, liveness included |
| `update_rollback_schema` | the same | violation | finding 2 |
| `catalogue` | 2 requests from one of ten catalogues of at most four trainings, one learner, two dates; one after the other, and overlapping: two additions, or an addition and a deletion | 810 k | derived completions, lists, completions kept |
| `exports` | 2 handlers, 2 or 3 requests, 2 clients, three providers, 4 tokens; 2 schedules in one minute of a two-minute day, 7 half-minutes | 1.7 M | the credential's token, its health, the schedule |
| `exports_cancelled_wizard` | a working connection and the wizard | violation | finding 3 |
| `data` | learners: 2 requests, 3 emails, 3 companies, 3 countries, files of 3 rows in chunks of 2; restore: 3 installs, 2 edits, 2 restores, epochs to 2, four mixes of archives; plans: fifteen questions, 3 people, 3 countries in 2 theatres, 6 titles | 360 k | imports, restores, plans |
| `restore_blank_seed` | a configuration with two offerings of one name, a new install | violation | finding 4 |

Why these bounds. The races are between two parties: a load and its successor, a
reader and an invalidation, two handlers of one row, two statements of one key. A
third party adds a repetition of the same interleaving, and for the caches the
proofs cover it. One account is enough for the snapshot, whose predicates read one
row; two are the least for "the last SuperAdmin" and for "not oneself". Two writes let
a second change race the first; enrolments need three (set-up, set-up again, verify).
A TTL of one tick with three ticks on the clock lets an entry be fresh, expire and be
replaced. A window of two ticks with six on the clock spans three windows, so that the
end of one and the start of the next fall into one span, rows are pruned, and a
nonce's row dies while its stamp is still being judged. A lock of four ticks is longer
than the three awaits of a sign-in may rest, as fifteen minutes are, and nine ticks let
a lock be earned, run out, and the next rung be earned. Three commits are needed for a
channel to be ahead of another, an update to be a jump over a commit, and the newest
to be broken.

In `sessions` the clock stops two units after the cap, so that a session lapses, is
slid up to its cap, and ends there; in the one instance a request is answered in the
unit it was sent, in the other it can outlive it and the token it carries. Three
choices are a sign-in and two things that compete with it (a second tab, a change of
password, a sign-out, a revocation); moving the mouse is free. In `catalogue` two
requests are the least for one to leave what the next trips over, and the initial
catalogues hold each shape the code distinguishes: two sub-items, one sub-item in two
spellings, a legacy certification with its replacement, an entry that awaits review.
Two additions that overlap start from a parent in one group and in two, with a row
there already and with none, on one day or on two.
In `data` three rows in chunks of two make a file span two transactions and name one
learner in both; three installs are the archive's own, one whose ids mean other
companies, and one with nothing in it; a second restore comes after the first has
moved the sequences. The fifteen questions were written to cover the branches of
the planner: flat and tiered programs, nested and split populations, Country Sets,
overlapping lists of certifications, lapsed holders, two spellings, legacy
replacements, the renewal window and dates to come.

Symmetry is used only in runs without liveness properties, over sets no value of
which is singled out. Deadlock checking is off in `stores`, `catalogue`, `exports`,
`data`, their violation runs and the two updater runs, whose systems rest when every
request has been made; it is on in `sessions`, `status_staleness` and the account
runs.

### Properties by module

*UserStatusCache.* `CacheNotSuperseded`: no publish brings back rows that an
invalidation of that copy superseded. `LoadsAreShared`: a load's generation is
current exactly when it owns the slot (the comment in the code says so), one load per
generation, nobody awaits a load that is gone. `VerdictsFollowRows` is three things.
If a handler of this copy answered after the row's last change and before the guard
began, the verdict agrees with the row in both directions; a told revocation is obeyed
whatever is written later, except for the one order section 6 describes; and an
account newer than the snapshot is not turned away. `VerdictExactWhenAged`: in a copy
nobody told, the verdict is right after TTL plus one query. `EveryGuardAnswers`
(liveness).

*Sessions.* `SessionsEnd`: whatever chain of slides, replacements and late responses,
a cookie the proxy would admit is within the cap of its session's start and within an
idle window of the last request the session was let in with; the browser never holds a
cookie of a session it signed out of with nothing else under way, nor one older than the
epoch its own change of password left it with. `ActivityKeepsSession`: a user who never
leaves a tab for more than half the idle window less a ping interval (and the requests'
time) is not signed out before the cap, whatever the other tab does short of signing
out, and whichever response comes first.

*Accounts.* `NoLockout`, and `ClaimsAreEarned`: a cookie the guards accept has the role
its row has now, is pinned to the set-up page when the row owes an enrolment, and does
not descend from a login before a reset; and an enabled MFA secret is one its owner
produced a code for. Each with the overlaps it excludes in its own antecedent.

*ReportCache.* `KeepsPromise` (it implements FreshReads), `StoreBounded`,
`LoadsAreShared` (one computation per key and generation, nobody awaits one that is
gone), `FreshSurvives` (an entry that could still answer is dropped only by an
invalidation, or by filling the store to its cap, and then it was the one unused for
longest), and its part of `ChangesAreSeen`: an unannounced write is in every answer
asked for TTL plus one loader run later.

*SystemSettings.* Its part of `ChangesAreSeen`: the same bound, and a setter nothing
overlapped is obeyed at once and for good. Its type invariant says that the cache holds
a row the table has held, never a mixture.

*RateLimitBuckets and LoginLockout*, together `ThrottlesExact`: no span of one window
admits more than two windows' worth, however statements overtake one another;
refusals never prolong a block; a signed request is carried out once, although its row
is pruned in the end (the exception is a sender whose clock is a full skew ahead: its
stamp is floored to the second and its row is not, and the row goes first,
`src/lib/cron-nonce.ts:30`); an account is locked when, and only when, its failures
earn it, and for as long.

*Updater.* `SchemaCoversCode` (neither the build nor the running service is ahead
of the schema, not even in the middle, after a kill or in a rollback), `EndsWhole`
(what is complete is the new commit in every part, what is rolled back is the old one),
`StaysOnChannel` (no update goes backwards, and the branch checked out is the channel of
`.env`, but for the failures it names),
`ServiceComesBack` (liveness). Three things are outside them and are the code's: a
rollback does not restore `node_modules`, so half an install may keep the service down;
a kill during the build can leave the service stopped, and `ServiceComesBack` excuses
it; and all of them assume that two updates never overlap.

*Catalogue.* `CreditIsEarned`: at rest, nobody is owed a parent completion or holds one
their sub-items do not support, and its date is that of the latest sub-item; requests
that only add completions may overlap as they please, if they are of one day (section 6). `RowsAgree`: what the two lists
name exists, and markers fit types. `CompletionsKept`: no edit, retyping, renaming,
merge or move loses a completion.

*Learners.* `ImportIsExact`: an import writes and refuses what taking its rows one by
one would; its counts and the pairs it hands to the recomputation are what it
inserted, although chunks are rolled back and run again and others write meanwhile;
and importing an export changes nothing. `TenantsKeptApart` (an action property): an
Admin's request leaves other companies' learners alone.

*Exports.* `ConnectionLasts`: what is stored can be used until it is connected anew.
`HealthHonest`: "ok" means it can, "expired" that it cannot, unless OneDrive or Google
rejected an upload: that says "expired" of a connection that still works. With Box it
no longer does, as the token goes with the upload. `OccurrencesServed`: a
schedule that cron found enabled at its time has been run. Each excludes by name what
it does not promise (overlaps of a Box credential, a crash between grant and write, a
schedule deleted while the batch was ahead of it).

*Restore.* `FullRestoreIsExact`, `ConfigMergesByPartner`, `OldSessionsEnd`.

*CompliancePlan.* `AllocationSound`: whoever is spent can earn one certification that
serves every gap they are credited to, no gap is charged twice or beyond its need, and
a gap left short has nobody idle in its pool. `CostIsHonest`: so many new people are
enough to close what is left, and no more than one list of certifications at a time
would take. `PlanCloses`: carried out, whichever certification each nominated person
earns, a finished plan closes its gaps as the dashboards count them and reaches the
tiers it targets.

### Assumptions

* **Exclusive** (Updater). The request file's unit and the cron entry can run
  `perform-update.sh` at once on one tree, one `.update-backup` and one status
  file, and nothing prevents it. The other properties can
  then fail: one update moves the tree while the other builds it, or deletes the
  other's backup. So the runs assume that an update starts only when none runs;
  the overlap is listed as a hazard.
* **Latency.** A query, and the continuation after it, takes at most `Latency`
  ticks in the properties that speak of staleness; a request of a browser at most
  `Latency` units in Sessions; and a sign-in, or a call of the limiter, rests at most a
  tick between two statements. Without such a bound there is none on staleness, and no
  activity keeps a session. `Timely` of Sessions, which `ActivityKeeps` assumes and TLC
  evaluates for both instances, asks that a browser's request be answered within a ping
  interval (15 s at least), and that twice the two together be less than the window.
* **The constants.** What the modules ask of them is in `ParamAssumption`,
  `DistinctAssumption` and `BackupAssumption`, and in the operator `Parameters` where a
  module is instantiated (Sessions, Allocation, SystemSettings, RateLimitBuckets,
  LoginLockout, Learners, Restore), which the MC modules assume of each instance
  (`SessionsParameters`, `StoresParameters`). TLC evaluates them on every run. Beyond
  kinds and non-emptiness they say that the shortest lock is longer than a sign-in's
  three awaits (`Ladder[1] > 3`: minutes against seconds) and the ladder does not
  descend, that a limiter's window is longer than a tick, that the settings' lifetime is
  positive (30 s), that the warning comes within the idle window, and that the
  installs a backup may meet are `Sound`: keys refer to rows, what the schema declares
  unique is, the sequences of accounts and companies have given their ids, and epochs are
  ones the column can hold; and that a full archive old enough to lack a table is one some
  version wrote: the migrations that made programs (`20260701`), then sets (`20260930`,
  `20261001`), then terms (`20261015`) came in this order, so one that holds terms holds
  sets and the reference tables. Of the catalogue they say that titles, learners and dates
  are finitely many, that the catalogues of a workload are tables the schema admits
  (`Tables`: keys refer to rows, ids are unique) and that the rows of a file have the
  columns an import knows (`Cells`). Of the learners they say the same of a workload's
  databases (`Sound`; and `Shaped`: a table is a function of its keys) and of its files (`FileRows`, `RegionRows`; a file of countries has
  a row, or the route refuses it), and that an email in lower case is an email.
* **The clocks agree.** A tab's clock and the server's are one in Sessions; and the
  guards there judge the row of the moment.
* **Serial requests.** Catalogue's edits, Learners' edits and the properties of
  Accounts and Exports that say so are about requests that do not overlap; the mixes
  that do overlap are named in the MC modules.
* **Fairness.** `status_staleness`: the event loop runs every callback that is
  due and the database answers or fails every query. No fairness is assumed of
  users, of handlers or of the clock. `update`: a script that has been started
  runs on (`WF` of its steps; each external command ends, successfully or not),
  and the unit takes a request that is there. No fairness of pushes, of requests,
  of the schedule or of success.

## 5. The theorems

TLAPS checks these for all values of the constants that satisfy the modules'
assumptions (section 4); a further hypothesis of a theorem is named with it. Together
they state 34 of the 40 properties that the passing runs check.

**UserStatusCache_proofs.** `TypeCorrect`, `GenerationOwnership`,
`LoadsDeduplicated`, `NobodyStranded`, the three together as `LoadsShared` (the property
`LoadsAreShared`), and `NoStalePublish`. The invariants the runs
check are not inductive; what is added is: `Answered` (a load that was answered
has rows), `WaitInv` (whoever awaits a load is in the middle of a check, and
whoever started a pending load awaits it), `SlotInv` (a stamp never runs ahead of
the generation, and a slot holds a pending load of its own copy) and `FreshInv`
(a load that may still publish read its rows after its copy was last told).
`NoStalePublish` assumes that no handler is a factory reset (`"wipe" \notin Ops`):
that route answers without invalidating, so the snapshot it supersedes stays for
its lifetime, which `VerdictExactWhenAged` bounds.

`VerdictsFollow` (the property `VerdictsFollowRows`, under the same hypothesis) and
`VerdictsAge` (`VerdictExactWhenAged`, wipes included, for a positive TTL) need the
whole path from a row to a verdict. `RowInv` says of the rows, and `SnapInv` of every
snapshot somebody still holds, that it was true when it was read, and is true now of
each row that has not changed since. `TimeInv` bounds the age of what is pending or
published, `TellInv` keeps what a copy was told of from being undone. They give
`UsesInv`: the snapshot a request was handed, or is about to be, is exact of its row
whenever the row has not changed since the request's instance was told of it, or for
as long as a snapshot lives (`Current`). `VerdictInv` carries that through the three
checks of a guard, each of which establishes a part of the verdict. `DoomInv` is
apart: a session that was dead for good when its request began stays so in every
snapshot young enough to be used, and passes only if the account is gone meanwhile
(the order of section 6).

**Administration_proofs, of Updater.** `UpdatesTyped` (the property `UpdaterTypeOK`,
overlapping updates included) needs that an updater past its backup knows the commit to go back to (`Begun`).
`CodeIsCovered`: if `Exclusive`, `SchemaCoversCode` always holds. Its invariant
`Solo /\ Covered` adds that one updater at most is under way, that the kept build
is covered too, and that from the end of the migrations to the end of the build
the tree is. The argument: no step lowers the schema (`SchemaGrows`: migrations
add, and a replayed plain dump takes nothing away); a step that brings no build
of its own keeps everything covered (`CoveredByOld`); and the build brings in the
tree, which the migrations have covered and nobody else can move.

`UpdatesEndWhole` (the property `EndsWhole`) and `UpdatesStayOnChannel`
(`StaysOnChannel`) also hold if `Exclusive`. The first has a clause for every step of
the script (`Underway`, in `WholeInv`; unless an update was killed): between updates the
build starts, and it is served or the service is down; an updater under way has brought
dependencies, client, schema and build to the tree as far as its step says, or keeps the
build it found. The second relates the tree to histories that move while the script runs:
`AheadInv` says that whatever is to be checked out, or gone back to, can be brought up to
the build that was found, and `TrackInv` that whoever changed the channel has asked for
the switch, and the request is still there, or an updater has it, or it was carried out.

**Sessions_proofs.** `SessionsEndInTime`: the types and Sessions' own `SessionsEnd`, for
any windows, intervals, tabs and workloads that satisfy `Parameters`; the run checks two
such instances. MCSessions instantiates Sessions_proofs, so its theorems are theorems of both,
and the last two theorems of UserStatusCache_proofs say so of the run's own specification:
`SessionsEnd` and `ActivityKeepsSession`. There is one cookie in the jar and there may be many on the way:
`SessionInv` says of each, in the jar, on a request or in an answer that may yet arrive,
that its session was let in within an idle window of its expiry, was not signed out of,
and has an epoch between the one the browser's own change of password left and the
account's (`Sound`); that the answer to a sign-out or a change of password carries the
handler's cookie alone (`RequestOK`); and that one sign-in at most is under way
(`LoginInv`).

`ActivityKeeps` (Sessions' own `ActivityKeepsSession`, under `Timely`) adds to it what a
tab that nobody disturbed may rely on (`LivelyOK`). The cookie in the jar is of the tab's
session and of the account's epoch, or the answer to a change of password is on its way
(`SameAccount`). The tab's last activity came at most a ping interval after its last ping
(`Paced`). When no ping is under way the jar lasts half a window from the last one
(`Refreshed`): the proxy slid the cookie, or found it not due. While one is under way, the
cookie it took with it and the one in the jar outlive it (`PingOK`), so it is neither
refused nor late. Whatever arrives meanwhile in the same session leaves a cookie that
lasts an idle window from a request that was sent not long ago (`AnswerLasts`,
`SentOrLater`), so the order of the answers does not matter. A tab that is opening has the
same from its own question (`LoadingOK`). Without the first half of `Timely`, TLC finds a
counterexample in the model, in which one ping of a tab is under way at a time; with it
that bound restricts nothing, because a ping is answered before the next is due.

**Administration_proofs, of Accounts.** `TypeCorrect` adds what a handler holds at each of its steps
(`Shape`), and that requests the mix keeps apart do not overlap (`Apart`).
`LockedOutNever` (`NoLockout`, for mixes whose edits do not overlap): an edit past its
count leaves a SuperAdmin who can sign in, whoever else has written since (`Counted`),
and only the set-up runs while there is no account (`Inhabited`). `ClaimsHold`
(`ClaimsAreEarned`): every token of the row's present epoch, held or about to be set,
says what the row says (`Faithful`); what a handler has read still holds as far as it
will matter (`Recalls`); whoever may renew a cookie has not been evicted (`Welcome`); a
secret in use is one its owner proved (`Proved`). The overlaps that break a clause are
its antecedent, as they are in the property.

**Exports_proofs.** `TypeCorrect`, `ConnectionsLast` (`ConnectionLasts`),
`VerdictsHonest` (`HealthHonest`) and `SchedulesServed` (`OccurrencesServed`). Steps are
first put in four classes, and each invariant is shown for the classes: a request arrives
(`Arrives`), no handler moves (`Still`), a step no request takes (`Ungoverned`: a row
deleted, a grant revoked, a crash), a step of one handler. `OverlapInv`: two handlers that
have to do with the credential are marked as overlapping. `TokenInv`: what is stored
and what handlers have in hand is honoured, except for what Box has replaced and is yet to
be written (`KeptInv`, `HeldInv`), because of two handlers that may yet write a token
both are of one kind, and neither is Box's (`LoneInv`). `HealthInv`: what a handler
nothing overlaps takes the row for, and is about to say of it, is so; with Box, from the
grant until the write, that the row's token is dead. `PromisesInv` and
`ServedInv`: what cron found due has been run since, or is on the list of a handler at
work.

**Stores_proofs** is about ReportCache, and about MCStores itself, for all values of its
constants: `Parts` shows that a behaviour of `MCSpec` is one of each component's
specification.

The report cache. `TypeCorrect` and `StaysBounded` rest on `Shape`: the types, the recency
order lists the store's keys once each, and the cap. Most of their length is about
sequences: what `Without`, the sweep and the trim return (`WithoutFacts`, `SweepFacts`,
`PublishFacts`). `LoadsShared`, `NobodyStranded`, both together as `SharedLoads` (the
property `LoadsAreShared`), and `PromiseKept` rest on `Core`: what is stored is as new as
the last invalidation (`FreshInv`); a slot holds a load of its key that no invalidation has
superseded, and every such load holds its slot (`SlotInv`); a load of the current generation
that has rows has rows as new as the last invalidation (`RowsInv`); and a caller awaits an
unsettled load whose rows will do for it (`WaitInv`). `PromiseKept` is the refinement `Spec
=> FreshReads!Spec`: `StepRefines` maps a commit to `Write`, an invalidation to `Tell`, a
hit to `Serve`, joining or starting a load to `Ask`, a settling load to `Answer` or `Fail`
of the group that awaits it (or to a stutter when nobody does), and the rest to stutters.

`FreshStays` is the action property `FreshSurvives`; of the steps only a publish can drop a
fresh entry without an invalidation, and `PublishDrops` says which: the first of the recency
order, when the store is at its cap. `AnswersAge`, for a positive `Latency`, is the bound on
staleness for every key, caller, writer and lifetime: `AgeInv` dates entries, loads and
calls, and whatever is stored has every write older than its load. (With neither a lifetime
nor a latency a call could begin, and read, in the tick of a write but before it.)

MCStores, of all four components:
* `TypesCorrect` (`TypesOK`).
* `ChangesSeen` (`ChangesAreSeen`; `Latency > 0`, for `AnswersAge`). For the settings,
  `SettingsInv`: rows are told apart by their newest write (`Stamp`); what a getter, a
  handler and the entry hold is a row the table has held, with every write committed
  longer ago than its place allows (`Reflected`); and whoever is going to fill the cache
  has at least the write of the last refresh that nothing overlapped.
* `ThrottlesHold` (`ThrottlesExact`), of three parts.
  Limiter: after the attempts of the last window, which the row counts, come no others
  (`LastWindow`); the attempts admitted in any span of a window lie in two stretches of
  `MaxAttempts` (`Spread`); and each refusal comes after `MaxAttempts` in a row that were
  not refused (`Refusals`).
  Nonces: a row lives for two skews, and a stamp is floored to the second; the row
  is there for as long as the stamp is accepted, but for a sender a full skew ahead
  (`NonceSound`; `SecondsLater` is the division).
  Lockout: a sign-in counts its failure in one statement and locks in another, so a
  shorter lock can be written after a longer. `LocksInOrder` says that since a sign-in
  counted, either whoever counted later is on the way to a lock, or a lock holds until
  this one has been written (`Overtaken`, about cardinalities of sets of sign-ins);
  `LockStands`, that the last to count has yet to lock, or the lock is long enough. This is
  where the first lock must be longer than a sign-in's awaits.

**Catalogue_proofs.** For any catalogues, files, names, mixes and number of requests.
`CatalogueTypes` (`TypeOK`): its invariant `TypeInv` adds what each request holds, by
operation (`BodyOK`: an administrator's body, what was read with it, the rows of the file to
come) and what a plan may be (`PlanOK`). That ids stay unique is about plans: one is applied
by id to a table that has moved on, its new rows take the ids that are free, and no two
updates are for one row (`PlanFacts`, `ApplyFacts`).

`CatalogueAgrees` (`RowsAgree`) adds `Control` and `RowsOrderly`. `Control`: a request that
nothing has overlapped is the only one in flight, and what it read and validated still holds
when it writes (`Holds`: the titles it will store exist, the markers fit the type it will
leave). `RowsOrderly`, of mixes without overlap: every row's lists name trainings that
exist, or that a file was trusted with, and its markers fit. The hardest step is
`PutTraining`, one transaction that moves the key, rewrites the lists of every other row and
replaces the row's own (`PutIs`, `PutDone`); it is shown for the row that is moved and the
rows that are not. Rewriting lists is a function of sets (`Rewrite`, `Scrubbed`), and the
import goes a row at a time, so no induction over data is needed. "Needs attention" is
honest with overlap too: whoever writes the flag writes the columns in the same statement.

`CompletionsStay` is the action property `CompletionsKept`. An edit moves a completion's row
along by id (`AllKept`); what may delete is a plan, which was drawn up earlier:
`PlansDerived` says that the ids it is about to delete are still rows of OLX parents. That
holds if nothing retypes or renames a training while a plan waits, which is the hypothesis,
`Calm`: in a mix with overlapping requests there is no `PutTraining` and no
`ImportCatalogue`. The mixes of the run satisfy it. Without it the property fails: a PUT
that makes an OLX parent a certification between `Evaluate` and `Apply` turns the derived
row that the plan deletes into a completion.

**Data_proofs** is about MCData, for all values of its constants, and about Allocation, which
MCData extends. `TypeCorrect` and `Sound`: for any plan, however many gaps,
people and certifications, `AllocationSound` holds in every state of the loop. The
property is not inductive by itself. The invariant adds `Nominated` (the person being
credited is of the current gap's pool and has something left to credit; either they are
already credited to that gap, or it is still among the gaps on offer, is not full and
accepts something they have left), and `TriedSettled` (whoever of
the current pool has been considered is credited to the gap or spent on what it does not
accept), which becomes `NobodyOverlooked` when the gap is left. `ChargedOnce` is about
cardinalities: `OneMore` says what a credit adds. CompliancePlan's steps are Allocation's,
so the theorem covers the loop inside every plan.

`SignInsEnd` (the property `OldSessionsEnd`) holds for any installs, archives, highest
epoch and edits. Its invariant is `RestoreInv`: ids are below the sequence that gives
them and epochs are within the column (`SoundAccounts`); every cookie of this
install is of an account it has and of an epoch no later than the account's, and so is
every cookie of a backup, or of the archive, whichever half of the reading its accounts
come from (`BackupInv`, `ArchiveInv`); and an ended cookie is `Outrun`: its id is not
given again here, or some account of the archive had an epoch no lower and there is room above
it. The second is what saves the other install, where ids start anew: accounts of any
archive start above all its epochs (`UsersRestored`, `FloorIsAbove`), because a bounded
set of epochs has a highest (`HighestIsThere`, from well-foundedness). Whatever else a
restore does leaves the accounts alone (`FullyRestoredUsers`, `ReconfiguredUsers`).

`RowsSound` (Restore's `TypeOK`) and `ConfigMerges` (`ConfigMergesByPartner`) share the
invariant `RowsInv`: the database is `Sound`, what the schema holds it to; a backup under
way began on a sound one; and each table of the archive was an install's, its sets and terms
with the names their partners had then (`SoundArchive`), which is all that is left when the two
halves of a backup straddle a rename or a deletion. Every handler, and every step of both
restores, is shown to keep the database sound (`CompanyDeleted`, `FullySound`,
`ConfigSound`, ...). Fresh ids are unused because the ids a sequence gives to finitely many rows, in
order, are distinct and past what it gave (`IdsGiven`, from `Ranks`), and because finitely many
ids have a highest (`BoundIsThere`), which the sequence of the product types is set to.
`LastMerge`, the last conjunct, says that until the next edit the database is
`Merges(before, archive, .)`: what each step of the restore makes of the one before.
The rest is about that function alone (`MergeSteps`): a row of the archive finds the partner of
the name it carries and no other (`PartnerFound`), and no two rows of the archive become one
(`SetsOfPartner`, `TermsOfPartner`); then by name, as the property has it
(`SetsMerged`, `TermsMerged`).

`FullRestores` (`FullRestoreIsExact`) adds `ReadInv`: an archive read at one moment holds
every key its rows refer to, and the names it was read with (`Whole`), and until the next
edit the database is what the restore makes of the one before (`LastFull`). A full
restore deletes what it replaces and inserts the archive's rows with new ids, so the argument has two
halves. It goes through: the rows staged for each table fit the keys the ones before have got
(`RestoreFits`). And it is exact: companies are renumbered one to one (`CompaniesRenumbered`), the tables that
hang on them are rekeyed along (`SetsRekeyed`, `OfferingsRekeyed`, `TermsRelinked`), and a
table rekeyed along a bijection of ids with the names kept is, by name, the table it was
(`SameByName`, `RestoredByName`). For an archive that is too old to hold a table,
`SetsStay` and `TermsStay` say what is left of the install's own.

**Learners_proofs**, and of MCData the last three theorems of Data_proofs. `LearnersTyped`
(Learners' `TypeOK`, of which `TypesOK` is the conjunction with two others) and
`TenantsApart` (`TenantsKeptApart`) share `IndInv`. Its first half keeps the keys: the
tables are `Sound`, and what each request and import holds is typed (`AllSane`); past the
stage that introduces it, the country of a row is on the copy, and the names an import
introduces differ from each other (`Distinct`). Its second half is of the request that nothing overlaps
(`Alone`): a write that is still to come was let through for companies its user may
access (`Intent`), and an import's copy agrees with the database on every learner both
have (`Agree`), its row has a company the user may access, and past the lookup of its
learner that learner is the user's on the copy (`Copying`). A step that no copy decides
then changes learners of the user's companies alone (`Apart`). A chunk is decided on the copy
by the recursive function `Copies`: its first *n* rows add only entries of the user's own
(`ViewOK`), and typed ones (`Fresh`); the flush inserts those
and no other, so what it leaves is what was there and the user's. Statements about every
*n* are shown without an induction theorem: the numbers at which one fails would have a
least (`LeastIsThere`, from `WFMin`), which is not 0, and the one before it does not fail.
That the names a file introduces (`Drafted`) differ is shown in the same way. When the request of another overlaps, nothing is claimed of its learners, as
in the property; the keys hold all the same.

`Imports` is `ImportIsExact` (`ImportsExact` of Learners). Its conjunct `CountsAreHonest` holds
whoever else writes (`CountsHonest`): between chunks, and between
the rows of a chunk that runs again, the counts of an import's outcome are those of what it
has inserted (`CountInv`). On the copy, the counts go up with the
rows: after *n* of them, as many learners and completions are counted as the copy has gained
(`SimulatedTallies`, by least counterexample as above). A flush inserts just those; a
chunk that is rolled back leaves the counts it began with.

The other two are of an import that nothing overlaps, and need that nothing does until it
ends (`Solo`). `Exactly` says, at each of its steps, what the database is against the one the
import began on (*w*): while companies are introduced, *w*; while tables are read, *w* with
those companies, of which the copy then has the tables; between chunks, what the rows so far come to from there, one
by one (`Came`, with `RowByRow`, the reference), and the rows that failed are those it refuses.
`StageIs`, `RowMirrors` and `ChunkMirrors` take copy and reference through a row, and a chunk,
in step (`Mirrors`): the reference asks once whether it refuses a row, the code
stage by stage, and keeps the country of a row it then refuses, as the reference does. Because the copy is what the database is, and the
company of every row exists (`Placeable`, from the draft: `DraftRecalls`, `IntroducedPlaced`),
the flush meets no key that is taken and none that is missing, so it succeeds, and leaves
just the copy (`FlushIsExact`): the row-by-row run of a chunk is never entered.
`ReimportChangesNothing` follows on the reference: a row of an export is in every table already
(`ExportShows`, `RowIsThere`), its learner under the lower-case email the import looks up.
`Shaped` lets two databases be equal when their tables are.

What stays with TLC, and why:
* `EveryGuardAnswers` and `ServiceComesBack`, which are liveness under fairness.
* `CreditIsEarned` of Catalogue. Its invariant has to say, of every parent and learner,
  that the completion is as earned or that a recomputation which will see to it is left,
  through every handler's write.
* Of the plans `CostIsHonest` and `PlanCloses`, functions of a whole request, and
  the part of `TypesOK` that is theirs: what those functions compute for every input is an
  induction over data, which the installed provers cannot do.
* The properties of the four violation runs, which do not hold.

## 6. Findings

Four runs end in a violation. Each quotes what the repository says in
`PROJECT.json`.

1. `SuperAdminRemains` (`src/app/api/admin/users/[id]/route.ts:252`). The count of
   other usable SuperAdmins and the write are separate statements: two SuperAdmins
   who suspend each other at once leave none.
2. `RollbackRestoresSchema` (`deploy/perform-update.sh:115`). The pre-update dump
   is plain, so replaying it removes nothing the migrations added; and migrations
   that die half way are not counted as having run, so not even that is tried.
3. `CancelledWizardHarmless`
   (`src/app/api/admin/scheduled-exports/credentials/oauth/[provider]/start/route.ts:93`).
   Opening the wizard sets the refresh token of a working connection aside under a key
   nothing reads back, so every export after a cancelled wizard fails.
4. `BlankTargetIsSeeded` (`src/app/api/admin/backup/route.ts:1602`). A configuration
   whose two partners each have an offering of one name gives both to the oldest company
   of a new install, where they meet the unique index and the restore rolls back.

### Behaviours met on the way

These were met while the modules were written. The properties state what does hold and
name the exception where it touches one; no run of its own is spent on them.

*Sessions.*
* The keep-alive has a gap. A ping slides the token only if less than half its window
  remains (`src/proxy.ts:483`), and after a ping that did not slide it the tab does not
  ping again for a ping interval. Whoever is active up to such a moment and then rests
  can lose the session half an idle window less a ping interval later, before the warning
  that README.md:958, `.github/releases/v2.26.md` and the header of
  `IdleTimeoutManager.tsx` describe. `ActivityKeepsSession` has the interval that is safe.
* The timer of a tab left alone signs out the tabs that are in use.
* If the request of a sign-out is rejected (no network), `loggingOutRef` stays set and
  that tab's timer never asks again.
* A slid response that arrives after a sign-out's brings the cookie back; one that
  arrives after a change of password's puts the old epoch back, which ends the session
  the change meant to keep; and the redirect of an expired page load, arriving late,
  clears a fresh sign-in's cookie. `SessionsEnd` and `ActivityKeepsSession` excuse them by
  asking that nothing else be under way.

*Accounts and lookups.*
* A guard asks whether the account exists and whether the token's epoch is stale at two
  moments. If a revoked account is deleted in between, its absent row reads as epoch 0
  and the revoked token passes, for that one request (`src/lib/user-status.ts:208`).
* A password change that checked the old password before an administrator's reset
  committed overwrites the reset and is answered with a cookie at the newest epoch
  (`src/app/api/auth/change-password/route.ts:87`).
* Two first-run set-ups at once both count zero users (`src/app/api/auth/setup/route.ts:24`).
* A settings load that read the row before a setter committed publishes after the
  setter refreshed the cache (`src/lib/system-settings.ts:140`): the old setting is back
  for up to 30 s in that copy.

*Exports.* `isDue` looks back a rolling 60 s and not at "this minute", as its comment
says (`src/app/api/admin/scheduled-exports/execute/route.ts:27`): a run that ended late in
the previous minute makes it skip the scheduled one. A Box upload that fails after the
grant drops the rotated token (`src/lib/export-destinations.ts:208`). An upload whose refusal
speaks of expiry or authorisation marks a working OneDrive or Google connection "expired"
(`src/lib/credential-health.ts:143`); the next success clears it.

*Learners and catalogue.* Importing one's own export again changes learners whose email
was typed with capitals; changing the email of a learner who has completions fails
(`src/app/api/students/[email]/route.ts:196`; README.md:616 offers it); two imports at once
can insert a completion twice; an import can make an OLX a sub-item of another, which the
recomputation then treats as one. Two recomputations of one parent may each delete the row
the other keeps: with completions of several days being added at once, a plan that is
applied late names the row of its own latest day as the one to keep and the other as
superfluous, and the learner is left without a completion that is earned, until the
next recomputation (`src/lib/olx.ts:187`; five overlapping additions of two days are
enough). `AdditionsNeverOwe` excepts them.

*Backup and restore.* An archive older than the requirement files loses the
requirements of the programs it replaces by cascade, against the comment at
`src/app/api/admin/backup/route.ts:1743`. Cookies minted elsewhere after the archive was
taken may have higher epochs than the floor reckons with (comment near line 1060). A full
restore does not move the sequence of `product_types` (the configuration's does), so that
the next product type collides. Offerings of a configuration go to whatever company has
their number. In an archive that mixes two moments a learner whose company is missing keeps
the number.

*Plans.* When a window is planned for, a completion dated within it can stand in for the
future and leave today's gap open, against the comment near
`src/lib/compliance-plan.ts:1160`. For programs whose tiers count achieved specialisations
a tier's plan never plans deployment rows, and no plan knows `minimumPerTheatre`, although
README.md:1596 and the header say that plans and dashboards never disagree. A requirement
over an area with no country is costed though nobody can be certified there.

## 7. What is not modelled

* **The user interface** but for the idle timer and sign-out: pages, tables, forms
  and charts (`src/app/**/page.tsx`, `src/components/**`) are most of the repository's
  lines, and their state is one person's screen. The help pages, release notes and
  generated files are text.
* **Formatting and parsing** of settings, exports, documents and archives; the
  install scripts and `deploy/update.sh`, which a person runs once or by hand.
* **Read-only queries**: business and metric reports, the renewal forecast, the rows
  of the program report, the dashboards but for the ladder. They are sums over tables
  in one request; an interleaving changes what moment they show and nothing else. Their
  caching is modelled.
* **The public API**: a chain of checks on one request that ends in such a query
  (key, scope, limiter, company filter). It shares the limiter, which is modelled, and
  keeps no state but the time a key was last used.
* **Programs, offerings and their requirements** are rows that are edited one at a time;
  they are modelled where something happens to them (restore, plans), not as handlers.
* **In plans**: sentences, alternatives, the renewal overlay, several targets for one
  program, tiers the program does not have.
* **In restores**: encryption, upload limits, step-up, settings, aliases, tiers,
  specialisations, archives of the oldest shapes; the files kept on disk and their
  retention.
* **In exports**: SMTP, SFTP and SMB credentials, sealing, the check of the state
  parameter, what an export contains. The wording of errors: a refused grant and a
  rejected upload may each match `isAuthError` or not; a grant that never arrived does not.
* **Cryptography.** Signatures, password hashes, TOTP codes and sealed tokens are
  taken to work; whether a credential is right is the caller's luck.
* **The database's own concurrency.** Each statement, and each transaction, is atomic;
  no isolation anomalies below that level are considered.
* **Release-version parsing, ownership repair, memory probes, status texts** of
  the update scripts; diverging histories and tags (a branch is a point on one
  line).
* **Company links** of users in Accounts, which change what a session may see and not
  whether it is accepted.

The map in `PROJECT.json` covers about a tenth of the repository's lines of code. What
is left is, in this order, the interface, help and document generation, read-only
queries, and handlers that validate a body and write one row.

## 8. The plan

Done, in this order: UserStatusCache, Accounts, FreshReads, ReportCache,
SystemSettings, RateLimitBuckets, LoginLockout and Updater (the guards first, because
every request depends on them); then Catalogue, Learners, Exports, Restore, Allocation with
CompliancePlan, and Sessions. Proofs: every safety property of UserStatusCache,
ReportCache, Updater, Accounts, Exports, SystemSettings, RateLimitBuckets and
LoginLockout, `SessionsEnd` and `ActivityKeepsSession` of Sessions, `AllocationSound`,
everything that is checked of Restore, and of Learners, and of
Catalogue all but `CreditIsEarned`.

To come:

1. Catalogue: `CreditIsEarned`.
2. Modules: the order of checks of `src/lib/public-api.ts` with the company filter of a
   key against a reference definition; `deploy/auto-backup.sh` and the retention of
   `src/app/api/admin/backup/save/route.ts`; handlers of programs and offerings.

Not planned: a refinement of SystemSettings to FreshReads, which the late load of
section 6 refutes.

## 9. Running it

    tlc -workers 2 -config Sessions.cfg MCSessions
    tlc -workers 2 -config UserStatusCacheTime.cfg MCSessions
    tlc -workers 2 -config Accounts.cfg MCAccounts
    tlc -workers 2 -config Stores.cfg MCStores
    tlc -workers 2 -config Updater.cfg MCUpdater
    tlc -workers 2 -config Catalogue.cfg MCCatalogue
    tlc -workers 2 -config Exports.cfg MCExports
    tlc -workers 2 -config Data.cfg MCData
    tlapm UserStatusCache_proofs.tla
    tlapm Administration_proofs.tla
    tlapm Data_proofs.tla
    tlapm Sessions_proofs.tla
    tlapm Learners_proofs.tla
    tlapm Exports_proofs.tla
    tlapm Stores_proofs.tla
    tlapm Catalogue_proofs.tla

The runs that end in a violation: `AccountsLockout.cfg` of MCAccounts,
`UpdaterSchema.cfg` of MCUpdater, `ExportsWizard.cfg` of MCExports, `DataSeed.cfg` of
MCData. `PROJECT.json` lists the runs with their modules and configurations, the source
lines behind every definition, the mutants, the findings, the hazards and the theorems.
Each passing run takes between one and three minutes on two cores. Of the proof modules
Data and Learners take seven to ten minutes, Catalogue and Administration five, the others
one to four.
