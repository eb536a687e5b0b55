------------------------------ MODULE MCStores ------------------------------
(***************************************************************************)
(* The report cache, the settings cache, the limiter's table and the       *)
(* lockout of one account on small instances.  They share no state, so a   *)
(* behaviour exercises one of them and the others stand still in their     *)
(* initial state: the run costs the sum of the state spaces and not their  *)
(* product.                                                                *)
(***************************************************************************)
EXTENDS ReportCache, TLC

CONSTANTS
  \* Of SystemSettings.
  Fields, SettingsReaders, SettingsSetters, SettingsTTL, SettingsWrites,
  SettingsTime, NoRow,
  \* Of RateLimitBuckets.
  Limited, Nonces, Addresses, AddressOf, Requests, Instances, MaxAttempts, Window,
  PerSecond, Skew, CleanupInterval, Mixes, LimitsTime,
  \* Of LoginLockout.
  SignIns, Threshold, Ladder, MaxFailures, LoginMaxTime

\* REPORT_CACHE_TTL_MS is not a number, or switches the cache off.
MCRawTTLs == {-1, 0}

VARIABLES
  part,  \* the component this behaviour exercises
  log, cacheCommittedAt, settingsCache, reader, setter, settingsTold,
  settingsNow,
  workload, rows, request, prunes, lastCleanup, signed, calls, limitsNow,
  verdicts, accepted,
  attempts, lockedUntil, signIn, clock, failures, cleared, succeeded,
  lastFailure, disturbed

Settings == INSTANCE SystemSettings WITH
  Readers <- SettingsReaders, Setters <- SettingsSetters,
  TTL <- SettingsTTL, MaxWrites <- SettingsWrites, MaxTime <- SettingsTime,
  committedAt <- cacheCommittedAt, cache <- settingsCache,
  told <- settingsTold, now <- settingsNow

Limits == INSTANCE RateLimitBuckets WITH
  Workloads <- Mixes, MaxTime <- LimitsTime, now <- limitsNow

Lockout == INSTANCE LoginLockout

ASSUME StoresParameters ==
  Settings!Parameters /\ Limits!Parameters /\ Lockout!Parameters

\* Four attempts, so that three can be admitted around one window; three
\* deliveries of one signed request.  The one limiter key belongs to the one
\* address.
MCMixes == {[limited |-> Limited, nonces |-> {}, calls |-> 4],
            [limited |-> {}, nonces |-> Nonces, calls |-> 3]}
MCAddressOf == [k \in Limited |-> CHOOSE a \in Addresses : TRUE]

\* Locks of four ticks, then five.
MCLadder == <<4, 5>>

settingsVars == <<log, cacheCommittedAt, settingsCache, reader, setter,
                  settingsTold, settingsNow>>
limitsVars == <<workload, rows, request, prunes, lastCleanup, signed, calls,
                limitsNow, verdicts, accepted>>
lockoutVars == <<attempts, lockedUntil, signIn, clock, failures, cleared,
                 succeeded, lastFailure, disturbed>>

First(S) == CHOOSE x \in S : TRUE

\* All getters and one setter, of one field, in two ticks; one getter and all
\* setters of all fields.
ManyGetters ==
  /\ \A s \in SettingsSetters \ {First(SettingsSetters)} : setter[s] = Settings!IdleSetter
  /\ \A v \in DOMAIN log : log[v][First(Fields)] = v - 1
  /\ settingsNow <= 2
ManySetters ==
  \A r \in SettingsReaders \ {First(SettingsReaders)} : reader[r] = Settings!IdleReader

MCInit ==
  /\ part \in {"report", "loads", "refreshes", "limits", "lockout"}
  /\ Init /\ Settings!Init /\ Limits!Init /\ Lockout!InitAccount
  /\ part # "report" => ttl = 0 /\ cap = 1
  /\ part # "limits" => workload.nonces = {}

MCNext ==
  \/ part = "report" /\ Next
     /\ UNCHANGED <<part, settingsVars, limitsVars, lockoutVars>>
  \/ part = "loads" /\ Settings!Next /\ ManyGetters'
     /\ UNCHANGED <<part, vars, limitsVars, lockoutVars>>
  \/ part = "refreshes" /\ Settings!Next /\ ManySetters'
     /\ UNCHANGED <<part, vars, limitsVars, lockoutVars>>
  \/ part = "limits" /\ Limits!Next
     /\ UNCHANGED <<part, vars, settingsVars, lockoutVars>>
  \/ part = "lockout" /\ Lockout!NextAccount
     /\ UNCHANGED <<part, vars, settingsVars, limitsVars>>

MCSpec ==
  MCInit /\ [][MCNext]_<<part, vars, settingsVars, limitsVars, lockoutVars>>

\* Callers and overlapping calls are named by the same values; every property is
\* a safety property, and none of them is singled out.
Symmetry == Permutations(Callers)

\* The type invariants of the four modules; a cached settings row is one the
\* table has held.
TypesOK == TypeOK /\ Settings!TypeOK /\ Limits!TypeOK /\ Lockout!LoginTypeOK

\* A change nobody announced is seen when the cached copy has expired and one
\* query has run, of the reports as of the settings (StalenessBounded of each);
\* one that a settings setter announced undisturbed is seen at once
\* (QuietSetterObeyed).
ChangesAreSeen ==
  StalenessBounded /\ Settings!StalenessBounded /\ Settings!QuietSetterObeyed

\* A limiter admits no more than it says and refuses only when that much was
\* admitted (RateLimitBuckets!AdmissionsExact), a signed request is carried out
\* once (SingleUse), and an account is locked when, and only when, its failures
\* earn it (LoginLockout!LocksEarned).
ThrottlesExact == Limits!AdmissionsExact /\ Limits!SingleUse /\ Lockout!LocksEarned
=============================================================================
