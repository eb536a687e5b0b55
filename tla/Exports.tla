------------------------------ MODULE Exports ------------------------------
(***************************************************************************)
(* Scheduled exports (scheduled-exports/*, run-export.ts,                  *)
(* export-destinations.ts) and the credential of the cloud provider they   *)
(* deliver to (credential-health.ts, credentials/*, the OAuth wizard).     *)
(*                                                                         *)
(* The provider is external.  It remembers which refresh tokens it still   *)
(* honours; Box replaces the token on every grant and forgets the old one, *)
(* the others may send a new one and keep honouring both.                  *)
(*                                                                         *)
(* A handler reads the credential, talks to the provider and writes the    *)
(* row back in steps of their own; between any two of them other handlers  *)
(* run, or the process dies.  A lookup of report data, the content of a    *)
(* file and the wording of an error are left out; that the wording decides *)
(* whether a refusal is taken for an expiry is not.                        *)
(*                                                                         *)
(* Time is in ticks, PerMinute of them to a minute; every schedule is      *)
(* daily, and a day has Day minutes.                                       *)
(***************************************************************************)
EXTENDS Naturals, Sequences, FiniteSets

CONSTANTS
  Schedules, Handlers,
  Clients,     \* OAuth client ids an administrator may enter
  PerMinute, Day,
  Workloads,   \* the mixes of requests to consider, by name
  MaxTokens,   \* bound: refresh tokens issued
  MaxTime,     \* bound: ticks
  None

NoToken == 0
Never == 0

Providers == {"box", "onedrive", "google"}
Destinations == {"local", "cloud"}
Health == {"unknown", "ok", "expired", "failed"}

\* How a delivery or a check ends: "rejected" is an upload the provider refuses in
\* words that isAuthError matches, although it has just honoured the token;
\* "unseen", one that fails before it comes to the credential.
Outcomes == {"ok", "expired", "failed", "rejected", "unseen"}

\* What is told of the credential.
Verdict(outcome) == IF outcome = "rejected" THEN "expired" ELSE outcome

Row == [enabled: BOOLEAN, time: 0..Day - 1, destination: Destinations,
        lastRunAt: 0..MaxTime]
Config == [client: Clients, token: 0..MaxTokens, pending: BOOLEAN,
           previous: 0..MaxTokens]

\* A mix of requests: what may happen, to whom the exports go, the schedules there
\* are, where an edit may send one, the requests, and whether the clock runs.
Workload ==
  [ops: SUBSET {"execute", "runNow", "edit", "check", "wizard", "save", "delete",
                "revoke", "crash"},
   provider: Providers, schedules: SUBSET [Schedules -> Row \cup {None}],
   destinations: SUBSET Destinations, requests: Nat, clock: BOOLEAN]

ASSUME ParamAssumption ==
  /\ IsFiniteSet(Schedules)
  /\ PerMinute \in Nat \ {0} /\ Day \in Nat \ {0}
  /\ MaxTokens \in Nat \ {0} /\ MaxTime \in Nat /\ PerMinute <= MaxTime
  /\ \A w \in DOMAIN Workloads : Workloads[w] \in Workload
  /\ None \notin Handlers \cup Clients \cup Row \cup Config
                  \cup [config: Config, health: Health]

VARIABLES
  workload,
  schedules,  \* the scheduled_exports table: per id its row or None
  cred,       \* the export_credentials row of the provider, or None
  honoured,   \* external: the refresh tokens the provider honours, with their client
  issued,     \* how many it has issued
  cookie,     \* the tt-oauth-state cookie: the client consent is asked for
  handler,    \* per handler: the request it executes
  requests,   \* requests left
  now,
  lastCall,   \* the minute of the last cron call
  \* History, read by the properties alone:
  overlapped, \* handlers that overlap one of the same credential; None: so did its last verdict
  byUpload,   \* the last verdict is that of a rejected upload
  doubtful,   \* the stored token may have been superseded since the last connect
  promised,   \* per schedule: when cron last found it enabled at its time
  excused     \* schedules whose promised run a deletion or a crash cut short

vars == <<workload, schedules, cred, honoured, issued, cookie, handler, requests,
          now, lastCall, overlapped, byUpload, doubtful, promised, excused>>
history == <<overlapped, byUpload, doubtful, promised, excused>>
clockVars == <<now, lastCall>>

Mix == Workloads[workload]

Bodies == [enabled: BOOLEAN, time: 0..Day - 1, destination: Mix.destinations]

Idle == [pc |-> "idle", op |-> "none", due |-> <<>>, config |-> None, code |-> None,
         rotated |-> NoToken, result |-> "ok"]

Init ==
  /\ workload \in DOMAIN Workloads
  /\ schedules \in Mix.schedules
  /\ \E c \in Clients :
       cred = [config |-> [client |-> c, token |-> 1, pending |-> FALSE,
                           previous |-> NoToken],
               health |-> "ok"]
  /\ honoured = {<<cred.config.client, 1>>} /\ issued = 1
  /\ cookie = None /\ handler = [h \in Handlers |-> Idle]
  /\ requests = Mix.requests
  /\ now = PerMinute /\ lastCall = 0
  /\ overlapped = {} /\ byUpload = FALSE /\ doubtful = FALSE
  /\ promised = [s \in Schedules |-> Never] /\ excused = {}

Minute == now \div PerMinute

----------------------------------------------------------------------------
(* What runs at once                                                       *)

\* Handlers that have to do with the credential: those that deliver to the
\* cloud, test it, connect it or save it.
OfCredential(q) ==
  q.pc \notin {"idle", "next"} /\ (q.due # <<>> => Head(q.due).destination = "cloud")

Wizard == {"start", "callback"}

\* It has yet to write down what it learnt of the credential.
Unsettled(q) == q.pc \notin {"record", "mark"}

\* Between a grant and the write that stores the token it returned.
Holding(q) == q.rotated # NoToken /\ q.pc \in {"upload", "persist", "persistWrite"}

Others(h) == {g \in Handlers \ {h} : OfCredential(handler[g])}

\* Handler h goes on as q.  If it comes to use the credential while another
\* does, verdicts may be written in the wrong order, and with Box, or between an
\* export and a reconnection, so may tokens.
Becomes(h, q) ==
  LET begins == OfCredential(q) /\ ~OfCredential(handler[h]) /\ Others(h) # {}
      crossed == \E g \in Others(h) :
                   /\ Unsettled(handler[g])
                   /\ \/ Mix.provider = "box"
                      \/ (q.op \in Wizard) # (handler[g].op \in Wizard)
  IN  /\ handler' = [handler EXCEPT ![h] = q]
      /\ overlapped' = IF begins THEN overlapped \cup Others(h) \cup {h, None}
                       ELSE IF OfCredential(handler[h]) THEN overlapped
                       ELSE overlapped \ {h}
      /\ doubtful' = (doubtful \/ (begins /\ crossed))
      /\ UNCHANGED byUpload

\* A verdict nothing overlaps speaks for itself.
Settles(h, q) ==
  /\ handler' = [handler EXCEPT ![h] = q]
  /\ overlapped' = IF h \in overlapped THEN overlapped ELSE overlapped \ {None}
  /\ byUpload' = (handler[h].result = "rejected")

\* A step after which the token the provider now wants is nowhere stored.
LosesToken(h, q) ==
  /\ handler' = [handler EXCEPT ![h] = q]
  /\ doubtful' = (doubtful \/ Mix.provider = "box")
  /\ UNCHANGED <<overlapped, byUpload>>

----------------------------------------------------------------------------
(* Schedules                                                               *)

\* Variant: an export of the last two minutes counts as one of this minute.
IsDueLate(row) ==
  /\ Minute % Day = row.time
  /\ row.lastRunAt = Never \/ now - row.lastRunAt >= 2 * PerMinute

\* isDue: its exact minute, and no run that ended less than 60 s ago.
IsDue(row) ==
  /\ Minute % Day = row.time
  /\ row.lastRunAt = Never \/ now - row.lastRunAt >= PerMinute

Enabled == {s \in Schedules : schedules[s] # None /\ schedules[s].enabled}

\* findMany promises no order.
Orders(S) == {q \in [1..Cardinality(S) -> S] : \A i, j \in DOMAIN q : q[i] = q[j] => i = j}

Job(s) == [id |-> s, destination |-> schedules[s].destination]

\* Cron calls once a minute, unless the call is lost; the due list is made once.
Execute(h) ==
  LET due == {s \in Enabled : IsDue(schedules[s])}
  IN  /\ "execute" \in Mix.ops /\ handler[h].pc = "idle" /\ lastCall < Minute
      /\ lastCall' = Minute
      /\ promised' = [s \in Schedules |->
           IF s \in Enabled /\ Minute % Day = schedules[s].time THEN now ELSE promised[s]]
      /\ excused' = excused \ {s \in Schedules : promised'[s] = now}
      /\ IF due = {} THEN UNCHANGED <<handler, overlapped, byUpload, doubtful>>
         ELSE \E q \in Orders(due) :
                Becomes(h, [Idle EXCEPT !.pc = "collect", !.op = "execute",
                              !.due = [i \in DOMAIN q |-> Job(q[i])]])
      /\ UNCHANGED <<workload, schedules, cred, honoured, issued, cookie, requests, now>>

\* A request an administrator makes, or the daily check.
Takes(h, op) ==
  /\ op \in Mix.ops /\ handler[h].pc = "idle" /\ requests > 0
  /\ requests' = requests - 1

\* scheduled-exports/[id]/run: enabled or not.
RunNow(h, s) ==
  /\ Takes(h, "runNow") /\ schedules[s] # None
  /\ Becomes(h, [Idle EXCEPT !.pc = "collect", !.op = "runNow", !.due = <<Job(s)>>])
  /\ UNCHANGED <<workload, schedules, cred, honoured, issued, cookie, clockVars,
                 promised, excused>>

\* scheduled-exports POST, [id] PUT and DELETE.  An edited schedule is promised
\* nothing for the minute of the edit.
Edit(h, s) ==
  /\ Takes(h, "edit")
  /\ \/ \E b \in Bodies :
          schedules' = [schedules EXCEPT ![s] =
            [enabled |-> b.enabled, time |-> b.time, destination |-> b.destination,
             lastRunAt |-> IF schedules[s] = None THEN Never ELSE schedules[s].lastRunAt]]
     \/ schedules[s] # None /\ schedules' = [schedules EXCEPT ![s] = None]
  /\ promised' = [promised EXCEPT ![s] = Never]
  /\ UNCHANGED <<workload, cred, honoured, issued, cookie, handler, clockVars,
                 overlapped, byUpload, doubtful, excused>>

----------------------------------------------------------------------------
(* runExport and checkCredential                                           *)

\* The daily check, and the Test Connection button.
Check(h) ==
  /\ Takes(h, "check")
  /\ Becomes(h, [Idle EXCEPT !.pc = "collect", !.op = "check"])
  /\ UNCHANGED <<workload, schedules, cred, honoured, issued, cookie, clockVars,
                 promised, excused>>

\* Variant: every failure is taken for an expired token.
ConcludesHarshly(q, outcome) ==
  [q EXCEPT !.pc = IF q.op = "check" THEN "mark" ELSE "record",
            !.result = IF outcome = "ok" THEN "ok" ELSE "expired",
            !.rotated = NoToken, !.config = None]

\* What is left is to write the outcome down: of an export on its schedule
\* first, of a check on the credential.
Concludes(q, outcome) ==
  [q EXCEPT !.pc = IF q.op = "check" THEN "mark" ELSE "record",
            !.result = outcome, !.rotated = NoToken, !.config = None]

\* The report is generated and, if that is the destination, written to disk;
\* otherwise the credential is read.  Any of it may fail.
Collect(h) ==
  LET q == handler[h]
      local == q.due # <<>> /\ Head(q.due).destination = "local"
      token == IF cred = None THEN NoToken ELSE cred.config.token
  IN  /\ q.pc = "collect"
      /\ handler' = [handler EXCEPT ![h] =
           IF local THEN Concludes(q, "ok")
           ELSE IF token # NoToken THEN [q EXCEPT !.pc = "grant", !.config = cred.config]
           ELSE Concludes(q, IF q.op = "check" /\ cred # None THEN "expired" ELSE "failed")]
      /\ UNCHANGED <<workload, schedules, cred, honoured, issued, cookie, requests,
                     clockVars, history>>

\* The report, or reading the credential.
CollectFails(h) ==
  /\ handler[h].pc = "collect" /\ handler[h].due # <<>>
  /\ \E outcome \in {"unseen", "failed"} :
       /\ outcome = "failed" => OfCredential(handler[h])
       /\ handler' = [handler EXCEPT ![h] = Concludes(@, outcome)]
  /\ UNCHANGED <<workload, schedules, cred, honoured, issued, cookie, requests,
                 clockVars, history>>

\* External: the provider answers a grant with the token to use from now on.
Grants(old, new) ==
  IF Mix.provider = "box"
    THEN new = issued + 1 /\ honoured' = (honoured \ {old}) \cup {<<old[1], new>>}
    ELSE \/ new = old[2] /\ UNCHANGED honoured
         \/ new = issued + 1 /\ honoured' = honoured \cup {<<old[1], new>>}

Presented(q) == <<q.config.client, q.config.token>>

\* refreshTokens.
Grant(h) ==
  LET q == handler[h] IN
  /\ q.pc = "grant" /\ Presented(q) \in honoured /\ issued < MaxTokens
  /\ \E new \in {q.config.token, issued + 1} :
       /\ Grants(Presented(q), new)
       /\ issued' = IF new > issued THEN new ELSE issued
       /\ handler' = [handler EXCEPT ![h] =
            IF q.op # "check" THEN [q EXCEPT !.pc = "upload", !.rotated = new]
            ELSE IF new = q.config.token THEN Concludes(q, "ok")
            ELSE [q EXCEPT !.pc = "persist", !.rotated = new]]
  /\ UNCHANGED <<workload, schedules, cred, cookie, requests, clockVars, history>>

\* The provider no longer honours the token; isAuthError may not see it from the
\* description, which goes before "invalid_grant".
GrantRefused(h) ==
  /\ handler[h].pc = "grant" /\ Presented(handler[h]) \notin honoured
  /\ \E outcome \in {"expired", "failed"} :
       handler' = [handler EXCEPT ![h] = Concludes(@, outcome)]
  /\ UNCHANGED <<workload, schedules, cred, honoured, issued, cookie, requests,
                 clockVars, history>>

\* The request never arrives, or its answer is lost.
GrantLost(h) ==
  LET q == handler[h] IN
  /\ q.pc = "grant"
  /\ \/ /\ handler' = [handler EXCEPT ![h] = Concludes(q, "failed")]
        /\ UNCHANGED <<honoured, issued, overlapped, byUpload, doubtful>>
     \/ /\ Presented(q) \in honoured /\ issued < MaxTokens
        /\ Grants(Presented(q), issued + 1) /\ issued' = issued + 1
        /\ LosesToken(h, Concludes(q, "failed"))
  /\ UNCHANGED <<workload, schedules, cred, cookie, requests, clockVars, promised, excused>>

\* Box stores the token after every upload, OneDrive when it has changed,
\* Google never.
Stores(q) == Mix.provider # "google" /\ q.rotated # q.config.token

Upload(h) ==
  LET q == handler[h] IN
  /\ q.pc = "upload"
  /\ handler' = [handler EXCEPT ![h] =
       IF Stores(q) THEN [q EXCEPT !.pc = "persist"] ELSE Concludes(q, "ok")]
  /\ UNCHANGED <<workload, schedules, cred, honoured, issued, cookie, requests,
                 clockVars, history>>

\* The token the grant returned is dropped with the failed upload.
UploadFails(h) ==
  /\ handler[h].pc = "upload"
  /\ \E outcome \in {"failed", "rejected"} : LosesToken(h, Concludes(handler[h], outcome))
  /\ UNCHANGED <<workload, schedules, cred, honoured, issued, cookie, requests,
                 clockVars, promised, excused>>

\* persistRefreshToken: the row is read, then written with what was read.
Persist(h) ==
  LET q == handler[h] IN
  /\ q.pc = "persist"
  /\ handler' = [handler EXCEPT ![h] =
       IF cred = None \/ (cred # None /\ cred.config.token = q.rotated)
         THEN Concludes(q, "ok")
         ELSE [q EXCEPT !.pc = "persistWrite", !.config = cred.config]]
  /\ UNCHANGED <<workload, schedules, cred, honoured, issued, cookie, requests,
                 clockVars, history>>

\* Variant: the token that was presented is stored again.
Resealed(q) == q.config

Sealed(q) == [q.config EXCEPT !.token = q.rotated]

PersistWrite(h) ==
  LET q == handler[h] IN
  /\ q.pc = "persistWrite"
  /\ IF cred = None THEN UNCHANGED cred
                    ELSE cred' = [cred EXCEPT !.config = Sealed(q)]
  /\ handler' = [handler EXCEPT ![h] =
       Concludes(q, IF cred = None /\ q.op = "check" THEN "failed" ELSE "ok")]
  /\ UNCHANGED <<workload, schedules, honoured, issued, cookie, requests,
                 clockVars, history>>

\* "Best-effort: swallow persist errors"; a check reports them.
PersistFails(h) ==
  /\ handler[h].pc \in {"persist", "persistWrite"}
  /\ LosesToken(h, Concludes(handler[h], IF handler[h].op = "check" THEN "failed" ELSE "ok"))
  /\ UNCHANGED <<workload, schedules, cred, honoured, issued, cookie, requests,
                 clockVars, promised, excused>>

\* Variant: goes on past the end of the list.
AdvancedPast(q) ==
  IF q.due = <<>> THEN Idle
  ELSE [Idle EXCEPT !.pc = "next", !.op = q.op, !.due = Tail(q.due)]

\* The next export of the list, if there is one.
Advanced(q) ==
  IF Len(q.due) <= 1 THEN Idle
  ELSE [Idle EXCEPT !.pc = "next", !.op = q.op, !.due = Tail(q.due)]

Ids(due) == {due[i].id : i \in DOMAIN due}

\* scheduledExport.update.  If the schedule has been deleted it throws, and so
\* does the one in the catch: the call ends, and with it the rest of its list.
Record(h) ==
  LET q == handler[h]  job == Head(q.due)  s == job.id
  IN  /\ q.pc = "record"
      /\ IF schedules[s] = None
           THEN /\ handler' = [handler EXCEPT ![h] = Idle]
                /\ excused' = excused \cup Ids(q.due)
                /\ UNCHANGED schedules
           ELSE /\ schedules' = [schedules EXCEPT ![s].lastRunAt = now]
                /\ handler' = [handler EXCEPT ![h] =
                     IF job.destination = "cloud" /\ q.result # "unseen"
                       THEN [q EXCEPT !.pc = "mark"] ELSE Advanced(q)]
                /\ UNCHANGED excused
      /\ UNCHANGED <<workload, cred, honoured, issued, cookie, requests, clockVars,
                     overlapped, byUpload, doubtful, promised>>

Proceed(h) ==
  /\ handler[h].pc = "next"
  /\ Becomes(h, [handler[h] EXCEPT !.pc = "collect"])
  /\ UNCHANGED <<workload, schedules, cred, honoured, issued, cookie, requests,
                 clockVars, promised, excused>>

\* markCredentialSuccess, markCredentialFailure, and the end of checkCredential.
\* A row that is gone is none of their business.
Mark(h) ==
  LET q == handler[h] IN
  /\ q.pc = "mark"
  /\ IF cred = None THEN UNCHANGED cred ELSE cred' = [cred EXCEPT !.health = Verdict(q.result)]
  /\ Settles(h, Advanced(q))
  /\ UNCHANGED <<workload, schedules, honoured, issued, cookie, requests, clockVars,
                 doubtful, promised, excused>>

----------------------------------------------------------------------------
(* The wizard, and the other requests about the credential                 *)

\* oauth/start: the token of a working connection is set aside, and the row is
\* marked as pending.
Start(h, c) ==
  /\ Takes(h, "wizard")
  /\ Becomes(h, [Idle EXCEPT !.pc = "startWrite", !.op = "start",
       !.config = [client |-> c, token |-> NoToken, pending |-> TRUE,
                   previous |-> IF cred = None THEN NoToken ELSE cred.config.token]])
  /\ UNCHANGED <<workload, schedules, cred, honoured, issued, cookie, clockVars,
                 promised, excused>>

\* An upsert leaves the columns of the last check alone.
Upserted(config) ==
  [config |-> config, health |-> IF cred = None THEN "unknown" ELSE cred.health]

StartWrite(h) ==
  LET q == handler[h] IN
  /\ q.pc = "startWrite"
  /\ cred' = Upserted(q.config)
  /\ cookie' = q.config.client
  /\ handler' = [handler EXCEPT ![h] = Idle]
  /\ UNCHANGED <<workload, schedules, honoured, issued, requests, clockVars, history>>

\* oauth/callback: the consent was given, or it was refused; the cookie goes.
Callback(h) ==
  /\ handler[h].pc = "idle" /\ cookie # None
  /\ cookie' = None
  /\ \/ /\ cred # None
        /\ Becomes(h, [Idle EXCEPT !.pc = "exchange", !.op = "callback",
                        !.config = cred.config, !.code = cookie])
     \/ UNCHANGED <<handler, overlapped, byUpload, doubtful>>
  /\ UNCHANGED <<workload, schedules, cred, honoured, issued, requests, clockVars,
                 promised, excused>>

\* exchangeCode: a code is good for the client it was asked for, and comes with
\* a token of its own.
Exchange(h) ==
  LET q == handler[h] IN
  /\ q.pc = "exchange" /\ q.config.client = q.code /\ issued < MaxTokens
  /\ issued' = issued + 1
  /\ honoured' = honoured \cup {<<q.code, issued + 1>>}
  /\ handler' = [handler EXCEPT ![h].pc = "store", ![h].rotated = issued + 1]
  /\ UNCHANGED <<workload, schedules, cred, cookie, requests, clockVars, history>>

\* The credential may have been deleted meanwhile.
Store(h) ==
  LET q == handler[h] IN
  /\ q.pc = "store"
  /\ IF cred = None THEN UNCHANGED cred
     ELSE cred' = [config |-> [client |-> q.config.client, token |-> q.rotated,
                               pending |-> FALSE, previous |-> NoToken],
                   health |-> "ok"]
  /\ Settles(h, Idle)
  /\ doubtful' = (doubtful /\ (h \in overlapped \/ cred = None))
  /\ UNCHANGED <<workload, schedules, honoured, issued, cookie, requests, clockVars,
                 promised, excused>>

\* credentials POST with the secrets left blank: "Blank means keep".
Save(h) ==
  /\ Takes(h, "save") /\ cred # None
  /\ Becomes(h, [Idle EXCEPT !.pc = "saveWrite", !.op = "save",
       !.config = [cred.config EXCEPT !.pending = FALSE, !.previous = NoToken]])
  /\ UNCHANGED <<workload, schedules, cred, honoured, issued, cookie, clockVars,
                 promised, excused>>

SaveWrite(h) ==
  /\ handler[h].pc = "saveWrite"
  /\ cred' = Upserted(handler[h].config)
  /\ handler' = [handler EXCEPT ![h] = Idle]
  /\ UNCHANGED <<workload, schedules, honoured, issued, cookie, requests, clockVars,
                 history>>

\* credentials DELETE.
Delete(h) ==
  /\ Takes(h, "delete") /\ cred # None
  /\ cred' = None
  /\ UNCHANGED <<workload, schedules, honoured, issued, cookie, handler, clockVars,
                 history>>

----------------------------------------------------------------------------
(* What nobody asks for                                                    *)

\* An error answer of the wizard: the exchange fails.
GiveUp(h) ==
  /\ handler[h].pc = "exchange"
  /\ handler' = [handler EXCEPT ![h] = Idle]
  /\ UNCHANGED <<workload, schedules, cred, honoured, issued, cookie, requests,
                 clockVars, history>>

\* External: the authorisation is withdrawn, or lapses for want of use, or the
\* client's secret does; not the one being granted.
Revoke ==
  /\ "revoke" \in Mix.ops /\ honoured # {}
  /\ \A h \in Handlers : handler[h].pc # "store"
  /\ honoured' = {} /\ doubtful' = TRUE
  /\ UNCHANGED <<workload, schedules, cred, issued, cookie, handler, requests,
                 clockVars, overlapped, byUpload, promised, excused>>

\* The process dies and is started again.
Crash ==
  /\ "crash" \in Mix.ops /\ requests > 0 /\ requests' = requests - 1
  /\ handler' = [h \in Handlers |-> Idle]
  /\ doubtful' = (doubtful \/ (Mix.provider = "box" /\ \E h \in Handlers : Holding(handler[h])))
  /\ excused' = excused \cup UNION {Ids(handler[h].due) : h \in Handlers}
  /\ UNCHANGED <<workload, schedules, cred, honoured, issued, cookie, clockVars,
                 overlapped, byUpload, promised>>

Tick ==
  /\ now < MaxTime /\ Mix.clock
  /\ now' = now + 1
  /\ UNCHANGED <<workload, schedules, cred, honoured, issued, cookie, handler, requests,
                 lastCall, history>>

Step(h) ==
  \/ Collect(h) \/ CollectFails(h) \/ Grant(h) \/ GrantRefused(h) \/ GrantLost(h)
  \/ Upload(h) \/ UploadFails(h) \/ Persist(h) \/ PersistWrite(h) \/ PersistFails(h)
  \/ Record(h) \/ Proceed(h) \/ Mark(h) \/ StartWrite(h) \/ Exchange(h) \/ Store(h) \/ GiveUp(h)
  \/ SaveWrite(h)

Next ==
  \/ \E h \in Handlers :
       \/ Step(h) \/ Execute(h) \/ Check(h) \/ Callback(h) \/ Save(h) \/ Delete(h)
       \/ \E s \in Schedules : RunNow(h, s) \/ Edit(h, s)
       \/ \E c \in Clients : Start(h, c)
  \/ Revoke \/ Crash \/ Tick

Spec == Init /\ [][Next]_vars
----------------------------------------------------------------------------
(* Properties                                                              *)

Jobs == [id: Schedules, destination: Destinations]

TypeOK ==
  /\ workload \in DOMAIN Workloads
  /\ DOMAIN schedules = Schedules
  /\ \A s \in Schedules : schedules[s] # None => schedules[s] \in Row
  /\ cred # None => cred \in [config: Config, health: Health]
  /\ honoured \subseteq Clients \X (1..issued) /\ issued \in 0..MaxTokens
  /\ cookie \in Clients \cup {None}
  /\ \A h \in Handlers : LET q == handler[h] IN
       /\ q.due \in Seq(Jobs) /\ q.result \in Outcomes
       /\ q.config # None => q.config \in Config
       /\ q.rotated \in 0..issued
       \* Whoever talks to the provider read a credential first; whoever writes
       \* a token down was given it.
       /\ q.pc \in {"grant", "upload", "persist", "persistWrite", "exchange", "store"} =>
            q.config # None
       /\ q.pc \in {"persist", "persistWrite", "store"} => q.rotated # NoToken
       /\ q.pc \in {"next", "record"} => q.due # <<>>
  /\ now \in Nat /\ lastCall <= Minute

Quiet == \A h \in Handlers : ~OfCredential(handler[h])

Usable == <<cred.config.client, cred.config.token>> \in honoured

\* A connection, once made, can be used until it is made anew: whatever exports,
\* checks and saves did in between, and in whichever order, the stored token is
\* one the provider honours.  With Box that takes requests that do not overlap,
\* and no step lost between a grant and the write of its token; with the others
\* only that no export overlaps a reconnection.
ConnectionLasts ==
  Quiet /\ ~doubtful /\ cred # None /\ cred.config.token # NoToken => Usable

\* A connection shown as "expired" has to be made anew, and one shown as healthy can
\* be used (or is being made): takes verdicts that did not overlap.  An upload that
\* is rejected says "expired" of a token the provider has just honoured; with Box
\* that is so all the same, because the grant has replaced the stored token and
\* the new one is lost with the upload.
HealthHonest ==
  Quiet /\ None \notin overlapped /\ cred # None =>
    /\ cred.health = "expired" => ~Usable \/ (byUpload /\ Mix.provider # "box")
    /\ cred.health = "ok" /\ ~doubtful => Usable \/ cred.config.token = NoToken

\* "Checks all enabled schedules against the current time and runs any that are
\* due": a schedule cron found enabled at its time has been run, unless it had
\* just run, the process died, or a schedule ahead of it was deleted.
OccurrencesServed ==
  (\A h \in Handlers : handler[h].due = <<>>) =>
    \A s \in Schedules \ excused :
      promised[s] # Never /\ schedules[s] # None =>
        schedules[s].lastRunAt # Never /\ schedules[s].lastRunAt > promised[s] - PerMinute

\* "So a cancelled wizard doesn't accidentally wipe a working credential"
\* (oauth/start): a row that has had a token of a working connection can be used.
CancelledWizardHarmless ==
  /\ Quiet /\ ~doubtful /\ cred # None
  /\ cred.config.token # NoToken \/ cred.config.previous # NoToken
  => Usable
=============================================================================
