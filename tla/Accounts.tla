------------------------------ MODULE Accounts ------------------------------
(***************************************************************************)
(* The handlers that create, edit, suspend and delete accounts, reset and  *)
(* change passwords, enrol and remove MFA, and sign in.  Each is a few     *)
(* awaited statements: guard, read, sometimes a count, write, and for some *)
(* a fresh cookie; handlers interleave between them, and none of them runs *)
(* its read and its write in one transaction.                              *)
(*                                                                         *)
(* The guards are those of UserStatusCache when the snapshot is up to date:*)
(* they judge the row of the moment.  Passwords, codes and throttles are   *)
(* the caller's luck: Refuse is every early return that writes nothing.    *)
(*                                                                         *)
(* "evictions" and "proved" are history, read by the properties alone: how *)
(* often a password change or reset has stranded the account's sessions,   *)
(* and the MFA secret a code was last checked against.                     *)
(*                                                                         *)
(* A definition whose comment begins "Variant:" is one edit away from the  *)
(* definition it precedes, and is there to show which property sees it.    *)
(***************************************************************************)
EXTENDS Naturals

CONSTANTS
  Users,      \* account ids, used in any order and never twice
  Clients,    \* cookie jars: browsers, or whoever holds a copied cookie
  Handlers,   \* requests in progress
  Roles,
  Workloads,  \* the mixes of requests to consider
  NoToken

AdminOps == {"POST", "PUT", "PATCH", "DELETE", "resetPassword", "mfaDisableOther"}
OwnOps == {"changePassword", "mfaSetup", "mfaVerify", "mfaDisable"}
AllOps == AdminOps \cup OwnOps \cup {"login", "setup"}

Account == [status: {"unused", "active", "deleted"}, role: Roles,
            disabled: BOOLEAN, mustEnableMfa: BOOLEAN, mfaEnabled: BOOLEAN,
            mfaSecret: Nat, sessionEpoch: Nat, evictions: Nat, proved: Nat]

Token == [sub: Users, role: Roles, pending: BOOLEAN, sessionEpoch: Nat,
          evictions: Nat]

\* What the body of a PUT or PATCH asks for.
Unchanged == "unchanged"
AllMusts == {"on", "off", Unchanged}
Body == [role: Roles \cup {Unchanged}, must: AllMusts,
         disabled: BOOLEAN]

\* A mix of requests: the handlers that run, those of them that are assumed
\* never to overlap one another, the roles and the mustEnableMfa asked for, and
\* the bound on committed writes.
Workload == [ops: SUBSET AllOps, exclusive: SUBSET AllOps,
             roles: SUBSET Roles, musts: SUBSET AllMusts, writes: Nat]

ASSUME ParamAssumption ==
  /\ Users # {} /\ Clients # {}
  /\ "SuperAdmin" \in Roles /\ Unchanged \notin Roles
  /\ Workloads \subseteq Workload
  /\ NoToken \notin Token

VARIABLES
  workload, \* the mix of this behaviour
  users,    \* the users table
  cookie,   \* per client: the tt-auth token it holds
  handler,  \* per handler: how far it is and what it has read
  writes    \* number of committed writes

vars == <<workload, users, cookie, handler, writes>>
----------------------------------------------------------------------------
NoSecret == 0

\* The row prisma.user.create leaves: everything else has its column default.
NewAccount(role, must) ==
  [status |-> "active", role |-> role, disabled |-> FALSE,
   mustEnableMfa |-> must, mfaEnabled |-> FALSE, mfaSecret |-> NoSecret,
   sessionEpoch |-> 0, evictions |-> 0, proved |-> NoSecret]

UnusedAccount == [NewAccount("SuperAdmin", FALSE) EXCEPT !.status = "unused"]

NoBody == [role |-> Unchanged, must |-> Unchanged, disabled |-> FALSE]

Idle == [pc |-> "idle", op |-> "login",
         client |-> CHOOSE c \in Clients : TRUE, token |-> NoToken,
         target |-> CHOOSE u \in Users : TRUE, body |-> NoBody,
         row |-> UnusedAccount]

\* The bodies a handler may be sent.
Bodies(op) ==
  [role: CASE op = "PUT" -> workload.roles \cup {Unchanged}
           [] op = "POST" -> workload.roles
           [] OTHER -> {Unchanged},
   must: IF op \in {"POST", "PUT"} THEN workload.musts ELSE {Unchanged},
   disabled: IF op = "PATCH" THEN BOOLEAN ELSE {FALSE}]

Active(u) == users[u].status = "active"
UsableSuperAdmin(u) == Active(u) /\ users[u].role = "SuperAdmin" /\ ~users[u].disabled

Init ==
  /\ workload \in Workloads
  /\ users \in [Users -> {UnusedAccount} \cup
                         {NewAccount(b.role, b.must = "on") : b \in Bodies("POST")}]
  \* The instance is new, or its first account was the set-up's SuperAdmin.
  /\ \/ "setup" \in workload.ops /\ \A u \in Users : ~Active(u)
     \/ \E u \in Users : UsableSuperAdmin(u)
  /\ cookie = [c \in Clients |-> NoToken]
  /\ handler = [h \in Handlers |-> Idle]
  /\ writes = 0
----------------------------------------------------------------------------
\* The guards' three lookups: not disabled, not deleted, epoch not stale.
Live(t) ==
  Active(t.sub) /\ ~users[t.sub].disabled
  /\ ~(t.sessionEpoch < users[t.sub].sessionEpoch)

\* What each handler demands of the cookie before it reads anything.  The two
\* enrolment handlers must stay reachable while the session is pending MFA.
Admits(op, t) ==
  \/ op = "setup"
  \/ /\ t # NoToken /\ Live(t)
     /\ t.pending => op \in {"mfaSetup", "mfaVerify"}
     /\ op \in AdminOps => t.role = "SuperAdmin"

\* "Cannot disable your own account", "Cannot delete your own account"; the
\* handlers of the caller's own account take no id.
MayTarget(op, t, u, body) ==
  /\ op \in OwnOps => u = t.sub
  /\ op \in {"DELETE", "mfaDisableOther"} \/ (op = "PATCH" /\ body.disabled)
       => u # t.sub

Alone(op) ==
  op \in workload.exclusive =>
    \A h \in Handlers : handler[h].pc # "idle" => handler[h].op \notin workload.exclusive

\* The handlers that may answer with a new cookie remember the caller's.
MayReissue == {"PUT", "changePassword", "mfaVerify"}

\* A request arrives and passes its guard.
Request(h, c, op, u) ==
  /\ handler[h].pc = "idle" /\ op # "login"
  /\ Alone(op)
  /\ Admits(op, cookie[c])
  /\ \E body \in Bodies(op) :
       /\ MayTarget(op, cookie[c], u, body)
       /\ handler' = [handler EXCEPT ![h] =
            [Idle EXCEPT !.pc = "read", !.op = op, !.target = u, !.body = body,
               !.client = IF op \in MayReissue THEN c ELSE @,
               !.token = IF op \in MayReissue THEN cookie[c] ELSE @]]
  /\ UNCHANGED <<workload, users, cookie, writes>>

MaySetUp(row) == ~row.mfaEnabled

\* setup: only works when no user exists.
NeedsSetup == \A u \in Users : ~Active(u)

\* What the first read finds lets the handler go on.
Proceeds(op, row) ==
  CASE op = "setup" -> NeedsSetup
    [] op = "POST" -> row.status = "unused"
    [] op = "mfaDisableOther" -> TRUE
    [] op = "mfaSetup" -> row.status = "active" /\ MaySetUp(row)
    [] op = "mfaVerify" -> row.status = "active" /\ row.mfaSecret # NoSecret
    [] OTHER -> row.status = "active"

\* The write would take a SuperAdmin away: the others are counted first.
NeedsCount(op, row, body) ==
  /\ row.role = "SuperAdmin"
  /\ \/ op = "PUT" /\ body.role \notin {Unchanged, "SuperAdmin"}
     \/ op = "PATCH" /\ body.disabled
     \/ op = "DELETE"

\* findUnique: the handlers that go on to use the row keep what they read.
Read(h) ==
  LET q == handler[h]  row == users[q.target] IN
  /\ q.pc = "read" /\ Proceeds(q.op, row)
  /\ handler' = [handler EXCEPT
       ![h].pc = IF NeedsCount(q.op, row, q.body) THEN "count" ELSE "write",
       ![h].row = IF q.op \in {"PUT", "mfaVerify"} THEN row ELSE @]
  /\ UNCHANGED <<workload, users, cookie, writes>>

\* Variant: a suspended SuperAdmin counts as one who could administer.
OthersOfAnyStatus(u) ==
  \E v \in Users \ {u} : Active(v) /\ users[v].role = "SuperAdmin"

\* countUsableSuperAdmins(userId) > 0.
OthersUsable(u) == \E v \in Users \ {u} : UsableSuperAdmin(v)

Count(h) ==
  /\ handler[h].pc = "count"
  /\ handler' = [handler EXCEPT ![h].pc =
       IF OthersUsable(handler[h].target) THEN "write" ELSE "lastSuperAdmin"]
  /\ UNCHANGED <<workload, users, cookie, writes>>

RoleChanged(row, body) == body.role # Unchanged /\ body.role # row.role

NextMustEnableMfa(row, body) ==
  IF body.must = Unchanged THEN row.mustEnableMfa ELSE body.must = "on"

PendingChanged(row, body) ==
  (row.mustEnableMfa /\ ~row.mfaEnabled)
    # (NextMustEnableMfa(row, body) /\ ~row.mfaEnabled)

\* Variant: a new role leaves the old sessions alone.
RevokesOnPendingOnly(row, body) == PendingChanged(row, body)

\* PUT: the edit changes what the user is allowed to do.
RevokesSessions(row, body) == RoleChanged(row, body) \/ PendingChanged(row, body)

\* The row PUT leaves: "now" is the row it writes over, "read" the one it read.
Edited(now, read, body) ==
  [now EXCEPT !.role = IF body.role = Unchanged THEN @ ELSE body.role,
              !.mustEnableMfa = NextMustEnableMfa(now, body),
              !.sessionEpoch = IF RevokesSessions(read, body) THEN @ + 1 ELSE @]

\* Variant: the sessions of the old password stay valid.
RepasswordedOnly(row) == [row EXCEPT !.evictions = @ + 1]

\* The row a password change or reset leaves.
Repassworded(row) == [row EXCEPT !.sessionEpoch = @ + 1, !.evictions = @ + 1]

\* The row each handler leaves, in one statement of the database.
Written(q) ==
  LET row == users[q.target] IN
  CASE q.op = "setup" -> NewAccount("SuperAdmin", FALSE)
    [] q.op = "POST" -> NewAccount(q.body.role, q.body.must = "on")
    [] q.op = "PUT" -> Edited(row, q.row, q.body)
    [] q.op = "PATCH" -> [row EXCEPT !.disabled = q.body.disabled]
    [] q.op = "DELETE" -> [row EXCEPT !.status = "deleted"]
    [] q.op \in {"resetPassword", "changePassword"} -> Repassworded(row)
    [] q.op = "mfaSetup" -> [row EXCEPT !.mfaSecret = writes + 1]
    [] q.op = "mfaVerify" -> [row EXCEPT !.mfaEnabled = TRUE,
                                !.mustEnableMfa = FALSE, !.proved = q.row.mfaSecret]
    [] q.op \in {"mfaDisable", "mfaDisableOther"} ->
         [row EXCEPT !.mfaEnabled = FALSE, !.mfaSecret = NoSecret]

\* createToken with the claims of a row.
Claims(u, row, pending, evictions) ==
  [sub |-> u, role |-> row.role, pending |-> pending,
   sessionEpoch |-> row.sessionEpoch, evictions |-> evictions]

\* The handlers whose write strands or unlocks the caller's own cookie replace
\* it, with the claims of the row the write returned.
Reissues(q) ==
  \/ q.op = "changePassword"
  \/ q.op = "mfaVerify" /\ q.token.pending
  \/ q.op = "PUT" /\ q.target = q.token.sub /\ RevokesSessions(q.row, q.body)

Reissued(q, row) ==
  CASE q.op = "changePassword" ->
         Claims(q.target, row, q.token.pending, q.token.evictions + 1)
    [] q.op = "mfaVerify" -> Claims(q.target, row, FALSE, q.token.evictions)
    [] q.op = "PUT" ->
         Claims(q.target, row, row.mustEnableMfa /\ ~row.mfaEnabled, q.token.evictions)

\* prisma.user.create, update or delete.  The row must still be there (P2025),
\* or still be free.  What follows reads nothing but the row it returns.
Write(h) ==
  LET q == handler[h]  row == Written(q) IN
  /\ q.pc = "write" /\ writes < workload.writes
  /\ users[q.target].status = IF q.op \in {"setup", "POST"} THEN "unused" ELSE "active"
  /\ users' = [users EXCEPT ![q.target] = row]
  /\ cookie' = IF Reissues(q) THEN [cookie EXCEPT ![q.client] = Reissued(q, row)]
                              ELSE cookie
  /\ writes' = writes + 1 /\ UNCHANGED workload
  /\ handler' = [handler EXCEPT ![h] = Idle]

\* Variant: an unknown username is not turned away.
SignsInUnchecked(row) == ~row.disabled

\* login: unknown and disabled accounts get the same refusal.
SignsIn(row) == row.status = "active" /\ ~row.disabled

\* login: the row is read, and the password and the code agree with it.
SignIn(h, c, u) ==
  /\ handler[h].pc = "idle" /\ "login" \in workload.ops
  /\ SignsIn(users[u])
  /\ handler' = [handler EXCEPT ![h] =
       [Idle EXCEPT !.pc = "mint", !.client = c, !.target = u, !.row = users[u]]]
  /\ UNCHANGED <<workload, users, cookie, writes>>

\* login: after registerSuccess and the idle minutes have been awaited, the
\* token is minted from the row read at the start.
Mint(h) ==
  LET q == handler[h] IN
  /\ q.pc = "mint"
  /\ cookie' = [cookie EXCEPT ![q.client] =
       Claims(q.target, q.row, q.row.mustEnableMfa /\ ~q.row.mfaEnabled,
              q.row.evictions)]
  /\ handler' = [handler EXCEPT ![h] = Idle]
  /\ UNCHANGED <<workload, users, writes>>

\* An error response: bad input, a wrong password or code, a throttle, a row that
\* is not there, the last SuperAdmin, a failing database.  Nothing was written.
Refuse(h) ==
  /\ handler[h].pc # "idle"
  /\ handler' = [handler EXCEPT ![h] = Idle]
  /\ UNCHANGED <<workload, users, cookie, writes>>

Next ==
  \E h \in Handlers :
    \/ \E c \in Clients, op \in workload.ops, u \in Users : Request(h, c, op, u)
    \/ \E c \in Clients, u \in Users : SignIn(h, c, u)
    \/ Read(h) \/ Count(h) \/ Write(h) \/ Mint(h) \/ Refuse(h)

Spec == Init /\ [][Next]_vars
----------------------------------------------------------------------------
(* Properties                                                              *)

HandlerRec ==
  [pc: {"idle", "read", "count", "lastSuperAdmin", "write", "mint"},
   op: AllOps, client: Clients, token: Token \cup {NoToken}, target: Users,
   body: Body, row: Account]

\* The type invariant; a cookie is only ever held for an account that exists or
\* has existed.
TypeOK ==
  /\ workload \in Workload
  /\ users \in [Users -> Account] /\ writes \in Nat
  /\ cookie \in [Clients -> Token \cup {NoToken}]
  /\ handler \in [Handlers -> HandlerRec]
  /\ \A c \in Clients : cookie[c] # NoToken => users[cookie[c].sub].status # "unused"

\* Requests of these kinds never overlap one another.
Serialised(ops) == workload.ops \cap ops \subseteq workload.exclusive

\* The cookies the guards accept.
LiveTokens == {t \in {cookie[c] : c \in Clients} \ {NoToken} : Live(t)}

\* "You can't disable the last SuperAdmin - so nobody can accidentally lock
\* everyone out of the admin pages": an instance that has accounts has a
\* SuperAdmin who can sign in.
SuperAdminRemains ==
  (\E u \in Users : Active(u)) => (\E u \in Users : UsableSuperAdmin(u))

\* It holds while user edits do not overlap: the count and the write are two
\* statements, and the self-checks and counts cover every other order.
NoLockout == Serialised({"PUT", "PATCH", "DELETE"}) => SuperAdminRemains

\* A cookie the guards accept carries the role its account has now, whatever
\* logins, edits and password changes ran meanwhile: the role is in the token and
\* nothing else ever compares it with the row.  Takes edits that do not overlap.
AuthorityFollowsRow ==
  Serialised({"PUT"}) => \A t \in LiveTokens : t.role = users[t.sub].role

\* A cookie the guards accept is pinned to the set-up page when its account owes
\* an enrolment.  Takes edits and password changes that do not overlap, and
\* nobody removing MFA from a live session.
EnrolmentFollowsRow ==
  /\ Serialised({"PUT", "changePassword"})
  /\ workload.ops \cap {"mfaDisable", "mfaDisableOther"} = {}
  => \A t \in LiveTokens :
       users[t.sub].mustEnableMfa /\ ~users[t.sub].mfaEnabled => t.pending

\* "So the reset actually evicts whoever is holding that account's sessions": no
\* cookie descended from a login before a reset or a password change is accepted
\* after it, but for the browser that made the change.
EvictedStayOut == \A t \in LiveTokens : t.evictions = users[t.sub].evictions

\* It holds while the handlers that replace a cookie do not overlap the handlers
\* that evict.
EvictionSticks ==
  Serialised({"PUT", "resetPassword", "changePassword", "mfaVerify"}) => EvictedStayOut

\* All three: what a live cookie claims is what the row says, and the row has not
\* evicted its line since.
CookiesFollowRow == AuthorityFollowsRow /\ EnrolmentFollowsRow /\ EvictionSticks

\* "Store the secret temporarily (not enabled yet until verified)": while MFA is
\* on, the stored secret is one its owner has produced a code for.  Takes MFA
\* requests that do not overlap.
EnabledSecretProved ==
  Serialised({"mfaSetup", "mfaVerify", "mfaDisable", "mfaDisableOther"}) =>
    \A u \in Users : users[u].mfaEnabled =>
      users[u].mfaSecret # NoSecret /\ users[u].mfaSecret = users[u].proved

\* Both: what a cookie or a row claims has been earned.
ClaimsAreEarned == CookiesFollowRow /\ EnabledSecretProved
=============================================================================
