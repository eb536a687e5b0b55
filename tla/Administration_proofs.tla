------------------------- MODULE Administration_proofs -------------------------
(***************************************************************************)
(* What an administrator governs: the accounts of the installation and the *)
(* updates of its code.  First, safety of Accounts for any number of       *)
(* accounts, browsers and requests, any roles and any mix of requests;     *)
(* then safety of Updater for any history of commits, any branches and any *)
(* number of updates and kills.                                            *)
(***************************************************************************)
EXTENDS Accounts, Updater, TLAPS

-----------------------------------------------------------------------------
\* Accounts.

\* Where a handler can be, and what it has kept by then.
Shape(h) ==
  LET q == handler[h] IN
  /\ q.pc = "mint" => q.op = "login"
  /\ q.pc \notin {"idle", "mint"} => q.op \in workload.ops \ {"login"}
  /\ q.pc \in {"count", "lastSuperAdmin"} => q.op \in {"PUT", "PATCH", "DELETE"}
  /\ q.pc # "idle" /\ q.op \in MayReissue => q.token # NoToken
  /\ q.pc # "idle" /\ q.op = "POST" => q.body.role \in Roles
  /\ q.token # NoToken => users[q.token.sub].status # "unused"
  /\ q.pc # "idle" /\ q.op \in {"changePassword", "mfaVerify"} => q.target = q.token.sub
  /\ q.pc \notin {"idle", "read"} /\ q.op \notin {"setup", "POST", "mfaDisableOther"} =>
       users[q.target].status # "unused"

\* Two requests that the workload keeps apart do not run at once.
Apart ==
  \A g, h \in Handlers :
    /\ handler[g].pc \notin {"idle", "mint"} /\ handler[h].pc \notin {"idle", "mint"}
    /\ handler[g].op \in workload.exclusive /\ handler[h].op \in workload.exclusive
    => g = h

TypeInv == TypeOK /\ Apart /\ \A h \in Handlers : Shape(h)


LEMMA IdleType ==
  /\ Idle \in HandlerRec /\ UnusedAccount \in Account
  /\ Idle.pc = "idle" /\ Idle.op = "login" /\ Idle.token = NoToken
  /\ NoToken \notin Token /\ Unchanged \notin Roles
<1>1. (CHOOSE c \in Clients : TRUE) \in Clients /\ (CHOOSE u \in Users : TRUE) \in Users
  BY ParamAssumption
<1>2. UnusedAccount \in Account
  BY ParamAssumption DEF UnusedAccount, NewAccount, NoSecret, Account
<1>3. NoBody \in Body BY DEF NoBody, Body, AllMusts
<1>4. QED BY <1>1, <1>2, <1>3, ParamAssumption DEF Idle, HandlerRec, AllOps

LEMMA NewAccountType ==
  ASSUME NEW role \in Roles, NEW must \in BOOLEAN, NEW new, new = NewAccount(role, must)
  PROVE  /\ new \in Account /\ new.status = "active" /\ ~new.disabled
         /\ new.role = role /\ ~new.mfaEnabled
BY DEF NewAccount, Account, NoSecret

LEMMA BodyType ==
  ASSUME workload \in Workload, NEW op, NEW body \in Bodies(op)
  PROVE  /\ body \in Body
         /\ op = "POST" => body.role \in Roles
<1>1. workload.roles \subseteq Roles /\ workload.musts \subseteq AllMusts
  BY DEF Workload
<1>2. body.role \in workload.roles \cup {Unchanged} /\ (op = "POST" => body.role \in workload.roles)
  BY DEF Bodies
<1>3. body.must \in AllMusts
  BY <1>1 DEF Bodies, AllMusts
<1>4. body.disabled \in BOOLEAN
  BY DEF Bodies
<1>5. body = [role |-> body.role, must |-> body.must, disabled |-> body.disabled]
  BY DEF Bodies
<1>6. QED BY <1>1, <1>2, <1>3, <1>4, <1>5 DEF Body

LEMMA InitType == Init => TypeInv
<1> SUFFICES ASSUME Init PROVE TypeInv
  OBVIOUS
<1>1. workload \in Workload BY ParamAssumption DEF Init
<1>2. users \in [Users -> Account]
  <2>1. \A b \in Bodies("POST") : NewAccount(b.role, b.must = "on") \in Account
    BY <1>1, BodyType, NewAccountType
  <2>2. QED BY <2>1, IdleType DEF Init
<1>3. cookie = [c \in Clients |-> NoToken] /\ handler = [h \in Handlers |-> Idle] /\ writes = 0
  BY DEF Init
<1>4. handler \in [Handlers -> HandlerRec] /\ cookie \in [Clients -> Token \cup {NoToken}]
  BY <1>3, IdleType
<1>5. TypeOK BY <1>1, <1>2, <1>3, <1>4 DEF TypeOK
<1>6. \A h \in Handlers : handler[h].pc = "idle" /\ handler[h].token = NoToken
  BY <1>3, IdleType
<1>7. QED BY <1>5, <1>6 DEF TypeInv, Apart, Shape
-----------------------------------------------------------------------------
(* What a write leaves.                                                    *)

\* The row a PUT leaves: the role, the duty to enrol and the epoch change.
EditedRow(now, read, body, new) ==
  /\ new \in Account
  /\ new.role = IF body.role = Unchanged THEN now.role ELSE body.role
  /\ new.mustEnableMfa = NextMustEnableMfa(now, body)
  /\ new.sessionEpoch = IF RevokesSessions(read, body) THEN now.sessionEpoch + 1
                        ELSE now.sessionEpoch
  /\ new.status = now.status /\ new.disabled = now.disabled
  /\ new.mfaEnabled = now.mfaEnabled /\ new.mfaSecret = now.mfaSecret
  /\ new.evictions = now.evictions /\ new.proved = now.proved

LEMMA EditedType ==
  ASSUME NEW now \in Account, NEW read \in Account, NEW body \in Body
  PROVE  EditedRow(now, read, body, Edited(now, read, body))
<1> PICK new : new = Edited(now, read, body) OBVIOUS
<1> DEFINE role == IF body.role = Unchanged THEN now.role ELSE body.role
           must == NextMustEnableMfa(now, body)
           epoch == IF RevokesSessions(read, body) THEN now.sessionEpoch + 1
                    ELSE now.sessionEpoch
<1>1. new = [now EXCEPT !.role = role, !.mustEnableMfa = must, !.sessionEpoch = epoch]
  BY DEF Edited
<1>2. role \in Roles BY DEF Body, Account
<1>3. must \in BOOLEAN BY DEF NextMustEnableMfa, Body, Account
<1>4. epoch \in Nat BY DEF Account
<1> HIDE DEF role, must, epoch
<1>5. /\ new \in Account /\ new.role = role /\ new.mustEnableMfa = must
      /\ new.sessionEpoch = epoch
      /\ new.status = now.status /\ new.disabled = now.disabled
      /\ new.mfaEnabled = now.mfaEnabled /\ new.mfaSecret = now.mfaSecret
      /\ new.evictions = now.evictions /\ new.proved = now.proved
  BY <1>1, <1>2, <1>3, <1>4 DEF Account
<1>6. QED BY <1>5 DEF role, must, epoch, EditedRow

LEMMA RepasswordedType ==
  ASSUME NEW now \in Account, NEW new, new = Repassworded(now)
  PROVE  /\ new \in Account
         /\ new.sessionEpoch = now.sessionEpoch + 1 /\ new.evictions = now.evictions + 1
         /\ new.status = now.status /\ new.role = now.role /\ new.disabled = now.disabled
         /\ new.mustEnableMfa = now.mustEnableMfa /\ new.mfaEnabled = now.mfaEnabled
         /\ new.mfaSecret = now.mfaSecret /\ new.proved = now.proved
<1> PICK epoch : epoch = now.sessionEpoch + 1
  OBVIOUS
<1> PICK times : times = now.evictions + 1
  OBVIOUS
<1>1. epoch \in Nat /\ times \in Nat BY DEF Account
<1>2. new = [now EXCEPT !.sessionEpoch = epoch, !.evictions = times]
  BY DEF Repassworded
<1>3. QED BY <1>1, <1>2 DEF Account

LEMMA UnenrolledType ==
  ASSUME NEW now \in Account,
         NEW new, new = [now EXCEPT !.mfaEnabled = FALSE, !.mfaSecret = NoSecret]
  PROVE  /\ new \in Account /\ new.mfaEnabled = FALSE /\ new.mfaSecret = NoSecret
         /\ new.status = now.status /\ new.role = now.role /\ new.disabled = now.disabled
         /\ new.mustEnableMfa = now.mustEnableMfa /\ new.sessionEpoch = now.sessionEpoch
         /\ new.evictions = now.evictions /\ new.proved = now.proved
BY DEF NoSecret, Account

Evicts(op) == op \in {"resetPassword", "changePassword"}
Disables(op) == op \in {"mfaDisable", "mfaDisableOther"}
Creates(op) == op \in {"setup", "POST"}

\* The row after a request, field by field.
RowAfter(q, old, new) ==
  /\ new \in Account /\ new.status # "unused"
  /\ Creates(q.op) =>
       /\ old.status = "unused" /\ new.status = "active" /\ ~new.disabled /\ ~new.mfaEnabled
       /\ q.op = "setup" => new.role = "SuperAdmin"
  /\ ~Creates(q.op) =>
       /\ old.status = "active"
       /\ new.status = IF q.op = "DELETE" THEN "deleted" ELSE "active"
       /\ new.role = IF q.op = "PUT" /\ q.body.role # Unchanged THEN q.body.role ELSE old.role
       /\ new.disabled = IF q.op = "PATCH" THEN q.body.disabled ELSE old.disabled
       /\ new.mustEnableMfa = IF q.op = "PUT" THEN NextMustEnableMfa(old, q.body)
                              ELSE IF q.op = "mfaVerify" THEN FALSE ELSE old.mustEnableMfa
       /\ new.mfaEnabled = IF q.op = "mfaVerify" THEN TRUE
                           ELSE IF Disables(q.op) THEN FALSE ELSE old.mfaEnabled
       /\ new.mfaSecret = IF q.op = "mfaSetup" THEN writes + 1
                          ELSE IF Disables(q.op) THEN NoSecret ELSE old.mfaSecret
       /\ new.sessionEpoch =
            IF Evicts(q.op) \/ (q.op = "PUT" /\ RevokesSessions(q.row, q.body))
            THEN old.sessionEpoch + 1 ELSE old.sessionEpoch
       /\ new.evictions = IF Evicts(q.op) THEN old.evictions + 1 ELSE old.evictions
       /\ new.proved = IF q.op = "mfaVerify" THEN q.row.mfaSecret ELSE old.proved

LEMMA WriteRow ==
  ASSUME TypeInv, NEW h \in Handlers, Write(h),
         NEW q, q = handler[h], NEW old, old = users[q.target], NEW new, new = Written(q)
  PROVE  /\ q \in HandlerRec /\ q.pc = "write" /\ q.op \in workload.ops \ {"login"}
         /\ q.target \in Users /\ old \in Account
         /\ users' = [users EXCEPT ![q.target] = new]
         /\ RowAfter(q, old, new)
<1>1. /\ q \in HandlerRec /\ q.target \in Users /\ old \in Account /\ q.body \in Body
      /\ q.row \in Account /\ writes \in Nat /\ q.op \in AllOps
  BY DEF TypeInv, TypeOK, HandlerRec
<1>2. /\ q.pc = "write" /\ q.op \in workload.ops \ {"login"}
      /\ q.op = "POST" => q.body.role \in Roles
  BY DEF Write, TypeInv, Shape
<1>3. /\ users' = [users EXCEPT ![q.target] = new]
      /\ old.status = IF Creates(q.op) THEN "unused" ELSE "active"
  BY DEF Write, Creates
<1> USE DEF RowAfter, Creates, Disables, Evicts
<1>4. ASSUME q.op = "setup" PROVE RowAfter(q, old, new)
  <2>1. new = NewAccount("SuperAdmin", FALSE) BY <1>4 DEF Written
  <2>2. /\ new \in Account /\ new.status = "active" /\ ~new.disabled /\ ~new.mfaEnabled
        /\ new.role = "SuperAdmin"
    BY <2>1, NewAccountType, ParamAssumption
  <2>3. QED BY <1>3, <1>4, <2>2
<1>5. ASSUME q.op = "POST" PROVE RowAfter(q, old, new)
  <2> PICK must : must = (q.body.must = "on")
    OBVIOUS
  <2>1. new = NewAccount(q.body.role, must) BY <1>5 DEF Written
  <2>2. must \in BOOLEAN /\ q.body.role \in Roles BY <1>2, <1>5
  <2>3. /\ new \in Account /\ new.status = "active" /\ ~new.disabled /\ ~new.mfaEnabled
    BY <2>1, <2>2, NewAccountType
  <2>4. QED BY <1>3, <1>5, <2>3
<1>6. ASSUME q.op = "PUT" PROVE RowAfter(q, old, new)
  <2> PICK read, body : read = q.row /\ body = q.body
    OBVIOUS
  <2>1. new = Edited(old, read, body) BY <1>6 DEF Written
  <2>2. read \in Account /\ body \in Body /\ old \in Account BY <1>1
  <2>3. EditedRow(old, read, body, new) BY <2>1, <2>2, EditedType
  <2>4. QED BY <1>3, <1>6, <2>3 DEF EditedRow
<1>7. ASSUME q.op = "PATCH" PROVE RowAfter(q, old, new)
  <2>1. new = [old EXCEPT !.disabled = q.body.disabled] BY <1>7 DEF Written
  <2>2. q.body.disabled \in BOOLEAN BY <1>1 DEF Body
  <2>3. QED BY <1>1, <1>3, <1>7, <2>1, <2>2 DEF Account
<1>8. ASSUME q.op = "DELETE" PROVE RowAfter(q, old, new)
  <2>1. new = [old EXCEPT !.status = "deleted"] BY <1>8 DEF Written
  <2>2. QED BY <1>1, <1>3, <1>8, <2>1 DEF Account
<1>9. ASSUME Evicts(q.op) PROVE RowAfter(q, old, new)
  <2>1. new = Repassworded(old) BY <1>9 DEF Written
  <2>2. /\ new \in Account
        /\ new.sessionEpoch = old.sessionEpoch + 1 /\ new.evictions = old.evictions + 1
        /\ new.status = old.status /\ new.role = old.role /\ new.disabled = old.disabled
        /\ new.mustEnableMfa = old.mustEnableMfa /\ new.mfaEnabled = old.mfaEnabled
        /\ new.mfaSecret = old.mfaSecret /\ new.proved = old.proved
    BY <1>1, <2>1, RepasswordedType
  <2>3. QED BY <1>3, <1>9, <2>2
<1>10. ASSUME q.op = "mfaSetup" PROVE RowAfter(q, old, new)
  <2>1. new = [old EXCEPT !.mfaSecret = writes + 1] BY <1>10 DEF Written
  <2>2. QED BY <1>1, <1>3, <1>10, <2>1 DEF Account
<1>11. ASSUME q.op = "mfaVerify" PROVE RowAfter(q, old, new)
  <2>1. new = [old EXCEPT !.mfaEnabled = TRUE, !.mustEnableMfa = FALSE,
                          !.proved = q.row.mfaSecret]
    BY <1>11 DEF Written
  <2>2. q.row.mfaSecret \in Nat BY <1>1 DEF Account
  <2>3. QED BY <1>1, <1>3, <1>11, <2>1, <2>2 DEF Account
<1>12. ASSUME Disables(q.op) PROVE RowAfter(q, old, new)
  <2>1. new = [old EXCEPT !.mfaEnabled = FALSE, !.mfaSecret = NoSecret]
    BY <1>12 DEF Written
  <2>2. /\ new \in Account /\ new.mfaEnabled = FALSE /\ new.mfaSecret = NoSecret
        /\ new.status = old.status /\ new.role = old.role /\ new.disabled = old.disabled
        /\ new.mustEnableMfa = old.mustEnableMfa /\ new.sessionEpoch = old.sessionEpoch
        /\ new.evictions = old.evictions /\ new.proved = old.proved
    BY <1>1, <2>1, UnenrolledType
  <2>3. QED BY <1>3, <1>12, <2>2
<1>13. QED
  <2>1. \/ q.op \in {"setup", "POST", "PUT", "PATCH", "DELETE", "mfaSetup", "mfaVerify"}
        \/ Evicts(q.op) \/ Disables(q.op)
    BY <1>1, <1>2 DEF AllOps, AdminOps, OwnOps
  <2>2. RowAfter(q, old, new)
    BY <1>4, <1>5, <1>6, <1>7, <1>8, <1>9, <1>10, <1>11, <1>12, <2>1
  <2> HIDE DEF RowAfter, Creates, Disables, Evicts
  <2>3. QED BY <1>1, <1>2, <1>3, <2>2
-----------------------------------------------------------------------------
(* Type correctness.                                                       *)

\* An account that has existed is never again one that has not.
StatusKept == \A u \in Users : users[u].status # "unused" => users'[u].status # "unused"

LEMMA OtherShape ==
  ASSUME TypeInv, NEW g \in Handlers, handler'[g] = handler[g], workload' = workload,
         StatusKept
  PROVE  Shape(g)'
<1>1. Shape(g) /\ handler[g] \in HandlerRec BY DEF TypeInv, TypeOK
<1>2. handler[g].target \in Users BY <1>1 DEF HandlerRec
<1>3. handler[g].token # NoToken => handler[g].token.sub \in Users
  BY <1>1 DEF HandlerRec, Token
<1>4. QED BY <1>1, <1>2, <1>3 DEF Shape, StatusKept

LEMMA IdleShape ==
  ASSUME NEW g \in Handlers, handler'[g] = Idle
  PROVE  Shape(g)'
BY IdleType DEF Shape

LEMMA ApartStep ==
  ASSUME TypeInv, workload' = workload,
         \A g \in Handlers :
           \/ handler'[g].pc \in {"idle", "mint"}
           \/ /\ handler'[g].op = handler[g].op
              /\ handler[g].pc \notin {"idle", "mint"}
  PROVE  Apart'
BY DEF TypeInv, Apart

LEMMA AdvanceType ==
  ASSUME NEW q \in HandlerRec,
         NEW pc \in {"idle", "read", "count", "lastSuperAdmin", "write", "mint"},
         NEW r, r = [q EXCEPT !.pc = pc]
  PROVE  /\ r \in HandlerRec /\ r.pc = pc /\ r.row = q.row
         /\ r.op = q.op /\ r.client = q.client /\ r.token = q.token
         /\ r.target = q.target /\ r.body = q.body
BY DEF HandlerRec

\* The account must still enrol before it may do anything else.
Owes(row) == row.mustEnableMfa /\ ~row.mfaEnabled

LEMMA ClaimsType ==
  ASSUME NEW u \in Users, NEW row \in Account, NEW pending \in BOOLEAN, NEW evictions \in Nat,
         NEW t, t = Claims(u, row, pending, evictions)
  PROVE  /\ t \in Token /\ t.sub = u /\ t.role = row.role /\ t.pending = pending
         /\ t.sessionEpoch = row.sessionEpoch /\ t.evictions = evictions
BY DEF Claims, Token, Account

\* The request a guard lets through.
LEMMA RequestStep ==
  ASSUME TypeInv, NEW h \in Handlers, NEW c \in Clients, NEW op \in workload.ops,
         NEW u \in Users, Request(h, c, op, u)
  PROVE  /\ handler[h].pc = "idle" /\ op \in AllOps \ {"login"}
         /\ Alone(op) /\ Admits(op, cookie[c])
         /\ UNCHANGED <<workload, users, cookie, writes>>
         /\ \E r \in HandlerRec :
              /\ handler' = [handler EXCEPT ![h] = r]
              /\ r.pc = "read" /\ r.op = op /\ r.target = u
              /\ op \in MayReissue => r.token = cookie[c] /\ cookie[c] # NoToken
              /\ op \notin MayReissue => r.token = NoToken
              /\ op \in OwnOps => u = cookie[c].sub
              /\ op = "POST" => r.body.role \in Roles
<1>1. op \in AllOps \ {"login"} BY DEF TypeInv, TypeOK, Workload, Request
<1>2. PICK body \in Bodies(op) :
        /\ MayTarget(op, cookie[c], u, body)
        /\ handler' = [handler EXCEPT ![h] =
             [Idle EXCEPT !.pc = "read", !.op = op, !.target = u, !.body = body,
                !.client = IF op \in MayReissue THEN c ELSE @,
                !.token = IF op \in MayReissue THEN cookie[c] ELSE @]]
  BY DEF Request
<1> PICK browser : browser = IF op \in MayReissue THEN c ELSE Idle.client
  OBVIOUS
<1> PICK token : token = IF op \in MayReissue THEN cookie[c] ELSE Idle.token
  OBVIOUS
<1> PICK r : r = [Idle EXCEPT !.pc = "read", !.op = op, !.target = u, !.body = body,
                    !.client = browser, !.token = token]
  OBVIOUS
<1>3. body \in Body /\ (op = "POST" => body.role \in Roles)
  BY BodyType DEF TypeInv, TypeOK
<1>4. browser \in Clients /\ token \in Token \cup {NoToken}
  BY IdleType DEF TypeInv, TypeOK, HandlerRec
<1>5. /\ r \in HandlerRec /\ r.pc = "read" /\ r.op = op /\ r.target = u /\ r.body = body
      /\ r.token = token
  BY <1>1, <1>3, <1>4, IdleType DEF HandlerRec
<1>6. handler' = [handler EXCEPT ![h] = r] BY <1>2
<1>7. op \in MayReissue => cookie[c] # NoToken
  BY DEF Request, Admits, MayReissue
<1>8. op \in OwnOps => u = cookie[c].sub BY <1>2 DEF MayTarget
<1>9. handler[h].pc = "idle" /\ Alone(op) /\ Admits(op, cookie[c])
      /\ UNCHANGED <<workload, users, cookie, writes>>
  BY DEF Request
<1>10. QED BY <1>1, <1>3, <1>5, <1>6, <1>7, <1>8, <1>9, IdleType

LEMMA RequestType ==
  ASSUME TypeInv, NEW h \in Handlers, NEW c \in Clients, NEW op \in workload.ops,
         NEW u \in Users, Request(h, c, op, u)
  PROVE  TypeInv'
<1>1. /\ handler[h].pc = "idle" /\ op \in AllOps \ {"login"}
      /\ Alone(op) /\ UNCHANGED <<workload, users, cookie, writes>>
  BY RequestStep
<1>2. PICK r \in HandlerRec :
        /\ handler' = [handler EXCEPT ![h] = r]
        /\ r.pc = "read" /\ r.op = op /\ r.target = u
        /\ op \in MayReissue => r.token = cookie[c] /\ cookie[c] # NoToken
        /\ op \notin MayReissue => r.token = NoToken
        /\ op \in OwnOps => u = cookie[c].sub
        /\ op = "POST" => r.body.role \in Roles
  BY RequestStep
<1>3. handler \in [Handlers -> HandlerRec] BY DEF TypeInv, TypeOK
<1>4. handler' \in [Handlers -> HandlerRec] /\ handler'[h] = r
      /\ \A g \in Handlers \ {h} : handler'[g] = handler[g]
  BY <1>2, <1>3
<1>5. TypeOK' BY <1>1, <1>4 DEF TypeInv, TypeOK
<1>6. Shape(h)'
  <2>1. r.token # NoToken => users[r.token.sub].status # "unused"
    BY <1>2 DEF TypeInv, TypeOK
  <2>2. op \in {"changePassword", "mfaVerify"} => r.target = r.token.sub
    BY <1>2 DEF OwnOps, MayReissue
  <2>3. QED BY <1>1, <1>2, <1>4, <2>1, <2>2 DEF Shape
<1>7. \A g \in Handlers : Shape(g)'
  BY <1>1, <1>4, <1>6, OtherShape DEF StatusKept
<1>8. Apart'
  <2>1. \A g \in Handlers \ {h} : handler[g].pc # "idle" /\ op \in workload.exclusive =>
          handler[g].op \notin workload.exclusive
    BY <1>1 DEF Alone
  <2>2. Apart BY DEF TypeInv
  <2>3. QED BY <1>1, <1>2, <1>4, <2>1, <2>2 DEF Apart
<1>9. QED BY <1>5, <1>7, <1>8 DEF TypeInv

\* One handler moves on with its request, or ends it; the rest is unchanged.
LEMMA MoveType ==
  ASSUME TypeInv, NEW h \in Handlers, NEW r \in HandlerRec,
         handler' = [handler EXCEPT ![h] = r],
         UNCHANGED <<workload, users, cookie, writes>>, Shape(h)',
         \/ r.pc \in {"idle", "mint"}
         \/ r.op = handler[h].op /\ handler[h].pc \notin {"idle", "mint"}
  PROVE  TypeInv'
<1>1. handler \in [Handlers -> HandlerRec] BY DEF TypeInv, TypeOK
<1>2. handler' \in [Handlers -> HandlerRec] /\ handler'[h] = r
      /\ \A g \in Handlers \ {h} : handler'[g] = handler[g]
  BY <1>1
<1>3. TypeOK' BY <1>2 DEF TypeInv, TypeOK
<1>4. \A g \in Handlers : Shape(g)' BY <1>2, OtherShape DEF StatusKept
<1>5. \A g \in Handlers :
        \/ handler'[g].pc \in {"idle", "mint"}
        \/ handler'[g].op = handler[g].op
  BY <1>2
<1>6. Apart' BY <1>2 DEF TypeInv, Apart
<1>7. QED BY <1>3, <1>4, <1>6 DEF TypeInv

LEMMA SignInStep ==
  ASSUME TypeInv, NEW h \in Handlers, NEW c \in Clients, NEW u \in Users, SignIn(h, c, u)
  PROVE  /\ UNCHANGED <<workload, users, cookie, writes>> /\ handler[h].pc = "idle"
         /\ \E r \in HandlerRec :
              /\ handler' = [handler EXCEPT ![h] = r]
              /\ r.pc = "mint" /\ r.op = "login" /\ r.target = u /\ r.token = NoToken
              /\ r.row = users[u] /\ users[u].status = "active"
<1> PICK r : r = [Idle EXCEPT !.pc = "mint", !.client = c, !.target = u, !.row = users[u]]
  OBVIOUS
<1>1. users[u] \in Account BY DEF TypeInv, TypeOK
<1>2. /\ r \in HandlerRec /\ r.pc = "mint" /\ r.op = "login" /\ r.target = u
      /\ r.token = NoToken /\ r.row = users[u]
  BY <1>1, IdleType DEF HandlerRec
<1>3. QED BY <1>2 DEF SignIn, SignsIn

LEMMA SignInType ==
  ASSUME TypeInv, NEW h \in Handlers, NEW c \in Clients, NEW u \in Users, SignIn(h, c, u)
  PROVE  TypeInv'
<1>1. UNCHANGED <<workload, users, cookie, writes>>
  BY SignInStep
<1>2. PICK r \in HandlerRec :
        /\ handler' = [handler EXCEPT ![h] = r]
        /\ r.pc = "mint" /\ r.op = "login" /\ r.target = u /\ r.token = NoToken
        /\ r.row = users[u] /\ users[u].status = "active"
  BY SignInStep
<1>3. handler'[h] = r BY <1>2 DEF TypeInv, TypeOK
<1>4. Shape(h)' BY <1>1, <1>2, <1>3 DEF Shape, MayReissue
<1>5. QED BY <1>1, <1>2, <1>4, MoveType

LEMMA ReadStep ==
  ASSUME TypeInv, NEW h \in Handlers, Read(h)
  PROVE  LET q == handler[h]  row == users[q.target] IN
         /\ UNCHANGED <<workload, users, cookie, writes>>
         /\ q.pc = "read" /\ Proceeds(q.op, row)
         /\ \E r \in HandlerRec :
              /\ handler' = [handler EXCEPT ![h] = r]
              /\ r.pc = IF NeedsCount(q.op, row, q.body) THEN "count" ELSE "write"
              /\ r.row = IF q.op \in {"PUT", "mfaVerify"} THEN row ELSE q.row
              /\ r.op = q.op /\ r.client = q.client /\ r.token = q.token
              /\ r.target = q.target /\ r.body = q.body
<1> PICK q : q = handler[h] OBVIOUS
<1> PICK row : row = users[q.target] OBVIOUS
<1> PICK pc : pc = IF NeedsCount(q.op, row, q.body) THEN "count" ELSE "write" OBVIOUS
<1> PICK now : now = IF q.op \in {"PUT", "mfaVerify"} THEN row ELSE q.row OBVIOUS
<1> PICK r : r = [q EXCEPT !.pc = pc, !.row = now] OBVIOUS
<1>1. q \in HandlerRec /\ handler \in [Handlers -> HandlerRec] BY DEF TypeInv, TypeOK
<1>2. now \in Account /\ pc \in {"count", "write"}
  BY <1>1 DEF TypeInv, TypeOK, HandlerRec
<1>3. /\ r \in HandlerRec /\ r.pc = pc /\ r.row = now
      /\ r.op = q.op /\ r.client = q.client /\ r.token = q.token
      /\ r.target = q.target /\ r.body = q.body
  <2>1. pc \in {"idle", "read", "count", "lastSuperAdmin", "write", "mint"} BY <1>2
  <2>2. QED BY <1>1, <1>2, <2>1 DEF HandlerRec
<1>4. handler' = [handler EXCEPT ![h].pc = pc, ![h].row = now]
  BY DEF Read
<1>5. handler' = [handler EXCEPT ![h] = r]
  BY <1>1, <1>4
<1>6. UNCHANGED <<workload, users, cookie, writes>> /\ q.pc = "read" /\ Proceeds(q.op, row)
  BY DEF Read
<1>7. QED BY <1>3, <1>5, <1>6

LEMMA ReadType ==
  ASSUME TypeInv, NEW h \in Handlers, Read(h)
  PROVE  TypeInv'
<1> PICK q : q = handler[h] OBVIOUS
<1> PICK row : row = users[q.target] OBVIOUS
<1>1. UNCHANGED <<workload, users, cookie, writes>> /\ q.pc = "read" /\ Proceeds(q.op, row)
  BY ReadStep
<1>2. PICK r \in HandlerRec :
        /\ handler' = [handler EXCEPT ![h] = r]
        /\ r.pc = IF NeedsCount(q.op, row, q.body) THEN "count" ELSE "write"
        /\ r.op = q.op /\ r.token = q.token
        /\ r.target = q.target /\ r.body = q.body
  BY ReadStep
<1>3. handler'[h] = r BY <1>2 DEF TypeInv, TypeOK
<1>4. q.op \notin {"setup", "POST", "mfaDisableOther"} => row.status # "unused"
  BY <1>1 DEF Proceeds
<1>5. r.pc = "count" => q.op \in {"PUT", "PATCH", "DELETE"}
  BY <1>2 DEF NeedsCount
<1>6. r.pc \in {"count", "write"} BY <1>2
<1>7. Shape(h) BY DEF TypeInv
<1>8. Shape(h)' BY <1>1, <1>2, <1>3, <1>4, <1>5, <1>6, <1>7 DEF Shape
<1>9. QED BY <1>1, <1>2, <1>6, <1>8, MoveType

LEMMA CountStep ==
  ASSUME TypeInv, NEW h \in Handlers, Count(h)
  PROVE  LET q == handler[h] IN
         /\ UNCHANGED <<workload, users, cookie, writes>> /\ q.pc = "count"
         /\ \E r \in HandlerRec :
              /\ handler' = [handler EXCEPT ![h] = r]
              /\ r.pc = IF OthersUsable(q.target) THEN "write" ELSE "lastSuperAdmin"
              /\ r.row = q.row
              /\ r.op = q.op /\ r.client = q.client /\ r.token = q.token
              /\ r.target = q.target /\ r.body = q.body
<1> PICK q : q = handler[h] OBVIOUS
<1> PICK pc : pc = IF OthersUsable(q.target) THEN "write" ELSE "lastSuperAdmin" OBVIOUS
<1> PICK r : r = [q EXCEPT !.pc = pc] OBVIOUS
<1>1. q \in HandlerRec /\ handler \in [Handlers -> HandlerRec] BY DEF TypeInv, TypeOK
<1>2. /\ r \in HandlerRec /\ r.pc = pc /\ r.row = q.row
      /\ r.op = q.op /\ r.client = q.client /\ r.token = q.token
      /\ r.target = q.target /\ r.body = q.body
  BY <1>1, AdvanceType
<1>3. handler' = [handler EXCEPT ![h].pc = pc] BY DEF Count
<1>4. handler' = [handler EXCEPT ![h] = r] BY <1>1, <1>3
<1>5. UNCHANGED <<workload, users, cookie, writes>> /\ q.pc = "count" BY DEF Count
<1>6. QED BY <1>2, <1>4, <1>5

LEMMA CountType ==
  ASSUME TypeInv, NEW h \in Handlers, Count(h)
  PROVE  TypeInv'
<1> PICK q : q = handler[h] OBVIOUS
<1>1. UNCHANGED <<workload, users, cookie, writes>> /\ q.pc = "count"
  BY CountStep
<1>2. PICK r \in HandlerRec :
        /\ handler' = [handler EXCEPT ![h] = r]
        /\ r.pc = IF OthersUsable(q.target) THEN "write" ELSE "lastSuperAdmin"
        /\ r.op = q.op /\ r.token = q.token /\ r.target = q.target /\ r.body = q.body
  BY CountStep
<1>3. handler'[h] = r BY <1>2 DEF TypeInv, TypeOK
<1>4. r.pc \in {"write", "lastSuperAdmin"} BY <1>2
<1>5. Shape(h) BY DEF TypeInv
<1>6. Shape(h)' BY <1>1, <1>2, <1>3, <1>4, <1>5 DEF Shape
<1>7. QED BY <1>1, <1>2, <1>4, <1>6, MoveType

LEMMA RefuseType ==
  ASSUME TypeInv, NEW h \in Handlers, Refuse(h)
  PROVE  TypeInv'
<1>1. handler' = [handler EXCEPT ![h] = Idle] /\ UNCHANGED <<workload, users, cookie, writes>>
  BY DEF Refuse
<1>2. handler'[h] = Idle BY <1>1 DEF TypeInv, TypeOK
<1>3. Shape(h)' BY <1>2, IdleShape
<1>4. QED BY <1>1, <1>3, MoveType, IdleType

\* What a token that a finished write hands out says.
LEMMA ReissuedToken ==
  ASSUME TypeInv, NEW h \in Handlers, Write(h),
         NEW q, q = handler[h], NEW new, new = Written(q), Reissues(q),
         NEW t, t = Reissued(q, new)
  PROVE  /\ t \in Token /\ t.sub = q.target /\ t.role = new.role
         /\ t.sessionEpoch = new.sessionEpoch
         /\ q.token \in Token /\ q.op \in MayReissue /\ q.target = q.token.sub
         /\ t.evictions = IF q.op = "changePassword" THEN q.token.evictions + 1
                          ELSE q.token.evictions
         /\ q.op = "changePassword" => t.pending = q.token.pending
         /\ q.op = "PUT" => t.pending = Owes(new)
<1> PICK old : old = users[q.target] OBVIOUS
<1>1. q \in HandlerRec /\ q.pc = "write" /\ q.target \in Users /\ RowAfter(q, old, new)
  BY WriteRow
<1>2. new \in Account BY <1>1 DEF RowAfter
<1>3. q.op \in MayReissue BY DEF Reissues, MayReissue
<1>4. q.token \in Token
  <2>1. q.token # NoToken BY <1>1, <1>3 DEF TypeInv, Shape
  <2>2. q.token \in Token \cup {NoToken} BY <1>1 DEF HandlerRec
  <2>3. QED BY <2>1, <2>2
<1>5. q.token.evictions \in Nat /\ q.token.pending \in BOOLEAN BY <1>4 DEF Token
<1>6. q.target = q.token.sub
  <2>1. q.op \in {"changePassword", "mfaVerify"} => q.target = q.token.sub
    BY <1>1 DEF TypeInv, Shape
  <2>2. QED BY <2>1 DEF Reissues
<1>7. CASE q.op = "changePassword"
  <2> PICK evictions : evictions = q.token.evictions + 1 OBVIOUS
  <2> PICK pending : pending = q.token.pending OBVIOUS
  <2>1. evictions \in Nat /\ pending \in BOOLEAN BY <1>5
  <2>2. t = Claims(q.target, new, pending, evictions) BY <1>7 DEF Reissued
  <2>3. QED BY <1>1, <1>2, <1>3, <1>4, <1>6, <1>7, <2>1, <2>2, ClaimsType
<1>8. CASE q.op = "mfaVerify"
  <2> PICK evictions : evictions = q.token.evictions OBVIOUS
  <2> PICK pending \in BOOLEAN : pending = FALSE OBVIOUS
  <2>1. t = Claims(q.target, new, pending, evictions) BY <1>8 DEF Reissued
  <2>2. QED BY <1>1, <1>2, <1>3, <1>4, <1>5, <1>6, <1>8, <2>1, ClaimsType
<1>9. CASE q.op = "PUT"
  <2> PICK evictions : evictions = q.token.evictions OBVIOUS
  <2>1. Owes(new) \in BOOLEAN /\ evictions \in Nat BY <1>5 DEF Owes
  <2>2. t = Claims(q.target, new, Owes(new), evictions) BY <1>9 DEF Reissued, Owes
  <2>3. QED BY <1>1, <1>2, <1>3, <1>4, <1>6, <1>9, <2>1, <2>2, ClaimsType
<1>10. QED BY <1>3, <1>7, <1>8, <1>9 DEF MayReissue

LEMMA WriteType ==
  ASSUME TypeInv, NEW h \in Handlers, Write(h)
  PROVE  TypeInv' /\ StatusKept
<1> PICK q : q = handler[h] OBVIOUS
<1> PICK old : old = users[q.target] OBVIOUS
<1> PICK new : new = Written(q) OBVIOUS
<1>1. /\ q \in HandlerRec /\ q.target \in Users
      /\ users' = [users EXCEPT ![q.target] = new] /\ RowAfter(q, old, new)
  BY WriteRow
<1>2. new \in Account /\ new.status # "unused" BY <1>1 DEF RowAfter
<1>3. /\ handler' = [handler EXCEPT ![h] = Idle] /\ writes' = writes + 1
      /\ workload' = workload
      /\ cookie' = IF Reissues(q) THEN [cookie EXCEPT ![q.client] = Reissued(q, new)]
                                  ELSE cookie
  BY DEF Write
<1>4. /\ handler' \in [Handlers -> HandlerRec] /\ handler'[h] = Idle
      /\ \A g \in Handlers \ {h} : handler'[g] = handler[g]
  BY <1>3, IdleType DEF TypeInv, TypeOK
<1>5. users' \in [Users -> Account] /\ users'[q.target] = new
  BY <1>1, <1>2 DEF TypeInv, TypeOK
<1>6. StatusKept
  BY <1>1, <1>2 DEF StatusKept, TypeInv, TypeOK
<1>7. /\ cookie' \in [Clients -> Token \cup {NoToken}]
      /\ \A c \in Clients : cookie'[c] # NoToken => users'[cookie'[c].sub].status # "unused"
  <2>1. ASSUME NEW c \in Clients, cookie[c] # NoToken
        PROVE  users'[cookie[c].sub].status # "unused"
    <3>1. cookie[c].sub \in Users BY <2>1 DEF TypeInv, TypeOK, Token
    <3>2. QED BY <1>6, <2>1, <3>1 DEF StatusKept, TypeInv, TypeOK
  <2>2. CASE ~Reissues(q) BY <1>3, <2>1, <2>2 DEF TypeInv, TypeOK
  <2>3. CASE Reissues(q)
    <3> PICK t : t = Reissued(q, new) OBVIOUS
    <3>1. t \in Token /\ t.sub = q.target BY <2>3, ReissuedToken
    <3>2. cookie' = [cookie EXCEPT ![q.client] = t] BY <1>3, <2>3
    <3>3. QED BY <1>2, <1>5, <2>1, <3>1, <3>2 DEF TypeInv, TypeOK
  <2>4. QED BY <2>2, <2>3
<1>8. workload' \in Workload /\ writes' \in Nat BY <1>3 DEF TypeInv, TypeOK
<1>9. TypeOK' BY <1>4, <1>5, <1>7, <1>8 DEF TypeOK
<1>10. \A g \in Handlers : Shape(g)'
  BY <1>3, <1>4, <1>6, OtherShape, IdleShape
<1>11. Apart' BY <1>3, <1>4, IdleType DEF TypeInv, Apart
<1>12. QED BY <1>6, <1>9, <1>10, <1>11 DEF TypeInv

\* What a login that has been admitted sets.
LEMMA MintStep ==
  ASSUME TypeInv, NEW h \in Handlers, Mint(h), NEW q, q = handler[h],
         NEW t, t = Claims(q.target, q.row, Owes(q.row), q.row.evictions)
  PROVE  /\ q \in HandlerRec /\ q.pc = "mint" /\ t \in Token /\ t.sub = q.target
         /\ users[q.target].status # "unused"
         /\ cookie' = [cookie EXCEPT ![q.client] = t]
         /\ handler' = [handler EXCEPT ![h] = Idle]
         /\ UNCHANGED <<workload, users, writes>>
<1>1. q \in HandlerRec BY DEF TypeInv, TypeOK
<1>2. q.row \in Account /\ q.target \in Users BY <1>1 DEF HandlerRec
<1> PICK evictions : evictions = q.row.evictions OBVIOUS
<1> PICK row : row = q.row OBVIOUS
<1>3. Owes(row) \in BOOLEAN BY DEF Owes
<1>4. evictions \in Nat BY <1>2 DEF Account
<1>5. t = Claims(q.target, row, Owes(row), evictions) OBVIOUS
<1>6. t \in Token /\ t.sub = q.target
  BY <1>2, <1>3, <1>4, <1>5, ClaimsType
<1>7. /\ q.pc = "mint" /\ cookie' = [cookie EXCEPT ![q.client] = t]
      /\ handler' = [handler EXCEPT ![h] = Idle]
      /\ UNCHANGED <<workload, users, writes>>
  BY DEF Mint, Owes
<1>8. users[q.target].status # "unused" BY <1>7 DEF TypeInv, Shape
<1>9. QED BY <1>1, <1>6, <1>7, <1>8

LEMMA MintType ==
  ASSUME TypeInv, NEW h \in Handlers, Mint(h)
  PROVE  TypeInv'
<1> PICK q : q = handler[h] OBVIOUS
<1> PICK t : t = Claims(q.target, q.row, Owes(q.row), q.row.evictions)
  OBVIOUS
<1>1. /\ t \in Token /\ t.sub = q.target /\ users[q.target].status # "unused"
      /\ cookie' = [cookie EXCEPT ![q.client] = t]
      /\ handler' = [handler EXCEPT ![h] = Idle]
      /\ UNCHANGED <<workload, users, writes>>
  BY MintStep
<1>2. /\ handler' \in [Handlers -> HandlerRec] /\ handler'[h] = Idle
      /\ \A g \in Handlers \ {h} : handler'[g] = handler[g]
  BY <1>1, IdleType DEF TypeInv, TypeOK
<1>3. TypeOK' BY <1>1, <1>2 DEF TypeInv, TypeOK
<1>4. \A g \in Handlers : Shape(g)'
  BY <1>1, <1>2, OtherShape, IdleShape DEF StatusKept
<1>5. Apart' BY <1>1, <1>2, IdleType DEF TypeInv, Apart
<1>6. QED BY <1>3, <1>4, <1>5 DEF TypeInv

LEMMA TypeStep == TypeInv /\ [Next]_vars => TypeInv'
<1> SUFFICES ASSUME TypeInv, [Next]_vars PROVE TypeInv'
  OBVIOUS
<1>1. CASE UNCHANGED vars BY <1>1 DEF vars, TypeInv, TypeOK, Apart, Shape
<1>2. CASE Next
  BY <1>2, RequestType, SignInType, ReadType, CountType, WriteType, MintType, RefuseType
  DEF Next
<1>3. QED BY <1>1, <1>2

LEMMA TypeAlways == Spec => []TypeInv
BY InitType, TypeStep, PTL DEF Spec

\* The tables, the cookies and the handlers keep their shape; a cookie is only held
\* for an account that exists or has existed.
THEOREM TypeCorrect == Spec => []TypeOK
<1>1. TypeInv => TypeOK BY DEF TypeInv
<1>2. QED BY <1>1, TypeAlways, PTL
-----------------------------------------------------------------------------
(* Nobody locks everyone out.                                              *)

Edits == {"PUT", "PATCH", "DELETE"}

\* Only whoever sets the instance up does so while there is no account.
Inhabited ==
  \A h \in Handlers :
    handler[h].pc \notin {"idle", "mint"} /\ handler[h].op # "setup" => \E u \in Users : Active(u)

\* An edit past its count leaves a SuperAdmin who can sign in, whoever else has
\* written since.
Counted(h) ==
  LET q == handler[h] IN
  q.pc = "write" => ~NeedsCount(q.op, users[q.target], q.body) \/ OthersUsable(q.target)

Locked == SuperAdminRemains /\ Inhabited /\ \A h \in Handlers : Counted(h)

LockInv == Serialised(Edits) => Locked

LEMMA InitLock == Init => Locked
<1> SUFFICES ASSUME Init PROVE Locked
  OBVIOUS
<1>1. \A h \in Handlers : handler[h].pc = "idle" BY IdleType DEF Init
<1>2. SuperAdminRemains BY DEF Init, SuperAdminRemains
<1>3. QED BY <1>1, <1>2 DEF Locked, Inhabited, Counted

\* A step that leaves the accounts alone: only the handler that moves matters.
LEMMA MoveLock ==
  ASSUME TypeInv, Locked, NEW h \in Handlers, NEW r,
         handler' = [handler EXCEPT ![h] = r], UNCHANGED users,
         r.pc \notin {"idle", "mint"} /\ r.op # "setup" => \E u \in Users : Active(u),
         r.pc = "write" => ~NeedsCount(r.op, users[r.target], r.body) \/ OthersUsable(r.target)
  PROVE  Locked'
<1>1. handler'[h] = r /\ \A g \in Handlers \ {h} : handler'[g] = handler[g]
  BY DEF TypeInv, TypeOK
<1>2. SuperAdminRemains' BY DEF Locked, SuperAdminRemains, Active, UsableSuperAdmin
<1>3. Inhabited' BY <1>1 DEF Locked, Inhabited, Active
<1>4. ASSUME NEW g \in Handlers PROVE Counted(g)'
  <2>1. CASE g = h
    BY <1>1, <2>1 DEF Counted, OthersUsable, UsableSuperAdmin, Active
  <2>2. CASE g # h
    <3>1. Counted(g) /\ handler'[g] = handler[g] BY <1>1, <2>2 DEF Locked
    <3>2. QED BY <3>1 DEF Counted, OthersUsable, UsableSuperAdmin, Active
  <2>3. QED BY <2>1, <2>2
<1>5. QED BY <1>2, <1>3, <1>4 DEF Locked

\* A request that edits nobody's role or standing leaves the SuperAdmins as they are.
LEMMA OthersKeepSuperAdmins ==
  ASSUME TypeInv, NEW h \in Handlers, Write(h), handler[h].op \notin Edits,
         NEW u \in Users
  PROVE  /\ UsableSuperAdmin(u) => UsableSuperAdmin(u)'
         /\ users[u].status # "unused" => users'[u].role = users[u].role
<1> PICK q : q = handler[h] OBVIOUS
<1> PICK old : old = users[q.target] OBVIOUS
<1> PICK new : new = Written(q) OBVIOUS
<1>1. /\ q.target \in Users /\ old \in Account
      /\ users' = [users EXCEPT ![q.target] = new] /\ RowAfter(q, old, new)
  BY WriteRow
<1>2. users \in [Users -> Account] BY DEF TypeInv, TypeOK
<1>3. CASE u # q.target
  <2>1. users'[u] = users[u] BY <1>1, <1>2, <1>3
  <2>2. QED BY <2>1 DEF UsableSuperAdmin, Active
<1>4. CASE u = q.target
  <2>1. users'[u] = new /\ users[u] = old BY <1>1, <1>2, <1>4
  <2>2. q.op \notin Edits OBVIOUS
  <2>3. Creates(q.op) => old.status = "unused" BY <1>1 DEF RowAfter
  <2>4. ~Creates(q.op) =>
          new.status = "active" /\ new.role = old.role /\ new.disabled = old.disabled
    BY <1>1, <2>2 DEF RowAfter, Edits
  <2>5. QED BY <2>1, <2>3, <2>4 DEF UsableSuperAdmin, Active
<1>5. QED BY <1>3, <1>4

\* Every write leaves a SuperAdmin who can sign in.
LEMMA WriteLeavesOne ==
  ASSUME TypeInv, Locked, NEW h \in Handlers, Write(h)
  PROVE  \E u \in Users : UsableSuperAdmin(u)'
<1> PICK q : q = handler[h] OBVIOUS
<1> PICK old : old = users[q.target] OBVIOUS
<1> PICK new : new = Written(q) OBVIOUS
<1>1. /\ q \in HandlerRec /\ q.pc = "write" /\ q.target \in Users /\ old \in Account
      /\ users' = [users EXCEPT ![q.target] = new] /\ RowAfter(q, old, new)
  BY WriteRow
<1>2. users \in [Users -> Account] BY DEF TypeInv, TypeOK
<1>3. users'[q.target] = new /\ \A u \in Users \ {q.target} : users'[u] = users[u]
  BY <1>1, <1>2
<1>4. CASE q.op = "setup"
  <2>1. new.status = "active" /\ new.role = "SuperAdmin" /\ ~new.disabled
    BY <1>1, <1>4 DEF RowAfter, Creates
  <2>2. QED BY <1>1, <1>3, <2>1 DEF UsableSuperAdmin, Active
<1>5. CASE q.op # "setup"
  <2>1. \E u \in Users : Active(u) BY <1>1, <1>5 DEF Locked, Inhabited
  <2>2. PICK u \in Users : UsableSuperAdmin(u)
    BY <2>1 DEF Locked, SuperAdminRemains
  <2>3. CASE q.op \notin Edits
    <3>1. UsableSuperAdmin(u)' BY <2>2, <2>3, OthersKeepSuperAdmins
    <3>2. QED BY <3>1
  <2>4. CASE q.op \in Edits
    <3>1. ~NeedsCount(q.op, old, q.body) \/ OthersUsable(q.target)
      BY <1>1 DEF Locked, Counted
    <3>2. CASE \E v \in Users \ {q.target} : UsableSuperAdmin(v)
      <4>1. PICK v \in Users \ {q.target} : UsableSuperAdmin(v) BY <3>2
      <4>2. users'[v] = users[v] BY <1>3
      <4>3. UsableSuperAdmin(v)' BY <4>1, <4>2 DEF UsableSuperAdmin, Active
      <4>4. QED BY <4>3
    <3>3. CASE ~\E v \in Users \ {q.target} : UsableSuperAdmin(v)
      <4>1. u = q.target /\ old.role = "SuperAdmin" /\ ~old.disabled
        BY <2>2, <3>3 DEF UsableSuperAdmin, Active
      <4>2. ~NeedsCount(q.op, old, q.body)
        BY <3>1, <3>3 DEF OthersUsable
      <4>3. /\ q.op # "DELETE"
            /\ q.op = "PUT" => q.body.role \in {Unchanged, "SuperAdmin"}
            /\ q.op = "PATCH" => ~q.body.disabled
        BY <4>1, <4>2 DEF NeedsCount
      <4>4. ~Creates(q.op) BY <2>4 DEF Edits, Creates
      <4>5. /\ new.status = "active" /\ new.role = "SuperAdmin"
            /\ new.disabled = IF q.op = "PATCH" THEN q.body.disabled ELSE old.disabled
        BY <1>1, <4>1, <4>3, <4>4 DEF RowAfter
      <4>6. ~new.disabled BY <4>1, <4>3, <4>5
      <4>7. QED BY <1>1, <1>3, <4>5, <4>6 DEF UsableSuperAdmin, Active
    <3>4. QED BY <3>2, <3>3
  <2>5. QED BY <2>3, <2>4
<1>6. QED BY <1>4, <1>5

LEMMA WriteLock ==
  ASSUME TypeInv, Serialised(Edits), Locked, NEW h \in Handlers, Write(h)
  PROVE  Locked'
<1>1. PICK u \in Users : UsableSuperAdmin(u)' BY WriteLeavesOne
<1>2. Active(u)' BY <1>1 DEF UsableSuperAdmin
<1>3. SuperAdminRemains' BY <1>1 DEF SuperAdminRemains
<1>4. Inhabited' BY <1>2 DEF Inhabited
<1>5. /\ handler' = [handler EXCEPT ![h] = Idle] /\ handler[h].pc = "write"
      /\ handler \in [Handlers -> HandlerRec]
  BY DEF Write, TypeInv, TypeOK
<1>6. ASSUME NEW g \in Handlers PROVE Counted(g)'
  <2>1. CASE g = h BY <1>5, <2>1, IdleType DEF Counted
  <2>2. CASE g # h
    <3> PICK q : q = handler[g] OBVIOUS
    <3>1. handler'[g] = q BY <1>5, <2>2
    <3>2. CASE q.pc # "write" \/ q.op \notin Edits
      BY <3>1, <3>2 DEF Counted, NeedsCount, Edits
    <3>3. CASE q.pc = "write" /\ q.op \in Edits
      <4>1. q.op \in workload.exclusive
        BY <3>3 DEF Serialised, TypeInv, Shape
      <4>2. handler[h].op \notin workload.exclusive
        BY <1>5, <2>2, <3>3, <4>1 DEF TypeInv, Apart
      <4>3. handler[h].op \notin Edits
        BY <1>5, <4>2 DEF Serialised, TypeInv, Shape
      <4>4. q.target \in Users /\ users[q.target].status # "unused"
        BY <1>5, <3>3 DEF TypeInv, Shape, Edits, HandlerRec
      <4>5. users'[q.target].role = users[q.target].role
        BY <4>3, <4>4, OthersKeepSuperAdmins
      <4>6. OthersUsable(q.target) => OthersUsable(q.target)'
        BY <4>3, OthersKeepSuperAdmins DEF OthersUsable
      <4>7. ~NeedsCount(q.op, users[q.target], q.body) \/ OthersUsable(q.target)
        BY <3>3 DEF Locked, Counted
      <4>8. ~NeedsCount(q.op, users'[q.target], q.body) \/ OthersUsable(q.target)'
        BY <4>5, <4>6, <4>7 DEF NeedsCount
      <4>9. QED BY <3>1, <4>8 DEF Counted
    <3>4. QED BY <3>2, <3>3
  <2>3. QED BY <2>1, <2>2
<1>7. QED BY <1>3, <1>4, <1>6 DEF Locked

LEMMA LockStep ==
  ASSUME TypeInv, Serialised(Edits), Locked, [Next]_vars
  PROVE  Locked'
<1>1. ASSUME NEW h \in Handlers, NEW c \in Clients, NEW op \in workload.ops, NEW u \in Users,
             Request(h, c, op, u)
      PROVE  Locked'
  <2>1. /\ Admits(op, cookie[c]) /\ UNCHANGED users
        /\ \E r \in HandlerRec :
             handler' = [handler EXCEPT ![h] = r] /\ r.pc = "read" /\ r.op = op
    BY <1>1, RequestStep
  <2>2. PICK r \in HandlerRec :
          handler' = [handler EXCEPT ![h] = r] /\ r.pc = "read" /\ r.op = op
    BY <2>1
  <2>3. op # "setup" => \E v \in Users : Active(v)
    BY <2>1 DEF Admits, Live, TypeInv, TypeOK, Token
  <2>4. QED BY <2>1, <2>2, <2>3, MoveLock
<1>2. ASSUME NEW h \in Handlers, NEW c \in Clients, NEW u \in Users, SignIn(h, c, u)
      PROVE  Locked'
  <2>1. UNCHANGED users BY <1>2, SignInStep
  <2>2. PICK r \in HandlerRec : handler' = [handler EXCEPT ![h] = r] /\ r.pc = "mint"
    BY <1>2, SignInStep
  <2>3. QED BY <2>1, <2>2, MoveLock
<1>3. ASSUME NEW h \in Handlers, Read(h) PROVE Locked'
  <2> PICK q : q = handler[h] OBVIOUS
  <2>1. UNCHANGED users /\ q.pc = "read" BY <1>3, ReadStep
  <2>2. PICK r \in HandlerRec :
          /\ handler' = [handler EXCEPT ![h] = r]
          /\ r.pc = IF NeedsCount(q.op, users[q.target], q.body) THEN "count" ELSE "write"
          /\ r.op = q.op /\ r.target = q.target /\ r.body = q.body
    BY <1>3, ReadStep
  <2>3. r.op # "setup" => \E u \in Users : Active(u)
    BY <2>1, <2>2 DEF Locked, Inhabited
  <2>4. r.pc = "write" => ~NeedsCount(r.op, users[r.target], r.body)
    BY <2>2
  <2>5. QED BY <2>1, <2>2, <2>3, <2>4, MoveLock
<1>4. ASSUME NEW h \in Handlers, Count(h) PROVE Locked'
  <2> PICK q : q = handler[h] OBVIOUS
  <2>1. UNCHANGED users /\ q.pc = "count" BY <1>4, CountStep
  <2>2. PICK r \in HandlerRec :
          /\ handler' = [handler EXCEPT ![h] = r]
          /\ r.pc = IF OthersUsable(q.target) THEN "write" ELSE "lastSuperAdmin"
          /\ r.op = q.op /\ r.target = q.target /\ r.body = q.body
    BY <1>4, CountStep
  <2>3. r.op # "setup" => \E u \in Users : Active(u)
    BY <2>1, <2>2 DEF Locked, Inhabited
  <2>4. r.pc = "write" => OthersUsable(r.target) BY <2>2
  <2>5. QED BY <2>1, <2>2, <2>3, <2>4, MoveLock
<1>5. ASSUME NEW h \in Handlers, Mint(h) PROVE Locked'
  <2>1. handler' = [handler EXCEPT ![h] = Idle] /\ UNCHANGED users BY <1>5 DEF Mint
  <2>2. QED BY <2>1, MoveLock, IdleType
<1>6. ASSUME NEW h \in Handlers, Refuse(h) PROVE Locked'
  <2>1. handler' = [handler EXCEPT ![h] = Idle] /\ UNCHANGED users BY <1>6 DEF Refuse
  <2>2. QED BY <2>1, MoveLock, IdleType
<1>7. CASE UNCHANGED vars
  BY <1>7 DEF vars, Locked, SuperAdminRemains, Inhabited, Counted, Active, UsableSuperAdmin,
              OthersUsable
<1>8. QED BY <1>1, <1>2, <1>3, <1>4, <1>5, <1>6, <1>7, WriteLock DEF Next

LEMMA SameWorkload == TypeInv /\ [Next]_vars => workload' = workload
BY DEF Next, vars, Request, SignIn, Read, Count, Write, Mint, Refuse

\* While edits of accounts do not overlap one another, an instance that has accounts
\* has a SuperAdmin who can sign in: the count of the others is still good when the
\* write comes, whatever else ran in between.
THEOREM LockedOutNever == Spec => []NoLockout
<1>1. Init => LockInv BY InitLock DEF LockInv
<1>2. TypeInv /\ LockInv /\ [Next]_vars => LockInv'
  BY LockStep, SameWorkload DEF LockInv, Serialised
<1>3. LockInv => NoLockout BY DEF LockInv, NoLockout, Locked, Edits
<1>4. QED BY <1>1, <1>2, <1>3, TypeAlways, PTL DEF Spec
-----------------------------------------------------------------------------
(* What a cookie or a row claims has been earned.                          *)

EnrolmentsApart ==
  /\ Serialised({"PUT", "changePassword"})
  /\ workload.ops \cap {"mfaDisable", "mfaDisableOther"} = {}
EvictionsApart == Serialised({"PUT", "resetPassword", "changePassword", "mfaVerify"})
SecretsApart == Serialised({"mfaSetup", "mfaVerify", "mfaDisable", "mfaDisableOther"})

\* A token of the row's present epoch says what the row says.
Faithful(t, row) ==
  /\ Serialised({"PUT"}) => t.role = row.role
  /\ EnrolmentsApart /\ Owes(row) => t.pending
  /\ EvictionsApart => t.evictions = row.evictions

Current(t, row) ==
  /\ t.sessionEpoch <= row.sessionEpoch
  /\ t.sessionEpoch = row.sessionEpoch => Faithful(t, row)

Sound(t) == Current(t, users[t.sub])

\* The cookie a login under way is about to set.
Minted(q) == Claims(q.target, q.row, Owes(q.row), q.row.evictions)

\* What a handler has read still holds of the row, as far as it will matter.
Recalls(q, now) ==
  /\ q.op = "PUT" /\ q.pc # "read" =>
       /\ Serialised({"PUT"}) => q.row.role = now.role
       /\ EnrolmentsApart /\ ~now.mfaEnabled =>
            ~q.row.mfaEnabled /\ q.row.mustEnableMfa = now.mustEnableMfa
  /\ q.op = "changePassword" /\ EnrolmentsApart /\ Owes(now) => q.token.pending
  /\ q.op = "mfaVerify" /\ q.pc # "read" /\ SecretsApart =>
       q.row.mfaSecret = now.mfaSecret /\ now.mfaSecret # NoSecret
  /\ q.op = "mfaSetup" /\ q.pc # "read" /\ SecretsApart => ~now.mfaEnabled

\* The caller of a request that may renew its cookie has not been evicted.
Welcome(q, now) ==
  q.op \in MayReissue /\ EvictionsApart => q.token.evictions = now.evictions

StillTrue(q) ==
  q.pc \notin {"idle", "mint"} =>
    Recalls(q, users[q.target]) /\ Welcome(q, users[q.token.sub])

\* A secret in use is one its owner has produced a code for.
Proved(row) ==
  SecretsApart /\ row.mfaEnabled => row.mfaSecret # NoSecret /\ row.mfaSecret = row.proved

ClaimsInv ==
  /\ \A c \in Clients : cookie[c] # NoToken => Sound(cookie[c])
  /\ \A h \in Handlers : handler[h].pc = "mint" => Sound(Minted(handler[h]))
  /\ \A h \in Handlers : StillTrue(handler[h])
  /\ \A u \in Users : Proved(users[u])

LEMMA InitClaims == Init => ClaimsInv
<1> SUFFICES ASSUME Init PROVE ClaimsInv
  OBVIOUS
<1>1. \A h \in Handlers : handler[h].pc = "idle" BY IdleType DEF Init
<1>2. \A c \in Clients : cookie[c] = NoToken BY DEF Init
<1>3. workload \in Workload BY ParamAssumption DEF Init
<1>4. ASSUME NEW u \in Users PROVE ~users[u].mfaEnabled
  <2>1. ~UnusedAccount.mfaEnabled BY DEF UnusedAccount, NewAccount
  <2>2. ASSUME NEW b \in Bodies("POST") PROVE ~NewAccount(b.role, b.must = "on").mfaEnabled
    BY DEF NewAccount
  <2>3. QED BY <2>1, <2>2 DEF Init
<1>5. QED BY <1>1, <1>2, <1>4 DEF ClaimsInv, StillTrue, Proved

\* A token with the claims of a row is faithful to it.
LEMMA FreshIsCurrent ==
  ASSUME NEW row \in Account, NEW u \in Users,
         NEW t, t = Claims(u, row, Owes(row), row.evictions)
  PROVE  Current(t, row)
<1>1. row.sessionEpoch \in Nat /\ row.evictions \in Nat /\ Owes(row) \in BOOLEAN
  BY DEF Account, Owes
<1>2. /\ t.role = row.role /\ t.pending = Owes(row)
      /\ t.sessionEpoch = row.sessionEpoch /\ t.evictions = row.evictions
  BY <1>1, ClaimsType
<1>3. QED BY <1>1, <1>2 DEF Current, Faithful

\* The guards' epoch check lets only a faithful token through.
LEMMA LiveIsFaithful ==
  ASSUME TypeInv, NEW t \in Token, Sound(t), Live(t)
  PROVE  Faithful(t, users[t.sub])
<1>1. t.sub \in Users /\ t.sessionEpoch \in Nat BY DEF Token
<1>2. users[t.sub].sessionEpoch \in Nat BY <1>1 DEF TypeInv, TypeOK, Account
<1>3. QED BY <1>1, <1>2 DEF Live, Sound, Current

\* The claims depend on the mix of requests, which never changes.
LEMMA SameClaims ==
  ASSUME workload' = workload
  PROVE  /\ \A t, row : Current(t, row)' <=> Current(t, row)
         /\ \A q, now : Recalls(q, now)' <=> Recalls(q, now)
         /\ \A q, now : Welcome(q, now)' <=> Welcome(q, now)
         /\ \A row : Proved(row)' <=> Proved(row)
BY DEF Current, Faithful, Recalls, Welcome, Proved, Serialised, EnrolmentsApart,
       EvictionsApart, SecretsApart, Owes

\* A step that leaves the accounts alone and moves one handler.
LEMMA MoveClaims ==
  ASSUME TypeInv, ClaimsInv, NEW h \in Handlers, NEW r,
         handler' = [handler EXCEPT ![h] = r], UNCHANGED <<workload, users>>,
         \A c \in Clients : cookie'[c] # NoToken => Sound(cookie'[c]),
         r.pc = "mint" => Sound(Minted(r)), StillTrue(r)
  PROVE  ClaimsInv'
<1>1. handler'[h] = r /\ \A g \in Handlers \ {h} : handler'[g] = handler[g]
  BY DEF TypeInv, TypeOK
<1>2. \A t : Sound(t)' <=> Sound(t) BY SameClaims DEF Sound
<1>3. \A c \in Clients : cookie'[c] # NoToken => Sound(cookie[c])' BY <1>2
<1>4. ASSUME NEW g \in Handlers, (handler[g].pc = "mint")' PROVE Sound(Minted(handler[g]))'
  <2> PICK q : q = handler'[g] OBVIOUS
  <2>1. Sound(Minted(q)) BY <1>1, <1>4 DEF ClaimsInv
  <2>2. Sound(Minted(q))' BY <1>2, <2>1 DEF Minted, Claims, Owes
  <2>3. QED BY <2>2
<1>5. ASSUME NEW g \in Handlers PROVE StillTrue(handler[g])'
  <2> PICK q : q = handler'[g] OBVIOUS
  <2>1. StillTrue(q) BY <1>1 DEF ClaimsInv
  <2>2. StillTrue(q)' BY <2>1, SameClaims DEF StillTrue
  <2>3. QED BY <2>2
<1>6. \A u \in Users : Proved(users[u])' BY SameClaims DEF ClaimsInv
<1>7. QED BY <1>3, <1>4, <1>5, <1>6 DEF ClaimsInv

LEMMA RequestClaims ==
  ASSUME TypeInv, ClaimsInv, NEW h \in Handlers, NEW c \in Clients, NEW op \in workload.ops,
         NEW u \in Users, Request(h, c, op, u)
  PROVE  ClaimsInv'
<1>1. Admits(op, cookie[c]) /\ UNCHANGED <<workload, users, cookie, writes>>
  BY RequestStep
<1>2. PICK r \in HandlerRec :
        /\ handler' = [handler EXCEPT ![h] = r]
        /\ r.pc = "read" /\ r.op = op /\ r.target = u
        /\ op \in MayReissue => r.token = cookie[c] /\ cookie[c] # NoToken
        /\ op \in OwnOps => u = cookie[c].sub
  BY RequestStep
<1>3. op \in MayReissue => Faithful(cookie[c], users[cookie[c].sub])
  <2>1. ASSUME op \in MayReissue PROVE cookie[c] \in Token /\ Live(cookie[c])
    BY <1>1, <1>2, <2>1 DEF MayReissue, Admits, TypeInv, TypeOK
  <2>2. QED BY <1>2, <2>1, LiveIsFaithful DEF ClaimsInv
<1>4. Welcome(r, users[r.token.sub])
  BY <1>2, <1>3 DEF Welcome, Faithful
<1>5. Recalls(r, users[r.target])
  <2>1. op = "changePassword" => op \in MayReissue /\ r.target = r.token.sub
    BY <1>2 DEF MayReissue, OwnOps
  <2>2. op = "changePassword" /\ EnrolmentsApart /\ Owes(users[r.target]) => r.token.pending
    BY <1>2, <1>3, <2>1 DEF Faithful
  <2>3. QED BY <1>2, <2>2 DEF Recalls
<1>6. StillTrue(r) BY <1>4, <1>5 DEF StillTrue
<1>7. QED BY <1>1, <1>2, <1>6, MoveClaims DEF ClaimsInv

LEMMA SignInClaims ==
  ASSUME TypeInv, ClaimsInv, NEW h \in Handlers, NEW c \in Clients, NEW u \in Users,
         SignIn(h, c, u)
  PROVE  ClaimsInv'
<1>1. UNCHANGED <<workload, users, cookie, writes>> BY SignInStep
<1>2. PICK r \in HandlerRec :
        /\ handler' = [handler EXCEPT ![h] = r]
        /\ r.pc = "mint" /\ r.target = u /\ r.row = users[u]
  BY SignInStep
<1> PICK row : row = users[u] OBVIOUS
<1> PICK t : t = Claims(u, row, Owes(row), row.evictions) OBVIOUS
<1>3. row \in Account BY DEF TypeInv, TypeOK
<1>4. t = Minted(r) BY <1>2 DEF Minted
<1>5. Current(t, row) BY <1>3, FreshIsCurrent
<1>6. t.sub = u BY DEF Claims
<1>7. Sound(Minted(r)) BY <1>4, <1>5, <1>6 DEF Sound
<1>8. StillTrue(r) BY <1>2 DEF StillTrue
<1>9. QED BY <1>1, <1>2, <1>7, <1>8, MoveClaims DEF ClaimsInv

LEMMA ReadClaims ==
  ASSUME TypeInv, ClaimsInv, NEW h \in Handlers, Read(h)
  PROVE  ClaimsInv'
<1> PICK q : q = handler[h] OBVIOUS
<1> PICK row : row = users[q.target] OBVIOUS
<1>1. UNCHANGED <<workload, users, cookie, writes>> /\ q.pc = "read" /\ Proceeds(q.op, row)
  BY ReadStep
<1>2. PICK r \in HandlerRec :
        /\ handler' = [handler EXCEPT ![h] = r]
        /\ r.pc = IF NeedsCount(q.op, row, q.body) THEN "count" ELSE "write"
        /\ r.row = IF q.op \in {"PUT", "mfaVerify"} THEN row ELSE q.row
        /\ r.op = q.op /\ r.token = q.token /\ r.target = q.target
  BY ReadStep
<1>3. r.pc \in {"count", "write"} BY <1>2
<1>4. Recalls(q, row) /\ Welcome(q, users[q.token.sub])
  BY <1>1 DEF ClaimsInv, StillTrue
<1>5. Welcome(r, users[r.token.sub]) BY <1>2, <1>4 DEF Welcome
<1>6. q.op = "mfaVerify" => row.mfaSecret # NoSecret BY <1>1 DEF Proceeds
<1>7. q.op = "mfaSetup" => ~row.mfaEnabled BY <1>1 DEF Proceeds, MaySetUp
<1>8. Recalls(r, row) BY <1>2, <1>4, <1>6, <1>7 DEF Recalls
<1>9. StillTrue(r) BY <1>2, <1>5, <1>8 DEF StillTrue
<1>10. QED BY <1>1, <1>2, <1>3, <1>9, MoveClaims DEF ClaimsInv

LEMMA CountClaims ==
  ASSUME TypeInv, ClaimsInv, NEW h \in Handlers, Count(h)
  PROVE  ClaimsInv'
<1> PICK q : q = handler[h] OBVIOUS
<1>1. UNCHANGED <<workload, users, cookie, writes>> /\ q.pc = "count" BY CountStep
<1>2. PICK r \in HandlerRec :
        /\ handler' = [handler EXCEPT ![h] = r]
        /\ r.pc = IF OthersUsable(q.target) THEN "write" ELSE "lastSuperAdmin"
        /\ r.row = q.row /\ r.op = q.op /\ r.token = q.token /\ r.target = q.target
  BY CountStep
<1>3. r.pc \in {"write", "lastSuperAdmin"} BY <1>2
<1>4. Recalls(q, users[q.target]) /\ Welcome(q, users[q.token.sub])
  BY <1>1 DEF ClaimsInv, StillTrue
<1>5. Welcome(r, users[r.token.sub]) BY <1>2, <1>4 DEF Welcome
<1>6. Recalls(r, users[r.target]) BY <1>1, <1>2, <1>3, <1>4 DEF Recalls
<1>7. StillTrue(r) BY <1>5, <1>6 DEF StillTrue
<1>8. QED BY <1>1, <1>2, <1>3, <1>7, MoveClaims DEF ClaimsInv

LEMMA MintClaims ==
  ASSUME TypeInv, ClaimsInv, NEW h \in Handlers, Mint(h)
  PROVE  ClaimsInv'
<1> PICK q : q = handler[h] OBVIOUS
<1> PICK t : t = Claims(q.target, q.row, Owes(q.row), q.row.evictions) OBVIOUS
<1>1. /\ q.pc = "mint" /\ cookie' = [cookie EXCEPT ![q.client] = t]
      /\ handler' = [handler EXCEPT ![h] = Idle]
      /\ UNCHANGED <<workload, users, writes>>
  BY MintStep
<1>2. Sound(t) BY <1>1 DEF ClaimsInv, Minted
<1>3. \A c \in Clients : cookie'[c] # NoToken => Sound(cookie'[c])
  BY <1>1, <1>2 DEF ClaimsInv, TypeInv, TypeOK
<1>4. StillTrue(Idle) BY IdleType DEF StillTrue
<1>5. QED BY <1>1, <1>3, <1>4, MoveClaims, IdleType

LEMMA RefuseClaims ==
  ASSUME TypeInv, ClaimsInv, NEW h \in Handlers, Refuse(h)
  PROVE  ClaimsInv'
<1>1. handler' = [handler EXCEPT ![h] = Idle] /\ UNCHANGED <<workload, users, cookie, writes>>
  BY DEF Refuse
<1>2. StillTrue(Idle) BY IdleType DEF StillTrue
<1>3. QED BY <1>1, <1>2, MoveClaims, IdleType DEF ClaimsInv

\* A write that leaves the epoch alone leaves the claims of the epoch's tokens true.
LEMMA FaithKept ==
  ASSUME TypeInv, ClaimsInv, NEW h \in Handlers, Write(h),
         NEW q, q = handler[h], NEW old, old = users[q.target], NEW new, new = Written(q),
         NEW t \in Token, old.status # "unused", Current(t, old)
  PROVE  Current(t, new)
<1>1. /\ q \in HandlerRec /\ q.pc = "write" /\ q.op \in workload.ops
      /\ old \in Account /\ RowAfter(q, old, new)
  BY WriteRow
<1>2. ~Creates(q.op) /\ new \in Account BY <1>1 DEF RowAfter
<1>3. Recalls(q, old) BY <1>1 DEF ClaimsInv, StillTrue
<1>4. /\ t.sessionEpoch \in Nat /\ old.sessionEpoch \in Nat /\ new.sessionEpoch \in Nat
      /\ q.row \in Account
  BY <1>1, <1>2 DEF Token, Account, HandlerRec
<1>5. \/ new.sessionEpoch = old.sessionEpoch
      \/ new.sessionEpoch = old.sessionEpoch + 1
  BY <1>1, <1>2 DEF RowAfter
<1>6. t.sessionEpoch <= old.sessionEpoch BY DEF Current
<1>7. t.sessionEpoch <= new.sessionEpoch BY <1>4, <1>5, <1>6
<1>8. ASSUME t.sessionEpoch = new.sessionEpoch PROVE Faithful(t, new)
  <2>1. new.sessionEpoch = old.sessionEpoch /\ Faithful(t, old)
    BY <1>4, <1>5, <1>6, <1>8 DEF Current
  <2>2. ~Evicts(q.op) /\ (q.op = "PUT" => ~RevokesSessions(q.row, q.body))
    BY <1>1, <1>2, <1>4, <2>1 DEF RowAfter
  <2>3. ASSUME Serialised({"PUT"}) PROVE t.role = new.role
    <3>1. new.role = IF q.op = "PUT" /\ q.body.role # Unchanged THEN q.body.role ELSE old.role
      BY <1>1, <1>2 DEF RowAfter
    <3>2. CASE q.op = "PUT"
      <4>1. q.row.role = old.role BY <1>1, <1>3, <2>3, <3>2 DEF Recalls
      <4>2. q.body.role = Unchanged \/ q.body.role = q.row.role
        BY <2>2, <3>2 DEF RevokesSessions, RoleChanged
      <4>3. QED BY <2>1, <2>3, <3>1, <4>1, <4>2 DEF Faithful
    <3>3. CASE q.op # "PUT" BY <2>1, <2>3, <3>1, <3>3 DEF Faithful
    <3>4. QED BY <3>2, <3>3
  <2>4. ASSUME EnrolmentsApart, Owes(new) PROVE t.pending
    <3>1. ~Disables(q.op) BY <1>1, <2>4 DEF EnrolmentsApart, Disables
    <3>2. /\ q.op # "mfaVerify"
          /\ new.mfaEnabled = old.mfaEnabled
          /\ new.mustEnableMfa = IF q.op = "PUT" THEN NextMustEnableMfa(old, q.body)
                                 ELSE old.mustEnableMfa
      BY <1>1, <1>2, <2>4, <3>1 DEF RowAfter, Owes
    <3>3. CASE q.op = "PUT"
      <4>1. ~old.mfaEnabled /\ NextMustEnableMfa(old, q.body)
        BY <2>4, <3>2, <3>3 DEF Owes
      <4>2. ~q.row.mfaEnabled /\ q.row.mustEnableMfa = old.mustEnableMfa
        BY <1>1, <1>3, <2>4, <3>3, <4>1 DEF Recalls
      <4>3. NextMustEnableMfa(q.row, q.body) = NextMustEnableMfa(old, q.body)
        BY <4>2 DEF NextMustEnableMfa
      <4>4. ~PendingChanged(q.row, q.body) BY <2>2, <3>3 DEF RevokesSessions
      <4>5. q.row.mustEnableMfa
        BY <4>1, <4>2, <4>3, <4>4, Zenon DEF PendingChanged
      <4>6. Owes(old) BY <4>1, <4>2, <4>5 DEF Owes
      <4>7. QED BY <2>1, <2>4, <4>6 DEF Faithful
    <3>4. CASE q.op # "PUT"
      <4>1. Owes(old) BY <2>4, <3>2, <3>4 DEF Owes
      <4>2. QED BY <2>1, <2>4, <4>1 DEF Faithful
    <3>5. QED BY <3>3, <3>4
  <2>5. ASSUME EvictionsApart PROVE t.evictions = new.evictions
    BY <1>1, <1>2, <2>1, <2>2, <2>5 DEF RowAfter, Faithful
  <2>6. QED BY <2>3, <2>4, <2>5 DEF Faithful
<1>9. QED BY <1>7, <1>8 DEF Current

\* The cookie a write hands out is faithful to the row it wrote.
LEMMA ReissuedIsCurrent ==
  ASSUME TypeInv, ClaimsInv, NEW h \in Handlers, Write(h),
         NEW q, q = handler[h], NEW new, new = Written(q), Reissues(q),
         NEW t, t = Reissued(q, new)
  PROVE  Current(t, new)
<1> PICK old : old = users[q.target] OBVIOUS
<1>1. /\ q \in HandlerRec /\ q.pc = "write" /\ q.op \in workload.ops
      /\ old \in Account /\ RowAfter(q, old, new)
  BY WriteRow
<1>2. /\ t.role = new.role /\ t.sessionEpoch = new.sessionEpoch
      /\ q.token \in Token /\ q.op \in MayReissue /\ q.target = q.token.sub
      /\ t.evictions = IF q.op = "changePassword" THEN q.token.evictions + 1
                       ELSE q.token.evictions
      /\ q.op = "changePassword" => t.pending = q.token.pending
      /\ q.op = "PUT" => t.pending = Owes(new)
  BY ReissuedToken
<1>3. ~Creates(q.op) /\ new \in Account BY <1>2, <1>1 DEF RowAfter, MayReissue, Creates
<1>4. Recalls(q, old) /\ Welcome(q, old) BY <1>1, <1>2 DEF ClaimsInv, StillTrue
<1>5. new.sessionEpoch \in Nat BY <1>3 DEF Account
<1>6. ASSUME EnrolmentsApart, Owes(new) PROVE t.pending
  <2>1. CASE q.op = "PUT" BY <1>2, <1>6, <2>1
  <2>2. CASE q.op = "changePassword"
    <3>1. new.mfaEnabled = old.mfaEnabled /\ new.mustEnableMfa = old.mustEnableMfa
      BY <1>1, <1>3, <2>2 DEF RowAfter, Disables
    <3>2. Owes(old) BY <1>6, <3>1 DEF Owes
    <3>3. QED BY <1>2, <1>4, <1>6, <2>2, <3>2 DEF Recalls
  <2>3. CASE q.op = "mfaVerify"
    <3>1. new.mfaEnabled = TRUE BY <1>1, <1>3, <2>3 DEF RowAfter
    <3>2. QED BY <1>6, <3>1 DEF Owes
  <2>4. QED BY <1>2, <2>1, <2>2, <2>3 DEF MayReissue
<1>7. ASSUME EvictionsApart PROVE t.evictions = new.evictions
  <2>1. q.token.evictions = old.evictions BY <1>2, <1>4, <1>7 DEF Welcome
  <2>2. new.evictions = IF q.op = "changePassword" THEN old.evictions + 1 ELSE old.evictions
    BY <1>1, <1>2, <1>3 DEF RowAfter, Evicts, MayReissue
  <2>3. QED BY <1>2, <2>1, <2>2
<1>8. QED BY <1>2, <1>5, <1>6, <1>7 DEF Current, Faithful

\* Requests that the workload keeps apart: while one of them writes, no other runs.
LEMMA WriterAlone ==
  ASSUME TypeInv, NEW h \in Handlers, Write(h), NEW g \in Handlers \ {h},
         handler[g].pc \notin {"idle", "mint"}, NEW ops, Serialised(ops),
         handler[g].op \in ops
  PROVE  handler[h].op \notin ops
<1>1. handler[h].pc = "write" BY DEF Write
<1>2. handler[g].op \in workload.ops /\ handler[h].op \in workload.ops
  BY <1>1 DEF TypeInv, Shape
<1>3. QED BY <1>1, <1>2 DEF Serialised, TypeInv, Apart

\* What another handler remembers survives the write.
LEMMA RecallKept ==
  ASSUME TypeInv, ClaimsInv, NEW h \in Handlers, Write(h),
         NEW p, p = handler[h], NEW old, old = users[p.target], NEW new, new = Written(p),
         NEW g \in Handlers \ {h}, NEW q, q = handler[g], q.pc \notin {"idle", "mint"},
         q.target = p.target
  PROVE  Recalls(q, new)
<1>1. p \in HandlerRec /\ p.op \in workload.ops /\ RowAfter(p, old, new) /\ old \in Account
  BY WriteRow
<1>2. Recalls(q, old) /\ q \in HandlerRec /\ Shape(g)
  BY DEF ClaimsInv, StillTrue, TypeInv, TypeOK
<1>3. \A ops : Serialised(ops) /\ q.op \in ops => p.op \notin ops
  BY WriterAlone
<1>4. new \in Account BY <1>1 DEF RowAfter
<1>5. q.op \in {"PUT", "mfaVerify", "mfaSetup"} /\ q.pc # "read" => ~Creates(p.op)
  BY <1>1, <1>2 DEF Shape, RowAfter
<1>6. q.op = "changePassword" => ~Creates(p.op)
  BY <1>1, <1>2 DEF Shape, RowAfter, MayReissue
<1>7. ASSUME q.op = "PUT", q.pc # "read", Serialised({"PUT"}) PROVE q.row.role = new.role
  <2>1. p.op # "PUT" BY <1>3, <1>7
  <2>2. new.role = old.role BY <1>1, <1>5, <1>7, <2>1 DEF RowAfter
  <2>3. QED BY <1>2, <1>7, <2>2 DEF Recalls
<1>8. ASSUME q.op = "PUT", q.pc # "read", EnrolmentsApart, ~new.mfaEnabled
      PROVE  ~q.row.mfaEnabled /\ q.row.mustEnableMfa = new.mustEnableMfa
  <2>1. p.op \notin {"PUT", "changePassword"} BY <1>3, <1>8 DEF EnrolmentsApart
  <2>2. ~Disables(p.op) BY <1>1, <1>8 DEF EnrolmentsApart, Disables
  <2>3. p.op # "mfaVerify" BY <1>1, <1>5, <1>8 DEF RowAfter
  <2>4. new.mfaEnabled = old.mfaEnabled /\ new.mustEnableMfa = old.mustEnableMfa
    BY <1>1, <1>5, <1>8, <2>1, <2>2, <2>3 DEF RowAfter
  <2>5. QED BY <1>2, <1>8, <2>4 DEF Recalls
<1>9. ASSUME q.op = "changePassword", EnrolmentsApart, Owes(new) PROVE q.token.pending
  <2>1. p.op \notin {"PUT", "changePassword"} BY <1>3, <1>9 DEF EnrolmentsApart
  <2>2. ~Disables(p.op) BY <1>1, <1>9 DEF EnrolmentsApart, Disables
  <2>3. p.op # "mfaVerify" BY <1>1, <1>6, <1>9 DEF RowAfter, Owes
  <2>4. new.mfaEnabled = old.mfaEnabled /\ new.mustEnableMfa = old.mustEnableMfa
    BY <1>1, <1>6, <1>9, <2>1, <2>2, <2>3 DEF RowAfter
  <2>5. QED BY <1>2, <1>9, <2>4 DEF Recalls, Owes
<1>10. ASSUME q.op = "mfaVerify", q.pc # "read", SecretsApart
       PROVE  q.row.mfaSecret = new.mfaSecret /\ new.mfaSecret # NoSecret
  <2>1. p.op \notin {"mfaSetup", "mfaVerify", "mfaDisable", "mfaDisableOther"}
    BY <1>3, <1>10 DEF SecretsApart
  <2>2. new.mfaSecret = old.mfaSecret BY <1>1, <1>5, <1>10, <2>1 DEF RowAfter, Disables
  <2>3. QED BY <1>2, <1>10, <2>2 DEF Recalls
<1>11. ASSUME q.op = "mfaSetup", q.pc # "read", SecretsApart PROVE ~new.mfaEnabled
  <2>1. p.op \notin {"mfaSetup", "mfaVerify", "mfaDisable", "mfaDisableOther"}
    BY <1>3, <1>11 DEF SecretsApart
  <2>2. new.mfaEnabled = old.mfaEnabled BY <1>1, <1>5, <1>11, <2>1 DEF RowAfter, Disables
  <2>3. QED BY <1>2, <1>11, <2>2 DEF Recalls
<1>12. QED BY <1>7, <1>8, <1>9, <1>10, <1>11 DEF Recalls

LEMMA WelcomeKept ==
  ASSUME TypeInv, ClaimsInv, NEW h \in Handlers, Write(h),
         NEW p, p = handler[h], NEW old, old = users[p.target], NEW new, new = Written(p),
         NEW g \in Handlers \ {h}, NEW q, q = handler[g], q.pc \notin {"idle", "mint"},
         q.op \in MayReissue, q.token.sub = p.target
  PROVE  Welcome(q, new)
<1>1. RowAfter(p, old, new) BY WriteRow
<1>2. Welcome(q, old) /\ old.status # "unused"
  BY DEF ClaimsInv, StillTrue, TypeInv, Shape
<1>3. ~Creates(p.op) BY <1>1, <1>2 DEF RowAfter
<1>4. ASSUME EvictionsApart PROVE q.token.evictions = new.evictions
  <2>1. q.op \in {"PUT", "resetPassword", "changePassword", "mfaVerify"} BY DEF MayReissue
  <2>2. p.op \notin {"PUT", "resetPassword", "changePassword", "mfaVerify"}
    BY <1>4, <2>1, WriterAlone DEF EvictionsApart
  <2>3. new.evictions = old.evictions BY <1>1, <1>3, <2>2 DEF RowAfter, Evicts
  <2>4. QED BY <1>2, <1>4, <2>3 DEF Welcome
<1>5. QED BY <1>4 DEF Welcome

\* The secret a write leaves in use is one a code was checked against.
LEMMA ProvedKept ==
  ASSUME TypeInv, ClaimsInv, NEW h \in Handlers, Write(h),
         NEW p, p = handler[h], NEW old, old = users[p.target], NEW new, new = Written(p)
  PROVE  Proved(new)
<1>1. /\ p.pc = "write" /\ p.target \in Users /\ old \in Account /\ RowAfter(p, old, new)
  BY WriteRow
<1>2. Recalls(p, old) /\ Proved(old) BY <1>1 DEF ClaimsInv, StillTrue
<1>3. SUFFICES ASSUME SecretsApart, new.mfaEnabled
               PROVE  new.mfaSecret # NoSecret /\ new.mfaSecret = new.proved
  BY DEF Proved
<1>4. ~Creates(p.op) BY <1>1, <1>3 DEF RowAfter
<1>5. ~Disables(p.op) BY <1>1, <1>3, <1>4 DEF RowAfter, Disables
<1>6. p.op # "mfaSetup"
  <2>1. ASSUME p.op = "mfaSetup" PROVE FALSE
    <3>1. ~old.mfaEnabled BY <1>1, <1>2, <1>3, <2>1 DEF Recalls
    <3>2. new.mfaEnabled = old.mfaEnabled
      BY <1>1, <1>4, <1>5, <2>1 DEF RowAfter
    <3>3. QED BY <1>3, <3>1, <3>2
  <2>2. QED BY <2>1
<1>7. new.mfaSecret = old.mfaSecret BY <1>1, <1>4, <1>5, <1>6 DEF RowAfter
<1>8. CASE p.op = "mfaVerify"
  <2>1. p.row.mfaSecret = old.mfaSecret /\ old.mfaSecret # NoSecret
    BY <1>1, <1>2, <1>3, <1>8 DEF Recalls
  <2>2. new.proved = p.row.mfaSecret BY <1>1, <1>4, <1>8 DEF RowAfter
  <2>3. QED BY <1>7, <2>1, <2>2
<1>9. CASE p.op # "mfaVerify"
  <2>1. new.proved = old.proved /\ new.mfaEnabled = old.mfaEnabled
    BY <1>1, <1>4, <1>5, <1>9 DEF RowAfter
  <2>2. QED BY <1>2, <1>3, <1>7, <2>1 DEF Proved
<1>10. QED BY <1>8, <1>9

LEMMA WriteClaims ==
  ASSUME TypeInv, ClaimsInv, NEW h \in Handlers, Write(h)
  PROVE  ClaimsInv'
<1> PICK p : p = handler[h] OBVIOUS
<1> PICK old : old = users[p.target] OBVIOUS
<1> PICK new : new = Written(p) OBVIOUS
<1>1. /\ p \in HandlerRec /\ p.target \in Users /\ p.pc = "write"
      /\ users' = [users EXCEPT ![p.target] = new]
  BY WriteRow
<1>2. users \in [Users -> Account] /\ handler \in [Handlers -> HandlerRec]
      /\ cookie \in [Clients -> Token \cup {NoToken}]
  BY DEF TypeInv, TypeOK
<1>3. users'[p.target] = new /\ \A u \in Users \ {p.target} : users'[u] = users[u]
  BY <1>1, <1>2
<1>4. /\ handler' = [handler EXCEPT ![h] = Idle] /\ workload' = workload
      /\ cookie' = IF Reissues(p) THEN [cookie EXCEPT ![p.client] = Reissued(p, new)]
                                  ELSE cookie
  BY DEF Write
<1>5. handler'[h] = Idle /\ \A g \in Handlers \ {h} : handler'[g] = handler[g]
  BY <1>2, <1>4
\* A token that was sound still is.
<1>6. ASSUME NEW t \in Token, Sound(t), users[t.sub].status # "unused" PROVE Sound(t)'
  <2>1. t.sub \in Users BY DEF Token
  <2>2. Current(t, users'[t.sub])
    <3>1. CASE t.sub = p.target
      <4>1. old.status # "unused" /\ Current(t, old) BY <1>6, <3>1 DEF Sound
      <4>2. Current(t, new) BY <4>1, FaithKept
      <4>3. QED BY <1>3, <3>1, <4>2
    <3>2. CASE t.sub # p.target BY <1>3, <1>6, <2>1, <3>2 DEF Sound
    <3>3. QED BY <3>1, <3>2
  <2>3. QED BY <1>4, <2>2, SameClaims DEF Sound
<1>7. ASSUME NEW c \in Clients, cookie'[c] # NoToken PROVE Sound(cookie[c])'
  <2>1. ASSUME cookie'[c] = cookie[c] PROVE Sound(cookie[c])'
    <3> PICK t : t = cookie[c] OBVIOUS
    <3>1. t \in Token /\ Sound(t) /\ users[t.sub].status # "unused"
      BY <1>2, <1>7, <2>1 DEF ClaimsInv, TypeInv, TypeOK
    <3>2. Sound(t)' BY <1>6, <3>1
    <3>3. QED BY <2>1, <3>2 DEF Sound
  <2>2. CASE Reissues(p) /\ c = p.client
    <3> PICK t : t = Reissued(p, new) OBVIOUS
    <3>1. cookie'[c] = t BY <1>2, <1>4, <2>2
    <3>2. Current(t, new) BY <2>2, ReissuedIsCurrent
    <3>3. t.sub = p.target BY <2>2, ReissuedToken
    <3>4. Current(t, users'[t.sub]) BY <1>3, <3>2, <3>3
    <3>5. Sound(t)' BY <1>4, <3>4, SameClaims DEF Sound
    <3>6. QED BY <3>1, <3>5 DEF Sound
  <2>3. CASE ~(Reissues(p) /\ c = p.client)
    <3>1. cookie'[c] = cookie[c] BY <1>2, <1>4, <2>3
    <3>2. QED BY <2>1, <3>1
  <2>4. QED BY <2>2, <2>3
<1>8. ASSUME NEW g \in Handlers, handler'[g].pc = "mint" PROVE Sound(Minted(handler[g]))'
  <2> PICK q : q = handler'[g] OBVIOUS
  <2> PICK row : row = q.row OBVIOUS
  <2> PICK t : t = Claims(q.target, row, Owes(row), row.evictions) OBVIOUS
  <2>1. g # h /\ q = handler[g] /\ q.pc = "mint" BY <1>5, <1>8, IdleType
  <2>2. q \in HandlerRec /\ q.target \in Users /\ row \in Account
    BY <1>2, <2>1 DEF HandlerRec
  <2>3. row.evictions \in Nat /\ Owes(row) \in BOOLEAN BY <2>2 DEF Account, Owes
  <2>4. t \in Token /\ t.sub = q.target BY <2>2, <2>3, ClaimsType
  <2>5. t = Minted(q) BY DEF Minted
  <2>6. users[t.sub].status # "unused" BY <2>1, <2>4 DEF TypeInv, Shape
  <2>7. Sound(t) BY <2>1, <2>5 DEF ClaimsInv
  <2>8. Sound(t)' BY <1>6, <2>4, <2>6, <2>7
  <2>9. QED BY <2>5, <2>8 DEF Minted, Claims, Owes
<1>9. ASSUME NEW g \in Handlers PROVE StillTrue(handler[g])'
  <2>1. CASE g = h BY <1>5, <2>1, IdleType DEF StillTrue
  <2>2. CASE g # h
    <3> PICK q : q = handler[g] OBVIOUS
    <3>1. handler'[g] = q /\ q \in HandlerRec BY <1>2, <1>5, <2>2
    <3>2. ASSUME q.pc \notin {"idle", "mint"}
          PROVE  Recalls(q, users'[q.target]) /\ Welcome(q, users'[q.token.sub])
      <4>1. Recalls(q, users[q.target]) /\ Welcome(q, users[q.token.sub])
        BY <3>2 DEF ClaimsInv, StillTrue
      <4>2. Recalls(q, users'[q.target])
        <5>1. CASE q.target = p.target
          <6>1. Recalls(q, new) BY <2>2, <3>2, <5>1, RecallKept
          <6>2. QED BY <1>3, <5>1, <6>1
        <5>2. CASE q.target # p.target
          <6>1. q.target \in Users BY <3>1 DEF HandlerRec
          <6>2. QED BY <1>3, <4>1, <5>2, <6>1
        <5>3. QED BY <5>1, <5>2
      <4>3. Welcome(q, users'[q.token.sub])
        <5>1. CASE q.op \notin MayReissue BY <5>1 DEF Welcome
        <5>2. CASE q.op \in MayReissue /\ q.token.sub = p.target
          <6>1. Welcome(q, new) BY <2>2, <3>2, <5>2, WelcomeKept
          <6>2. QED BY <1>3, <5>2, <6>1
        <5>3. CASE q.op \in MayReissue /\ q.token.sub # p.target
          <6>1. q.token # NoToken BY <3>2, <5>3 DEF TypeInv, Shape
          <6>2. q.token.sub \in Users BY <3>1, <6>1 DEF HandlerRec, Token
          <6>3. QED BY <1>3, <4>1, <5>3, <6>2
        <5>4. QED BY <5>1, <5>2, <5>3
      <4>4. QED BY <4>2, <4>3
    <3>3. QED BY <1>4, <3>1, <3>2, SameClaims DEF StillTrue
  <2>3. QED BY <2>1, <2>2
<1>10. ASSUME NEW u \in Users PROVE Proved(users[u])'
  <2> PICK row : row = users'[u] OBVIOUS
  <2>1. Proved(row)
    <3>1. Proved(new) BY ProvedKept
    <3>2. QED BY <1>3, <3>1 DEF ClaimsInv
  <2>2. QED BY <1>4, <2>1, SameClaims
<1>11. QED BY <1>7, <1>8, <1>9, <1>10 DEF ClaimsInv

LEMMA ClaimsStep == TypeInv /\ ClaimsInv /\ [Next]_vars => ClaimsInv'
<1> SUFFICES ASSUME TypeInv, ClaimsInv, [Next]_vars PROVE ClaimsInv'
  OBVIOUS
<1>1. CASE UNCHANGED vars
  <2>1. UNCHANGED <<workload, users, cookie, handler>> BY <1>1 DEF vars
  <2>2. QED
    BY <2>1 DEF ClaimsInv, Sound, Current, Faithful, StillTrue, Recalls, Welcome, Proved,
                Minted, Claims, Owes, Serialised, EnrolmentsApart, EvictionsApart, SecretsApart
<1>2. CASE Next
  BY <1>2, RequestClaims, SignInClaims, ReadClaims, CountClaims, WriteClaims, MintClaims,
     RefuseClaims
  DEF Next
<1>3. QED BY <1>1, <1>2

\* Whatever logins, edits, enrolments and password changes overlap, but for those each
\* part names: a cookie the guards accept has the role its account has now, is pinned
\* to the set-up page when the account must enrol, and has not been evicted; and MFA is
\* only ever on with a secret its owner has produced a code for.
THEOREM ClaimsHold == Spec => []ClaimsAreEarned
<1>1. TypeInv /\ ClaimsInv => ClaimsAreEarned
  <2> SUFFICES ASSUME TypeInv, ClaimsInv PROVE ClaimsAreEarned
    OBVIOUS
  <2>1. ASSUME NEW t \in LiveTokens PROVE Faithful(t, users[t.sub])
    <3>1. PICK c \in Clients : t = cookie[c] /\ t # NoToken BY <2>1 DEF LiveTokens
    <3>2. Sound(t) /\ Live(t) /\ t \in Token
      BY <2>1, <3>1 DEF ClaimsInv, LiveTokens, TypeInv, TypeOK
    <3>3. QED BY <3>2, LiveIsFaithful
  <2>2. AuthorityFollowsRow BY <2>1 DEF AuthorityFollowsRow, Faithful
  <2>3. EnrolmentFollowsRow
    BY <2>1 DEF EnrolmentFollowsRow, EnrolmentsApart, Faithful, Owes
  <2>4. EvictionSticks BY <2>1 DEF EvictionSticks, EvictedStayOut, EvictionsApart, Faithful
  <2>5. EnabledSecretProved BY DEF ClaimsInv, EnabledSecretProved, SecretsApart, Proved
  <2>6. QED BY <2>2, <2>3, <2>4, <2>5 DEF ClaimsAreEarned, CookiesFollowRow
<1>2. QED BY <1>1, InitClaims, ClaimsStep, TypeAlways, PTL DEF Spec

-----------------------------------------------------------------------------
\* Updates.

UpdaterRec ==
  [pc: PCs, target: Branches \cup {None}, branch: Branches,
   commit: Commits \cup {Broken}, channel: Branches, migrated: BOOLEAN, paused: BOOLEAN,
   before: [build: Builds \cup {NoBuild}, schema: Nat]]

\* An updater past its backup knows the commit to go back to.
Begun ==
  \A p \in Updaters :
    updater[p].pc \notin {"idle", "backup"} => updater[p].commit \in Commits

UpdaterInv == UpdaterTypeOK /\ Begun

\* No updater takes another branch.
BranchesKept ==
  \A q \in Updaters : updater'[q].pc \notin {"idle", "backup"} =>
    /\ updater[q].pc \notin {"idle", "backup"}
    /\ updater'[q].branch = updater[q].branch

LEMMA IdleUpdaterType == IdleUpdater \in UpdaterRec
BY BranchAssumption DEF IdleUpdater, UpdaterRec, PCs

LEMMA LaterType ==
  ASSUME NEW c \in Commits, NEW d \in Commits
  PROVE  Later(c, d) \in Commits /\ Later(c, d) >= c /\ Later(c, d) >= d
BY BranchAssumption DEF Later, Commits

\* An updater that goes to another step of its script, or to its rollback.
LEMMA GotoType ==
  ASSUME UpdaterInv, NEW p \in Updaters, NEW pc \in PCs, Goto(p, pc),
         updater[p].pc \notin {"idle", "backup"}
  PROVE  /\ updater' \in [Updaters -> UpdaterRec]
         /\ Begun'
         /\ BranchesKept
<1>1. updater \in [Updaters -> UpdaterRec] BY DEF UpdaterInv, UpdaterTypeOK, UpdaterRec
<1> DEFINE new == [updater[p] EXCEPT !.pc = pc]
<1>2. new \in UpdaterRec /\ new.commit = updater[p].commit /\ new.branch = updater[p].branch
  BY <1>1 DEF UpdaterRec
<1>3. updater' = [updater EXCEPT ![p] = new] BY DEF Goto
<1> HIDE DEF new
<1>4. QED BY <1>1, <1>2, <1>3 DEF UpdaterInv, Begun, BranchesKept

\* An updater that is done, or was killed.
LEMMA FinishType ==
  ASSUME UpdaterInv, NEW p \in Updaters, NEW how \in {"refused", "complete", "rolledBack"},
         Finish(p, how)
  PROVE  /\ updater' \in [Updaters -> UpdaterRec]
         /\ Begun'
         /\ BranchesKept
         /\ ended'.how = how
<1>1. updater \in [Updaters -> UpdaterRec] BY DEF UpdaterInv, UpdaterTypeOK, UpdaterRec
<1>2. IdleUpdater.pc = "idle" BY DEF IdleUpdater
<1>3. QED BY <1>1, <1>2, IdleUpdaterType DEF Finish, UpdaterInv, Begun, BranchesKept

LEMMA TypeInit == UpdaterInit => UpdaterInv
<1> SUFFICES ASSUME UpdaterInit PROVE UpdaterInv
  OBVIOUS
<1>1. /\ remote[channel] \in Commits /\ channel \in Branches /\ tree \in Commits
      /\ build \in Builds
  BY DEF UpdaterInit, Builds
<1>2. updater \in [Updaters -> UpdaterRec] BY IdleUpdaterType DEF UpdaterInit
<1>3. \A p \in Updaters : updater[p].pc = "idle" BY DEF UpdaterInit, IdleUpdater
<1>4. local \in [Branches -> Commits \cup {None}] BY <1>1 DEF UpdaterInit
<1>5. head # None => local[head] = tree BY <1>1 DEF UpdaterInit
<1>6. ended.how = "not" BY DEF UpdaterInit, NotEnded
<1>7. posts \in 0..MaxPosts /\ cronRuns \in 0..MaxCronRuns /\ kills \in 0..MaxKills
  BY BranchAssumption DEF UpdaterInit
<1>10. {killed, strayed, unchecked} \subseteq BOOLEAN
  BY Zenon DEF UpdaterInit
<1>8. /\ request \in Branches \cup {None, "update"}
      /\ head \in Branches \cup {None} /\ saved = None
      /\ client \in Commits /\ schema \in Commits /\ deps \in Commits
      /\ {build, serving} \subseteq Builds \cup {NoBuild}
      /\ remote \in [Branches -> Commits]
  BY <1>1 DEF UpdaterInit
<1>9. UpdaterTypeOK
  BY <1>1, <1>2, <1>3, <1>4, <1>5, <1>6, <1>7, <1>8, <1>10 DEF UpdaterTypeOK, UpdaterRec
<1>11. QED BY <1>3, <1>9 DEF UpdaterInv, Begun, BranchesKept

\* An updater that remembers something on its way.
LEMMA MarkType ==
  ASSUME UpdaterInv, NEW p \in Updaters, NEW pc \in PCs,
         updater[p].pc \notin {"idle", "backup"},
         \/ updater' = [updater EXCEPT ![p].pc = pc, ![p].migrated = TRUE]
         \/ updater' = [updater EXCEPT ![p].pc = pc, ![p].paused = TRUE]
         \/ updater' = [updater EXCEPT ![p].paused = TRUE]
  PROVE  updater' \in [Updaters -> UpdaterRec] /\ Begun' /\ BranchesKept
<1>1. updater \in [Updaters -> UpdaterRec] BY DEF UpdaterInv, UpdaterTypeOK, UpdaterRec
<1>2. updater[p] \in UpdaterRec BY <1>1
<1>3. ASSUME NEW new \in {[updater[p] EXCEPT !.pc = pc, !.migrated = TRUE],
                          [updater[p] EXCEPT !.pc = pc, !.paused = TRUE],
                          [updater[p] EXCEPT !.paused = TRUE]}
      PROVE  /\ new \in UpdaterRec
             /\ new.commit = updater[p].commit /\ new.branch = updater[p].branch
  BY <1>2 DEF UpdaterRec
<1>4. PICK new \in {[updater[p] EXCEPT !.pc = pc, !.migrated = TRUE],
                    [updater[p] EXCEPT !.pc = pc, !.paused = TRUE],
                    [updater[p] EXCEPT !.paused = TRUE]} :
         updater' = [updater EXCEPT ![p] = new]
  OBVIOUS
<1>5. QED BY <1>1, <1>3, <1>4 DEF UpdaterInv, Begun, BranchesKept

LEMMA NoneApart == None \notin Commits
BY BranchAssumption DEF Commits

LEMMA LaterThanLocal ==
  ASSUME UpdaterInv, NEW b \in Branches, NEW c \in CheckedOut(b)
  PROVE  c \in Commits
BY BranchAssumption DEF UpdaterInv, UpdaterTypeOK, CheckedOut, Commits

LEMMA StartType ==
  ASSUME UpdaterInv, NEW p \in Updaters, NEW target \in Branches \cup {None}, Start(p, target)
  PROVE  /\ updater' \in [Updaters -> UpdaterRec]
         /\ Begun'
         /\ BranchesKept
<1> DEFINE new == [IdleUpdater EXCEPT !.pc = "backup", !.target = target, !.channel = channel,
                     !.before = [build |-> build, schema |-> schema]]
<1>1. /\ updater \in [Updaters -> UpdaterRec] /\ channel \in Branches
      /\ build \in Builds \cup {NoBuild} /\ schema \in Nat
  BY BranchAssumption DEF UpdaterInv, UpdaterTypeOK, UpdaterRec, Commits
<1>2. new \in UpdaterRec /\ new.pc = "backup"
  BY <1>1, IdleUpdaterType DEF IdleUpdater, UpdaterRec, PCs
<1>3. updater' = [updater EXCEPT ![p] = new] BY DEF Start
<1> HIDE DEF new
<1>4. QED BY <1>1, <1>2, <1>3 DEF UpdaterInv, Begun, BranchesKept

\* What a step of the script may do to the rest of the state.
LEMMA StepType ==
  ASSUME UpdaterInv, updater' \in [Updaters -> UpdaterRec], Begun', BranchesKept,
         UNCHANGED <<request, channel, remote, bounds>>,
         ended'.how \in {"not", "refused", "complete", "rolledBack"},
         ({killed, strayed, unchecked} \subseteq BOOLEAN)',
         head' \in Branches \cup {None}, tree' \in Commits,
         local' \in [Branches -> Commits \cup {None}],
         \A b \in Branches : local[b] # None => local'[b] # None,
         head' # None => local'[head'] = tree',
         client' \in Commits, schema' \in Commits, deps' \in Commits \cup {Broken},
         {build', serving'} \subseteq Builds \cup {NoBuild},
         saved' \in {None} \cup Backups
  PROVE  UpdaterInv'
<1>1. \A p \in Updaters :
        updater[p].pc \notin {"idle", "backup"} => local[updater[p].branch] # None
  BY DEF UpdaterInv, UpdaterTypeOK
<1>2. \A p \in Updaters :
        updater'[p].pc \notin {"idle", "backup"} => local'[updater'[p].branch] # None
  BY <1>1 DEF BranchesKept, UpdaterRec
<1>3. QED BY <1>2 DEF UpdaterInv, UpdaterTypeOK, bounds, UpdaterRec

LEMMA UpdaterTypeStep == UpdaterInv /\ [UpdaterNext]_updaterVars => UpdaterInv'
<1> SUFFICES ASSUME UpdaterInv, [UpdaterNext]_updaterVars PROVE UpdaterInv'
  OBVIOUS
<1> USE BranchAssumption, NoneApart DEF UpdaterInv, UpdaterTypeOK, Backups, site, bounds, history
<1>1. CASE Apply
  BY <1>1 DEF Apply, Begun
<1>2. ASSUME NEW b \in Branches, SwitchChannel(b) PROVE UpdaterInv'
  BY <1>2 DEF SwitchChannel, Begun
<1>3. ASSUME NEW b \in Branches, NEW c \in Commits, Push(b, c) PROVE UpdaterInv'
  BY <1>3 DEF Push, Begun
<1>4. CASE TakeRequest \/ CronRun
  <2>1. PICK p \in Updaters, target \in Branches \cup {None} : Start(p, target)
    BY <1>4, Zenon DEF TakeRequest, CronRun, Updaters
  <2>2. updater' \in [Updaters -> UpdaterRec] /\ Begun'
        /\ BranchesKept
    BY <2>1, StartType
  <2>3. ended'.how = "not" BY <2>1 DEF Start, NotEnded
  <2>4. /\ request' \in Branches \cup {None, "update"}
        /\ posts' \in 0..MaxPosts /\ cronRuns' \in 0..MaxCronRuns /\ kills' \in 0..MaxKills
        /\ UNCHANGED <<site, serving, saved>>
    BY <1>4 DEF TakeRequest, CronRun
  <2>5. ({killed, strayed, unchecked} \subseteq BOOLEAN)'
    BY <1>4 DEF TakeRequest, CronRun
  <2>6. QED BY <2>2, <2>3, <2>4, <2>5 DEF UpdaterRec, BranchesKept
<1>5. ASSUME NEW p \in Updaters, Step(p) PROVE UpdaterInv'
  <2> USE DEF UpdaterRec
  <2>1. CASE Reattach(p)
    <3>1. CASE Finish(p, "refused") /\ UNCHANGED <<local, head, tree>>
      <4>1. /\ updater' \in [Updaters -> UpdaterRec] /\ Begun' /\ BranchesKept
            /\ ended'.how = "refused"
        BY <3>1, FinishType
      <4>2. UNCHANGED <<request, site, serving, saved, bounds, killed, strayed, unchecked>>
        BY <2>1, <3>1 DEF Reattach
      <4>3. QED BY <4>1, <4>2, StepType
    <3>2. CASE /\ head' = channel
               /\ tree' \in CheckedOut(channel)
               /\ local' = [local EXCEPT ![channel] = tree']
               /\ UNCHANGED <<updater, ended>>
      <4>1. tree' \in Commits BY <3>2, LaterThanLocal
      <4>2. /\ UNCHANGED <<request, channel, remote, deps, client, build, schema, serving,
                            saved, bounds, killed, strayed, unchecked>>
            /\ updater' = updater /\ ended' = ended /\ head' = channel
        BY <2>1, <3>2 DEF Reattach
      <4>3. /\ local' \in [Branches -> Commits \cup {None}]
            /\ \A b \in Branches : local[b] # None => local'[b] # None
            /\ local'[channel] = tree'
        BY <3>2, <4>1
      <4>4. Begun' /\ BranchesKept BY <4>2 DEF Begun, BranchesKept
      <4>5. local'[head'] = tree' BY <4>2, <4>3
      <4>6. ({killed, strayed, unchecked} \subseteq BOOLEAN)' BY <4>2
      <4>7. QED BY <4>1, <4>2, <4>3, <4>4, <4>5, <4>6, StepType
    <3>3. QED BY <2>1, <3>1, <3>2 DEF Reattach
  <2>2. CASE Backup(p)
    <3> DEFINE new == [updater[p] EXCEPT !.pc = "dump", !.branch = head, !.commit = tree]
    <3>1. head \in Branches /\ updater[p] \in UpdaterRec /\ local[head] = tree
      BY <2>2 DEF Backup
    <3>2. /\ new \in UpdaterRec
          /\ new.pc = "dump" /\ new.commit = tree /\ new.branch = head
      BY <3>1 DEF PCs
    <3>3. updater' = [updater EXCEPT ![p] = new] BY <2>2 DEF Backup
    <3> HIDE DEF new
    <3>4. updater' \in [Updaters -> UpdaterRec] /\ Begun' BY <3>2, <3>3 DEF Begun
    <3>5. \A q \in Updaters :
            updater'[q].pc \notin {"idle", "backup"} => local[updater'[q].branch] # None
      BY <3>1, <3>2, <3>3
    <3>6. saved' \in {None} \cup Backups
      BY <2>2 DEF Backup
    <3>7. UNCHANGED <<request, site, serving, bounds, history>> BY <2>2 DEF Backup
    <3>8. QED BY <3>4, <3>5, <3>6, <3>7
  <2>3. CASE Dump(p)
    <3>1. updater' \in [Updaters -> UpdaterRec] /\ Begun' /\ BranchesKept
      BY <2>3, GotoType DEF Dump, At, PCs
    <3>2. saved' \in {None} \cup Backups
      BY <2>3 DEF Dump
    <3>3. UNCHANGED <<request, site, serving, bounds, history>> BY <2>3 DEF Dump
    <3>4. QED BY <3>1, <3>2, <3>3, StepType
  <2>4. CASE Switch(p)
    <3>1. UNCHANGED <<request, channel, remote, deps, client, build, schema, serving, saved,
                      bounds, ended, killed, unchecked>>
      BY <2>4 DEF Switch
    <3> DEFINE target == updater[p].target
               moving == target \notin {None, updater[p].branch}
    <3>2. CASE /\ \E pc \in PCs : Goto(p, pc)
               /\ UNCHANGED <<local, head, tree>>
               /\ strayed' \in BOOLEAN
      <4>1. updater' \in [Updaters -> UpdaterRec] /\ Begun' /\ BranchesKept
        BY <2>4, <3>2, GotoType DEF Switch, At
      <4>2. ({killed, strayed, unchecked} \subseteq BOOLEAN)' BY <3>1, <3>2
      <4>3. QED BY <3>1, <3>2, <4>1, <4>2, StepType
    <3>3. CASE /\ moving
               /\ tree' \in CheckedOut(target)
               /\ local' = [local EXCEPT ![target] = tree']
               /\ head' = target
               /\ updater' = [updater EXCEPT ![p].pc = "pull",
                                             ![p].branch = BranchAfter(p, target)]
               /\ UNCHANGED strayed
      <4> DEFINE new == [updater[p] EXCEPT !.pc = "pull", !.branch = target]
      <4>1. /\ target \in Branches /\ updater[p] \in UpdaterRec
            /\ updater[p].commit \in Commits
        BY <2>4, <3>3 DEF Switch, At, Begun
      <4>2. tree' \in Commits BY <3>3, <4>1, LaterThanLocal
      <4>3. /\ new \in UpdaterRec /\ new.pc = "pull" /\ new.branch = target
            /\ new.commit = updater[p].commit
        BY <4>1 DEF PCs
      <4>4. updater' = [updater EXCEPT ![p] = new] BY <3>3 DEF BranchAfter
      <4> HIDE DEF new, target
      <4>5. updater' \in [Updaters -> UpdaterRec] /\ Begun'
        BY <4>1, <4>3, <4>4 DEF Begun
      <4>6. /\ local' \in [Branches -> Commits \cup {None}]
            /\ \A b \in Branches : local'[b] # None <=> local[b] # None \/ b = target
            /\ local'[head'] = tree'
        BY <3>3, <4>1, <4>2
      <4>7. \A q \in Updaters :
              updater'[q].pc \notin {"idle", "backup"} => local'[updater'[q].branch] # None
        BY <4>1, <4>3, <4>4, <4>6
      <4>8. ({killed, strayed, unchecked} \subseteq BOOLEAN)' BY <3>1, <3>3
      <4>9. QED BY <3>1, <3>3, <4>1, <4>2, <4>5, <4>6, <4>7, <4>8
    <3>4. QED BY <2>4, <3>2, <3>3 DEF Switch, RollBack, PCs
  <2>5. CASE Pull(p)
    <3>1. updater' \in [Updaters -> UpdaterRec] /\ Begun' /\ BranchesKept
      BY <2>5, GotoType DEF Pull, At, RollBack, PCs
    <3>2. /\ tree' \in Commits
          /\ local' \in [Branches -> Commits \cup {None}]
          /\ \A b \in Branches : local[b] # None => local'[b] # None
          /\ head # None => local'[head] = tree'
      <4>1. remote[updater[p].branch] \in Commits OBVIOUS
      <4>2. Later(tree, remote[updater[p].branch]) \in Commits BY <4>1, LaterType
      <4>3. QED BY <2>5, <4>2 DEF Pull
    <3>3. UNCHANGED <<request, channel, remote, head, deps, client, build, schema,
                      serving, saved, bounds, history>>
      BY <2>5 DEF Pull
    <3>4. QED BY <3>1, <3>2, <3>3, StepType
  <2>6. CASE Install(p)
    BY <2>6, GotoType DEF Install, At, RollBack, PCs, BranchesKept
  <2>7. CASE Migrate(p)
    <3>1. updater' \in [Updaters -> UpdaterRec] /\ Begun' /\ BranchesKept
      <4>1. CASE RollBack(p) BY <2>7, <4>1, GotoType DEF Migrate, At, RollBack, PCs
      <4>2. CASE updater' = [updater EXCEPT ![p].pc = "generate", ![p].migrated = TRUE]
        <5>1. updater[p].pc = "migrate" /\ "generate" \in PCs BY <2>7 DEF Migrate, At, PCs
        <5> HIDE DEF UpdaterInv, UpdaterTypeOK, UpdaterRec
        <5>2. QED BY <4>2, <5>1, MarkType
      <4>3. QED BY <2>7, <4>1, <4>2 DEF Migrate
    <3>2. schema' \in Commits
      BY <2>7 DEF Migrate, Later, Commits
    <3>3. UNCHANGED <<request, channel, remote, local, head, tree, deps, client,
                      build, serving, saved, bounds, history>>
      BY <2>7 DEF Migrate
    <3>4. QED BY <3>1, <3>2, <3>3, StepType
  <2>8. CASE Generate(p)
    BY <2>8, GotoType DEF Generate, At, RollBack, PCs, BranchesKept
  <2>9. CASE PauseForBuild(p)
    <3>1. updater' \in [Updaters -> UpdaterRec] /\ Begun' /\ BranchesKept
      <4>1. /\ updater[p].pc = "build" /\ "build" \in PCs
            /\ updater' = [updater EXCEPT ![p].paused = TRUE]
        BY <2>9 DEF PauseForBuild, At, PCs
      <4> HIDE DEF UpdaterInv, UpdaterTypeOK, UpdaterRec
      <4>2. QED BY <4>1, MarkType
    <3>2. serving' = NoBuild /\ UNCHANGED <<request, site, saved, bounds, history>>
      BY <2>9 DEF PauseForBuild
    <3>3. QED BY <3>1, <3>2, StepType
  <2>10. CASE Build(p)
    <3>1. updater' \in [Updaters -> UpdaterRec] /\ Begun' /\ BranchesKept
      <4>1. CASE BuildSucceeds(p)
        BY <2>10, <4>1, GotoType DEF Build, BuildSucceeds, At, PCs
      <4>2. CASE updater' = [updater EXCEPT ![p].pc = "retry", ![p].paused = TRUE]
        <5>1. updater[p].pc = "build" /\ "retry" \in PCs BY <2>10 DEF Build, At, PCs
        <5> HIDE DEF UpdaterInv, UpdaterTypeOK, UpdaterRec
        <5>2. QED BY <4>2, <5>1, MarkType
      <4>3. QED BY <2>10, <4>1, <4>2 DEF Build
    <3>2. build' \in Builds \cup {NoBuild} /\ serving' \in {serving, NoBuild}
      BY <2>10 DEF Build, BuildSucceeds, Builds
    <3>3. UNCHANGED <<request, channel, remote, local, head, tree, deps, client,
                      schema, saved, bounds, history>>
      BY <2>10 DEF Build
    <3>4. QED BY <3>1, <3>2, <3>3, StepType
  <2>11. CASE Retry(p)
    <3>1. updater' \in [Updaters -> UpdaterRec] /\ Begun' /\ BranchesKept
      BY <2>11, GotoType DEF Retry, BuildSucceeds, At, RollBack, PCs
    <3>2. build' \in Builds \cup {NoBuild}
      BY <2>11 DEF Retry, BuildSucceeds, Builds
    <3>3. UNCHANGED <<request, channel, remote, local, head, tree, deps, client,
                      schema, serving, saved, bounds, history>>
      BY <2>11 DEF Retry
    <3>4. QED BY <3>1, <3>2, <3>3, StepType
  <2>12. CASE Restart(p)
    BY <2>12, GotoType DEF Restart, Started, At, PCs, BranchesKept
  <2>13. CASE Verify(p)
    BY <2>13, GotoType DEF Verify, RollBack, At, PCs, BranchesKept
  <2>14. CASE Cleanup(p)
    BY <2>14, FinishType DEF Cleanup, BranchesKept
  <2>15. CASE RollGit(p)
    BY <2>15, GotoType DEF RollGit, ResetHard, At, PCs, BranchesKept, Begun
  <2>16. CASE RollDb(p)
    <3>1. updater' \in [Updaters -> UpdaterRec] /\ Begun' /\ BranchesKept
      BY <2>16, GotoType DEF RollDb, At, PCs
    <3>2. schema' \in Commits
      <4>1. saved # None /\ saved.dump # None => Later(schema, saved.dump) \in Commits
        BY LaterType
      <4>2. QED BY <2>16, <4>1 DEF RollDb, Replayed
    <3>3. UNCHANGED <<request, channel, remote, local, head, tree, deps, client, build,
                      serving, saved, bounds, history>>
      BY <2>16 DEF RollDb
    <3>4. QED BY <3>1, <3>2, <3>3, StepType
  <2>17. CASE RollBuild(p)
    BY <2>17, GotoType DEF RollBuild, RestoresBuild, At, PCs, BranchesKept
  <2>18. CASE RollClient(p)
    BY <2>18, GotoType DEF RollClient, At, PCs, BranchesKept
  <2>19. CASE RollRestart(p)
    BY <2>19, FinishType DEF RollRestart, ServedAfter, Started, BranchesKept
  <2>20. QED
    BY <1>5, <2>1, <2>2, <2>3, <2>4, <2>5, <2>6, <2>7, <2>8, <2>9, <2>10, <2>11,
       <2>12, <2>13, <2>14, <2>15, <2>16, <2>17, <2>18, <2>19 DEF Step
<1>6. ASSUME NEW P \in SUBSET Updaters, Interrupt(P),
             UNCHANGED <<request, channel, remote, local, head, tree, client, saved, posts,
                         cronRuns, ended, strayed, unchecked>>,
             serving' \in {serving} \cup Started(build'),
             kills < MaxKills, kills' = kills + 1, killed' = TRUE
      PROVE  UpdaterInv'
  <2>1. updater' = [p \in Updaters |-> IF p \in P THEN IdleUpdater ELSE updater[p]]
    BY <1>6 DEF Interrupt
  <2>2. updater' \in [Updaters -> UpdaterRec] BY <2>1, IdleUpdaterType DEF UpdaterRec
  <2>3. Begun' /\ BranchesKept BY <2>1 DEF Begun, BranchesKept, IdleUpdater
  <2>4. deps' \in Commits \cup {Broken} /\ build' \in Builds \cup {NoBuild}
    BY <1>6 DEF Interrupt
  <2>5. schema' \in Commits
    BY <1>6 DEF Interrupt, Later, Commits
  <2>6. serving' \in Builds \cup {NoBuild}
    BY <1>6, <2>4 DEF Started
  <2>7. kills' \in 0..MaxKills BY <1>6
  <2>8. ({killed, strayed, unchecked} \subseteq BOOLEAN)' BY <1>6
  <2>9. QED
    BY <1>6, <2>2, <2>3, <2>4, <2>5, <2>6, <2>7, <2>8 DEF BranchesKept, UpdaterRec
<1>7. CASE TimeOut
  BY <1>7, <1>6 DEF TimeOut, Kill, Updaters
<1>8. CASE Reboot
  BY <1>8, <1>6 DEF Reboot, Kill
<1>9. CASE UNCHANGED updaterVars
  BY <1>9 DEF updaterVars, Begun
<1>10. QED
  BY <1>1, <1>2, <1>3, <1>4, <1>5, <1>7, <1>8, <1>9 DEF UpdaterNext

\* Every variable keeps its type, and the checkout stays the head of its branch.
THEOREM UpdatesTyped == UpdaterSpec => []UpdaterTypeOK
<1>1. UpdaterInv => UpdaterTypeOK BY DEF UpdaterInv
<1>2. QED BY <1>1, TypeInit, UpdaterTypeStep, PTL DEF UpdaterSpec
----------------------------------------------------------------------------
(* The schema covers the code, as long as one update runs at a time *)

Solo ==
  \A p, q \in Updaters : updater[p].pc # "idle" /\ updater[q].pc # "idle" => p = q

\* What is served, built or kept for a rollback has its migrations, and so does
\* the tree from the end of the migrations to the end of the build.
Covered ==
  /\ SchemaCoversCode
  /\ saved # None => saved.build.commit <= schema
  /\ \A p \in Updaters : updater[p].pc \in {"generate", "build", "retry"} => tree <= schema

LEMMA Numbers ==
  /\ \A c \in Commits : c \in Nat
  /\ \A b \in Builds \cup {NoBuild} : b.commit \in Nat
BY BranchAssumption DEF Builds, NoBuild, Commits, Broken

LEMMA Integral ==
  ASSUME UpdaterInv
  PROVE  /\ schema \in Nat /\ tree \in Nat
         /\ build.commit \in Nat /\ serving.commit \in Nat
         /\ saved # None => saved.build.commit \in Nat
         /\ saved # None /\ saved.dump # None => saved.dump \in Nat
BY Numbers DEF UpdaterInv, UpdaterTypeOK, Backups

\* No step takes a migration back.
LEMMA SchemaGrows == UpdaterInv /\ [UpdaterNext]_updaterVars => schema' >= schema
<1> SUFFICES ASSUME UpdaterInv, [UpdaterNext]_updaterVars PROVE schema' >= schema
  OBVIOUS
<1>1. schema \in Nat /\ tree \in Nat /\ schema >= schema
      /\ (saved # None /\ saved.dump # None => saved.dump \in Nat)
  BY Integral
<1>2. ASSUME NEW P \in SUBSET Updaters, Interrupt(P) PROVE schema' >= schema
  BY <1>1, <1>2 DEF Interrupt, Later
<1>3. ASSUME NEW p \in Updaters, Migrate(p) PROVE schema' >= schema
  BY <1>1, <1>3 DEF Migrate, Later
<1>4. ASSUME NEW p \in Updaters, RollDb(p) PROVE schema' >= schema
  BY <1>1, <1>4 DEF RollDb, Replayed, Later
<1>5. CASE TimeOut BY <1>2, <1>5 DEF TimeOut, Updaters
<1>6. CASE Reboot BY <1>2, <1>6 DEF Reboot
<1>7. ASSUME NEW p \in Updaters, Step(p) PROVE schema' >= schema
  <2>1. CASE Migrate(p) \/ RollDb(p) BY <1>3, <1>4, <2>1
  <2>2. CASE ~(Migrate(p) \/ RollDb(p))
    <3>1. UNCHANGED schema
      BY <1>7, <2>2
         DEF Step, Reattach, Backup, Dump, Switch, Pull, Install, Generate, PauseForBuild,
             Build, Retry, Restart, Verify, Cleanup, RollGit, RollBuild, RollClient,
             RollRestart, site
    <3>2. QED BY <1>1, <3>1
  <2>3. QED BY <2>1, <2>2
<1>8. CASE \/ Apply
           \/ \E b \in Branches : SwitchChannel(b) \/ \E c \in Commits : Push(b, c)
           \/ TakeRequest \/ CronRun
           \/ UNCHANGED updaterVars
  <2>1. UNCHANGED schema
    BY <1>8 DEF Apply, SwitchChannel, Push, TakeRequest, CronRun, site, updaterVars
  <2>2. QED BY <1>1, <2>1
<1>9. QED BY <1>5, <1>6, <1>7, <1>8 DEF UpdaterNext

LEMMA SoloStep ==
  ASSUME Exclusive, UpdaterInv, Solo, [UpdaterNext]_updaterVars
  PROVE  Solo'
<1>1. updater \in [Updaters -> UpdaterRec] BY DEF UpdaterInv, UpdaterTypeOK, UpdaterRec
<1>2. ASSUME NEW p \in Updaters, Step(p) PROVE Solo'
  <2>1. updater[p].pc # "idle"
    BY <1>2
       DEF Step, Reattach, Backup, Dump, Switch, Pull, Install, Migrate, Generate,
           PauseForBuild, Build, Retry, Restart, Verify, Cleanup, RollGit, RollDb, RollBuild,
           RollClient, RollRestart, At
  <2>2. \A q \in Updaters : q # p => updater'[q] = updater[q]
    BY <1>1, <1>2
       DEF Step, Reattach, Backup, Dump, Switch, Pull, Install, Migrate, Generate,
           PauseForBuild, Build, BuildSucceeds, Retry, Restart, Verify, Cleanup, RollGit, RollDb,
           RollBuild, RollClient, RollRestart, Goto, RollBack, Finish
  <2>3. QED BY <2>1, <2>2 DEF Solo
<1>3. CASE TakeRequest \/ CronRun
  <2>1. PICK p \in Updaters : \E target : Start(p, target)
    BY <1>3, Zenon DEF TakeRequest, CronRun, Updaters
  <2>2. \A q \in Updaters : q # p => updater'[q] = updater[q]
    BY <1>1, <2>1 DEF Start
  <2>3. \A q \in Updaters : updater[q].pc = "idle" BY <2>1 DEF Start, Updating
  <2>4. QED BY <2>2, <2>3 DEF Solo
<1>4. CASE TimeOut \/ Reboot
  <2>1. PICK P \in SUBSET Updaters : Interrupt(P)
    BY <1>4 DEF TimeOut, Reboot, Updaters
  <2>2. \A q \in Updaters : updater'[q].pc # "idle" => updater[q].pc # "idle"
    BY <2>1 DEF Interrupt, IdleUpdater
  <2>3. QED BY <2>2 DEF Solo
<1>5. CASE \/ Apply
           \/ \E b \in Branches : SwitchChannel(b) \/ \E c \in Commits : Push(b, c)
           \/ UNCHANGED updaterVars
  <2>1. UNCHANGED updater BY <1>5 DEF Apply, SwitchChannel, Push, updaterVars
  <2>2. QED BY <2>1 DEF Solo
<1>6. QED BY <1>2, <1>3, <1>4, <1>5 DEF UpdaterNext

Late == {"generate", "build", "retry"}

\* A step that brings no build of its own.
OldThings ==
  /\ build' = build \/ build' = NoBuild \/ (saved # None /\ build' = saved.build)
  /\ serving' \in {serving, build', NoBuild}
  /\ saved' # None => saved'.build = build \/ (saved # None /\ saved'.build = saved.build)

LEMMA CoveredByOld ==
  ASSUME UpdaterInv, UpdaterInv', Covered, schema' >= schema, OldThings,
         \A q \in Updaters : updater'[q].pc \in Late => tree' = tree /\ updater[q].pc \in Late
  PROVE  Covered'
<1>1. /\ schema \in Nat /\ schema' \in Nat /\ tree \in Nat /\ tree' \in Nat
      /\ build.commit \in Nat /\ serving.commit \in Nat /\ NoBuild.commit = 0
      /\ saved # None => saved.build.commit \in Nat
  BY Numbers DEF UpdaterInv, UpdaterTypeOK, Backups, NoBuild, Broken
<1>2. build'.commit <= schema'
  BY <1>1 DEF OldThings, Covered, SchemaCoversCode
<1>3. serving'.commit <= schema'
  BY <1>1, <1>2 DEF OldThings, Covered, SchemaCoversCode
<1>4. saved' # None => saved'.build.commit <= schema'
  BY <1>1 DEF OldThings, Covered, SchemaCoversCode
<1>5. \A q \in Updaters : updater'[q].pc \in Late => tree' <= schema'
  BY <1>1 DEF Covered, Late
<1>6. QED BY <1>2, <1>3, <1>4, <1>5 DEF Covered, SchemaCoversCode, Late

\* One updater moves while the others rest.
LEMMA OneMoves ==
  ASSUME UpdaterInv, Solo, NEW p \in Updaters, Step(p)
  PROVE  \A q \in Updaters : q # p => updater'[q].pc = "idle"
<1>1. updater \in [Updaters -> UpdaterRec] BY DEF UpdaterInv, UpdaterTypeOK, UpdaterRec
<1>2. \A q \in Updaters : q # p => updater'[q] = updater[q]
  BY <1>1
     DEF Step, Reattach, Backup, Dump, Switch, Pull, Install, Migrate, Generate,
         PauseForBuild, Build, BuildSucceeds, Retry, Restart, Verify, Cleanup, RollGit, RollDb,
         RollBuild, RollClient, RollRestart, Goto, RollBack, Finish
<1>3. updater[p].pc # "idle"
  BY DEF Step, Reattach, Backup, Dump, Switch, Pull, Install, Migrate, Generate,
         PauseForBuild, Build, Retry, Restart, Verify, Cleanup, RollGit, RollDb, RollBuild,
         RollClient, RollRestart, At
<1>4. QED BY <1>2, <1>3 DEF Solo

LEMMA StepCovered ==
  ASSUME UpdaterInv, UpdaterInv', Solo, Covered, schema' >= schema, NEW p \in Updaters, Step(p)
  PROVE  Covered'
<1>1. updater \in [Updaters -> UpdaterRec] BY DEF UpdaterInv, UpdaterTypeOK, UpdaterRec
<1>2. \A q \in Updaters : q # p => updater'[q].pc = "idle" BY OneMoves
<1>3. /\ schema \in Nat /\ schema' \in Nat /\ tree \in Nat /\ tree' \in Nat
      /\ build.commit \in Nat /\ serving.commit \in Nat
      /\ saved # None => saved.build.commit \in Nat
  BY Numbers DEF UpdaterInv, UpdaterTypeOK, Backups
\* Before the migrations and after the build nobody waits for the tree.
<1>4. CASE /\ updater'[p].pc \notin Late
           /\ OldThings
  BY <1>2, <1>4, CoveredByOld DEF Late
<1>5. CASE Reattach(p) \/ Backup(p) \/ Switch(p) \/ Pull(p) \/ Install(p) \/ RollGit(p)
  <2>1. updater'[p].pc \notin Late
    BY <1>1, <1>5
       DEF Reattach, Backup, Switch, Pull, Install, RollGit, Goto, RollBack, Finish, At, IdleUpdater,
           UpdaterRec, Late
  <2>2. OldThings
    BY <1>5 DEF Reattach, Backup, Switch, Pull, Install, RollGit, OldThings, site
  <2>3. QED BY <2>1, <2>2, <1>4
<1>6. CASE Dump(p)
  <2>1. updater'[p].pc \notin Late
    BY <1>1, <1>6 DEF Dump, Goto, UpdaterRec, Late
  <2>2. saved' # None => saved # None /\ saved'.build = saved.build
    BY <1>6 DEF Dump, UpdaterInv, UpdaterTypeOK, Backups
  <2>3. OldThings BY <1>6, <2>2 DEF Dump, OldThings, site
  <2>4. QED BY <2>1, <2>3, <1>4
<1>7. CASE Restart(p) \/ Verify(p) \/ Cleanup(p)
  <2>1. updater'[p].pc \notin Late
    BY <1>1, <1>7
       DEF Restart, Verify, Cleanup, Goto, RollBack, Finish, IdleUpdater, UpdaterRec, Late
  <2>2. OldThings
    BY <1>7 DEF Restart, Started, Verify, Cleanup, OldThings, site
  <2>3. QED BY <2>1, <2>2, <1>4
<1>8. CASE RollDb(p) \/ RollBuild(p) \/ RollClient(p) \/ RollRestart(p)
  <2>1. updater'[p].pc \notin Late
    BY <1>1, <1>8
       DEF RollDb, RollBuild, RollClient, RollRestart, Goto, Finish, IdleUpdater, UpdaterRec, Late
  <2>2. OldThings
    BY <1>8
       DEF RollDb, RollBuild, RestoresBuild, RollClient, RollRestart, ServedAfter, Started,
           OldThings, site
  <2>3. QED BY <2>1, <2>2, <1>4
\* The migrations bring the schema up to the tree.
<1>9. CASE Migrate(p)
  <2>1. OldThings BY <1>9 DEF Migrate, OldThings
  <2>2. CASE RollBack(p)
    <3>1. updater'[p].pc \notin Late
      BY <1>1, <2>2 DEF RollBack, Goto, UpdaterRec, Late
    <3>2. QED BY <2>1, <3>1, <1>4
  <2>3. CASE schema' = Later(schema, tree)
    <3>1. tree' = tree /\ tree <= schema'
      BY <1>3, <1>9, <2>3 DEF Migrate, Later
    <3>2. /\ UNCHANGED <<build, serving, saved>>
      BY <1>9 DEF Migrate
    <3>3. build.commit <= schema' /\ serving.commit <= schema'
          /\ (saved # None => saved.build.commit <= schema')
      BY <1>3 DEF Covered, SchemaCoversCode
    <3>4. QED BY <3>1, <3>2, <3>3 DEF Covered, SchemaCoversCode
  <2>4. QED BY <1>9, <2>2, <2>3 DEF Migrate
\* From there to the end of the build the tree stands still.
<1>10. CASE Generate(p) \/ PauseForBuild(p) \/ Build(p) \/ Retry(p)
  <2>1. /\ updater[p].pc \in Late /\ tree' = tree /\ UNCHANGED <<schema, saved>>
    BY <1>10 DEF Generate, PauseForBuild, Build, Retry, At, Late, site
  <2>2. tree <= schema BY <2>1 DEF Covered, Late
  <2>3. build'.commit <= schema /\ serving'.commit <= schema
    <3>1. build' = build \/ build' = NoBuild \/ build'.commit = tree
      BY <1>10 DEF Generate, PauseForBuild, Build, Retry, BuildSucceeds, site
    <3>2. serving' = serving \/ serving' = NoBuild
      BY <1>10 DEF Generate, PauseForBuild, Build, Retry
    <3>3. NoBuild.commit <= schema BY <1>3 DEF NoBuild, Broken
    <3>4. QED BY <2>2, <3>1, <3>2, <3>3 DEF Covered, SchemaCoversCode
  <2>4. QED BY <2>1, <2>2, <2>3 DEF Covered, SchemaCoversCode
<1>11. QED BY <1>5, <1>6, <1>7, <1>8, <1>9, <1>10 DEF Step

LEMMA CoveredStep ==
  ASSUME UpdaterInv, UpdaterInv', Solo, Covered, [UpdaterNext]_updaterVars
  PROVE  Covered'
<1>1. schema' >= schema BY SchemaGrows
<1>2. ASSUME NEW p \in Updaters, Step(p) PROVE Covered'
  BY <1>1, <1>2, StepCovered
<1>3. CASE TakeRequest \/ CronRun
  <2>1. PICK p \in Updaters : \E target : Start(p, target)
    BY <1>3, Zenon DEF TakeRequest, CronRun, Updaters
  <2>2. \A q \in Updaters : updater'[q].pc \in Late => updater[q].pc \in Late
    BY <2>1 DEF Start, IdleUpdater, Late, UpdaterInv, UpdaterTypeOK
  <2>3. OldThings /\ UNCHANGED tree
    BY <1>3 DEF TakeRequest, CronRun, OldThings, site
  <2>4. QED BY <1>1, <2>2, <2>3, CoveredByOld
<1>4. CASE TimeOut \/ Reboot
  <2>1. PICK P \in SUBSET Updaters : Interrupt(P)
    BY <1>4 DEF TimeOut, Reboot, Updaters
  <2>2. \A q \in Updaters : updater'[q].pc \in Late => updater[q].pc \in Late
    BY <2>1 DEF Interrupt, IdleUpdater, Late
  <2>3. UNCHANGED <<tree, saved>> /\ serving' \in {serving, build', NoBuild}
    BY <1>4 DEF TimeOut, Reboot, Started
  <2>4. OldThings BY <2>1, <2>3 DEF Interrupt, OldThings
  <2>5. QED BY <1>1, <2>2, <2>3, <2>4, CoveredByOld
<1>5. CASE \/ Apply
           \/ \E b \in Branches : SwitchChannel(b) \/ \E c \in Commits : Push(b, c)
           \/ UNCHANGED updaterVars
  <2>1. UNCHANGED <<updater, tree, build, serving, saved>>
    BY <1>5 DEF Apply, SwitchChannel, Push, updaterVars, site
  <2>2. OldThings BY <2>1 DEF OldThings
  <2>3. QED BY <1>1, <2>1, <2>2, CoveredByOld
<1>6. QED BY <1>2, <1>3, <1>4, <1>5 DEF UpdaterNext

\* As long as no two updates overlap, neither the build nor the running service
\* is ever ahead of the schema: whichever steps fail, whenever updates are killed,
\* and however many there have been.  (The order of perform-update.sh.)
THEOREM CodeIsCovered ==
  ASSUME Exclusive
  PROVE  UpdaterSpec => []SchemaCoversCode
<1> DEFINE Inv == UpdaterInv /\ Solo /\ Covered
<1>1. UpdaterInit => Inv
  <2> SUFFICES ASSUME UpdaterInit PROVE Inv
    OBVIOUS
  <2>1. \A p \in Updaters : updater[p].pc = "idle" BY DEF UpdaterInit, IdleUpdater
  <2>2. build.commit <= schema /\ serving.commit <= schema /\ saved = None
    <3>1. tree \in Nat BY BranchAssumption DEF UpdaterInit, Commits
    <3>2. QED BY <3>1 DEF UpdaterInit
  <2>3. QED BY <2>1, <2>2, TypeInit DEF Solo, Covered, SchemaCoversCode
<1>2. Inv /\ [UpdaterNext]_updaterVars => Inv'
  BY UpdaterTypeStep, SoloStep, CoveredStep
<1>3. Inv => SchemaCoversCode BY DEF Covered
<1>4. QED BY <1>1, <1>2, <1>3, PTL DEF UpdaterSpec
-----------------------------------------------------------------------------
(* How an update ends, as long as one runs at a time and none is killed    *)

\* An updater on its way, as long as nobody has been killed: until the build begins
\* the build is the one it found, then a copy of it is kept until it is restored;
\* and what each of its steps has brought to the commit checked out stays there.
Underway(p) ==
  LET u == updater[p]
      At_(pcs) == u.pc \in pcs
  IN  /\ u.before.build.commit \notin Defective
      /\ At_({"backup"}) => serving \in {build, NoBuild}
      /\ At_({"backup", "dump", "switch", "pull", "install", "migrate", "generate",
              "build", "rollClient", "rollRestart"})
           => build = u.before.build
      /\ ~At_({"backup"}) => saved # None /\ saved.build = u.before.build
      /\ At_({"migrate", "generate", "build", "retry", "restart", "verify", "cleanup"})
           => deps = tree
      /\ At_({"generate", "build", "retry", "restart", "verify", "cleanup"})
           => tree <= schema
      /\ At_({"build", "retry", "restart", "verify", "cleanup"}) => client = tree
      /\ At_({"restart", "verify", "cleanup"}) => build.commit = tree
      /\ At_({"verify", "cleanup"}) =>
           /\ serving \in {build, NoBuild}
           /\ serving # NoBuild => build.commit \notin Defective
      /\ At_({"cleanup"}) => serving # NoBuild
      /\ At_({"rollDb", "rollBuild", "rollClient", "rollRestart"}) => tree = u.commit

\* Between updates the build is one that starts, and it is served unless the
\* service is down.
Resting ==
  /\ serving \in {build, NoBuild} /\ build.commit \notin Defective
  /\ EndsWhole

WholeInv ==
  ~killed =>
    /\ ~Updating => Resting
    /\ \A p \in Updaters : updater[p].pc # "idle" => Underway(p)


\* An updater that goes on keeps what it knows.
LEMMA GoesOn ==
  ASSUME UpdaterInv, NEW p \in Updaters, NEW pc \in PCs, Goto(p, pc)
  PROVE  /\ updater'[p].pc = pc
         /\ updater'[p].target = updater[p].target /\ updater'[p].branch = updater[p].branch
         /\ updater'[p].commit = updater[p].commit /\ updater'[p].before = updater[p].before
         /\ updater'[p].channel = updater[p].channel
<1>1. updater \in [Updaters -> UpdaterRec] BY DEF UpdaterInv, UpdaterTypeOK, UpdaterRec
<1>2. updater[p] \in UpdaterRec /\ updater'[p] = [updater[p] EXCEPT !.pc = pc]
  BY <1>1 DEF Goto
<1>3. QED BY <1>2 DEF UpdaterRec

LEMMA MarksAndGoesOn ==
  ASSUME UpdaterInv, NEW p \in Updaters, NEW pc \in PCs,
         \/ updater' = [updater EXCEPT ![p].pc = pc, ![p].migrated = TRUE]
         \/ updater' = [updater EXCEPT ![p].pc = pc, ![p].paused = TRUE]
         \/ updater' = [updater EXCEPT ![p].paused = TRUE] /\ pc = updater[p].pc
  PROVE  /\ updater'[p].pc = pc
         /\ updater'[p].target = updater[p].target /\ updater'[p].branch = updater[p].branch
         /\ updater'[p].commit = updater[p].commit /\ updater'[p].before = updater[p].before
<1>1. updater \in [Updaters -> UpdaterRec] BY DEF UpdaterInv, UpdaterTypeOK, UpdaterRec
<1>2. updater[p] \in UpdaterRec BY <1>1
<1>3. ASSUME NEW new \in {[updater[p] EXCEPT !.pc = pc, !.migrated = TRUE],
                          [updater[p] EXCEPT !.pc = pc, !.paused = TRUE]}
      PROVE  /\ new.pc = pc /\ new.target = updater[p].target
             /\ new.commit = updater[p].commit /\ new.branch = updater[p].branch
             /\ new.before = updater[p].before
  BY <1>2 DEF UpdaterRec
<1>4. CASE updater' = [updater EXCEPT ![p].paused = TRUE] /\ pc = updater[p].pc
  <2>1. updater'[p] = [updater[p] EXCEPT !.paused = TRUE] BY <1>1, <1>4
  <2>2. QED BY <1>2, <1>4, <2>1 DEF UpdaterRec
<1>5. CASE \/ updater' = [updater EXCEPT ![p].pc = pc, ![p].migrated = TRUE]
           \/ updater' = [updater EXCEPT ![p].pc = pc, ![p].paused = TRUE]
  <2>1. updater'[p] \in {[updater[p] EXCEPT !.pc = pc, !.migrated = TRUE],
                         [updater[p] EXCEPT !.pc = pc, !.paused = TRUE]}
    BY <1>1, <1>5
  <2>2. QED BY <1>3, <2>1
<1>6. QED BY <1>4, <1>5

LEMMA StillUpdating ==
  ASSUME UpdaterInv, Solo, NEW p \in Updaters, Step(p), updater'[p].pc # "idle",
         ~killed => Underway(p)', killed' = killed
  PROVE  WholeInv'
BY OneMoves DEF WholeInv, Updating

LEMMA NowResting ==
  ASSUME UpdaterInv, Solo, NEW p \in Updaters, Step(p), updater'[p] = IdleUpdater,
         ~killed => Resting', killed' = killed
  PROVE  WholeInv'
BY OneMoves DEF WholeInv, IdleUpdater

LEMMA StepKillsNobody ==
  ASSUME NEW p \in Updaters, Step(p) PROVE killed' = killed
BY DEF Step, Reattach, Backup, Dump, Switch, Pull, Install, Migrate, Generate,
       PauseForBuild, Build, BuildSucceeds, Retry, Restart, Verify, Cleanup, RollGit, RollDb,
       RollBuild, RollClient, RollRestart, history

LEMMA StepWhole ==
  ASSUME UpdaterInv, UpdaterInv', Solo, WholeInv, NEW p \in Updaters, Step(p)
  PROVE  WholeInv'
<1>1. updater \in [Updaters -> UpdaterRec] BY DEF UpdaterInv, UpdaterTypeOK, UpdaterRec
<1>2. killed' = killed BY StepKillsNobody
<1>3. updater[p].pc # "idle"
  BY DEF Step, Reattach, Backup, Dump, Switch, Pull, Install, Migrate, Generate,
         PauseForBuild, Build, Retry, Restart, Verify, Cleanup, RollGit, RollDb, RollBuild,
         RollClient, RollRestart, At
<1> SUFFICES ASSUME ~killed PROVE WholeInv'
  BY <1>2 DEF WholeInv
<1>4. Underway(p) BY <1>3 DEF WholeInv
<1>5. schema \in Nat /\ tree \in Nat BY Integral
<1>6. ASSUME updater'[p].pc # "idle", Underway(p)' PROVE WholeInv'
  BY <1>2, <1>6, StillUpdating
<1>7. ASSUME updater'[p] = IdleUpdater, Resting' PROVE WholeInv'
  BY <1>2, <1>7, NowResting
<1>8. CASE Reattach(p)
  <2>1. CASE Finish(p, "refused")
    <3>1. updater'[p] = IdleUpdater /\ ended'.how = "refused" BY <1>1, <2>1 DEF Finish
    <3>2. updater[p].pc = "backup" /\ UNCHANGED <<serving, build>>
      BY <1>8 DEF Reattach, At
    <3>3. Resting'
      BY <1>4, <3>1, <3>2
         DEF Underway, Resting, EndsWhole, CompleteIsCoherent, RollbackRestores
    <3>4. QED BY <1>7, <3>1, <3>3
  <2>2. CASE UNCHANGED updater
    <3>1. updater[p].pc = "backup" /\ UNCHANGED <<serving, build>> /\ updater' = updater
      BY <1>8, <2>2 DEF Reattach, At
    <3>2. Underway(p)' BY <1>4, <3>1 DEF Underway
    <3>3. QED BY <1>6, <3>1, <3>2
  <2>3. QED BY <1>8, <2>1, <2>2 DEF Reattach
<1>9. CASE Backup(p)
  <2>1. updater'[p] = [updater[p] EXCEPT !.pc = "dump", !.branch = head, !.commit = tree]
    BY <1>1, <1>9 DEF Backup
  <2>2. updater'[p].pc = "dump" /\ updater'[p].before = updater[p].before
    BY <1>1, <2>1 DEF UpdaterRec
  <2>3. /\ updater[p].pc = "backup" /\ UNCHANGED build
        /\ saved' = [build |-> build, dump |-> None]
    BY <1>9 DEF Backup, At, site
  <2>4. saved'.build = build /\ saved' # None
    <3>1. saved' \in Backups
      BY <2>3 DEF Backups, UpdaterInv, UpdaterTypeOK
    <3>2. QED BY <2>3, <3>1, BackupAssumption
  <2>5. Underway(p)' BY <1>4, <2>2, <2>3, <2>4 DEF Underway
  <2>6. QED BY <1>6, <2>2, <2>5
<1>10. CASE Dump(p)
  <2>1. updater'[p].pc = "switch" /\ updater'[p].before = updater[p].before
    BY <1>10, GoesOn DEF Dump, PCs
  <2>2. updater[p].pc = "dump" /\ UNCHANGED build
    BY <1>10 DEF Dump, At, site
  <2>3. saved # None => saved' \in Backups /\ saved'.build = saved.build
    BY <1>10 DEF Dump, UpdaterInv, UpdaterTypeOK, Backups
  <2>4. Underway(p)' BY <1>4, <2>1, <2>2, <2>3, BackupAssumption DEF Underway
  <2>5. QED BY <1>6, <2>1, <2>4
<1>11. CASE Switch(p)
  <2>1. updater'[p].pc \in {"pull", "rollGit"} /\ updater'[p].before = updater[p].before
    <3>1. CASE Goto(p, "pull") \/ Goto(p, "rollGit")
      BY <3>1, GoesOn DEF PCs
    <3>2. CASE updater' = [updater EXCEPT ![p].pc = "pull",
                                          ![p].branch = BranchAfter(p, updater[p].target)]
      <4>1. updater'[p] = [updater[p] EXCEPT !.pc = "pull",
                                             !.branch = BranchAfter(p, updater[p].target)]
        BY <1>1, <3>2
      <4>2. QED BY <1>1, <4>1 DEF UpdaterRec
    <3>3. QED BY <1>11, <3>1, <3>2 DEF Switch, RollBack
  <2>2. updater[p].pc = "switch" /\ UNCHANGED <<build, saved>>
    BY <1>11 DEF Switch, At
  <2>3. Underway(p)' BY <1>4, <2>1, <2>2 DEF Underway
  <2>4. QED BY <1>6, <2>1, <2>3
<1>12. CASE Pull(p)
  <2>1. updater'[p].pc \in {"install", "rollGit"} /\ updater'[p].before = updater[p].before
    BY <1>12, GoesOn DEF Pull, RollBack, PCs
  <2>2. updater[p].pc = "pull" /\ UNCHANGED <<build, saved>>
    BY <1>12 DEF Pull, At
  <2>3. Underway(p)' BY <1>4, <2>1, <2>2 DEF Underway
  <2>4. QED BY <1>6, <2>1, <2>3
<1>13. CASE Install(p)
  <2>1. /\ updater'[p].pc \in {"migrate", "rollGit"}
        /\ updater'[p].before = updater[p].before
        /\ updater'[p].pc = "migrate" => deps' = tree
    BY <1>13, GoesOn DEF Install, RollBack, PCs
  <2>2. updater[p].pc = "install" /\ UNCHANGED <<build, saved, tree>>
    BY <1>13 DEF Install, At
  <2>3. Underway(p)' BY <1>4, <2>1, <2>2 DEF Underway
  <2>4. QED BY <1>6, <2>1, <2>3
<1>14. CASE Migrate(p)
  <2>1. /\ updater'[p].pc \in {"generate", "rollGit"}
        /\ updater'[p].before = updater[p].before
        /\ updater'[p].pc = "generate" => schema' = Later(schema, tree)
    <3>1. CASE /\ schema' = Later(schema, tree)
               /\ updater' = [updater EXCEPT ![p].pc = "generate", ![p].migrated = TRUE]
      BY <3>1, MarksAndGoesOn DEF PCs
    <3>2. CASE RollBack(p) BY <3>2, GoesOn DEF RollBack, PCs
    <3>3. QED BY <1>14, <3>1, <3>2 DEF Migrate
  <2>2. updater[p].pc = "migrate" /\ UNCHANGED <<build, saved, tree, deps>>
    BY <1>14 DEF Migrate, At
  <2>3. tree <= Later(schema, tree) BY <1>5 DEF Later
  <2>4. Underway(p)' BY <1>4, <2>1, <2>2, <2>3 DEF Underway
  <2>5. QED BY <1>6, <2>1, <2>4
<1>15. CASE Generate(p)
  <2>1. /\ updater'[p].pc \in {"build", "rollGit"}
        /\ updater'[p].before = updater[p].before
        /\ updater'[p].pc = "build" => client' = tree
    BY <1>15, GoesOn DEF Generate, RollBack, PCs
  <2>2. updater[p].pc = "generate" /\ UNCHANGED <<build, saved, tree, deps, schema>>
    BY <1>15 DEF Generate, At
  <2>3. Underway(p)' BY <1>4, <2>1, <2>2 DEF Underway
  <2>4. QED BY <1>6, <2>1, <2>3
<1>16. CASE PauseForBuild(p)
  <2>1. updater[p].pc = "build" /\ UNCHANGED <<site, saved>>
    BY <1>16 DEF PauseForBuild, At
  <2>2. updater'[p].pc = "build" /\ updater'[p].before = updater[p].before
    BY <1>16, <2>1, MarksAndGoesOn DEF PauseForBuild, PCs
  <2>3. Underway(p)' BY <1>4, <2>1, <2>2 DEF Underway, site
  <2>4. QED BY <1>6, <2>2, <2>3
<1>17. ASSUME BuildSucceeds(p), updater[p].pc \in {"build", "retry"},
              UNCHANGED <<tree, deps, client, schema, saved>>
       PROVE  WholeInv'
  <2>1. updater'[p].pc = "restart" /\ updater'[p].before = updater[p].before
    BY <1>17, GoesOn DEF BuildSucceeds, PCs
  <2>2. build'.commit = tree BY <1>17 DEF BuildSucceeds
  <2>3. Underway(p)' BY <1>4, <1>17, <2>1, <2>2 DEF Underway
  <2>4. QED BY <1>6, <2>1, <2>3
<1>18. CASE Build(p)
  <2>1. updater[p].pc = "build" /\ UNCHANGED <<tree, deps, client, schema, saved>>
    BY <1>18 DEF Build, At
  <2>2. CASE updater' = [updater EXCEPT ![p].pc = "retry", ![p].paused = TRUE]
    <3>1. updater'[p].pc = "retry" /\ updater'[p].before = updater[p].before
      BY <2>2, MarksAndGoesOn DEF PCs
    <3>2. Underway(p)' BY <1>4, <2>1, <3>1 DEF Underway
    <3>3. QED BY <1>6, <3>1, <3>2
  <2>3. QED BY <1>17, <1>18, <2>1, <2>2 DEF Build
<1>19. CASE Retry(p)
  <2>1. updater[p].pc = "retry" /\ UNCHANGED <<tree, deps, client, schema, saved>>
    BY <1>19 DEF Retry, At
  <2>2. CASE RollBack(p)
    <3>1. updater'[p].pc = "rollGit" /\ updater'[p].before = updater[p].before
      BY <2>2, GoesOn DEF RollBack, PCs
    <3>2. Underway(p)' BY <1>4, <2>1, <3>1 DEF Underway
    <3>3. QED BY <1>6, <3>1, <3>2
  <2>3. QED BY <1>17, <1>19, <2>1, <2>2 DEF Retry
<1>20. CASE Restart(p)
  <2>1. updater[p].pc = "restart" /\ UNCHANGED <<site, saved>>
    BY <1>20 DEF Restart, At
  <2>2. updater'[p].pc = "verify" /\ updater'[p].before = updater[p].before
    BY <1>20, GoesOn DEF Restart, PCs
  <2>3. serving' \in {build, NoBuild} /\ (serving' # NoBuild => build.commit \notin Defective)
    BY <1>20 DEF Restart, Started
  <2>4. Underway(p)' BY <1>4, <2>1, <2>2, <2>3 DEF Underway, site
  <2>5. QED BY <1>6, <2>2, <2>4
<1>21. CASE Verify(p)
  <2>1. updater[p].pc = "verify" /\ UNCHANGED <<site, saved, serving>>
    BY <1>21 DEF Verify, At
  <2>2. /\ updater'[p].pc \in {"cleanup", "rollGit"}
        /\ updater'[p].before = updater[p].before
        /\ updater'[p].pc = "cleanup" => serving # NoBuild
    BY <1>21, GoesOn DEF Verify, Responds, RollBack, PCs
  <2>3. Underway(p)' BY <1>4, <2>1, <2>2 DEF Underway, site
  <2>4. QED BY <1>6, <2>2, <2>3
<1>22. CASE Cleanup(p)
  <2>1. updater[p].pc = "cleanup" /\ UNCHANGED <<site, serving>>
    BY <1>22 DEF Cleanup, At
  <2>2. updater'[p] = IdleUpdater /\ ended'.how = "complete"
    BY <1>1, <1>22 DEF Cleanup, Finish
  <2>3. Resting'
    BY <1>4, <1>5, <2>1, <2>2
       DEF Underway, Resting, EndsWhole, CompleteIsCoherent, RollbackRestores, site
  <2>4. QED BY <1>7, <2>2, <2>3
<1>23. CASE RollGit(p)
  <2>1. /\ updater'[p].pc = "rollDb" /\ updater'[p].before = updater[p].before
        /\ updater'[p].commit = updater[p].commit
    BY <1>23, GoesOn DEF RollGit, PCs
  <2>2. updater[p].pc = "rollGit" /\ UNCHANGED saved /\ tree' = updater[p].commit
    BY <1>23 DEF RollGit, At
  <2>3. Underway(p)' BY <1>4, <2>1, <2>2 DEF Underway
  <2>4. QED BY <1>6, <2>1, <2>3
<1>24. CASE RollDb(p)
  <2>1. /\ updater'[p].pc = "rollBuild" /\ updater'[p].before = updater[p].before
        /\ updater'[p].commit = updater[p].commit
    BY <1>24, GoesOn DEF RollDb, PCs
  <2>2. updater[p].pc = "rollDb" /\ UNCHANGED <<saved, tree>>
    BY <1>24 DEF RollDb, At
  <2>3. Underway(p)' BY <1>4, <2>1, <2>2 DEF Underway
  <2>4. QED BY <1>6, <2>1, <2>3
<1>25. CASE RollBuild(p)
  <2>1. /\ updater'[p].pc = "rollClient" /\ updater'[p].before = updater[p].before
        /\ updater'[p].commit = updater[p].commit
    BY <1>25, GoesOn DEF RollBuild, PCs
  <2>2. updater[p].pc = "rollBuild" /\ UNCHANGED <<saved, tree>>
    BY <1>25 DEF RollBuild, At
  <2>3. saved # None /\ build' = saved.build
    BY <1>4, <1>25, <2>2 DEF RollBuild, RestoresBuild, Underway
  <2>4. Underway(p)' BY <1>4, <2>1, <2>2, <2>3 DEF Underway
  <2>5. QED BY <1>6, <2>1, <2>4
<1>26. CASE RollClient(p)
  <2>1. /\ updater'[p].pc = "rollRestart" /\ updater'[p].before = updater[p].before
        /\ updater'[p].commit = updater[p].commit
    BY <1>26, GoesOn DEF RollClient, PCs
  <2>2. updater[p].pc = "rollClient" /\ UNCHANGED <<saved, tree, build>>
    BY <1>26 DEF RollClient, At
  <2>3. Underway(p)' BY <1>4, <2>1, <2>2 DEF Underway
  <2>4. QED BY <1>6, <2>1, <2>3
<1>27. CASE RollRestart(p)
  <2>1. updater[p].pc = "rollRestart" /\ UNCHANGED <<site, saved>>
    BY <1>27 DEF RollRestart, At
  <2>2. /\ updater'[p] = IdleUpdater /\ ended'.how = "rolledBack"
        /\ ended'.commit = updater[p].commit /\ ended'.build = updater[p].before.build
    BY <1>1, <1>27 DEF RollRestart, Finish
  <2>3. build = updater[p].before.build /\ tree = updater[p].commit
        /\ build.commit \notin Defective
    BY <1>4, <2>1 DEF Underway
  <2>4. serving' \in {build, NoBuild} /\ (serving' = build \/ deps = Broken)
    BY <1>27, <2>3 DEF RollRestart, ServedAfter, Started
  <2>5. Resting'
    BY <2>1, <2>2, <2>3, <2>4
       DEF Resting, EndsWhole, CompleteIsCoherent, RollbackRestores, site
  <2>6. QED BY <1>7, <2>2, <2>5
<1>28. QED
  BY <1>8, <1>9, <1>10, <1>11, <1>12, <1>13, <1>14, <1>15, <1>16, <1>18, <1>19, <1>20,
     <1>21, <1>22, <1>23, <1>24, <1>25, <1>26, <1>27 DEF Step

LEMMA WholeStep ==
  ASSUME Exclusive, UpdaterInv, UpdaterInv', Solo, WholeInv, [UpdaterNext]_updaterVars PROVE WholeInv'
<1>1. updater \in [Updaters -> UpdaterRec] BY DEF UpdaterInv, UpdaterTypeOK, UpdaterRec
<1>2. ASSUME NEW p \in Updaters, Step(p) PROVE WholeInv'
  BY <1>2, StepWhole
<1>3. CASE TakeRequest \/ CronRun
  <2>1. PICK p \in Updaters : \E target : Start(p, target)
    BY <1>3, Zenon DEF TakeRequest, CronRun, Updaters
  <2>2. UNCHANGED <<build, serving, killed>>
    BY <1>3 DEF TakeRequest, CronRun, site
  <2>3. ~Updating BY <2>1 DEF Start
  <2>4. \A q \in Updaters : q # p => updater'[q] = updater[q]
    BY <1>1, <2>1 DEF Start
  <2>5. updater'[p].pc = "backup" /\ updater'[p].before.build = build
    <3>1. PICK target : Start(p, target) BY <2>1
    <3>2. updater'[p] = [IdleUpdater EXCEPT !.pc = "backup", !.target = target,
                           !.channel = channel,
                           !.before = [build |-> build, schema |-> schema]]
      BY <1>1, <3>1 DEF Start
    <3>3. QED BY <3>2 DEF IdleUpdater
  <2>6. ~killed => Underway(p)'
    BY <2>2, <2>3, <2>5 DEF WholeInv, Resting, Underway
  <2>7. Updating' /\ \A q \in Updaters : updater'[q].pc # "idle" => q = p
    BY <2>3, <2>4, <2>5 DEF Updating
  <2>8. QED BY <2>2, <2>6, <2>7 DEF WholeInv
<1>4. CASE TimeOut \/ Reboot
  BY <1>4 DEF TimeOut, Reboot, Kill, WholeInv
<1>5. CASE \/ Apply
           \/ \E b \in Branches : SwitchChannel(b) \/ \E c \in Commits : Push(b, c)
           \/ UNCHANGED updaterVars
  <2>1. UNCHANGED <<updater, tree, build, serving, saved, deps, client, schema, ended, killed>>
    BY <1>5 DEF Apply, SwitchChannel, Push, updaterVars, site, history
  <2>2. QED
    BY <2>1
       DEF WholeInv, Updating, Resting, EndsWhole, CompleteIsCoherent, RollbackRestores,
           AtRest, Underway
<1>6. QED BY <1>2, <1>3, <1>4, <1>5 DEF UpdaterNext

LEMMA WholeInit == UpdaterInit => WholeInv
<1> SUFFICES ASSUME UpdaterInit PROVE WholeInv
  OBVIOUS
<1>1. \A p \in Updaters : updater[p].pc = "idle" BY DEF UpdaterInit, IdleUpdater
<1>2. serving = build /\ build.commit = tree /\ tree \notin Defective /\ ended.how = "not"
  BY DEF UpdaterInit, NotEnded
<1>3. QED
  BY <1>1, <1>2
     DEF WholeInv, Updating, Resting, EndsWhole, CompleteIsCoherent, RollbackRestores

\* As long as no two updates overlap, an update that ends by itself has either
\* arrived, with dependencies, client, schema, build and service at the commit that
\* is checked out, or left the code, the build and the service as it found them.
THEOREM UpdatesEndWhole ==
  ASSUME Exclusive
  PROVE  UpdaterSpec => []EndsWhole
<1> DEFINE Inv == UpdaterInv /\ Solo /\ WholeInv
<1>1. UpdaterInit => Inv
  <2>1. UpdaterInit => \A p \in Updaters : updater[p].pc = "idle" BY DEF UpdaterInit, IdleUpdater
  <2>2. QED BY <2>1, TypeInit, WholeInit DEF Solo
<1>2. Inv /\ [UpdaterNext]_updaterVars => Inv'
  BY UpdaterTypeStep, SoloStep, WholeStep
<1>3. Inv => EndsWhole
  BY DEF WholeInv, Resting, EndsWhole, CompleteIsCoherent, RollbackRestores, AtRest
<1>4. QED BY <1>1, <1>2, <1>3, PTL DEF UpdaterSpec
-----------------------------------------------------------------------------
(* Which commit and which branch an update leaves                          *)

\* The commit c of the branch b, or the head of b at the origin, is no older than
\* the build d.
Reaches(c, b, d) == c >= d.commit \/ remote[b] >= d.commit

\* After the switch, on a branch that is settled.
Settled == {"pull", "install", "migrate", "generate", "build", "retry", "restart", "verify",
            "cleanup", "rollGit", "rollDb", "rollBuild", "rollClient", "rollRestart"}

\* From the pull to the end of an update that succeeds.
Pulled == {"install", "migrate", "generate", "build", "retry", "restart", "verify", "cleanup"}

\* What is checked out and what is asked for can be brought up to the build there is.
Ready ==
  /\ NoDowngrade
  /\ request \in Branches => remote[request] >= build.commit
  /\ head = None => remote[channel] >= build.commit
  /\ head # None => Reaches(tree, head, build)

\* An updater can bring what it is to check out up to the build it found, and what it
\* goes back to as well.
Ahead(p) ==
  LET u == updater[p]
      d == u.before.build
  IN  /\ u.pc = "backup" =>
           /\ head = None => remote[channel] >= d.commit
           /\ head # None => Reaches(tree, head, d)
      /\ u.pc \in {"backup", "dump", "switch"} /\ u.target # None =>
           remote[u.target] >= d.commit
      /\ u.pc # "backup" => head = u.branch /\ Reaches(u.commit, u.branch, d)
      /\ u.pc \in {"dump", "switch"} => tree = u.commit
      /\ u.pc = "pull" => Reaches(tree, u.branch, d)
      /\ u.pc \in Pulled => tree >= d.commit

\* As long as every switch was compared with the build it replaces.
AheadInv ==
  ~killed /\ ~unchecked =>
    /\ Updating => request \notin Branches
    /\ ~Updating => Ready
    /\ \A p \in Updaters : updater[p].pc # "idle" => Ahead(p)

\* Whoever changed the channel has asked for the switch, and the request is still
\* there, or an updater has it, or it has been carried out.
OnTrack(p) ==
  LET u == updater[p] IN
  /\ u.target # None => channel \in {u.target, request}
  /\ u.pc = "backup" /\ head # None => channel \in {head, request, u.target}
  /\ u.pc # "backup" => head = u.branch
  /\ u.pc \in {"dump", "switch"} => channel \in {head, request, u.target}
  /\ u.pc \in Settled => channel \in {head, request}

TrackInv ==
  /\ request \in Branches => request = channel
  /\ ~killed /\ ~strayed =>
       /\ ~Updating /\ head # None => channel \in {head, request}
       /\ \A p \in Updaters : updater[p].pc # "idle" => OnTrack(p)

\* One updater moves on, keeping what it is to do.
Onward(p) ==
  /\ updater[p].pc \notin {"idle", "backup"}
  /\ updater'[p].pc \notin {"idle", "backup"}
  /\ updater'[p].branch = updater[p].branch /\ updater'[p].commit = updater[p].commit
  /\ updater'[p].target = updater[p].target /\ updater'[p].before = updater[p].before

LEMMA PlainStep ==
  ASSUME UpdaterInv, NEW p \in Updaters, Step(p), updater[p].pc \in Settled,
         updater'[p].pc # "idle"
  PROVE  /\ Onward(p) /\ updater'[p].pc \in Settled
         /\ UNCHANGED <<request, channel, remote, strayed, unchecked, killed>>
         /\ updater[p].pc # "pull" /\ updater[p].pc # "rollGit" => UNCHANGED <<head, tree>>
         /\ updater'[p].pc \in Pulled => updater[p].pc \in Pulled \cup {"pull"}
         /\ updater'[p].pc # "pull"
<1> USE DEF Onward, Settled, Pulled, PCs
<1>1. CASE Pull(p)
  <2>1. /\ updater[p].pc = "pull"
        /\ UNCHANGED <<request, channel, remote, strayed, unchecked, killed>>
    BY <1>1 DEF Pull, At, history, site
  <2>2. QED BY <1>1, <2>1, GoesOn DEF Pull, RollBack
<1>2. CASE Install(p)
  <2>1. /\ updater[p].pc = "install"
        /\ UNCHANGED <<request, channel, remote, strayed, unchecked, killed, head, tree>>
    BY <1>2 DEF Install, At, history, site
  <2>2. QED BY <1>2, <2>1, GoesOn DEF Install, RollBack
<1>3. CASE Migrate(p)
  <2>1. /\ updater[p].pc = "migrate"
        /\ UNCHANGED <<request, channel, remote, strayed, unchecked, killed, head, tree>>
    BY <1>3 DEF Migrate, At, history
  <2>2. CASE updater' = [updater EXCEPT ![p].pc = "generate", ![p].migrated = TRUE]
    BY <2>1, <2>2, MarksAndGoesOn
  <2>3. CASE RollBack(p) BY <2>1, <2>3, GoesOn DEF RollBack
  <2>4. QED BY <1>3, <2>2, <2>3 DEF Migrate
<1>4. CASE Generate(p)
  <2>1. /\ updater[p].pc = "generate"
        /\ UNCHANGED <<request, channel, remote, strayed, unchecked, killed, head, tree>>
    BY <1>4 DEF Generate, At, history, site
  <2>2. QED BY <1>4, <2>1, GoesOn DEF Generate, RollBack
<1>5. CASE PauseForBuild(p)
  <2>1. /\ updater[p].pc = "build" /\ updater' = [updater EXCEPT ![p].paused = TRUE]
        /\ UNCHANGED <<request, channel, remote, strayed, unchecked, killed, head, tree>>
    BY <1>5 DEF PauseForBuild, At, history, site
  <2>2. QED BY <2>1, MarksAndGoesOn
<1>6. CASE Build(p)
  <2>1. /\ updater[p].pc = "build"
        /\ UNCHANGED <<request, channel, remote, strayed, unchecked, killed, head, tree>>
    BY <1>6 DEF Build, At, history
  <2>2. CASE updater' = [updater EXCEPT ![p].pc = "retry", ![p].paused = TRUE]
    BY <2>1, <2>2, MarksAndGoesOn
  <2>3. CASE BuildSucceeds(p) BY <2>1, <2>3, GoesOn DEF BuildSucceeds
  <2>4. QED BY <1>6, <2>2, <2>3 DEF Build
<1>7. CASE Retry(p)
  <2>1. /\ updater[p].pc = "retry"
        /\ UNCHANGED <<request, channel, remote, strayed, unchecked, killed, head, tree>>
    BY <1>7 DEF Retry, At, history
  <2>2. QED BY <1>7, <2>1, GoesOn DEF Retry, BuildSucceeds, RollBack
<1>8. CASE Restart(p)
  <2>1. /\ updater[p].pc = "restart"
        /\ UNCHANGED <<request, channel, remote, strayed, unchecked, killed, head, tree>>
    BY <1>8 DEF Restart, At, history, site
  <2>2. QED BY <1>8, <2>1, GoesOn DEF Restart
<1>9. CASE Verify(p)
  <2>1. /\ updater[p].pc = "verify"
        /\ UNCHANGED <<request, channel, remote, strayed, unchecked, killed, head, tree>>
    BY <1>9 DEF Verify, At, history, site
  <2>2. QED BY <1>9, <2>1, GoesOn DEF Verify, RollBack
<1>10. CASE RollGit(p)
  <2>1. /\ updater[p].pc = "rollGit"
        /\ UNCHANGED <<request, channel, remote, strayed, unchecked, killed>>
    BY <1>10 DEF RollGit, At, history, site
  <2>2. QED BY <1>10, <2>1, GoesOn DEF RollGit
<1>11. CASE RollDb(p) BY <1>11, GoesOn DEF RollDb, history
<1>12. CASE RollBuild(p) BY <1>12, GoesOn DEF RollBuild, history
<1>13. CASE RollClient(p) BY <1>13, GoesOn DEF RollClient, history
<1>14. CASE Cleanup(p) \/ RollRestart(p)
  <2>1. updater'[p] = IdleUpdater
    BY <1>14 DEF Cleanup, RollRestart, Finish, UpdaterInv, UpdaterTypeOK
  <2>2. QED BY <2>1 DEF IdleUpdater
<1>15. CASE Reattach(p) \/ Backup(p) \/ Dump(p) \/ Switch(p)
  BY <1>15 DEF Reattach, Backup, Dump, Switch, At
<1>16. QED
  BY <1>1, <1>2, <1>3, <1>4, <1>5, <1>6, <1>7, <1>8, <1>9, <1>10, <1>11, <1>12, <1>13,
     <1>14, <1>15 DEF Step

LEMMA StepAhead ==
  ASSUME UpdaterInv, UpdaterInv', Solo, WholeInv, AheadInv, NEW p \in Updaters, Step(p)
  PROVE  AheadInv'
<1>1. updater \in [Updaters -> UpdaterRec] BY DEF UpdaterInv, UpdaterTypeOK, UpdaterRec
<1>2. UNCHANGED <<request, channel, remote, unchecked, killed>>
  BY DEF Step, Reattach, Backup, Dump, Switch, Pull, Install, Migrate, Generate,
         PauseForBuild, Build, BuildSucceeds, Retry, Restart, Verify, Cleanup, RollGit, RollDb,
         RollBuild, RollClient, RollRestart, history, site
<1>3. updater[p].pc # "idle"
  BY DEF Step, Reattach, Backup, Dump, Switch, Pull, Install, Migrate, Generate,
         PauseForBuild, Build, Retry, Restart, Verify, Cleanup, RollGit, RollDb, RollBuild,
         RollClient, RollRestart, At
<1> SUFFICES ASSUME ~killed, ~unchecked PROVE AheadInv'
  BY <1>2 DEF AheadInv
<1>4. Ahead(p) /\ Underway(p) /\ request \notin Branches
  BY <1>3 DEF AheadInv, WholeInv, Updating
<1>5. \A q \in Updaters : q # p => updater'[q].pc = "idle" BY OneMoves
<1>6. ASSUME updater'[p].pc # "idle", Ahead(p)' PROVE AheadInv'
  BY <1>2, <1>4, <1>5, <1>6 DEF AheadInv, Updating
<1>7. ASSUME updater'[p] = IdleUpdater, Ready' PROVE AheadInv'
  BY <1>2, <1>4, <1>5, <1>7 DEF AheadInv, IdleUpdater
<1>8. /\ tree \in Nat /\ tree' \in Nat /\ \A b \in Branches : remote[b] \in Nat
      /\ updater[p].before.build.commit \in Nat /\ updater[p] \in UpdaterRec
  BY <1>1, Numbers DEF UpdaterInv, UpdaterTypeOK, UpdaterRec
<1>9. CASE Reattach(p)
  <2>1. updater[p].pc = "backup" /\ head = None /\ UNCHANGED build
    BY <1>9 DEF Reattach, At
  <2>2. CASE Finish(p, "refused") /\ UNCHANGED <<local, head, tree>>
    <3>1. updater'[p] = IdleUpdater /\ ended'.how = "refused" BY <1>1, <2>2 DEF Finish
    <3>2. Ready'
      BY <1>2, <1>4, <2>1, <2>2, <3>1 DEF Ready, Ahead, Underway, NoDowngrade
    <3>3. QED BY <1>7, <3>1, <3>2
  <2>3. CASE head' = channel /\ UNCHANGED updater
    <3>1. updater' = updater /\ head' # None
      BY <2>3, NoneApart, BranchAssumption DEF UpdaterInv, UpdaterTypeOK
    <3>2. Ahead(p)' BY <1>2, <1>4, <2>1, <2>3, <3>1 DEF Ahead, Reaches, Pulled
    <3>3. QED BY <1>6, <2>1, <3>1, <3>2
  <2>4. QED BY <1>9, <2>2, <2>3 DEF Reattach
<1>10. CASE Backup(p)
  <2>1. updater'[p] = [updater[p] EXCEPT !.pc = "dump", !.branch = head, !.commit = tree]
    BY <1>1, <1>10 DEF Backup
  <2>2. /\ updater'[p].pc = "dump" /\ updater'[p].before = updater[p].before
        /\ updater'[p].branch = head /\ updater'[p].commit = tree
        /\ updater'[p].target = updater[p].target
    BY <1>8, <2>1 DEF UpdaterRec
  <2>3. updater[p].pc = "backup" /\ head # None /\ UNCHANGED <<head, tree>>
    BY <1>10 DEF Backup, At, site
  <2>4. Ahead(p)' BY <1>2, <1>4, <2>2, <2>3 DEF Ahead, Reaches, Pulled
  <2>5. QED BY <1>6, <2>2, <2>4
<1>11. CASE Dump(p)
  <2>1. updater[p].pc = "dump" /\ UNCHANGED <<head, tree>> BY <1>11 DEF Dump, At, site
  <2>2. Onward(p) /\ updater'[p].pc = "switch"
    BY <1>11, <2>1, GoesOn DEF Dump, Onward, PCs
  <2>3. Ahead(p)' BY <1>2, <1>4, <2>1, <2>2 DEF Ahead, Onward, Reaches, Pulled
  <2>4. QED BY <1>6, <2>2, <2>3
<1>12. CASE Switch(p)
  <2> DEFINE target == updater[p].target
             moving == target \notin {None, updater[p].branch}
  <2>1. updater[p].pc = "switch" BY <1>12 DEF Switch, At
  <2>2. CASE (Goto(p, "pull") \/ Goto(p, "rollGit")) /\ UNCHANGED <<head, tree>>
    <3>1. Onward(p) /\ updater'[p].pc \in {"pull", "rollGit"}
      BY <2>1, <2>2, GoesOn DEF Onward, PCs
    <3>2. Ahead(p)' BY <1>2, <1>4, <2>1, <2>2, <3>1 DEF Ahead, Onward, Reaches, Pulled
    <3>3. QED BY <1>6, <3>1, <3>2
  <2>3. CASE /\ moving /\ head' = target
             /\ updater' = [updater EXCEPT ![p].pc = "pull",
                                           ![p].branch = BranchAfter(p, target)]
    <3>1. updater'[p] = [updater[p] EXCEPT !.pc = "pull", !.branch = target]
      BY <1>1, <2>3 DEF BranchAfter
    <3>2. /\ updater'[p].pc = "pull" /\ updater'[p].before = updater[p].before
          /\ updater'[p].branch = target /\ updater'[p].commit = updater[p].commit
      BY <1>8, <3>1 DEF UpdaterRec
    <3>3. Ahead(p)' BY <1>2, <1>4, <2>1, <2>3, <3>2 DEF Ahead, Reaches, Pulled
    <3>4. QED BY <1>6, <3>2, <3>3
  <2>4. QED BY <1>12, <2>2, <2>3 DEF Switch, RollBack
<1>13. CASE updater[p].pc \in Settled /\ updater'[p].pc # "idle"
  <2>1. /\ Onward(p) /\ updater'[p].pc \in Settled
        /\ updater[p].pc # "pull" /\ updater[p].pc # "rollGit" => UNCHANGED <<head, tree>>
        /\ updater'[p].pc \in Pulled => updater[p].pc \in Pulled \cup {"pull"}
        /\ updater'[p].pc # "pull"
    BY <1>13, PlainStep
  <2>2. head' = updater[p].branch
    <3>1. CASE updater[p].pc = "pull"
      BY <1>4, <3>1 DEF Ahead, Step, Reattach, Backup, Dump, Switch, Pull, Install, Migrate,
         Generate, PauseForBuild, Build, Retry, Restart, Verify, Cleanup, RollGit, RollDb,
         RollBuild, RollClient, RollRestart, At
    <3>2. CASE updater[p].pc = "rollGit"
      BY <3>2 DEF Step, Reattach, Backup, Dump, Switch, Pull, Install, Migrate,
         Generate, PauseForBuild, Build, Retry, Restart, Verify, Cleanup, RollGit, RollDb,
         RollBuild, RollClient, RollRestart, At
    <3>3. CASE updater[p].pc \notin {"pull", "rollGit"}
      BY <1>4, <2>1, <3>3 DEF Ahead, Onward
    <3>4. QED BY <3>1, <3>2, <3>3
  <2>3. updater'[p].pc \in Pulled => tree' >= updater[p].before.build.commit
    <3>1. CASE updater[p].pc = "pull" /\ updater'[p].pc \in Pulled
      <4>1. Pull(p)
        BY <3>1 DEF Step, Reattach, Backup, Dump, Switch, Install, Migrate,
           Generate, PauseForBuild, Build, Retry, Restart, Verify, Cleanup, RollGit, RollDb,
           RollBuild, RollClient, RollRestart, At
      <4>2. ~RollBack(p) BY <1>1, <3>1 DEF RollBack, Goto, Pulled, UpdaterRec
      <4>3. tree' = Later(tree, remote[updater[p].branch]) BY <4>1, <4>2 DEF Pull
      <4>4. remote[updater[p].branch] \in Nat BY <1>8 DEF UpdaterRec
      <4>5. QED BY <1>4, <1>8, <3>1, <4>3, <4>4 DEF Ahead, Reaches, Later
    <3>2. CASE updater[p].pc \in Pulled
      BY <1>4, <2>1, <3>2 DEF Ahead, Pulled
    <3>3. QED BY <2>1, <3>1, <3>2
  <2>4. Ahead(p)'
    BY <1>2, <1>4, <2>1, <2>2, <2>3 DEF Ahead, Onward, Reaches, Settled
  <2>5. QED BY <1>6, <1>13, <2>4
<1>14. CASE Cleanup(p)
  <2>1. updater[p].pc = "cleanup" /\ UNCHANGED <<head, tree, build>>
    BY <1>14 DEF Cleanup, At, site
  <2>2. /\ updater'[p] = IdleUpdater /\ ended'.how = "complete"
        /\ ended'.build = updater[p].before.build
    BY <1>1, <1>14 DEF Cleanup, Finish
  <2>3. build.commit = tree /\ tree >= updater[p].before.build.commit /\ head # None
    BY <1>4, <1>8, <2>1, NoneApart, BranchAssumption
       DEF Ahead, Underway, Pulled, UpdaterRec
  <2>4. Ready' BY <1>2, <1>4, <1>8, <2>1, <2>2, <2>3 DEF Ready, NoDowngrade, Reaches
  <2>5. QED BY <1>7, <2>2, <2>4
<1>15. CASE RollRestart(p)
  <2>1. updater[p].pc = "rollRestart" /\ UNCHANGED <<head, tree, build>>
    BY <1>15 DEF RollRestart, At, site
  <2>2. updater'[p] = IdleUpdater /\ ended'.how = "rolledBack"
    BY <1>1, <1>15 DEF RollRestart, Finish
  <2>3. build = updater[p].before.build /\ tree = updater[p].commit
    BY <1>4, <2>1 DEF Underway
  <2>4. head = updater[p].branch /\ head # None
    BY <1>4, <1>8, <2>1, BranchAssumption DEF Ahead, UpdaterRec
  <2>5. Ready'
    BY <1>2, <1>4, <2>1, <2>2, <2>3, <2>4 DEF Ahead, Ready, NoDowngrade, Reaches
  <2>6. QED BY <1>7, <2>2, <2>5
<1>16. QED
  <2>1. CASE updater[p].pc \in Settled
    <3>1. CASE updater'[p].pc = "idle"
      <4>1. Cleanup(p) \/ RollRestart(p)
        BY <1>8, <2>1, <3>1, GoesOn, MarksAndGoesOn
           DEF Settled, Step, Reattach, Backup, Dump, Switch, Pull, Install, Migrate, Generate,
               PauseForBuild, Build, BuildSucceeds, Retry, Restart, Verify, RollGit, RollDb,
               RollBuild, RollClient, RollBack, At, PCs
      <4>2. QED BY <1>14, <1>15, <4>1
    <3>2. QED BY <1>13, <2>1, <3>1
  <2>2. CASE updater[p].pc \notin Settled
    <3>1. Reattach(p) \/ Backup(p) \/ Dump(p) \/ Switch(p)
      BY <2>2 DEF Settled, Step, Pull, Install, Migrate, Generate,
         PauseForBuild, Build, Retry, Restart, Verify, Cleanup, RollGit, RollDb,
         RollBuild, RollClient, RollRestart, At
    <3>2. QED BY <1>9, <1>10, <1>11, <1>12, <3>1
  <2>3. QED BY <2>1, <2>2

LEMMA AheadStep ==
  ASSUME Exclusive, UpdaterInv, UpdaterInv', Solo, WholeInv, AheadInv, [UpdaterNext]_updaterVars
  PROVE  AheadInv'
<1>1. updater \in [Updaters -> UpdaterRec] BY DEF UpdaterInv, UpdaterTypeOK, UpdaterRec
<1>2. ASSUME NEW p \in Updaters, Step(p) PROVE AheadInv'
  BY <1>2, StepAhead
<1>3. ASSUME NEW p \in Updaters, NEW target, Start(p, target),
             UNCHANGED <<site, killed>>, ~unchecked' => ~unchecked,
             ~unchecked' => request' \notin Branches,
             target # None => target = request /\ request \in Branches
      PROVE  AheadInv'
  <2>1. SUFFICES ASSUME ~killed, ~unchecked' PROVE AheadInv'
    BY <1>3 DEF AheadInv
  <2>2. ~Updating /\ Ready BY <1>3, <2>1 DEF Start, AheadInv
  <2>3. /\ updater'[p] = [IdleUpdater EXCEPT !.pc = "backup", !.target = target,
                            !.channel = channel,
                            !.before = [build |-> build, schema |-> schema]]
        /\ \A q \in Updaters : q # p => updater'[q] = updater[q]
    BY <1>1, <1>3 DEF Start
  <2>4. /\ updater'[p].pc = "backup" /\ updater'[p].before.build = build
        /\ updater'[p].target = target
    BY <2>3 DEF IdleUpdater
  <2>5. Ahead(p)'
    BY <1>3, <2>2, <2>4 DEF Ahead, Ready, Reaches, Pulled, site
  <2>6. Updating' /\ \A q \in Updaters : updater'[q].pc # "idle" => q = p
    BY <2>2, <2>3, <2>4 DEF Updating
  <2>7. QED BY <1>3, <2>1, <2>5, <2>6 DEF AheadInv
<1>4. CASE TakeRequest
  <2>1. Start("agent", IF request = "update" THEN None ELSE request)
        /\ request # None /\ request' = None
        /\ UNCHANGED <<site, killed, unchecked>>
    BY <1>4 DEF TakeRequest
  <2>2. request = "update" \/ request \in Branches BY <2>1 DEF UpdaterInv, UpdaterTypeOK
  <2>3. None \notin Branches /\ "update" \notin Branches BY BranchAssumption
  <2>4. PICK target : target = IF request = "update" THEN None ELSE request
    OBVIOUS
  <2>5. Start("agent", target) BY <2>1, <2>4
  <2>6. "agent" \in Updaters BY DEF Updaters
  <2>7. QED BY <1>3, <2>1, <2>2, <2>3, <2>4, <2>5, <2>6
<1>5. CASE CronRun
  <2>1. Start("cron", None) /\ UNCHANGED <<request, site, killed>>
        /\ unchecked' = (unchecked \/ request \in Branches)
    BY <1>5 DEF CronRun
  <2>2. "cron" \in Updaters BY DEF Updaters
  <2>3. (~unchecked' => ~unchecked) /\ (~unchecked' => request' \notin Branches)
    BY <2>1
  <2>4. QED BY <1>3, <2>1, <2>2, <2>3
<1>6. CASE TimeOut \/ Reboot
  BY <1>6 DEF TimeOut, Reboot, Kill, AheadInv
<1>7. CASE Apply \/ UNCHANGED updaterVars
  <2>1. UNCHANGED <<updater, site, ended, killed, unchecked>> /\ request' \in {request, "update"}
    BY <1>7 DEF Apply, updaterVars, history
  <2>2. "update" \notin Branches BY BranchAssumption
  <2>3. ~killed /\ ~unchecked /\ ~Updating => Ready'
    BY <2>1, <2>2 DEF AheadInv, Ready, NoDowngrade, AtRest, Updating, Reaches, site
  <2>4. \A p \in Updaters : Ahead(p) => Ahead(p)'
    BY <2>1 DEF Ahead, Reaches, site
  <2>5. QED BY <2>1, <2>2, <2>3, <2>4 DEF AheadInv, Updating
<1>8. ASSUME NEW b \in Branches, SwitchChannel(b) PROVE AheadInv'
  <2>1. /\ UNCHANGED <<remote, head, tree, build, updater, ended, killed>>
        /\ channel' = b /\ request' = b /\ serving # NoBuild
    BY <1>8 DEF SwitchChannel
  <2>2. PICK answered \in BOOLEAN :
          /\ answered => Contains(b, serving.commit)
          /\ unchecked' = (unchecked \/ ~answered \/ Updating)
    BY <1>8 DEF SwitchChannel
  <2>3. SUFFICES ASSUME ~killed, ~unchecked' PROVE AheadInv'
    BY <2>1 DEF AheadInv
  <2>4. ~unchecked /\ answered /\ ~Updating BY <2>2, <2>3
  <2>5. Ready /\ Resting BY <2>3, <2>4 DEF AheadInv, WholeInv
  <2>6. remote[b] >= build.commit
    BY <2>1, <2>2, <2>4, <2>5 DEF Resting, Contains
  <2>7. Ready'
    BY <2>1, <2>2, <2>4, <2>5, <2>6 DEF Ready, NoDowngrade, AtRest, Updating, Reaches
  <2>8. ~Updating' /\ \A p \in Updaters : updater'[p].pc = "idle"
    BY <2>1, <2>4 DEF Updating
  <2>9. QED BY <2>7, <2>8 DEF AheadInv
<1>9. ASSUME NEW b \in Branches, NEW c \in Commits, Push(b, c) PROVE AheadInv'
  <2>1. /\ UNCHANGED <<request, channel, head, tree, build, updater, history>>
        /\ remote' = [remote EXCEPT ![b] = c] /\ c > remote[b]
    BY <1>9 DEF Push
  <2>2. ASSUME NEW a \in Branches, NEW n \in Nat, remote[a] >= n PROVE remote'[a] >= n
    <3>1. c \in Nat /\ remote[a] \in Nat /\ remote[b] \in Nat
      BY Numbers DEF UpdaterInv, UpdaterTypeOK
    <3>2. QED BY <2>1, <2>2, <3>1 DEF UpdaterInv, UpdaterTypeOK
  <2>3. build.commit \in Nat /\ channel \in Branches /\ (head # None => head \in Branches)
        /\ \A p \in Updaters : /\ updater[p].before.build.commit \in Nat
                               /\ updater[p].branch \in Branches
                               /\ updater[p].target # None => updater[p].target \in Branches
    BY <1>1, Numbers DEF UpdaterInv, UpdaterTypeOK, UpdaterRec
  <2>4. Ready => Ready'
    BY <2>1, <2>2, <2>3 DEF Ready, NoDowngrade, AtRest, Updating, Reaches, history
  <2>5. ASSUME NEW p \in Updaters, Ahead(p) PROVE Ahead(p)'
    BY <2>1, <2>2, <2>3, <2>5 DEF Ahead, Reaches
  <2>6. QED BY <2>1, <2>4, <2>5 DEF AheadInv, Updating, history
<1>10. QED
  BY <1>2, <1>4, <1>5, <1>6, <1>7, <1>8, <1>9 DEF UpdaterNext

LEMMA StepTrack ==
  ASSUME UpdaterInv, UpdaterInv', Solo, TrackInv, NEW p \in Updaters, Step(p)
  PROVE  TrackInv'
<1>1. updater \in [Updaters -> UpdaterRec] BY DEF UpdaterInv, UpdaterTypeOK, UpdaterRec
<1>2. UNCHANGED <<request, channel, killed>> /\ (strayed => strayed')
  <2>1. UNCHANGED <<request, channel, killed>>
    BY DEF Step, Reattach, Backup, Dump, Switch, Pull, Install, Migrate, Generate,
           PauseForBuild, Build, BuildSucceeds, Retry, Restart, Verify, Cleanup, RollGit,
           RollDb, RollBuild, RollClient, RollRestart, history, site
  <2>2. CASE Switch(p)
    <3>1. \/ strayed' = strayed
          \/ strayed' = (strayed \/ updater[p].target \notin {None, updater[p].branch})
      BY <2>2, Zenon DEF Switch
    <3>2. strayed => strayed' BY <3>1, Zenon
    <3>3. QED BY <2>1, <3>2, Zenon
  <2>3. CASE ~Switch(p)
    <3>1. UNCHANGED strayed
      BY <2>3 DEF Step, Reattach, Backup, Dump, Pull, Install, Migrate, Generate,
         PauseForBuild, Build, BuildSucceeds, Retry, Restart, Verify, Cleanup, RollGit, RollDb,
         RollBuild, RollClient, RollRestart, history
    <3>2. QED BY <2>1, <3>1
  <2>4. QED BY <2>2, <2>3
<1>3. updater[p].pc # "idle"
  BY DEF Step, Reattach, Backup, Dump, Switch, Pull, Install, Migrate, Generate,
         PauseForBuild, Build, Retry, Restart, Verify, Cleanup, RollGit, RollDb, RollBuild,
         RollClient, RollRestart, At
<1> SUFFICES ASSUME ~killed, ~strayed' PROVE TrackInv'
  BY <1>2 DEF TrackInv
<1>4. OnTrack(p) /\ (request \in Branches => request = channel)
  BY <1>2, <1>3 DEF TrackInv
<1>5. \A q \in Updaters : q # p => updater'[q].pc = "idle" BY OneMoves
<1>6. ASSUME updater'[p].pc # "idle", OnTrack(p)' PROVE TrackInv'
  BY <1>2, <1>4, <1>5, <1>6 DEF TrackInv, Updating
<1>7. ASSUME updater'[p] = IdleUpdater, head' # None => channel \in {head', request} PROVE TrackInv'
  BY <1>2, <1>4, <1>5, <1>7 DEF TrackInv, IdleUpdater
<1>8. updater[p] \in UpdaterRec /\ None \notin Branches /\ head \in Branches \cup {None}
      /\ channel \in Branches
  BY <1>1, BranchAssumption DEF UpdaterInv, UpdaterTypeOK
<1>9. CASE Reattach(p)
  <2>1. updater[p].pc = "backup" /\ head = None
    BY <1>9 DEF Reattach, At
  <2>2. CASE Finish(p, "refused") /\ UNCHANGED <<local, head, tree>>
    <3>1. updater'[p] = IdleUpdater BY <1>1, <2>2 DEF Finish
    <3>2. QED BY <1>7, <2>1, <2>2, <3>1
  <2>3. CASE head' = channel /\ UNCHANGED updater
    <3>1. updater' = updater BY <2>3
    <3>2. OnTrack(p)' BY <1>2, <1>4, <2>1, <2>3, <3>1 DEF OnTrack, Settled
    <3>3. QED BY <1>6, <2>1, <3>1, <3>2
  <2>4. QED BY <1>9, <2>2, <2>3 DEF Reattach
<1>10. CASE Backup(p)
  <2>1. updater'[p] = [updater[p] EXCEPT !.pc = "dump", !.branch = head, !.commit = tree]
    BY <1>1, <1>10 DEF Backup
  <2>2. /\ updater'[p].pc = "dump" /\ updater'[p].branch = head
        /\ updater'[p].target = updater[p].target
    BY <1>8, <2>1 DEF UpdaterRec
  <2>3. updater[p].pc = "backup" /\ head # None /\ UNCHANGED head
    BY <1>10 DEF Backup, At, site
  <2>4. OnTrack(p)' BY <1>2, <1>4, <2>2, <2>3 DEF OnTrack, Settled
  <2>5. QED BY <1>6, <2>2, <2>4
<1>11. CASE Dump(p)
  <2>1. updater[p].pc = "dump" /\ UNCHANGED head BY <1>11 DEF Dump, At, site
  <2>2. Onward(p) /\ updater'[p].pc = "switch"
    BY <1>11, <2>1, GoesOn DEF Dump, Onward, PCs
  <2>3. OnTrack(p)' BY <1>2, <1>4, <2>1, <2>2 DEF OnTrack, Onward, Settled
  <2>4. QED BY <1>6, <2>2, <2>3
<1>12. CASE Switch(p)
  <2> DEFINE target == updater[p].target
             moving == target \notin {None, updater[p].branch}
  <2>1. updater[p].pc = "switch" BY <1>12 DEF Switch, At
  <2>2. CASE (Goto(p, "pull") \/ Goto(p, "rollGit")) /\ UNCHANGED head /\ ~moving
    <3>1. Onward(p) /\ updater'[p].pc \in {"pull", "rollGit"}
      BY <2>1, <2>2, GoesOn DEF Onward, PCs
    <3>2. OnTrack(p)' BY <1>2, <1>4, <1>8, <2>1, <2>2, <3>1 DEF OnTrack, Onward, Settled
    <3>3. QED BY <1>6, <3>1, <3>2
  <2>3. CASE /\ moving /\ head' = target
             /\ updater' = [updater EXCEPT ![p].pc = "pull",
                                           ![p].branch = BranchAfter(p, target)]
    <3>1. updater'[p] = [updater[p] EXCEPT !.pc = "pull", !.branch = target]
      BY <1>1, <2>3 DEF BranchAfter
    <3>2. /\ updater'[p].pc = "pull" /\ updater'[p].branch = target
          /\ updater'[p].target = target
      BY <1>8, <3>1 DEF UpdaterRec
    <3>3. OnTrack(p)' BY <1>2, <1>4, <2>1, <2>3, <3>2 DEF OnTrack, Settled
    <3>4. QED BY <1>6, <3>2, <3>3
  <2>4. CASE strayed' = (strayed \/ moving) /\ moving
    BY <2>4
  <2>5. QED BY <1>12, <2>2, <2>3, <2>4 DEF Switch, RollBack
<1>13. CASE updater[p].pc \in Settled /\ updater'[p].pc # "idle"
  <2>1. /\ Onward(p) /\ updater'[p].pc \in Settled
        /\ updater[p].pc # "pull" /\ updater[p].pc # "rollGit" => UNCHANGED <<head, tree>>
    BY <1>13, PlainStep
  <2>2. head' = head
    <3>1. CASE updater[p].pc = "pull"
      BY <3>1 DEF Step, Reattach, Backup, Dump, Switch, Pull, Install, Migrate,
         Generate, PauseForBuild, Build, Retry, Restart, Verify, Cleanup, RollGit, RollDb,
         RollBuild, RollClient, RollRestart, At
    <3>2. CASE updater[p].pc = "rollGit"
      BY <1>4, <3>2 DEF OnTrack, Step, Reattach, Backup, Dump, Switch, Pull, Install, Migrate,
         Generate, PauseForBuild, Build, Retry, Restart, Verify, Cleanup, RollGit, RollDb,
         RollBuild, RollClient, RollRestart, At
    <3>3. CASE updater[p].pc \notin {"pull", "rollGit"}
      BY <2>1, <3>3
    <3>4. QED BY <3>1, <3>2, <3>3
  <2>3. OnTrack(p)'
    BY <1>2, <1>4, <1>13, <2>1, <2>2 DEF OnTrack, Onward, Settled
  <2>4. QED BY <1>6, <1>13, <2>3
<1>14. CASE Cleanup(p) \/ RollRestart(p)
  <2>1. updater[p].pc \in Settled /\ UNCHANGED head
    BY <1>14 DEF Cleanup, RollRestart, At, site, Settled
  <2>2. updater'[p] = IdleUpdater
    BY <1>1, <1>14 DEF Cleanup, RollRestart, Finish
  <2>3. QED BY <1>4, <1>7, <2>1, <2>2 DEF OnTrack
<1>15. QED
  <2>1. CASE updater[p].pc \in Settled
    <3>1. CASE updater'[p].pc = "idle"
      <4>1. Cleanup(p) \/ RollRestart(p)
        BY <1>8, <2>1, <3>1, GoesOn, MarksAndGoesOn
           DEF Settled, Step, Reattach, Backup, Dump, Switch, Pull, Install, Migrate, Generate,
               PauseForBuild, Build, BuildSucceeds, Retry, Restart, Verify, RollGit, RollDb,
               RollBuild, RollClient, RollBack, At, PCs
      <4>2. QED BY <1>14, <4>1
    <3>2. QED BY <1>13, <2>1, <3>1
  <2>2. CASE updater[p].pc \notin Settled
    <3>1. Reattach(p) \/ Backup(p) \/ Dump(p) \/ Switch(p)
      BY <2>2 DEF Settled, Step, Pull, Install, Migrate, Generate,
         PauseForBuild, Build, Retry, Restart, Verify, Cleanup, RollGit, RollDb,
         RollBuild, RollClient, RollRestart, At
    <3>2. QED BY <1>9, <1>10, <1>11, <1>12, <3>1
  <2>3. QED BY <2>1, <2>2

LEMMA TrackStep ==
  ASSUME Exclusive, UpdaterInv, UpdaterInv', Solo, TrackInv, [UpdaterNext]_updaterVars
  PROVE  TrackInv'
<1>1. updater \in [Updaters -> UpdaterRec] BY DEF UpdaterInv, UpdaterTypeOK, UpdaterRec
<1>2. ASSUME NEW p \in Updaters, Step(p) PROVE TrackInv'
  BY <1>2, StepTrack
<1>3. ASSUME NEW p \in Updaters, NEW target, Start(p, target),
             UNCHANGED <<site, killed, strayed>>, request' \in {request, None},
             request' = None /\ request \in Branches => target = request,
             target # None => target = request /\ request \in Branches
      PROVE  TrackInv'
  <2>1. None \notin Branches BY BranchAssumption
  <2>2. request' \in Branches => request' = channel'
    BY <1>3, <2>1 DEF TrackInv, site
  <2>3. SUFFICES ASSUME ~killed, ~strayed PROVE TrackInv'
    BY <1>3, <2>2 DEF TrackInv
  <2>4. ~Updating /\ (head # None => channel \in {head, request})
    BY <1>3, <2>3 DEF Start, TrackInv
  <2>5. /\ updater'[p] = [IdleUpdater EXCEPT !.pc = "backup", !.target = target,
                            !.channel = channel,
                            !.before = [build |-> build, schema |-> schema]]
        /\ \A q \in Updaters : q # p => updater'[q] = updater[q]
    BY <1>1, <1>3 DEF Start
  <2>6. updater'[p].pc = "backup" /\ updater'[p].target = target
    BY <2>5 DEF IdleUpdater
  <2>7. OnTrack(p)'
    BY <1>3, <2>1, <2>4, <2>6 DEF OnTrack, Settled, TrackInv, UpdaterInv, UpdaterTypeOK, site
  <2>8. Updating' /\ \A q \in Updaters : updater'[q].pc # "idle" => q = p
    BY <2>4, <2>5, <2>6 DEF Updating
  <2>9. QED BY <2>2, <2>7, <2>8 DEF TrackInv
<1>4. CASE TakeRequest
  <2>1. Start("agent", IF request = "update" THEN None ELSE request)
        /\ request # None /\ request' = None
        /\ UNCHANGED <<site, killed, strayed>>
    BY <1>4 DEF TakeRequest
  <2>2. "update" \notin Branches /\ "agent" \in Updaters BY BranchAssumption DEF Updaters
  <2>3. request = "update" \/ request \in Branches BY <2>1 DEF UpdaterInv, UpdaterTypeOK
  <2>4. PICK target : target = IF request = "update" THEN None ELSE request
    OBVIOUS
  <2>5. Start("agent", target) BY <2>1, <2>4
  <2>6. QED BY <1>3, <2>1, <2>2, <2>3, <2>4, <2>5
<1>5. CASE CronRun
  <2>1. Start("cron", None) /\ UNCHANGED <<request, site, killed, strayed>> /\ "cron" \in Updaters
    BY <1>5 DEF CronRun, Updaters
  <2>2. None \notin Branches BY BranchAssumption
  <2>3. QED BY <1>3, <2>1, <2>2
<1>6. CASE TimeOut \/ Reboot
  <2>1. UNCHANGED <<request, channel>> /\ killed'
    BY <1>6 DEF TimeOut, Reboot, Kill
  <2>2. QED BY <2>1 DEF TrackInv
<1>7. CASE Apply
  <2>1. UNCHANGED <<updater, site, killed>> /\ request' = "update"
        /\ strayed' = (strayed \/ request \in Branches)
    BY <1>7 DEF Apply
  <2>2. "update" \notin Branches /\ channel \in Branches /\ request \in Branches \cup {None, "update"}
        /\ None \notin Branches
    BY BranchAssumption DEF UpdaterInv, UpdaterTypeOK
  <2>3. QED BY <2>1, <2>2 DEF TrackInv, OnTrack, Updating, site
<1>8. ASSUME NEW b \in Branches, SwitchChannel(b) PROVE TrackInv'
  <2>1. UNCHANGED <<head, updater, killed, strayed>> /\ channel' = b /\ request' = b
    BY <1>8 DEF SwitchChannel
  <2>2. QED BY <2>1 DEF TrackInv, OnTrack, Updating
<1>9. CASE UNCHANGED updaterVars \/ \E b \in Branches : \E c \in Commits : Push(b, c)
  <2>1. UNCHANGED <<request, channel, head, updater, killed, strayed>>
    BY <1>9 DEF Push, history, updaterVars, site
  <2>2. QED BY <2>1 DEF TrackInv, OnTrack, Updating
<1>10. QED
  BY <1>2, <1>4, <1>5, <1>6, <1>7, <1>8, <1>9 DEF UpdaterNext

LEMMA ChannelInit == UpdaterInit => AheadInv /\ TrackInv
<1> SUFFICES ASSUME UpdaterInit PROVE AheadInv /\ TrackInv
  OBVIOUS
<1>1. \A p \in Updaters : updater[p].pc = "idle" BY DEF UpdaterInit, IdleUpdater
<1>2. /\ request \notin Branches /\ head \in {channel, None} /\ ended.how = "not"
      /\ channel \in Branches /\ build.commit = tree /\ tree = remote[channel]
      /\ tree \in Nat
  BY BranchAssumption, Numbers DEF UpdaterInit, NotEnded
<1>3. Ready BY <1>2 DEF Ready, NoDowngrade, Reaches
<1>4. QED BY <1>1, <1>2, <1>3 DEF AheadInv, TrackInv, Updating

\* As long as no two updates overlap, an update that completes leaves no older
\* commit than it found, provided every switch was compared with the code it
\* replaced, and at rest the branch checked out is that of the channel in .env,
\* unless a switch failed before its checkout.
THEOREM UpdatesStayOnChannel ==
  ASSUME Exclusive
  PROVE  UpdaterSpec => []StaysOnChannel
<1> DEFINE Inv == UpdaterInv /\ Solo /\ WholeInv /\ AheadInv /\ TrackInv
<1>1. UpdaterInit => Inv
  <2>1. UpdaterInit => \A p \in Updaters : updater[p].pc = "idle" BY DEF UpdaterInit, IdleUpdater
  <2>2. QED BY <2>1, TypeInit, WholeInit, ChannelInit DEF Solo
<1>2. Inv /\ [UpdaterNext]_updaterVars => Inv'
  BY UpdaterTypeStep, SoloStep, WholeStep, AheadStep, TrackStep
<1>3. Inv => StaysOnChannel
  <2>1. ASSUME AheadInv PROVE NoDowngrade
    BY <2>1 DEF AheadInv, Ready, NoDowngrade, AtRest
  <2>2. ASSUME UpdaterInv, TrackInv PROVE ChannelTracked
    <3>1. None # channel BY <2>2, BranchAssumption DEF UpdaterInv, UpdaterTypeOK
    <3>2. QED BY <2>2, <3>1 DEF TrackInv, ChannelTracked, AtRest
  <2>3. QED BY <2>1, <2>2 DEF StaysOnChannel
<1>4. QED BY <1>1, <1>2, <1>3, PTL DEF UpdaterSpec
=============================================================================
