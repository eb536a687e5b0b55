--------------------------- MODULE Exports_proofs ---------------------------
(***************************************************************************)
(* Safety of Exports for any number of schedules, requests and OAuth       *)
(* clients, any providers and any mix of requests.                         *)
(***************************************************************************)
EXTENDS Exports, FiniteSetTheorems, TLAPS

Pcs == {"idle", "collect", "grant", "upload", "persist", "persistWrite", "record",
        "next", "mark", "startWrite", "exchange", "store", "saveWrite"}
Ops == {"none", "execute", "runNow", "check", "start", "callback", "save"}

HandlerRec ==
  [pc: Pcs, op: Ops, due: Seq(Jobs), config: Config \cup {None}, code: Clients \cup {None},
   rotated: 0..MaxTokens, result: Outcomes]

\* Between the grant and the write that stores its token.
Granted == {"upload", "persist", "persistWrite"}
Exporting == {"collect", "grant", "record", "next", "mark"} \cup Granted
Reading == {"grant", "startWrite", "exchange", "store", "saveWrite"} \cup Granted

\* Where a handler can be with its request, and what it has in hand by then.
Shape(q) ==
  /\ q.pc \in Exporting => q.op \in {"execute", "runNow", "check"}
  /\ q.pc = "startWrite" => q.op = "start"
  /\ q.pc \in {"exchange", "store"} => q.op = "callback"
  /\ q.pc = "saveWrite" => q.op = "save"
  /\ q.due # <<>> <=> q.op \in {"execute", "runNow"}
  /\ q.pc \in {"next", "record"} => q.due # <<>>
  /\ q.config # None <=> q.pc \in Reading
  /\ q.due # <<>> /\ (q.config # None \/ q.pc = "mark") => Head(q.due).destination = "cloud"
  /\ q.rotated # NoToken <=> q.pc \in Granted \cup {"store"}
  /\ q.pc = "startWrite" => q.config.token = NoToken
  /\ q.config # None => q.config.token <= issued
  /\ q.rotated <= issued
  /\ q.pc = "upload" /\ Mix.provider = "box" => q.rotated # q.config.token
  /\ q.pc = "mark" => q.result # "unseen"

TablesOK ==
  /\ workload \in DOMAIN Workloads
  /\ schedules \in [Schedules -> Row \cup {None}]
  /\ cred \in [config: Config, health: Health] \cup {None}
  /\ cred # None => cred.config.token <= issued
  /\ honoured \subseteq Clients \X (1..issued) /\ issued \in 0..MaxTokens
  /\ cookie \in Clients \cup {None}

TypeInv ==
  /\ TablesOK
  /\ handler \in [Handlers -> HandlerRec]
  /\ \A h \in Handlers : Shape(handler[h])
  /\ now \in 0..MaxTime /\ lastCall \in Nat /\ lastCall <= Minute

LEMMA TypeInvOK == TypeInv => TypeOK
<1> SUFFICES ASSUME TypeInv PROVE TypeOK
  OBVIOUS
<1>1. /\ workload \in DOMAIN Workloads /\ DOMAIN schedules = Schedules
      /\ \A s \in Schedules : schedules[s] # None => schedules[s] \in Row
      /\ cred # None => cred \in [config: Config, health: Health]
      /\ honoured \subseteq Clients \X (1..issued) /\ issued \in 0..MaxTokens
      /\ cookie \in Clients \cup {None}
      /\ now \in Nat /\ lastCall <= Minute
  BY ParamAssumption DEF TypeInv, TablesOK
<1>2. ASSUME NEW h \in Handlers, NEW q, q = handler[h]
      PROVE  /\ q.due \in Seq(Jobs) /\ q.result \in Outcomes
             /\ q.config # None => q.config \in Config
             /\ q.rotated \in 0..issued
             /\ q.pc \in {"grant", "upload", "persist", "persistWrite", "exchange", "store"} =>
                  q.config # None
             /\ q.pc \in {"persist", "persistWrite", "store"} => q.rotated # NoToken
             /\ q.pc \in {"next", "record"} => q.due # <<>>
  <2>1. q \in HandlerRec /\ Shape(q) BY <1>2 DEF TypeInv
  <2>2. q.rotated \in 0..issued
    BY <1>1, <2>1 DEF HandlerRec, Shape
  <2>3. QED BY <2>1, <2>2 DEF HandlerRec, Shape, Granted, Reading
<1>3. QED BY <1>1, <1>2 DEF TypeOK

LEMMA MixType ==
  ASSUME TypeInv
  PROVE  /\ Mix.schedules \subseteq [Schedules -> Row \cup {None}]
         /\ Mix.destinations \subseteq Destinations /\ Mix.provider \in Providers
<1>1. Mix \in Workload BY ParamAssumption DEF TypeInv, TablesOK, Mix
<1>2. QED BY <1>1 DEF Workload

LEMMA IdleType ==
  /\ Idle \in HandlerRec /\ Idle.pc = "idle" /\ Idle.op = "none" /\ Idle.due = <<>>
  /\ Idle.config = None /\ Idle.code = None /\ Idle.rotated = NoToken /\ Idle.result = "ok"
  /\ None \notin Handlers /\ None \notin Clients /\ None \notin Config
  /\ None \notin [config: Config, health: Health] /\ None \notin Row
BY ParamAssumption DEF Idle, HandlerRec, Pcs, Ops, NoToken, Outcomes

LEMMA IdleShape ==
  ASSUME issued \in Nat
  PROVE  Shape(Idle)
BY IdleType DEF Shape, Exporting, Reading, Granted, NoToken

\* One handler takes a record of its own; the tables stay as typed.
LEMMA HandlersStep ==
  ASSUME TypeInv, NEW h \in Handlers, NEW r \in HandlerRec,
         handler' = [handler EXCEPT ![h] = r], workload' = workload,
         issued' \in Nat, issued <= issued', Shape(r)'
  PROVE  /\ handler' \in [Handlers -> HandlerRec] /\ handler'[h] = r
         /\ \A g \in Handlers \ {h} : handler'[g] = handler[g]
         /\ \A g \in Handlers : Shape(handler[g])'
<1>1. /\ handler' \in [Handlers -> HandlerRec] /\ handler'[h] = r
      /\ \A g \in Handlers \ {h} : handler'[g] = handler[g]
  BY DEF TypeInv
<1>2. ASSUME NEW g \in Handlers PROVE Shape(handler[g])'
  <2>1. CASE g = h BY <1>1, <2>1 DEF Shape, Mix
  <2>2. CASE g # h
    <3> PICK q : q = handler[g] OBVIOUS
    <3>1. handler'[g] = q /\ q \in HandlerRec /\ Shape(q) BY <1>1, <2>2 DEF TypeInv
    <3>2. q.rotated \in Nat /\ (q.config # None => q.config.token \in Nat) /\ issued \in Nat
      BY <3>1, ParamAssumption DEF HandlerRec, Config, TypeInv, TablesOK
    <3>3. q.rotated <= issued' /\ (q.config # None => q.config.token <= issued')
      BY <3>1, <3>2 DEF Shape
    <3>4. QED BY <3>1, <3>3 DEF Shape, Mix
  <2>3. QED BY <2>1, <2>2
<1>3. QED BY <1>1, <1>2

\* A handler moves and the tables stand still.
LEMMA MoveType ==
  ASSUME TypeInv, NEW h \in Handlers, NEW r \in HandlerRec,
         handler' = [handler EXCEPT ![h] = r],
         UNCHANGED <<workload, schedules, cred, honoured, issued, cookie, clockVars>>,
         Shape(r)
  PROVE  TypeInv'
<1>1. issued' \in Nat /\ issued <= issued' /\ workload' = workload
  BY DEF TypeInv, TablesOK
<1>2. Shape(r)' BY DEF Shape, Mix
<1>3. handler' \in [Handlers -> HandlerRec] /\ \A g \in Handlers : Shape(handler[g])'
  BY <1>1, <1>2, HandlersStep
<1>4. QED BY <1>3 DEF TypeInv, TablesOK, clockVars, Minute

LEMMA InitType == Init => TypeInv
<1> SUFFICES ASSUME Init PROVE TypeInv
  OBVIOUS
<1>1. workload \in DOMAIN Workloads /\ issued = 1 /\ cookie = None /\ now = PerMinute
      /\ lastCall = 0 /\ schedules \in Mix.schedules /\ handler = [h \in Handlers |-> Idle]
  BY DEF Init
<1>2. Mix \in Workload BY <1>1, ParamAssumption DEF Mix
<1>3. schedules \in [Schedules -> Row \cup {None}] BY <1>1, <1>2 DEF Workload
<1>4. PICK c \in Clients :
        /\ cred = [config |-> [client |-> c, token |-> 1, pending |-> FALSE,
                               previous |-> NoToken],
                   health |-> "ok"]
        /\ honoured = {<<cred.config.client, 1>>}
  BY DEF Init
<1>5. 1 \in 0..MaxTokens /\ NoToken \in 0..MaxTokens BY ParamAssumption DEF NoToken
<1>6. cred \in [config: Config, health: Health] /\ cred.config.token = 1 /\ cred.config.client = c
  BY <1>4, <1>5 DEF Config, Health
<1>7. TablesOK
  <2>1. honoured = {<<c, 1>>} BY <1>4, <1>6
  <2>2. <<c, 1>> \in Clients \X (1..issued) BY <1>1
  <2>3. honoured \subseteq Clients \X (1..issued) BY <2>1, <2>2
  <2>4. QED BY <1>1, <1>3, <1>5, <1>6, <2>3 DEF TablesOK
<1>8. \A h \in Handlers : handler[h] = Idle BY <1>1
<1>9. Shape(Idle) BY <1>1, IdleShape
<1>10. handler \in [Handlers -> HandlerRec] BY <1>1, IdleType
<1>11. now \in 0..MaxTime /\ lastCall \in Nat /\ lastCall <= Minute
  BY <1>1, ParamAssumption DEF Minute
<1>12. QED BY <1>7, <1>8, <1>9, <1>10, <1>11 DEF TypeInv
-----------------------------------------------------------------------------
(* What a step makes of the handler that takes it.                         *)

\* The same request goes on, or is done with.
Onward(q, r) ==
  \/ r.pc \in {"idle", "next"}
  \/ /\ q.pc \notin {"idle", "next"} /\ r.op = q.op /\ r.due = q.due
     /\ Unsettled(r) => Unsettled(q)

\* It comes to write its outcome down.
Concluded(q, r) ==
  /\ r \in HandlerRec /\ Shape(r) /\ Onward(q, r)
  /\ r.pc \in {"record", "mark"} /\ r.op = q.op /\ r.due = q.due /\ r.config = None

LEMMA HandlerType ==
  ASSUME TypeInv, NEW h \in Handlers, NEW q, q = handler[h]
  PROVE  /\ q \in HandlerRec /\ Shape(q)
         /\ q.config # None => q.config \in Config /\ q.config.token \in Nat
         /\ q.rotated \in Nat /\ issued \in Nat
BY ParamAssumption DEF TypeInv, TablesOK, HandlerRec, Config

LEMMA ConcludesType ==
  ASSUME TypeInv, NEW q \in HandlerRec, Shape(q), q.pc \in Exporting \ {"next", "record", "mark"},
         NEW result \in Outcomes, result = "unseen" => q.due # <<>>,
         NEW r, r = Concludes(q, result)
  PROVE  Concluded(q, r) /\ r.result = result
<1> PICK pc : pc = IF q.op = "check" THEN "mark" ELSE "record" OBVIOUS
<1>1. pc \in Pcs /\ pc \in {"mark", "record"} BY DEF Pcs
<1>2. r = [q EXCEPT !.pc = pc, !.result = result, !.rotated = NoToken, !.config = None]
  BY DEF Concludes
<1>3. NoToken \in 0..MaxTokens BY ParamAssumption DEF NoToken
<1>4. /\ r \in HandlerRec /\ r.pc = pc /\ r.result = result /\ r.rotated = NoToken
      /\ r.config = None /\ r.op = q.op /\ r.due = q.due
  BY <1>1, <1>2, <1>3 DEF HandlerRec
<1>5. q.op \in {"execute", "runNow", "check"} /\ (q.due # <<>> <=> q.op \in {"execute", "runNow"})
  BY DEF Shape
<1>6. issued \in Nat BY DEF TypeInv, TablesOK
<1>7. r.pc = "mark" => r.due = <<>> /\ r.result # "unseen" BY <1>2, <1>4, <1>5
<1>8. Shape(r)
  BY <1>1, <1>4, <1>5, <1>6, <1>7 DEF Shape, Exporting, Granted, Reading, NoToken
<1>9. Onward(q, r)
  BY <1>1, <1>4 DEF Onward, Exporting, Granted, Unsettled
<1>10. QED BY <1>1, <1>4, <1>8, <1>9 DEF Concluded

tables == <<workload, schedules, cred, honoured, issued, cookie, clockVars>>

LEMMA CollectStep ==
  ASSUME TypeInv, NEW h \in Handlers, Collect(h), NEW q, q = handler[h]
  PROVE  /\ UNCHANGED tables /\ UNCHANGED <<overlapped, doubtful>> /\ q.pc = "collect"
         /\ \E r \in HandlerRec :
              /\ handler' = [handler EXCEPT ![h] = r] /\ Shape(r) /\ Onward(q, r)
              /\ \/ /\ r.pc = "grant" /\ r.op = q.op /\ r.due = q.due
                    /\ cred # None /\ r.config = cred.config
                 \/ /\ Concluded(q, r) /\ r.result # "rejected"
                    /\ r.result = "expired" /\ OfCredential(r) =>
                         cred # None /\ cred.config.token = NoToken
<1>1. /\ q \in HandlerRec /\ Shape(q) /\ q.pc = "collect" /\ q.op \in {"execute", "runNow", "check"}
      /\ issued \in Nat /\ q.rotated = NoToken
  BY HandlerType DEF Collect, Shape, Exporting, Granted
<1>2. UNCHANGED tables /\ UNCHANGED <<overlapped, doubtful>>
  BY DEF Collect, tables, clockVars, history
<1> PICK local : local = (q.due # <<>> /\ Head(q.due).destination = "local") OBVIOUS
<1> PICK token : token = IF cred = None THEN NoToken ELSE cred.config.token OBVIOUS
<1> PICK result : result = IF q.op = "check" /\ cred # None THEN "expired" ELSE "failed" OBVIOUS
<1>3. handler' = [handler EXCEPT ![h] =
           IF local THEN Concludes(q, "ok")
           ELSE IF token # NoToken THEN [q EXCEPT !.pc = "grant", !.config = cred.config]
           ELSE Concludes(q, result)]
  BY DEF Collect
<1>4. CASE local
  <2> PICK r : r = Concludes(q, "ok") OBVIOUS
  <2>1. "ok" \in Outcomes /\ q.pc \in Exporting \ {"next", "record", "mark"}
    BY <1>1 DEF Outcomes, Exporting
  <2>2. Concluded(q, r) /\ r.result = "ok" BY <1>1, <2>1, ConcludesType
  <2>3. handler' = [handler EXCEPT ![h] = r] BY <1>3, <1>4
  <2>4. QED BY <1>1, <1>2, <2>2, <2>3 DEF Concluded
<1>5. CASE ~local /\ token # NoToken
  <2> PICK r : r = [q EXCEPT !.pc = "grant", !.config = cred.config] OBVIOUS
  <2>1. cred # None /\ cred \in [config: Config, health: Health] /\ cred.config.token <= issued
    BY <1>5 DEF TypeInv, TablesOK
  <2>2. cred.config \in Config /\ cred.config # None BY <2>1, ParamAssumption
  <2>3. "grant" \in Pcs BY DEF Pcs
  <2>4. /\ r \in HandlerRec /\ r.pc = "grant" /\ r.op = q.op /\ r.due = q.due
        /\ r.config = cred.config /\ r.rotated = NoToken
    <3> PICK config : config = cred.config OBVIOUS
    <3>1. config \in Config /\ r = [q EXCEPT !.pc = "grant", !.config = config] BY <2>2
    <3>2. /\ r \in HandlerRec /\ r.pc = "grant" /\ r.op = q.op /\ r.due = q.due
          /\ r.config = config /\ r.rotated = q.rotated
      BY <1>1, <2>3, <3>1 DEF HandlerRec
    <3>3. QED BY <1>1, <3>2
  <2>5. q.due # <<>> => Head(q.due).destination = "cloud"
    <3>1. SUFFICES ASSUME q.due # <<>> PROVE Head(q.due).destination = "cloud"
      OBVIOUS
    <3>2. Head(q.due) \in Jobs BY <1>1, <3>1 DEF HandlerRec
    <3>3. Head(q.due).destination \in {"local", "cloud"} BY <3>2 DEF Jobs, Destinations
    <3>4. QED BY <1>5, <3>1, <3>3
  <2>6. Shape(r)
    BY <1>1, <2>1, <2>2, <2>4, <2>5 DEF Shape, Exporting, Granted, Reading, NoToken
  <2>7. Onward(q, r) BY <1>1, <2>4 DEF Onward, Unsettled
  <2>8. handler' = [handler EXCEPT ![h] = r] BY <1>3, <1>5
  <2>9. QED BY <1>1, <1>2, <2>1, <2>4, <2>6, <2>7, <2>8
<1>6. CASE ~local /\ token = NoToken
  <2> PICK r : r = Concludes(q, result) OBVIOUS
  <2>1. /\ result \in Outcomes \ {"unseen", "rejected"}
        /\ q.pc \in Exporting \ {"next", "record", "mark"}
    BY <1>1 DEF Outcomes, Exporting
  <2>2. Concluded(q, r) /\ r.result = result BY <1>1, <2>1, ConcludesType
  <2>3. result = "expired" => cred # None /\ cred.config.token = NoToken BY <1>6
  <2>4. handler' = [handler EXCEPT ![h] = r] BY <1>3, <1>6
  <2>5. QED BY <1>1, <1>2, <2>1, <2>2, <2>3, <2>4 DEF Concluded
<1>7. QED BY <1>4, <1>5, <1>6

\* The steps that end a delivery or a check without one.
Ending(h) ==
  \/ CollectFails(h) \/ UploadFails(h) \/ PersistFails(h)

LEMMA EndingStep ==
  ASSUME TypeInv, NEW h \in Handlers, Ending(h), NEW q, q = handler[h]
  PROVE  /\ UNCHANGED tables /\ UNCHANGED overlapped
         /\ ~doubtful' => ~doubtful /\ (Mix.provider = "box" => q.pc \notin Granted)
         /\ \E r \in HandlerRec :
              /\ handler' = [handler EXCEPT ![h] = r] /\ Concluded(q, r)
              /\ r.result # "expired" /\ (r.result = "rejected" => q.pc = "upload")
<1>1. q \in HandlerRec /\ Shape(q) BY HandlerType
<1>2. UNCHANGED tables /\ UNCHANGED overlapped
  BY DEF Ending, CollectFails, UploadFails, PersistFails, LosesToken, tables, clockVars, history
<1>3. ASSUME NEW result \in Outcomes \ {"expired"}, NEW r, r = Concludes(q, result),
             handler' = [handler EXCEPT ![h] = r], q.pc \in {"collect"} \cup Granted,
             result = "unseen" => q.due # <<>>, result = "rejected" => q.pc = "upload"
      PROVE  \E x \in HandlerRec :
               /\ handler' = [handler EXCEPT ![h] = x] /\ Concluded(q, x)
               /\ x.result # "expired" /\ (x.result = "rejected" => q.pc = "upload")
  <2>1. q.pc \in Exporting \ {"next", "record", "mark"}
    BY <1>3 DEF Exporting, Granted
  <2>2. Concluded(q, r) /\ r.result = result BY <1>1, <1>3, <2>1, ConcludesType
  <2>3. r \in HandlerRec BY <2>2 DEF Concluded
  <2>4. QED BY <1>3, <2>2, <2>3
<1>4. CASE CollectFails(h)
  <2>1. PICK outcome \in {"unseen", "failed"} :
          handler' = [handler EXCEPT ![h] = Concludes(handler[h], outcome)]
    BY <1>4 DEF CollectFails, TypeInv
  <2> PICK r : r = Concludes(q, outcome) OBVIOUS
  <2>2. /\ handler' = [handler EXCEPT ![h] = r] /\ q.pc = "collect" /\ doubtful' = doubtful
        /\ q.due # <<>>
    BY <1>4, <2>1 DEF CollectFails, history
  <2>3. q.pc \notin Granted /\ outcome \in Outcomes \ {"expired"} /\ outcome # "rejected"
    BY <2>2 DEF Granted, Outcomes
  <2>4. QED BY <1>2, <1>3, <2>2, <2>3
<1>5. CASE UploadFails(h)
  <2>1. PICK outcome \in {"failed", "rejected"} : LosesToken(h, Concludes(q, outcome))
    BY <1>5 DEF UploadFails
  <2> PICK r : r = Concludes(q, outcome) OBVIOUS
  <2>2. /\ handler' = [handler EXCEPT ![h] = r] /\ q.pc = "upload"
        /\ doubtful' = (doubtful \/ Mix.provider = "box")
    BY <1>5, <2>1 DEF UploadFails, LosesToken
  <2>3. outcome \in Outcomes \ {"expired"} /\ outcome # "unseen" BY DEF Outcomes
  <2>4. QED BY <1>2, <1>3, <2>2, <2>3 DEF Granted
<1>6. CASE PersistFails(h)
  <2> PICK result : result = IF q.op = "check" THEN "failed" ELSE "ok" OBVIOUS
  <2> PICK r : r = Concludes(q, result) OBVIOUS
  <2>1. /\ handler' = [handler EXCEPT ![h] = r] /\ q.pc \in {"persist", "persistWrite"}
        /\ doubtful' = (doubtful \/ Mix.provider = "box")
    BY <1>6 DEF PersistFails, LosesToken, TypeInv
  <2>2. /\ result \in Outcomes \ {"expired"} /\ result \notin {"unseen", "rejected"}
        /\ q.pc \in {"collect"} \cup Granted
    BY <2>1 DEF Granted, Outcomes
  <2>3. QED BY <1>2, <1>3, <2>1, <2>2
<1>7. QED BY <1>4, <1>5, <1>6 DEF Ending

LEMMA ShapeKept ==
  ASSUME TypeInv, NEW r \in HandlerRec, Shape(r), workload' = workload,
         issued' \in Nat, issued <= issued'
  PROVE  Shape(r)'
<1>1. r.rotated \in Nat /\ (r.config # None => r.config.token \in Nat) /\ issued \in Nat
  BY ParamAssumption DEF HandlerRec, Config, TypeInv, TablesOK
<1>2. r.rotated <= issued' /\ (r.config # None => r.config.token <= issued')
  BY <1>1 DEF Shape
<1>3. QED BY <1>2 DEF Shape, Mix

\* The provider has answered a grant: what it honours from now on.
Answered(client, token, new) ==
  /\ new \in 1..MaxTokens /\ issued' \in 0..MaxTokens /\ issued <= issued' /\ new <= issued'
  /\ honoured' \subseteq Clients \X (1..issued')
  /\ <<client, new>> \in honoured'
  /\ honoured' \subseteq honoured \cup {<<client, issued + 1>>}
  /\ Mix.provider # "box" => honoured \subseteq honoured'
  /\ Mix.provider = "box" => new = issued + 1 /\ <<client, token>> \notin honoured'

LEMMA GrantsType ==
  ASSUME TypeInv, NEW client, NEW token, NEW new, <<client, token>> \in honoured,
         issued < MaxTokens, Grants(<<client, token>>, new),
         issued' = IF new > issued THEN new ELSE issued
  PROVE  Answered(client, token, new)
<1>1. /\ honoured \subseteq Clients \X (1..issued) /\ issued \in 0..MaxTokens
      /\ client \in Clients /\ token \in 1..issued /\ MaxTokens \in Nat
  BY ParamAssumption DEF TypeInv, TablesOK
<1>2. CASE Mix.provider = "box"
  <2>1. new = issued + 1 /\ honoured' = (honoured \ {<<client, token>>}) \cup {<<client, new>>}
    BY <1>2 DEF Grants
  <2>2. issued' = issued + 1 /\ new \in 1..MaxTokens BY <1>1, <2>1
  <2>3. honoured' \subseteq Clients \X (1..issued')
    BY <1>1, <2>1, <2>2
  <2>4. honoured' \subseteq honoured \cup {<<client, issued + 1>>} /\ <<client, new>> \in honoured'
    BY <2>1
  <2>5. <<client, token>> \notin honoured' BY <1>1, <2>1
  <2>6. QED BY <1>1, <1>2, <2>1, <2>2, <2>3, <2>4, <2>5 DEF Answered
<1>3. CASE Mix.provider # "box" /\ new = token /\ honoured' = honoured
  <2>1. issued' = issued BY <1>1, <1>3
  <2>2. new \in 1..MaxTokens /\ new <= issued BY <1>1, <1>3
  <2>3. QED BY <1>1, <1>3, <2>1, <2>2 DEF Answered
<1>4. CASE /\ Mix.provider # "box" /\ new = issued + 1
           /\ honoured' = honoured \cup {<<client, new>>}
  <2>1. issued' = issued + 1 /\ new \in 1..MaxTokens BY <1>1, <1>4
  <2>2. honoured' \subseteq Clients \X (1..issued') BY <1>1, <1>4, <2>1
  <2>3. honoured' \subseteq honoured \cup {<<client, issued + 1>>} /\ <<client, new>> \in honoured'
    BY <1>4
  <2>4. QED BY <1>1, <1>4, <2>1, <2>2, <2>3 DEF Answered
<1>5. QED BY <1>2, <1>3, <1>4 DEF Grants

\* The handler takes the token along, or has no need of it.
Rotated(q, r, new) ==
  \/ /\ r.pc \in {"upload", "persist"} /\ r.config = q.config /\ r.rotated = new
     /\ r.op = q.op /\ r.due = q.due
  \/ Concluded(q, r) /\ r.result = "ok" /\ Mix.provider # "box"

LEMMA GrantStep ==
  ASSUME TypeInv, NEW h \in Handlers, Grant(h), NEW q, q = handler[h]
  PROVE  /\ UNCHANGED <<workload, schedules, cred, cookie, clockVars, overlapped, doubtful>>
         /\ q.pc = "grant" /\ <<q.config.client, q.config.token>> \in honoured
         /\ \E new \in 1..MaxTokens, r \in HandlerRec :
              /\ Answered(q.config.client, q.config.token, new)
              /\ handler' = [handler EXCEPT ![h] = r] /\ Shape(r)' /\ Onward(q, r)
              /\ Rotated(q, r, new)
<1>1. /\ q \in HandlerRec /\ Shape(q) /\ q.pc = "grant" /\ q.op \in {"execute", "runNow", "check"}
      /\ issued \in Nat /\ q.rotated = NoToken /\ q.config \in Config /\ q.config # None
      /\ q.config.token <= issued /\ q.config.token \in Nat
  BY HandlerType DEF Grant, Shape, Exporting, Granted, Reading
<1>2. /\ UNCHANGED <<workload, schedules, cred, cookie, clockVars, overlapped, doubtful>>
      /\ <<q.config.client, q.config.token>> \in honoured /\ issued < MaxTokens
  BY DEF Grant, Presented, history
<1>3. PICK new \in {q.config.token, issued + 1} :
        /\ Grants(<<q.config.client, q.config.token>>, new)
        /\ issued' = IF new > issued THEN new ELSE issued
        /\ handler' = [handler EXCEPT ![h] =
             IF q.op # "check" THEN [q EXCEPT !.pc = "upload", !.rotated = new]
             ELSE IF new = q.config.token THEN Concludes(q, "ok")
             ELSE [q EXCEPT !.pc = "persist", !.rotated = new]]
  BY DEF Grant, Presented
<1>4. Answered(q.config.client, q.config.token, new)
  BY <1>2, <1>3, GrantsType
<1>5. /\ new \in 1..MaxTokens /\ new <= issued' /\ issued' \in Nat /\ issued <= issued'
      /\ Mix.provider = "box" => new = issued + 1
  BY <1>4, ParamAssumption DEF Answered
<1>6. ASSUME NEW pc \in {"upload", "persist"}, NEW r, r = [q EXCEPT !.pc = pc, !.rotated = new],
             handler' = [handler EXCEPT ![h] = r]
      PROVE  /\ r \in HandlerRec /\ Shape(r)' /\ Onward(q, r) /\ r.pc \in {"upload", "persist"}
             /\ r.config = q.config /\ r.rotated = new /\ r.op = q.op /\ r.due = q.due
  <2>1. new \in 0..MaxTokens /\ pc \in Pcs /\ pc \in {"upload", "persist"}
    BY <1>5, <1>6, ParamAssumption DEF Pcs
  <2>2. /\ r \in HandlerRec /\ r.pc = pc /\ r.op = q.op /\ r.due = q.due
        /\ r.config = q.config /\ r.rotated = new
    BY <1>1, <1>6, <2>1 DEF HandlerRec
  <2>3. r.rotated # NoToken BY <1>5, <2>2 DEF NoToken
  <2>4. Mix.provider = "box" => new # q.config.token BY <1>1, <1>5
  <2>5. q.due # <<>> => Head(q.due).destination = "cloud" BY <1>1 DEF Shape
  <2>6. (q.due # <<>> <=> q.op \in {"execute", "runNow"}) BY <1>1 DEF Shape
  <2>7. r.config.token <= issued' /\ r.rotated <= issued' BY <1>1, <1>5, <2>2
  <2>8. Shape(r)'
    BY <1>1, <1>2, <2>1, <2>2, <2>3, <2>4, <2>5, <2>6, <2>7
    DEF Shape, Exporting, Granted, Reading, NoToken, Mix
  <2>9. Onward(q, r) BY <1>1, <2>1, <2>2 DEF Onward, Unsettled
  <2>10. QED BY <2>1, <2>2, <2>8, <2>9
<1>7. CASE q.op # "check"
  <2> PICK r : r = [q EXCEPT !.pc = "upload", !.rotated = new] OBVIOUS
  <2>1. handler' = [handler EXCEPT ![h] = r] BY <1>3, <1>7
  <2>2. QED BY <1>1, <1>2, <1>4, <1>5, <1>6, <2>1 DEF Rotated
<1>8. CASE q.op = "check" /\ new = q.config.token
  <2> PICK r : r = Concludes(q, "ok") OBVIOUS
  <2>1. "ok" \in Outcomes /\ q.pc \in Exporting \ {"next", "record", "mark"}
    BY <1>1 DEF Outcomes, Exporting
  <2>2. Concluded(q, r) /\ r.result = "ok" BY <1>1, <2>1, ConcludesType
  <2>3. r \in HandlerRec /\ Shape(r) /\ Onward(q, r) BY <2>2 DEF Concluded
  <2>4. Shape(r)' BY <1>2, <1>5, <2>3, ShapeKept
  <2>5. handler' = [handler EXCEPT ![h] = r] BY <1>3, <1>8
  <2>6. Mix.provider # "box" BY <1>1, <1>5, <1>8
  <2>7. QED BY <1>1, <1>2, <1>4, <1>5, <2>2, <2>3, <2>4, <2>5, <2>6 DEF Rotated
<1>9. CASE q.op = "check" /\ new # q.config.token
  <2> PICK r : r = [q EXCEPT !.pc = "persist", !.rotated = new] OBVIOUS
  <2>1. handler' = [handler EXCEPT ![h] = r] BY <1>3, <1>9
  <2>2. QED BY <1>1, <1>2, <1>4, <1>5, <1>6, <2>1 DEF Rotated
<1>10. QED BY <1>7, <1>8, <1>9

LEMMA GrantRefusedStep ==
  ASSUME TypeInv, NEW h \in Handlers, GrantRefused(h), NEW q, q = handler[h]
  PROVE  /\ UNCHANGED tables /\ UNCHANGED <<overlapped, doubtful>>
         /\ q.pc = "grant" /\ <<q.config.client, q.config.token>> \notin honoured
         /\ \E r \in HandlerRec :
              /\ handler' = [handler EXCEPT ![h] = r] /\ Concluded(q, r)
<1>1. PICK outcome \in {"expired", "failed"} :
        handler' = [handler EXCEPT ![h] = Concludes(handler[h], outcome)]
  BY DEF GrantRefused, TypeInv
<1> PICK r : r = Concludes(q, outcome) OBVIOUS
<1>2. /\ q \in HandlerRec /\ Shape(q) /\ q.pc = "grant"
      /\ <<q.config.client, q.config.token>> \notin honoured
      /\ handler' = [handler EXCEPT ![h] = r]
  BY <1>1, HandlerType DEF GrantRefused, Presented
<1>3. outcome \in Outcomes \ {"unseen"} /\ q.pc \in Exporting \ {"next", "record", "mark"}
  BY <1>2 DEF Outcomes, Exporting
<1>4. Concluded(q, r) BY <1>2, <1>3, ConcludesType
<1>5. UNCHANGED tables /\ UNCHANGED <<overlapped, doubtful>>
  BY DEF GrantRefused, tables, clockVars, history
<1>6. QED BY <1>2, <1>4, <1>5 DEF Concluded

LEMMA GrantLostStep ==
  ASSUME TypeInv, NEW h \in Handlers, GrantLost(h), NEW q, q = handler[h]
  PROVE  /\ UNCHANGED <<workload, schedules, cred, cookie, clockVars, overlapped>>
         /\ q.pc = "grant"
         /\ \/ UNCHANGED <<honoured, issued, doubtful>>
            \/ \E new \in 1..MaxTokens :
                 /\ Answered(q.config.client, q.config.token, new)
                 /\ ~doubtful' => ~doubtful /\ Mix.provider # "box"
         /\ \E r \in HandlerRec :
              /\ handler' = [handler EXCEPT ![h] = r] /\ Concluded(q, r) /\ Shape(r)'
              /\ r.result = "failed"
<1> PICK r : r = Concludes(q, "failed") OBVIOUS
<1>1. /\ q \in HandlerRec /\ Shape(q) /\ q.pc = "grant" /\ issued \in Nat
      /\ handler' = [handler EXCEPT ![h] = r]
      /\ UNCHANGED <<workload, schedules, cred, cookie, clockVars, overlapped>>
  BY HandlerType DEF GrantLost, LosesToken
<1>2. "failed" \in Outcomes /\ q.pc \in Exporting \ {"next", "record", "mark"}
  BY <1>1 DEF Outcomes, Exporting
<1>3. Concluded(q, r) /\ r.result = "failed" BY <1>1, <1>2, ConcludesType
<1>4. /\ issued <= issued' /\ issued' \in Nat
      /\ \/ UNCHANGED <<honoured, issued, doubtful>>
         \/ \E new \in 1..MaxTokens :
              /\ Answered(q.config.client, q.config.token, new)
              /\ ~doubtful' => ~doubtful /\ Mix.provider # "box"
  <2>1. CASE UNCHANGED <<honoured, issued, doubtful>> BY <1>1, <2>1
  <2>2. CASE ~UNCHANGED <<honoured, issued, doubtful>>
    <3> PICK new : new = issued + 1 OBVIOUS
    <3>1. /\ <<q.config.client, q.config.token>> \in honoured /\ issued < MaxTokens
          /\ Grants(<<q.config.client, q.config.token>>, new) /\ issued' = new
          /\ doubtful' = (doubtful \/ Mix.provider = "box")
      BY <2>2 DEF GrantLost, LosesToken, Presented
    <3>2. issued' = IF new > issued THEN new ELSE issued BY <1>1, <3>1
    <3>3. Answered(q.config.client, q.config.token, new) BY <3>1, <3>2, GrantsType
    <3>4. new \in 1..MaxTokens BY <3>3 DEF Answered
    <3>5. issued <= issued' /\ issued' \in Nat BY <1>1, <3>1
    <3>6. ~doubtful' => ~doubtful /\ Mix.provider # "box" BY <3>1
    <3>7. QED BY <3>3, <3>4, <3>5, <3>6, Zenon
  <2>3. QED BY <2>1, <2>2
<1>5. Shape(r)' BY <1>1, <1>3, <1>4, ShapeKept DEF Concluded
<1>6. QED BY <1>1, <1>3, <1>4, <1>5 DEF Concluded

LEMMA UploadStep ==
  ASSUME TypeInv, NEW h \in Handlers, Upload(h), NEW q, q = handler[h]
  PROVE  /\ UNCHANGED tables /\ UNCHANGED <<overlapped, doubtful>> /\ q.pc = "upload"
         /\ \E r \in HandlerRec :
              /\ handler' = [handler EXCEPT ![h] = r] /\ Shape(r) /\ Onward(q, r)
              /\ \/ /\ r.pc = "persist" /\ r.config = q.config /\ r.rotated = q.rotated
                    /\ r.op = q.op /\ r.due = q.due
                 \/ Concluded(q, r) /\ r.result = "ok" /\ Mix.provider # "box"
<1>1. /\ q \in HandlerRec /\ Shape(q) /\ q.pc = "upload" /\ q.op \in {"execute", "runNow", "check"}
      /\ UNCHANGED tables /\ UNCHANGED <<overlapped, doubtful>>
      /\ handler' = [handler EXCEPT ![h] =
           IF Stores(q) THEN [q EXCEPT !.pc = "persist"] ELSE Concludes(q, "ok")]
  BY HandlerType DEF Upload, Shape, Exporting, Granted, tables, clockVars, history
<1>2. CASE Stores(q)
  <2> PICK r : r = [q EXCEPT !.pc = "persist"] OBVIOUS
  <2>1. "persist" \in Pcs BY DEF Pcs
  <2>2. /\ r \in HandlerRec /\ r.pc = "persist" /\ r.op = q.op /\ r.due = q.due
        /\ r.config = q.config /\ r.rotated = q.rotated
    BY <1>1, <2>1 DEF HandlerRec
  <2>3. Shape(r) BY <1>1, <2>2 DEF Shape, Exporting, Granted, Reading
  <2>4. Onward(q, r) BY <1>1, <2>2 DEF Onward, Unsettled
  <2>5. handler' = [handler EXCEPT ![h] = r] BY <1>1, <1>2
  <2>6. QED BY <1>1, <2>2, <2>3, <2>4, <2>5
<1>3. CASE ~Stores(q)
  <2> PICK r : r = Concludes(q, "ok") OBVIOUS
  <2>1. "ok" \in Outcomes /\ q.pc \in Exporting \ {"next", "record", "mark"}
    BY <1>1 DEF Outcomes, Exporting, Granted
  <2>2. Concluded(q, r) /\ r.result = "ok" BY <1>1, <2>1, ConcludesType
  <2>3. Mix.provider # "box" BY <1>1, <1>3 DEF Stores, Shape
  <2>4. handler' = [handler EXCEPT ![h] = r] BY <1>1, <1>3
  <2>5. QED BY <1>1, <2>2, <2>3, <2>4 DEF Concluded
<1>4. QED BY <1>2, <1>3

LEMMA PersistStep ==
  ASSUME TypeInv, NEW h \in Handlers, Persist(h), NEW q, q = handler[h]
  PROVE  /\ UNCHANGED tables /\ UNCHANGED <<overlapped, doubtful>> /\ q.pc = "persist"
         /\ \E r \in HandlerRec :
              /\ handler' = [handler EXCEPT ![h] = r] /\ Shape(r) /\ Onward(q, r)
              /\ \/ /\ r.pc = "persistWrite" /\ cred # None /\ r.config = cred.config
                    /\ r.rotated = q.rotated /\ r.op = q.op /\ r.due = q.due
                 \/ /\ Concluded(q, r) /\ r.result = "ok"
                    /\ cred # None => cred.config.token = q.rotated
<1>1. /\ q \in HandlerRec /\ Shape(q) /\ q.pc = "persist" /\ q.op \in {"execute", "runNow", "check"}
      /\ UNCHANGED tables /\ UNCHANGED <<overlapped, doubtful>>
  BY HandlerType DEF Persist, Shape, Exporting, Granted, tables, clockVars, history
<1> PICK done : done = (cred = None \/ (cred # None /\ cred.config.token = q.rotated)) OBVIOUS
<1>2. handler' = [handler EXCEPT ![h] =
         IF done THEN Concludes(q, "ok")
         ELSE [q EXCEPT !.pc = "persistWrite", !.config = cred.config]]
  BY DEF Persist
<1>3. CASE done
  <2> PICK r : r = Concludes(q, "ok") OBVIOUS
  <2>1. "ok" \in Outcomes /\ q.pc \in Exporting \ {"next", "record", "mark"}
    BY <1>1 DEF Outcomes, Exporting, Granted
  <2>2. Concluded(q, r) /\ r.result = "ok" BY <1>1, <2>1, ConcludesType
  <2>3. cred # None => cred.config.token = q.rotated BY <1>3
  <2>4. handler' = [handler EXCEPT ![h] = r] BY <1>2, <1>3
  <2>5. QED BY <1>1, <2>2, <2>3, <2>4 DEF Concluded
<1>4. CASE ~done
  <2> PICK config : config = cred.config OBVIOUS
  <2> PICK r : r = [q EXCEPT !.pc = "persistWrite", !.config = config] OBVIOUS
  <2>1. cred # None /\ cred \in [config: Config, health: Health] /\ cred.config.token <= issued
    BY <1>4 DEF TypeInv, TablesOK
  <2>2. config \in Config /\ config # None /\ config.token <= issued BY <2>1, ParamAssumption
  <2>3. "persistWrite" \in Pcs BY DEF Pcs
  <2>4. /\ r \in HandlerRec /\ r.pc = "persistWrite" /\ r.op = q.op /\ r.due = q.due
        /\ r.config = config /\ r.rotated = q.rotated
    BY <1>1, <2>2, <2>3 DEF HandlerRec
  <2>5. Shape(r) BY <1>1, <2>2, <2>4 DEF Shape, Exporting, Granted, Reading
  <2>6. Onward(q, r) BY <1>1, <2>4 DEF Onward, Unsettled
  <2>7. handler' = [handler EXCEPT ![h] = r] BY <1>2, <1>4
  <2>8. QED BY <1>1, <2>1, <2>4, <2>5, <2>6, <2>7
<1>5. QED BY <1>3, <1>4

LEMMA PersistWriteStep ==
  ASSUME TypeInv, NEW h \in Handlers, PersistWrite(h), NEW q, q = handler[h]
  PROVE  /\ UNCHANGED <<workload, schedules, honoured, issued, cookie, clockVars,
                        overlapped, doubtful>>
         /\ q.pc = "persistWrite" /\ q.config \in Config
         /\ cred = None => cred' = None
         /\ cred # None =>
              /\ cred' \in [config: Config, health: Health] /\ cred' # None
              /\ cred'.config.client = q.config.client /\ cred'.config.token = q.rotated
              /\ cred'.health = cred.health
         /\ \E r \in HandlerRec :
              /\ handler' = [handler EXCEPT ![h] = r] /\ Concluded(q, r)
              /\ r.result \in {"ok", "failed"}
<1>1. /\ q \in HandlerRec /\ Shape(q) /\ q.pc = "persistWrite" /\ q.config \in Config
      /\ UNCHANGED <<workload, schedules, honoured, issued, cookie, clockVars,
                     overlapped, doubtful>>
  BY HandlerType DEF PersistWrite, Shape, Granted, Reading, history
<1> PICK result : result = IF cred = None /\ q.op = "check" THEN "failed" ELSE "ok" OBVIOUS
<1> PICK r : r = Concludes(q, result) OBVIOUS
<1>2. handler' = [handler EXCEPT ![h] = r] BY DEF PersistWrite
<1>3. result \in Outcomes /\ result \in {"ok", "failed"} /\ q.pc \in Exporting \ {"next", "record", "mark"}
  BY <1>1 DEF Outcomes, Exporting, Granted
<1>4. Concluded(q, r) /\ r.result = result BY <1>1, <1>3, ConcludesType
<1>5. cred = None => cred' = None BY DEF PersistWrite
<1>6. ASSUME cred # None
      PROVE  /\ cred' \in [config: Config, health: Health] /\ cred' # None
             /\ cred'.config.client = q.config.client /\ cred'.config.token = q.rotated
             /\ cred'.health = cred.health
  <2> PICK config : config = Sealed(q) OBVIOUS
  <2>1. config = [q.config EXCEPT !.token = q.rotated] BY DEF Sealed
  <2>2. q.rotated \in 0..MaxTokens BY <1>1 DEF HandlerRec
  <2>3. config \in Config /\ config.client = q.config.client /\ config.token = q.rotated
    BY <1>1, <2>1, <2>2 DEF Config
  <2>4. cred \in [config: Config, health: Health] BY <1>6 DEF TypeInv, TablesOK
  <2>5. cred' = [cred EXCEPT !.config = config] BY <1>6 DEF PersistWrite
  <2>6. QED BY <2>3, <2>4, <2>5, ParamAssumption
<1>7. QED BY <1>1, <1>2, <1>3, <1>4, <1>5, <1>6 DEF Concluded

LEMMA AdvancedType ==
  ASSUME TypeInv, NEW q \in HandlerRec, Shape(q), NEW r, r = Advanced(q)
  PROVE  r \in HandlerRec /\ Shape(r) /\ r.pc \in {"idle", "next"} /\ r.config = None
<1>1. issued \in Nat BY DEF TypeInv, TablesOK
<1>2. CASE Len(q.due) <= 1
  <2>1. r = Idle BY <1>2 DEF Advanced
  <2>2. QED BY <1>1, <2>1, IdleType, IdleShape
<1>3. CASE ~(Len(q.due) <= 1)
  <2> PICK due : due = Tail(q.due) OBVIOUS
  <2>1. r = [Idle EXCEPT !.pc = "next", !.op = q.op, !.due = due] BY <1>3 DEF Advanced
  <2>2. q.due \in Seq(Jobs) /\ Len(q.due) \in Nat /\ q.op \in Ops BY DEF HandlerRec
  <2>3. q.due # <<>> BY <1>3, <2>2
  <2>4. due \in Seq(Jobs) BY <2>2, <2>3
  <2>5. due # <<>>
    <3>1. Len(due) = Len(q.due) - 1 BY <2>2, <2>3
    <3>2. Len(due) # 0 BY <1>3, <2>2, <3>1
    <3>3. QED BY <3>2
  <2>6. q.op \in {"execute", "runNow"} BY <2>3 DEF Shape
  <2>7. "next" \in Pcs BY DEF Pcs
  <2>8. /\ r \in HandlerRec /\ r.pc = "next" /\ r.op = q.op /\ r.due = due
        /\ r.config = None /\ r.rotated = NoToken
    <3> PICK op : op = q.op OBVIOUS
    <3> PICK idle : idle = Idle OBVIOUS
    <3> PICK waiting : waiting = [idle EXCEPT !.pc = "next"] OBVIOUS
    <3> PICK going : going = [waiting EXCEPT !.op = op] OBVIOUS
    <3>1. op \in Ops BY <2>2
    <3>2. /\ idle \in HandlerRec /\ idle.config = None /\ idle.rotated = NoToken BY IdleType
    <3>3. /\ waiting \in HandlerRec /\ waiting.pc = "next"
          /\ waiting.config = None /\ waiting.rotated = NoToken
      BY <2>7, <3>2 DEF HandlerRec
    <3>4. /\ going \in HandlerRec /\ going.pc = "next" /\ going.op = op
          /\ going.config = None /\ going.rotated = NoToken
      BY <3>1, <3>3 DEF HandlerRec
    <3>5. r = [Idle EXCEPT !.pc = "next", !.op = op, !.due = due] BY <2>1
    <3>6. r = [going EXCEPT !.due = due] BY <3>2, <3>5 DEF HandlerRec
    <3>7. QED BY <2>4, <3>4, <3>6 DEF HandlerRec
  <2>9. Shape(r) BY <1>1, <2>5, <2>6, <2>8 DEF Shape, Exporting, Granted, Reading, NoToken
  <2>10. QED BY <2>8, <2>9
<1>4. QED BY <1>2, <1>3

\* The outcome of an export is on its schedule; or the request is over, or its list
\* goes on.
LEMMA RecordStep ==
  ASSUME TypeInv, NEW h \in Handlers, Record(h), NEW q, q = handler[h]
  PROVE  /\ UNCHANGED <<workload, cred, honoured, issued, cookie, clockVars,
                        overlapped, doubtful>>
         /\ q.pc = "record" /\ schedules' \in [Schedules -> Row \cup {None}]
         /\ \E r \in HandlerRec :
              /\ handler' = [handler EXCEPT ![h] = r] /\ Shape(r) /\ Onward(q, r)
              /\ \/ r.pc \in {"idle", "next"} /\ r.config = None
                 \/ Concluded(q, r) /\ r.result = q.result
<1>1. /\ q \in HandlerRec /\ Shape(q) /\ q.pc = "record" /\ issued \in Nat
      /\ UNCHANGED <<workload, cred, honoured, issued, cookie, clockVars, overlapped, doubtful>>
  BY HandlerType DEF Record
<1> PICK s : s = Head(q.due).id OBVIOUS
<1>2. /\ q.due # <<>> /\ q.config = None /\ q.rotated = NoToken
      /\ q.op \in {"execute", "runNow", "check"}
  BY <1>1 DEF Shape, Exporting, Granted, Reading
<1>3. Head(q.due) \in Jobs BY <1>1, <1>2 DEF HandlerRec
<1>4. s \in Schedules BY <1>3 DEF Jobs
<1>5. CASE schedules[s] = None
  <2>1. handler' = [handler EXCEPT ![h] = Idle] /\ schedules' = schedules
    BY <1>5 DEF Record
  <2>2. Shape(Idle) BY <1>1, IdleShape
  <2>3. Onward(q, Idle) BY IdleType DEF Onward
  <2>4. QED BY <1>1, <2>1, <2>2, <2>3, IdleType DEF TypeInv, TablesOK
<1>6. CASE schedules[s] # None
  <2> PICK marks : marks = (Head(q.due).destination = "cloud" /\ q.result # "unseen") OBVIOUS
  <2> PICK r : r = IF marks THEN [q EXCEPT !.pc = "mark"] ELSE Advanced(q) OBVIOUS
  <2>1. schedules' = [schedules EXCEPT ![s].lastRunAt = now] /\ handler' = [handler EXCEPT ![h] = r]
    BY <1>6 DEF Record
  <2>2. schedules' \in [Schedules -> Row \cup {None}]
    <3> PICK row : row = [schedules[s] EXCEPT !.lastRunAt = now] OBVIOUS
    <3>1. schedules[s] \in Row /\ now \in 0..MaxTime BY <1>4, <1>6 DEF TypeInv, TablesOK
    <3>2. row \in Row BY <3>1 DEF Row
    <3>3. schedules' = [schedules EXCEPT ![s] = row] BY <2>1
    <3>4. QED BY <3>2, <3>3 DEF TypeInv, TablesOK
  <2>3. CASE marks
    <3>1. "mark" \in Pcs BY DEF Pcs
    <3>2. /\ r \in HandlerRec /\ r.pc = "mark" /\ r.op = q.op /\ r.due = q.due
          /\ r.config = q.config /\ r.rotated = q.rotated /\ r.result = q.result
      BY <1>1, <2>3, <3>1 DEF HandlerRec
    <3>3. Shape(r)
      BY <1>1, <1>2, <2>3, <3>2 DEF Shape, Exporting, Granted, Reading
    <3>4. Onward(q, r) BY <1>1, <3>2 DEF Onward, Unsettled
    <3>5. QED BY <1>1, <1>2, <2>1, <2>2, <3>2, <3>3, <3>4 DEF Concluded
  <2>4. CASE ~marks
    <3>1. r = Advanced(q) BY <2>4
    <3>2. r \in HandlerRec /\ Shape(r) /\ r.pc \in {"idle", "next"} /\ r.config = None
      BY <1>1, <3>1, AdvancedType
    <3>3. Onward(q, r) BY <3>2 DEF Onward
    <3>4. QED BY <1>1, <2>1, <2>2, <3>2, <3>3
  <2>5. QED BY <2>3, <2>4
<1>7. QED BY <1>5, <1>6

LEMMA MarkStep ==
  ASSUME TypeInv, NEW h \in Handlers, Mark(h), NEW q, q = handler[h]
  PROVE  /\ UNCHANGED <<workload, schedules, honoured, issued, cookie, clockVars, doubtful>>
         /\ q.pc = "mark" /\ OfCredential(q)
         /\ cred = None => cred' = None
         /\ cred # None =>
              /\ cred' \in [config: Config, health: Health] /\ cred' # None
              /\ cred'.config = cred.config /\ cred'.health = Verdict(q.result)
         /\ \E r \in HandlerRec :
              /\ Settles(h, r) /\ Shape(r) /\ r.pc \in {"idle", "next"} /\ r.config = None
<1>1. /\ q \in HandlerRec /\ Shape(q) /\ q.pc = "mark"
      /\ UNCHANGED <<workload, schedules, honoured, issued, cookie, clockVars, doubtful>>
      /\ cred = None => cred' = None
  BY HandlerType DEF Mark
<1> PICK r : r = Advanced(q) OBVIOUS
<1>2. r \in HandlerRec /\ Shape(r) /\ r.pc \in {"idle", "next"} /\ r.config = None
  BY <1>1, AdvancedType
<1>3. Settles(h, r) BY DEF Mark
<1>4. OfCredential(q) BY <1>1 DEF OfCredential, Shape
<1>5. ASSUME cred # None
      PROVE  /\ cred' \in [config: Config, health: Health] /\ cred' # None
             /\ cred'.config = cred.config /\ cred'.health = Verdict(q.result)
  <2>1. cred' = [cred EXCEPT !.health = Verdict(q.result)] BY <1>5 DEF Mark
  <2>2. cred \in [config: Config, health: Health] BY <1>5 DEF TypeInv, TablesOK
  <2>3. Verdict(q.result) \in Health BY <1>1 DEF HandlerRec, Shape, Outcomes, Verdict, Health
  <2>4. QED BY <2>1, <2>2, <2>3, ParamAssumption
<1>6. QED BY <1>1, <1>2, <1>3, <1>4, <1>5

LEMMA UpsertedType ==
  ASSUME TypeInv, NEW config \in Config, NEW row, row = Upserted(config)
  PROVE  /\ row \in [config: Config, health: Health] /\ row # None /\ row.config = config
         /\ row.health = IF cred = None THEN "unknown" ELSE cred.health
<1> PICK health : health = IF cred = None THEN "unknown" ELSE cred.health OBVIOUS
<1>1. health \in Health BY DEF TypeInv, TablesOK, Health
<1>2. row = [config |-> config, health |-> health] BY DEF Upserted
<1>3. QED BY <1>1, <1>2, ParamAssumption

\* A row is written over with what the handler has in hand, and the request is done.
Overwrites(h) == StartWrite(h) \/ SaveWrite(h)

LEMMA OverwriteStep ==
  ASSUME TypeInv, NEW h \in Handlers, Overwrites(h), NEW q, q = handler[h]
  PROVE  /\ UNCHANGED <<workload, schedules, honoured, issued, clockVars, overlapped, doubtful>>
         /\ q.pc \in {"startWrite", "saveWrite"} /\ q.config \in Config
         /\ StartWrite(h) => q.pc = "startWrite"
         /\ cookie' \in Clients \cup {None}
         /\ cred' \in [config: Config, health: Health] /\ cred' # None /\ cred'.config = q.config
         /\ cred'.health = IF cred = None THEN "unknown" ELSE cred.health
         /\ handler' = [handler EXCEPT ![h] = Idle]
<1>1. /\ q \in HandlerRec /\ Shape(q) /\ q.pc \in {"startWrite", "saveWrite"}
      /\ StartWrite(h) => q.pc = "startWrite"
      /\ UNCHANGED <<workload, schedules, honoured, issued, clockVars, overlapped, doubtful>>
      /\ cred' = Upserted(q.config) /\ handler' = [handler EXCEPT ![h] = Idle]
      /\ cookie' = q.config.client \/ cookie' = cookie
  BY HandlerType DEF Overwrites, StartWrite, SaveWrite, history
<1>2. q.config \in Config BY <1>1, HandlerType DEF Shape, Reading
<1>3. cookie' \in Clients \cup {None} BY <1>1, <1>2 DEF Config, TypeInv, TablesOK
<1>4. /\ cred' \in [config: Config, health: Health] /\ cred' # None /\ cred'.config = q.config
      /\ cred'.health = IF cred = None THEN "unknown" ELSE cred.health
  <2> PICK row : row = Upserted(q.config) OBVIOUS
  <2>1. /\ row \in [config: Config, health: Health] /\ row # None /\ row.config = q.config
        /\ row.health = IF cred = None THEN "unknown" ELSE cred.health
    BY <1>2, UpsertedType
  <2>2. QED BY <1>1, <2>1
<1>5. QED BY <1>1, <1>2, <1>3, <1>4

LEMMA ExchangeStep ==
  ASSUME TypeInv, NEW h \in Handlers, Exchange(h), NEW q, q = handler[h]
  PROVE  /\ UNCHANGED <<workload, schedules, cred, cookie, clockVars, overlapped, doubtful>>
         /\ q.pc = "exchange" /\ issued' = issued + 1 /\ issued' \in 0..MaxTokens
         /\ honoured' = honoured \cup {<<q.config.client, issued + 1>>}
         /\ honoured' \subseteq Clients \X (1..issued')
         /\ \E r \in HandlerRec :
              /\ handler' = [handler EXCEPT ![h] = r] /\ Shape(r)' /\ Onward(q, r)
              /\ r.pc = "store" /\ r.config = q.config /\ r.rotated = issued + 1
              /\ r.op = q.op /\ r.due = q.due
<1>1. /\ q \in HandlerRec /\ Shape(q) /\ q.pc = "exchange" /\ issued \in 0..MaxTokens
      /\ issued \in Nat /\ MaxTokens \in Nat
  BY HandlerType, ParamAssumption DEF Exchange, TypeInv, TablesOK
<1>2. /\ UNCHANGED <<workload, schedules, cred, cookie, clockVars, overlapped, doubtful>>
      /\ q.config.client = q.code /\ issued < MaxTokens /\ issued' = issued + 1
      /\ honoured' = honoured \cup {<<q.code, issued + 1>>}
  BY DEF Exchange, history
<1> PICK new : new = issued + 1 OBVIOUS
<1> PICK r : r = [q EXCEPT !.pc = "store", !.rotated = new] OBVIOUS
<1>3. handler' = [handler EXCEPT ![h].pc = "store", ![h].rotated = new] BY DEF Exchange
<1>4. handler' = [handler EXCEPT ![h] = r] BY <1>1, <1>3 DEF TypeInv
<1>5. new \in 0..MaxTokens /\ new # NoToken /\ "store" \in Pcs
  BY <1>1, <1>2 DEF Pcs, NoToken
<1>6. /\ r \in HandlerRec /\ r.pc = "store" /\ r.op = q.op /\ r.due = q.due
      /\ r.config = q.config /\ r.rotated = new
  BY <1>1, <1>5 DEF HandlerRec
<1>7. q.config # None /\ q.config.token \in Nat /\ q.config \in Config /\ q.config.token <= issued
  BY <1>1, HandlerType DEF Shape, Reading
<1>8. r.config.token <= issued' /\ r.rotated <= issued' BY <1>1, <1>2, <1>6, <1>7
<1>9. Shape(r)'
  BY <1>1, <1>2, <1>5, <1>6, <1>7, <1>8 DEF Shape, Exporting, Granted, Reading, Mix
<1>10. Onward(q, r) BY <1>1, <1>6 DEF Onward, Unsettled
<1>11. honoured' \subseteq Clients \X (1..issued')
  <2>1. honoured \subseteq Clients \X (1..issued) /\ q.code \in Clients
    BY <1>2, <1>7 DEF TypeInv, TablesOK, Config
  <2>2. QED BY <1>1, <1>2, <2>1
<1>12. issued' \in 0..MaxTokens BY <1>2, <1>5
<1>13. QED BY <1>1, <1>2, <1>4, <1>6, <1>9, <1>10, <1>11, <1>12

LEMMA StoreStep ==
  ASSUME TypeInv, NEW h \in Handlers, Store(h), NEW q, q = handler[h]
  PROVE  /\ UNCHANGED <<workload, schedules, honoured, issued, cookie, clockVars>>
         /\ q.pc = "store" /\ q.config \in Config /\ OfCredential(q)
         /\ cred = None => cred' = None
         /\ cred # None =>
              /\ cred' \in [config: Config, health: Health] /\ cred' # None
              /\ cred'.config.client = q.config.client /\ cred'.config.token = q.rotated
              /\ cred'.health = "ok"
         /\ Settles(h, Idle)
         /\ ~doubtful' => ~doubtful \/ (h \notin overlapped /\ cred # None)
<1>1. /\ q \in HandlerRec /\ Shape(q) /\ q.pc = "store"
      /\ UNCHANGED <<workload, schedules, honoured, issued, cookie, clockVars>>
      /\ cred = None => cred' = None
      /\ Settles(h, Idle)
  BY HandlerType DEF Store
<1>2. q.config \in Config /\ q.due = <<>>
  BY <1>1, HandlerType DEF Shape, Reading
<1>3. OfCredential(q) BY <1>1, <1>2 DEF OfCredential
<1>4. ASSUME cred # None
      PROVE  /\ cred' \in [config: Config, health: Health] /\ cred' # None
             /\ cred'.config.client = q.config.client /\ cred'.config.token = q.rotated
             /\ cred'.health = "ok"
  <2> PICK config : config = [client |-> q.config.client, token |-> q.rotated,
                              pending |-> FALSE, previous |-> NoToken]
    OBVIOUS
  <2>1. cred' = [config |-> config, health |-> "ok"] BY <1>4 DEF Store
  <2>2. q.rotated \in 0..MaxTokens /\ NoToken \in 0..MaxTokens
    BY <1>1, ParamAssumption DEF HandlerRec, NoToken
  <2>3. config \in Config /\ config.client = q.config.client /\ config.token = q.rotated
    BY <1>2, <2>2 DEF Config
  <2>4. cred' \in [config: Config, health: Health]
    <3> PICK health : health = "ok" OBVIOUS
    <3>1. health \in Health BY DEF Health
    <3>2. cred' = [config |-> config, health |-> health] BY <2>1
    <3>3. QED BY <2>3, <3>1, <3>2
  <2>5. QED BY <2>1, <2>3, <2>4, ParamAssumption
<1>5. ~doubtful' => ~doubtful \/ (h \notin overlapped /\ cred # None)
  <2>1. doubtful' = (doubtful /\ (h \in overlapped \/ cred = None)) BY DEF Store
  <2>2. QED BY <2>1
<1>6. QED BY <1>1, <1>2, <1>3, <1>4, <1>5

LEMMA GiveUpStep ==
  ASSUME TypeInv, NEW h \in Handlers, GiveUp(h), NEW q, q = handler[h]
  PROVE  /\ UNCHANGED tables /\ UNCHANGED <<overlapped, doubtful>> /\ q.pc = "exchange"
         /\ handler' = [handler EXCEPT ![h] = Idle]
BY DEF GiveUp, tables, clockVars, history
-----------------------------------------------------------------------------
(* What makes a handler come to the credential, and what leaves it alone.  *)

\* Handler h, free or between two exports of its list, goes on as r.
Arrival(h, r) ==
  /\ r \in HandlerRec /\ Shape(r) /\ Becomes(h, r)
  /\ handler[h].pc \in {"idle", "next"}
  /\ r.pc \in {"collect", "startWrite", "exchange", "saveWrite"}
  /\ r.pc = "exchange" => cred # None /\ r.config = cred.config
  /\ r.pc = "saveWrite" =>
       cred # None /\ r.config.client = cred.config.client /\ r.config.token = cred.config.token

\* What a step leaves alone when all it does is to start something.
Calm ==
  /\ UNCHANGED <<workload, cred, honoured, issued>>
  /\ schedules' \in [Schedules -> Row \cup {None}] /\ cookie' \in Clients \cup {None}
  /\ now' \in 0..MaxTime /\ lastCall' \in Nat /\ lastCall' <= Minute'

Arrives == Calm /\ \E h \in Handlers, r \in HandlerRec : Arrival(h, r)

Still == Calm /\ UNCHANGED <<handler, overlapped, byUpload, doubtful>>

LEMMA CalmType ==
  ASSUME TypeInv, UNCHANGED <<workload, schedules, cred, honoured, issued, now, lastCall>>,
         cookie' \in Clients \cup {None}
  PROVE  Calm
BY DEF TypeInv, TablesOK, Calm, Minute

\* A request that begins with a job list, or with none.
LEMMA BeginsType ==
  ASSUME TypeInv, NEW due \in Seq(Jobs), NEW op \in {"execute", "runNow", "check"},
         due # <<>> <=> op \in {"execute", "runNow"},
         NEW r, r = [Idle EXCEPT !.pc = "collect", !.op = op, !.due = due]
  PROVE  r \in HandlerRec /\ Shape(r) /\ r.pc = "collect"
<1>1. "collect" \in Pcs /\ op \in Ops /\ issued \in Nat BY DEF Pcs, Ops, TypeInv, TablesOK
<1>2. /\ r \in HandlerRec /\ r.pc = "collect" /\ r.op = op /\ r.due = due
      /\ r.config = None /\ r.rotated = NoToken
  BY <1>1, IdleType DEF HandlerRec
<1>3. Shape(r) BY <1>1, <1>2 DEF Shape, Exporting, Reading, Granted, NoToken
<1>4. QED BY <1>2, <1>3

\* The due list is not empty when there is something due.
LEMMA OrdersType ==
  ASSUME NEW S \in SUBSET Schedules, S # {}, NEW q \in Orders(S)
  PROVE  q \in Seq(S) /\ q # <<>>
<1>1. IsFiniteSet(S) BY ParamAssumption, FS_Subset
<1>2. Cardinality(S) \in Nat /\ Cardinality(S) # 0
  BY <1>1, FS_CardinalityType, FS_EmptySet
<1>3. q \in [1..Cardinality(S) -> S] BY DEF Orders
<1>4. q \in Seq(S) /\ Len(q) = Cardinality(S) BY <1>2, <1>3
<1>5. QED BY <1>2, <1>4

LEMMA JobType ==
  ASSUME TypeInv, NEW s \in Schedules, schedules[s] # None, NEW job, job = Job(s)
  PROVE  job \in Jobs
<1>1. schedules[s] \in Row BY DEF TypeInv, TablesOK
<1>2. schedules[s].destination \in Destinations BY <1>1 DEF Row
<1>3. QED BY <1>2 DEF Job, Jobs

LEMMA ExecuteStep ==
  ASSUME TypeInv, NEW h \in Handlers, Execute(h)
  PROVE  Arrives \/ Still
<1> PICK due : due = {s \in Enabled : IsDue(schedules[s])} OBVIOUS
<1>1. /\ UNCHANGED <<workload, schedules, cred, honoured, issued, cookie, now>>
      /\ handler[h].pc = "idle" /\ lastCall' = Minute
      /\ IF due = {} THEN UNCHANGED <<handler, overlapped, byUpload, doubtful>>
         ELSE \E q \in Orders(due) :
                Becomes(h, [Idle EXCEPT !.pc = "collect", !.op = "execute",
                              !.due = [i \in DOMAIN q |-> Job(q[i])]])
  BY DEF Execute
<1>2. Calm
  <2>1. now \in Nat /\ PerMinute \in Nat \ {0} BY ParamAssumption DEF TypeInv
  <2>2. Minute \in Nat BY <2>1 DEF Minute
  <2>3. Minute' = Minute BY <1>1 DEF Minute
  <2>4. lastCall' \in Nat /\ lastCall' <= Minute'
    <3> PICK minute : minute = Minute OBVIOUS
    <3>1. minute \in Nat /\ lastCall' = minute /\ Minute' = minute BY <1>1, <2>2, <2>3
    <3>2. minute <= minute BY <3>1
    <3>3. QED BY <3>1, <3>2
  <2>5. schedules' = schedules /\ cookie' = cookie /\ now' = now BY <1>1
  <2>6. QED BY <1>1, <2>4, <2>5 DEF Calm, TypeInv, TablesOK
<1>3. CASE due = {} BY <1>1, <1>2, <1>3 DEF Still
<1>4. CASE due # {}
  <2>1. due \in SUBSET Schedules /\ \A s \in due : schedules[s] # None
    BY DEF Enabled
  <2>2. PICK q \in Orders(due) :
          Becomes(h, [Idle EXCEPT !.pc = "collect", !.op = "execute",
                        !.due = [i \in DOMAIN q |-> Job(q[i])]])
    BY <1>1, <1>4
  <2>3. q \in Seq(due) /\ q # <<>> BY <1>4, <2>1, OrdersType
  <2> PICK jobs : jobs = [i \in DOMAIN q |-> Job(q[i])] OBVIOUS
  <2>4. ASSUME NEW i \in 1..Len(q) PROVE Job(q[i]) \in Jobs
    <3>1. q[i] \in due BY <2>3
    <3>2. q[i] \in Schedules /\ schedules[q[i]] # None BY <2>1, <3>1
    <3>3. QED BY <3>2, JobType
  <2>5. DOMAIN q = 1..Len(q) /\ Len(q) \in Nat BY <2>3
  <2>6. jobs = [i \in 1..Len(q) |-> Job(q[i])] BY <2>5
  <2>7. jobs \in [1..Len(q) -> Jobs] BY <2>4, <2>6
  <2>8. jobs \in Seq(Jobs) BY <2>5, <2>7
  <2>9. jobs # <<>>
    <3>1. Len(q) # 0 BY <2>3
    <3>2. Len(jobs) = Len(q) BY <2>5, <2>6
    <3>3. QED BY <3>1, <3>2
  <2> PICK op \in {"execute", "runNow", "check"} : op = "execute" OBVIOUS
  <2> PICK r : r = [Idle EXCEPT !.pc = "collect", !.op = op, !.due = jobs] OBVIOUS
  <2>10. r \in HandlerRec /\ Shape(r) /\ r.pc = "collect"
    <3>1. op \in {"execute", "runNow"} OBVIOUS
    <3>2. QED BY <2>8, <2>9, <3>1, BeginsType
  <2>11. Becomes(h, r) BY <2>2
  <2>12. Arrival(h, r) BY <1>1, <2>10, <2>11 DEF Arrival
  <2>13. QED BY <1>2, <2>10, <2>12 DEF Arrives
<1>5. QED BY <1>3, <1>4

LEMMA RunNowStep ==
  ASSUME TypeInv, NEW h \in Handlers, NEW s \in Schedules, RunNow(h, s)
  PROVE  Arrives
<1> PICK job : job = Job(s) OBVIOUS
<1> PICK op \in {"execute", "runNow", "check"} : op = "runNow" OBVIOUS
<1> PICK due : due = <<job>> OBVIOUS
<1> PICK r : r = [Idle EXCEPT !.pc = "collect", !.op = op, !.due = due] OBVIOUS
<1>1. /\ handler[h].pc = "idle" /\ schedules[s] # None /\ Becomes(h, r)
      /\ UNCHANGED <<workload, schedules, cred, honoured, issued, cookie, now, lastCall>>
  BY DEF RunNow, Takes, clockVars
<1>2. job \in Jobs BY <1>1, JobType
<1>3. due \in Seq(Jobs) /\ due # <<>> /\ op \in {"execute", "runNow"} BY <1>2
<1>4. r \in HandlerRec /\ Shape(r) /\ r.pc = "collect" BY <1>3, BeginsType
<1>5. Calm BY <1>1, CalmType DEF TypeInv, TablesOK
<1>6. QED BY <1>1, <1>4, <1>5 DEF Arrives, Arrival

LEMMA CheckStep ==
  ASSUME TypeInv, NEW h \in Handlers, Check(h)
  PROVE  Arrives
<1> PICK op \in {"execute", "runNow", "check"} : op = "check" OBVIOUS
<1> PICK due : due = Idle.due OBVIOUS
<1> PICK r : r = [Idle EXCEPT !.pc = "collect", !.op = op] OBVIOUS
<1>1. /\ handler[h].pc = "idle" /\ Becomes(h, r)
      /\ UNCHANGED <<workload, schedules, cred, honoured, issued, cookie, now, lastCall>>
  BY DEF Check, Takes, clockVars
<1>2. r = [Idle EXCEPT !.pc = "collect", !.op = op, !.due = due] OBVIOUS
<1>3. due = <<>> /\ due \in Seq(Jobs) /\ ~(op \in {"execute", "runNow"}) BY IdleType
<1>4. r \in HandlerRec /\ Shape(r) /\ r.pc = "collect" BY <1>2, <1>3, BeginsType
<1>5. Calm BY <1>1, CalmType DEF TypeInv, TablesOK
<1>6. QED BY <1>1, <1>4, <1>5 DEF Arrives, Arrival

LEMMA StartStep ==
  ASSUME TypeInv, NEW h \in Handlers, NEW c \in Clients, Start(h, c)
  PROVE  Arrives
<1> PICK previous : previous = IF cred = None THEN NoToken ELSE cred.config.token OBVIOUS
<1> PICK config : config = [client |-> c, token |-> NoToken, pending |-> TRUE,
                            previous |-> previous]
  OBVIOUS
<1> PICK r : r = [Idle EXCEPT !.pc = "startWrite", !.op = "start", !.config = config] OBVIOUS
<1>1. /\ handler[h].pc = "idle" /\ Becomes(h, r)
      /\ UNCHANGED <<workload, schedules, cred, honoured, issued, cookie, now, lastCall>>
  BY DEF Start, Takes, clockVars
<1>2. previous \in 0..MaxTokens /\ NoToken \in 0..MaxTokens /\ NoToken <= issued
  BY ParamAssumption DEF TypeInv, TablesOK, Config, NoToken
<1>3. config \in Config /\ config.token = NoToken /\ config.token <= issued
  BY <1>2 DEF Config
<1>4. /\ r \in HandlerRec /\ r.pc = "startWrite" /\ r.op = "start" /\ r.config = config
      /\ r.due = <<>> /\ r.rotated = NoToken
  BY <1>3, IdleType DEF HandlerRec, Pcs, Ops
<1>5. Shape(r)
  BY <1>2, <1>3, <1>4, IdleType DEF Shape, Exporting, Reading, Granted, NoToken
<1>6. Calm BY <1>1, CalmType DEF TypeInv, TablesOK
<1>7. QED BY <1>1, <1>4, <1>5, <1>6 DEF Arrives, Arrival

LEMMA CallbackStep ==
  ASSUME TypeInv, NEW h \in Handlers, Callback(h)
  PROVE  Arrives \/ Still
<1>1. /\ handler[h].pc = "idle" /\ cookie' = None /\ cookie \in Clients
      /\ UNCHANGED <<workload, schedules, cred, honoured, issued, now, lastCall>>
  BY DEF Callback, clockVars, TypeInv, TablesOK
<1>2. Calm BY <1>1, CalmType
<1>3. CASE UNCHANGED <<handler, overlapped, byUpload, doubtful>> BY <1>2, <1>3 DEF Still
<1>4. CASE ~UNCHANGED <<handler, overlapped, byUpload, doubtful>>
  <2> PICK config : config = cred.config OBVIOUS
  <2> PICK code : code = cookie OBVIOUS
  <2> PICK r : r = [Idle EXCEPT !.pc = "exchange", !.op = "callback", !.config = config,
                      !.code = code]
    OBVIOUS
  <2>1. cred # None /\ Becomes(h, r) BY <1>4 DEF Callback
  <2>2. config \in Config /\ config.token <= issued BY <2>1 DEF TypeInv, TablesOK
  <2>3. code \in Clients \cup {None} BY <1>1
  <2>4. /\ r \in HandlerRec /\ r.pc = "exchange" /\ r.op = "callback" /\ r.config = config
        /\ r.due = <<>> /\ r.rotated = NoToken
    BY <2>2, <2>3, IdleType DEF HandlerRec, Pcs, Ops
  <2>5. NoToken <= issued BY DEF TypeInv, TablesOK, NoToken
  <2>6. Shape(r) BY <2>2, <2>4, <2>5, IdleType DEF Shape, Exporting, Reading, Granted
  <2>7. QED BY <1>1, <1>2, <2>1, <2>4, <2>6 DEF Arrives, Arrival
<1>5. QED BY <1>3, <1>4

LEMMA SaveStep ==
  ASSUME TypeInv, NEW h \in Handlers, Save(h)
  PROVE  Arrives
<1> PICK config : config = [cred.config EXCEPT !.pending = FALSE, !.previous = NoToken] OBVIOUS
<1> PICK r : r = [Idle EXCEPT !.pc = "saveWrite", !.op = "save", !.config = config] OBVIOUS
<1>1. /\ handler[h].pc = "idle" /\ cred # None /\ Becomes(h, r)
      /\ UNCHANGED <<workload, schedules, cred, honoured, issued, cookie, now, lastCall>>
  BY DEF Save, Takes, clockVars
<1>2. /\ config \in Config /\ config.token <= issued
      /\ config.client = cred.config.client /\ config.token = cred.config.token
  <2>1. cred.config \in Config /\ cred.config.token <= issued BY <1>1 DEF TypeInv, TablesOK
  <2>2. NoToken \in 0..MaxTokens BY ParamAssumption DEF NoToken
  <2>3. QED BY <2>1, <2>2 DEF Config
<1>3. /\ r \in HandlerRec /\ r.pc = "saveWrite" /\ r.op = "save" /\ r.config = config
      /\ r.due = <<>> /\ r.rotated = NoToken
  BY <1>2, IdleType DEF HandlerRec, Pcs, Ops
<1>4. Shape(r)
  <2>1. NoToken <= issued BY DEF TypeInv, TablesOK, NoToken
  <2>2. QED BY <1>2, <1>3, <2>1, IdleType DEF Shape, Exporting, Reading, Granted
<1>5. Calm BY <1>1, CalmType DEF TypeInv, TablesOK
<1>6. QED BY <1>1, <1>2, <1>3, <1>4, <1>5 DEF Arrives, Arrival

LEMMA ProceedStep ==
  ASSUME TypeInv, NEW h \in Handlers, Proceed(h)
  PROVE  Arrives
<1> PICK q : q = handler[h] OBVIOUS
<1> PICK r : r = [q EXCEPT !.pc = "collect"] OBVIOUS
<1>1. /\ q.pc = "next" /\ Becomes(h, r) /\ q \in HandlerRec /\ Shape(q)
      /\ UNCHANGED <<workload, schedules, cred, honoured, issued, cookie, now, lastCall>>
  BY HandlerType DEF Proceed, clockVars
<1>2. "collect" \in Pcs BY DEF Pcs
<1>3. /\ r \in HandlerRec /\ r.pc = "collect" /\ r.op = q.op /\ r.due = q.due
      /\ r.config = q.config /\ r.rotated = q.rotated
  BY <1>1, <1>2 DEF HandlerRec
<1>4. Shape(r) BY <1>1, <1>3 DEF Shape, Exporting, Reading, Granted
<1>5. Calm BY <1>1, CalmType DEF TypeInv, TablesOK
<1>6. QED BY <1>1, <1>3, <1>4, <1>5 DEF Arrives, Arrival

LEMMA EditStep ==
  ASSUME TypeInv, NEW h \in Handlers, NEW s \in Schedules, Edit(h, s)
  PROVE  Still
<1>1. /\ UNCHANGED <<workload, cred, honoured, issued, cookie, handler, now, lastCall,
                     overlapped, byUpload, doubtful>>
  BY DEF Edit, clockVars
<1>2. schedules \in [Schedules -> Row \cup {None}] BY DEF TypeInv, TablesOK
<1>3. schedules' \in [Schedules -> Row \cup {None}]
  <2>1. CASE schedules' = [schedules EXCEPT ![s] = None] BY <1>2, <2>1
  <2>2. CASE schedules' # [schedules EXCEPT ![s] = None]
    <3> PICK last : last = IF schedules[s] = None THEN Never ELSE schedules[s].lastRunAt
      OBVIOUS
    <3>1. PICK b \in Bodies :
            schedules' = [schedules EXCEPT ![s] =
              [enabled |-> b.enabled, time |-> b.time, destination |-> b.destination,
               lastRunAt |-> last]]
      BY <2>2 DEF Edit
    <3>2. last \in 0..MaxTime BY <1>2, ParamAssumption DEF Row, Never
    <3>3. b.enabled \in BOOLEAN /\ b.time \in 0..Day - 1 /\ b.destination \in Destinations
      BY MixType DEF Bodies
    <3> PICK row : row = [enabled |-> b.enabled, time |-> b.time,
                          destination |-> b.destination, lastRunAt |-> last]
      OBVIOUS
    <3>4. row \in Row BY <3>2, <3>3 DEF Row
    <3>5. QED BY <1>2, <3>1, <3>4
  <2>3. QED BY <2>1, <2>2
<1>4. Calm BY <1>1, <1>3 DEF Calm, TypeInv, TablesOK, Minute
<1>5. QED BY <1>1, <1>4 DEF Still

LEMMA TickStep == ASSUME TypeInv, Tick PROVE Still
<1>1. /\ now' = now + 1 /\ now < MaxTime
      /\ UNCHANGED <<workload, schedules, cred, honoured, issued, cookie, handler, lastCall,
                     overlapped, byUpload, doubtful>>
  BY DEF Tick, history
<1>2. now \in Nat /\ lastCall \in Nat /\ lastCall <= Minute /\ PerMinute \in Nat \ {0}
  BY ParamAssumption DEF TypeInv
<1>3. now \div PerMinute <= (now + 1) \div PerMinute BY <1>2
<1>4. lastCall' <= Minute' BY <1>1, <1>2, <1>3 DEF Minute
<1>5. now' \in 0..MaxTime BY <1>1, <1>2, ParamAssumption DEF TypeInv
<1>6. Calm BY <1>1, <1>4, <1>5 DEF Calm, TypeInv, TablesOK
<1>7. QED BY <1>1, <1>6 DEF Still
-----------------------------------------------------------------------------
(* Type correctness.                                                       *)

\* A handler moves, and what it changes in the tables is as typed.
LEMMA ChangeType ==
  ASSUME TypeInv, NEW h \in Handlers, NEW r \in HandlerRec,
         handler' = [handler EXCEPT ![h] = r], workload' = workload,
         TablesOK', issued <= issued', Shape(r)', UNCHANGED clockVars
  PROVE  TypeInv'
<1>1. issued' \in Nat BY DEF TablesOK
<1>2. handler' \in [Handlers -> HandlerRec] /\ \A g \in Handlers : Shape(handler[g])'
  BY <1>1, HandlersStep
<1>3. QED BY <1>2 DEF TypeInv, clockVars, Minute

\* Only the row of the credential changes, or the cookie.
LEMMA CredType ==
  ASSUME TypeInv, NEW h \in Handlers, NEW r \in HandlerRec,
         handler' = [handler EXCEPT ![h] = r], Shape(r),
         UNCHANGED <<workload, schedules, honoured, issued, clockVars>>,
         cookie' \in Clients \cup {None},
         cred' = None \/ (cred' \in [config: Config, health: Health]
                            /\ cred'.config.token <= issued)
  PROVE  TypeInv'
<1>1. TablesOK' BY DEF TypeInv, TablesOK
<1>2. issued' \in Nat /\ issued <= issued' BY DEF TypeInv, TablesOK
<1>3. Shape(r)' BY <1>2, ShapeKept
<1>4. QED BY <1>1, <1>2, <1>3, ChangeType

LEMMA ArrivesType == ASSUME TypeInv, Arrives PROVE TypeInv'
<1>1. Calm BY DEF Arrives
<1>2. PICK h \in Handlers, r \in HandlerRec : Arrival(h, r) BY DEF Arrives
<1>3. handler' = [handler EXCEPT ![h] = r] /\ Shape(r) BY <1>2 DEF Arrival, Becomes
<1>4. workload' = workload /\ issued' = issued /\ issued \in Nat BY <1>1 DEF Calm, TypeInv, TablesOK
<1>5. issued' \in Nat /\ issued <= issued' BY <1>4
<1>6. Shape(r)' BY <1>3, <1>4, <1>5, ShapeKept
<1>7. handler' \in [Handlers -> HandlerRec] /\ \A g \in Handlers : Shape(handler[g])'
  BY <1>3, <1>4, <1>5, <1>6, HandlersStep
<1>8. TablesOK' BY <1>1 DEF Calm, TypeInv, TablesOK
<1>9. QED BY <1>1, <1>7, <1>8 DEF TypeInv, Calm

LEMMA StillType == ASSUME TypeInv, Still PROVE TypeInv'
<1>1. TablesOK' BY DEF Still, Calm, TypeInv, TablesOK
<1>2. \A h \in Handlers : Shape(handler[h])' BY DEF Still, Calm, TypeInv, Shape, Mix
<1>3. QED BY <1>1, <1>2 DEF TypeInv, Still, Calm

\* The steps no request takes, and the one that changes nothing but the row.
Ungoverned ==
  \/ \E h \in Handlers : Delete(h)
  \/ Revoke \/ Crash

LEMMA UngovernedStep ==
  ASSUME TypeInv, Ungoverned
  PROVE  /\ UNCHANGED <<workload, schedules, issued, cookie, clockVars, overlapped, byUpload>>
         /\ \/ cred' = None /\ UNCHANGED <<honoured, handler, doubtful>>
            \/ /\ UNCHANGED <<cred, handler>> /\ honoured' = {} /\ doubtful' = TRUE
               /\ \A h \in Handlers : handler[h].pc # "store"
            \/ /\ UNCHANGED <<cred, honoured>> /\ handler' = [h \in Handlers |-> Idle]
               /\ ~doubtful' => /\ ~doubtful
                                /\ Mix.provider = "box" =>
                                     \A h \in Handlers : handler[h].pc \notin Granted
<1>1. ASSUME NEW h \in Handlers, Delete(h)
      PROVE  /\ UNCHANGED <<workload, schedules, issued, cookie, clockVars, overlapped, byUpload>>
             /\ cred' = None /\ UNCHANGED <<honoured, handler, doubtful>>
  BY <1>1 DEF Delete, history
<1>2. CASE Revoke BY <1>2 DEF Revoke
<1>3. CASE Crash
  <2>1. /\ UNCHANGED <<workload, schedules, issued, cookie, clockVars, overlapped, byUpload>>
        /\ UNCHANGED <<cred, honoured>> /\ handler' = [h \in Handlers |-> Idle]
        /\ doubtful' = (doubtful \/ (Mix.provider = "box"
                                       /\ \E h \in Handlers : Holding(handler[h])))
    BY <1>3 DEF Crash
  <2>2. ASSUME NEW h \in Handlers, handler[h].pc \in Granted PROVE Holding(handler[h])
    <3> PICK q : q = handler[h] OBVIOUS
    <3>1. Shape(q) /\ q.pc \in Granted BY <2>2 DEF TypeInv
    <3>2. q.rotated # NoToken BY <3>1 DEF Shape
    <3>3. QED BY <3>1, <3>2 DEF Holding, Granted
  <2>3. ~doubtful' => /\ ~doubtful
                      /\ Mix.provider = "box" => \A h \in Handlers : handler[h].pc \notin Granted
    BY <2>1, <2>2
  <2>4. QED BY <2>1, <2>3
<1>4. QED BY <1>1, <1>2, <1>3 DEF Ungoverned

LEMMA UngovernedType == ASSUME TypeInv, Ungoverned PROVE TypeInv'
<1>1. /\ UNCHANGED <<workload, schedules, issued, cookie, clockVars>>
      /\ cred' = None \/ cred' = cred
      /\ honoured' \subseteq honoured
      /\ handler' = handler \/ handler' = [h \in Handlers |-> Idle]
  BY UngovernedStep
<1>2. TablesOK' BY <1>1 DEF TypeInv, TablesOK
<1>3. Idle \in HandlerRec /\ Shape(Idle) BY IdleType, IdleShape DEF TypeInv, TablesOK
<1>4. ASSUME NEW h \in Handlers, NEW q, q = handler'[h] PROVE q \in HandlerRec /\ Shape(q)
  BY <1>1, <1>3, <1>4 DEF TypeInv
<1>5. handler' \in [Handlers -> HandlerRec] BY <1>1, <1>3 DEF TypeInv
<1>6. ASSUME NEW h \in Handlers PROVE Shape(handler[h])'
  <2> PICK q : q = handler'[h] OBVIOUS
  <2>1. Shape(q) BY <1>4
  <2>2. QED BY <1>1, <2>1 DEF Shape, Mix
<1>7. QED BY <1>1, <1>2, <1>5, <1>6 DEF TypeInv, clockVars, Minute

LEMMA TypeOfStep == ASSUME TypeInv, NEW h \in Handlers, Step(h) PROVE TypeInv'
<1> PICK q : q = handler[h] OBVIOUS
<1>0. q \in HandlerRec /\ Shape(q) /\ issued \in Nat BY HandlerType
<1>1. CASE Collect(h)
  <2>1. UNCHANGED tables BY <1>1, CollectStep
  <2>2. PICK r \in HandlerRec : handler' = [handler EXCEPT ![h] = r] /\ Shape(r)
    BY <1>1, CollectStep
  <2>3. QED BY <2>1, <2>2, MoveType DEF tables
<1>2. CASE Ending(h)
  <2>1. UNCHANGED tables BY <1>2, EndingStep
  <2>2. PICK r \in HandlerRec : handler' = [handler EXCEPT ![h] = r] /\ Concluded(q, r)
    BY <1>2, EndingStep
  <2>3. QED BY <2>1, <2>2, MoveType DEF tables, Concluded
<1>3. CASE Grant(h)
  <2>1. UNCHANGED <<workload, schedules, cred, cookie, clockVars>> BY <1>3, GrantStep
  <2>2. PICK new \in 1..MaxTokens, r \in HandlerRec :
          /\ Answered(q.config.client, q.config.token, new)
          /\ handler' = [handler EXCEPT ![h] = r] /\ Shape(r)'
    BY <1>3, GrantStep
  <2>3. /\ issued' \in 0..MaxTokens /\ issued <= issued' /\ issued \in Nat
        /\ honoured' \subseteq Clients \X (1..issued')
    BY <2>2 DEF Answered, TypeInv, TablesOK
  <2>4. cred # None => cred.config.token <= issued'
    BY <2>3, ParamAssumption DEF TypeInv, TablesOK, Config
  <2>5. TablesOK' BY <2>1, <2>3, <2>4 DEF TypeInv, TablesOK
  <2>6. QED BY <2>1, <2>2, <2>3, <2>5, ChangeType
<1>4. CASE GrantRefused(h)
  <2>1. UNCHANGED tables BY <1>4, GrantRefusedStep
  <2>2. PICK r \in HandlerRec : handler' = [handler EXCEPT ![h] = r] /\ Concluded(q, r)
    BY <1>4, GrantRefusedStep
  <2>3. QED BY <2>1, <2>2, MoveType DEF tables, Concluded
<1>5. CASE GrantLost(h)
  <2>1. UNCHANGED <<workload, schedules, cred, cookie, clockVars>> BY <1>5, GrantLostStep
  <2>2. PICK r \in HandlerRec : handler' = [handler EXCEPT ![h] = r] /\ Shape(r)'
    BY <1>5, GrantLostStep
  <2>3. \/ UNCHANGED <<honoured, issued>>
        \/ \E new \in 1..MaxTokens : Answered(q.config.client, q.config.token, new)
    BY <1>5, GrantLostStep
  <2>4. /\ issued' \in 0..MaxTokens /\ issued <= issued' /\ issued \in Nat
        /\ honoured' \subseteq Clients \X (1..issued')
    <3>1. CASE UNCHANGED <<honoured, issued>> BY <1>0, <3>1 DEF TypeInv, TablesOK
    <3>2. CASE \E new \in 1..MaxTokens : Answered(q.config.client, q.config.token, new)
      BY <1>0, <3>2 DEF Answered
    <3>3. QED BY <2>3, <3>1, <3>2
  <2>5. cred # None => cred.config.token <= issued'
    BY <2>4, ParamAssumption DEF TypeInv, TablesOK, Config
  <2>6. TablesOK' BY <2>1, <2>4, <2>5 DEF TypeInv, TablesOK
  <2>7. QED BY <2>1, <2>2, <2>4, <2>6, ChangeType
<1>6. CASE Upload(h)
  <2>1. UNCHANGED tables BY <1>6, UploadStep
  <2>2. PICK r \in HandlerRec : handler' = [handler EXCEPT ![h] = r] /\ Shape(r)
    BY <1>6, UploadStep
  <2>3. QED BY <2>1, <2>2, MoveType DEF tables
<1>7. CASE Persist(h)
  <2>1. UNCHANGED tables BY <1>7, PersistStep
  <2>2. PICK r \in HandlerRec : handler' = [handler EXCEPT ![h] = r] /\ Shape(r)
    BY <1>7, PersistStep
  <2>3. QED BY <2>1, <2>2, MoveType DEF tables
<1>8. CASE PersistWrite(h)
  <2>1. UNCHANGED <<workload, schedules, honoured, issued, cookie, clockVars>>
    BY <1>8, PersistWriteStep
  <2>2. PICK r \in HandlerRec : handler' = [handler EXCEPT ![h] = r] /\ Concluded(q, r)
    BY <1>8, PersistWriteStep
  <2>3. cred' = None \/ (cred' \in [config: Config, health: Health]
                           /\ cred'.config.token <= issued)
    <3>1. q.rotated <= issued BY <1>0 DEF Shape
    <3>2. QED BY <1>8, <3>1, PersistWriteStep
  <2>4. cookie' \in Clients \cup {None} BY <2>1 DEF TypeInv, TablesOK
  <2>5. QED BY <2>1, <2>2, <2>3, <2>4, CredType DEF Concluded
<1>9. CASE Record(h)
  <2>1. UNCHANGED <<workload, cred, honoured, issued, cookie, clockVars>> BY <1>9, RecordStep
  <2>2. PICK r \in HandlerRec : handler' = [handler EXCEPT ![h] = r] /\ Shape(r)
    BY <1>9, RecordStep
  <2>3. schedules' \in [Schedules -> Row \cup {None}] BY <1>9, RecordStep
  <2>4. TablesOK' BY <2>1, <2>3 DEF TypeInv, TablesOK
  <2>5. issued' \in Nat /\ issued <= issued' BY <1>0, <2>1
  <2>6. Shape(r)' BY <2>1, <2>2, <2>5, ShapeKept
  <2>7. QED BY <2>1, <2>2, <2>4, <2>5, <2>6, ChangeType
<1>10. CASE Mark(h)
  <2>1. UNCHANGED <<workload, schedules, honoured, issued, cookie, clockVars>>
    BY <1>10, MarkStep
  <2>2. PICK r \in HandlerRec : handler' = [handler EXCEPT ![h] = r] /\ Shape(r)
    BY <1>10, MarkStep DEF Settles
  <2>3. cred' = None \/ (cred' \in [config: Config, health: Health]
                           /\ cred'.config.token <= issued)
    <3>1. cred # None => cred.config.token <= issued BY DEF TypeInv, TablesOK
    <3>2. QED BY <1>10, <3>1, MarkStep
  <2>4. cookie' \in Clients \cup {None} BY <2>1 DEF TypeInv, TablesOK
  <2>5. QED BY <2>1, <2>2, <2>3, <2>4, CredType
<1>11. CASE Overwrites(h)
  <2>1. /\ UNCHANGED <<workload, schedules, honoured, issued, clockVars>>
        /\ cookie' \in Clients \cup {None} /\ handler' = [handler EXCEPT ![h] = Idle]
        /\ cred' \in [config: Config, health: Health] /\ cred'.config = q.config
        /\ q.config \in Config
    BY <1>11, OverwriteStep
  <2>2. q.config.token <= issued BY <1>0, <2>1, ParamAssumption DEF Shape
  <2>3. Idle \in HandlerRec /\ Shape(Idle) BY <1>0, IdleType, IdleShape
  <2>4. QED BY <2>1, <2>2, <2>3, CredType
<1>12. CASE Exchange(h)
  <2>1. /\ UNCHANGED <<workload, schedules, cred, cookie, clockVars>>
        /\ issued' \in 0..MaxTokens /\ issued' = issued + 1
        /\ honoured' \subseteq Clients \X (1..issued')
    BY <1>12, ExchangeStep
  <2>2. PICK r \in HandlerRec : handler' = [handler EXCEPT ![h] = r] /\ Shape(r)'
    BY <1>12, ExchangeStep
  <2>3. issued <= issued' /\ (cred # None => cred.config.token <= issued')
    BY <1>0, <2>1, ParamAssumption DEF TypeInv, TablesOK, Config
  <2>4. TablesOK' BY <2>1, <2>3 DEF TypeInv, TablesOK
  <2>5. QED BY <2>1, <2>2, <2>3, <2>4, ChangeType
<1>13. CASE Store(h)
  <2>1. /\ UNCHANGED <<workload, schedules, honoured, issued, cookie, clockVars>>
        /\ handler' = [handler EXCEPT ![h] = Idle]
    BY <1>13, StoreStep DEF Settles
  <2>2. cred' = None \/ (cred' \in [config: Config, health: Health]
                           /\ cred'.config.token <= issued)
    <3>1. q.rotated <= issued BY <1>0 DEF Shape
    <3>2. QED BY <1>13, <3>1, StoreStep
  <2>3. cookie' \in Clients \cup {None} BY <2>1 DEF TypeInv, TablesOK
  <2>4. Idle \in HandlerRec /\ Shape(Idle) BY <1>0, IdleType, IdleShape
  <2>5. QED BY <2>1, <2>2, <2>3, <2>4, CredType
<1>14. CASE GiveUp(h)
  <2>1. UNCHANGED tables /\ handler' = [handler EXCEPT ![h] = Idle] BY <1>14, GiveUpStep
  <2>2. Idle \in HandlerRec /\ Shape(Idle) BY <1>0, IdleType, IdleShape
  <2>3. QED BY <2>1, <2>2, MoveType DEF tables
<1>15. CASE Proceed(h)
  <2>1. Arrives BY <1>15, ProceedStep
  <2>2. QED BY <2>1, ArrivesType
<1>16. QED
  BY <1>1, <1>2, <1>3, <1>4, <1>5, <1>6, <1>7, <1>8, <1>9, <1>10, <1>11, <1>12, <1>13,
     <1>14, <1>15
  DEF Step, Ending, Overwrites

\* Every step is one of a handler at work, one that starts something, one that
\* starts nothing, or one nobody governs.
LEMMA Kinds ==
  ASSUME TypeInv, Next
  PROVE  Arrives \/ Still \/ Ungoverned \/ \E h \in Handlers : Step(h)
<1>1. CASE Revoke \/ Crash BY <1>1 DEF Ungoverned
<1>2. CASE Tick BY <1>2, TickStep
<1>3. ASSUME NEW h \in Handlers,
             Execute(h) \/ Check(h) \/ Callback(h) \/ Save(h)
      PROVE  Arrives \/ Still
  BY <1>3, ExecuteStep, CheckStep, CallbackStep, SaveStep
<1>4. ASSUME NEW h \in Handlers, NEW s \in Schedules, RunNow(h, s) \/ Edit(h, s)
      PROVE  Arrives \/ Still
  BY <1>4, RunNowStep, EditStep
<1>5. ASSUME NEW h \in Handlers, NEW c \in Clients, Start(h, c) PROVE Arrives
  BY <1>5, StartStep
<1>6. ASSUME NEW h \in Handlers, Delete(h) PROVE Ungoverned
  BY <1>6 DEF Ungoverned
<1>7. QED BY <1>1, <1>2, <1>3, <1>4, <1>5, <1>6 DEF Next

LEMMA StutterType == ASSUME TypeInv, UNCHANGED vars PROVE Still
BY DEF vars, Still, Calm, TypeInv, TablesOK, Minute

LEMMA NextType == TypeInv /\ [Next]_vars => TypeInv'
<1> SUFFICES ASSUME TypeInv, [Next]_vars PROVE TypeInv'
  OBVIOUS
<1>1. CASE UNCHANGED vars BY <1>1, StutterType, StillType
<1>2. CASE Next BY <1>2, Kinds, ArrivesType, StillType, UngovernedType, TypeOfStep
<1>3. QED BY <1>1, <1>2

\* Every table, every request under way and the clock are as typed, at every
\* moment: whoever talks to the provider has read a credential first, and whoever
\* writes a token down was given it.
THEOREM TypeCorrect == Spec => []TypeOK
<1>1. Spec => []TypeInv BY InitType, NextType, PTL DEF Spec
<1>2. QED BY <1>1, TypeInvOK, PTL
-----------------------------------------------------------------------------
(* Who overlaps whom.                                                      *)

\* Two handlers that have to do with the credential both know of it, and so does
\* the verdict.
OverlapInv ==
  /\ \A g, h \in Handlers : g # h /\ OfCredential(handler[g]) /\ OfCredential(handler[h]) =>
       g \in overlapped /\ None \in overlapped
  /\ \A h \in Handlers : OfCredential(handler[h]) /\ h \in overlapped => None \in overlapped

Moved(h) ==
  \E r \in HandlerRec :
    handler' = [handler EXCEPT ![h] = r] /\ Onward(handler[h], r) /\ overlapped' = overlapped

Settled(h) ==
  /\ OfCredential(handler[h])
  /\ \E r \in HandlerRec : Settles(h, r) /\ r.pc \in {"idle", "next"}

LEMMA StepMoves ==
  ASSUME TypeInv, NEW h \in Handlers, Step(h)
  PROVE  Moved(h) \/ Settled(h) \/ Arrives
<1> PICK q : q = handler[h] OBVIOUS
<1>1. CASE Collect(h) BY <1>1, CollectStep DEF Moved
<1>2. CASE Ending(h) BY <1>2, EndingStep DEF Moved, Concluded
<1>3. CASE Grant(h)
  <2>1. overlapped' = overlapped BY <1>3, GrantStep
  <2>2. \E r \in HandlerRec : handler' = [handler EXCEPT ![h] = r] /\ Onward(q, r)
    BY <1>3, GrantStep
  <2>3. QED BY <2>1, <2>2 DEF Moved
<1>4. CASE GrantRefused(h) BY <1>4, GrantRefusedStep DEF Moved, Concluded
<1>5. CASE GrantLost(h)
  <2>1. overlapped' = overlapped BY <1>5, GrantLostStep
  <2>2. \E r \in HandlerRec : handler' = [handler EXCEPT ![h] = r] /\ Concluded(q, r)
    BY <1>5, GrantLostStep
  <2>3. QED BY <2>1, <2>2 DEF Moved, Concluded
<1>6. CASE Upload(h) BY <1>6, UploadStep DEF Moved
<1>7. CASE Persist(h) BY <1>7, PersistStep DEF Moved
<1>8. CASE PersistWrite(h)
  <2>1. overlapped' = overlapped BY <1>8, PersistWriteStep
  <2>2. \E r \in HandlerRec : handler' = [handler EXCEPT ![h] = r] /\ Concluded(q, r)
    BY <1>8, PersistWriteStep
  <2>3. QED BY <2>1, <2>2 DEF Moved, Concluded
<1>9. CASE Record(h) BY <1>9, RecordStep DEF Moved
<1>10. CASE Mark(h) BY <1>10, MarkStep DEF Settled
<1>11. CASE Overwrites(h)
  <2>1. handler' = [handler EXCEPT ![h] = Idle] /\ overlapped' = overlapped
    BY <1>11, OverwriteStep
  <2>2. QED BY <2>1, IdleType DEF Moved, Onward
<1>12. CASE Exchange(h) BY <1>12, ExchangeStep DEF Moved
<1>13. CASE Store(h)
  <2>1. Settles(h, Idle) /\ OfCredential(q) BY <1>13, StoreStep
  <2>2. QED BY <2>1, IdleType DEF Settled
<1>14. CASE GiveUp(h)
  <2>1. handler' = [handler EXCEPT ![h] = Idle] /\ overlapped' = overlapped
    BY <1>14, GiveUpStep
  <2>2. QED BY <2>1, IdleType DEF Moved, Onward
<1>15. CASE Proceed(h) BY <1>15, ProceedStep
<1>16. QED
  BY <1>1, <1>2, <1>3, <1>4, <1>5, <1>6, <1>7, <1>8, <1>9, <1>10, <1>11, <1>12, <1>13,
     <1>14, <1>15
  DEF Step, Ending, Overwrites

LEMMA IdleApart == ~OfCredential(Idle)
BY IdleType DEF OfCredential

LEMMA InitOverlap == Init => OverlapInv
BY IdleApart DEF Init, OverlapInv

LEMMA MovedOverlap ==
  ASSUME TypeInv, OverlapInv, NEW h \in Handlers, Moved(h)
  PROVE  OverlapInv'
<1>1. PICK r \in HandlerRec :
        handler' = [handler EXCEPT ![h] = r] /\ Onward(handler[h], r) /\ overlapped' = overlapped
  BY DEF Moved
<1>2. OfCredential(r) => OfCredential(handler[h])
  BY <1>1 DEF Onward, OfCredential
<1>3. handler'[h] = r /\ \A g \in Handlers \ {h} : handler'[g] = handler[g]
  BY <1>1 DEF TypeInv
<1>4. \A g \in Handlers : OfCredential(handler'[g]) => OfCredential(handler[g])
  BY <1>2, <1>3
<1>5. QED BY <1>1, <1>4 DEF OverlapInv

LEMMA SettledOverlap ==
  ASSUME TypeInv, OverlapInv, NEW h \in Handlers, Settled(h)
  PROVE  OverlapInv'
<1>1. PICK r \in HandlerRec : Settles(h, r) /\ r.pc \in {"idle", "next"}
  BY DEF Settled
<1>2. ~OfCredential(r) BY <1>1 DEF OfCredential
<1>3. handler'[h] = r /\ \A g \in Handlers \ {h} : handler'[g] = handler[g]
  BY <1>1 DEF TypeInv, Settles
<1>4. \A g \in Handlers : OfCredential(handler'[g]) => g # h /\ OfCredential(handler[g])
  BY <1>2, <1>3
<1>5. CASE h \in overlapped
  <2>1. overlapped' = overlapped BY <1>1, <1>5 DEF Settles
  <2>2. QED BY <1>4, <2>1 DEF OverlapInv
<1>6. CASE h \notin overlapped
  <2>1. \A g \in Handlers : g # h => ~OfCredential(handler[g])
    BY <1>6 DEF OverlapInv, Settled
  <2>2. \A g \in Handlers : ~OfCredential(handler'[g]) BY <1>4, <2>1
  <2>3. QED BY <2>2 DEF OverlapInv
<1>7. QED BY <1>5, <1>6

\* An arrival is known to all it meets, and forgets only its own past.
LEMMA ArrivalApart ==
  ASSUME TypeInv, NEW h \in Handlers, NEW r \in HandlerRec, Arrival(h, r)
  PROVE  /\ handler' = [handler EXCEPT ![h] = r] /\ handler'[h] = r
         /\ \A g \in Handlers \ {h} : handler'[g] = handler[g]
         /\ ~OfCredential(handler[h])
         /\ \/ /\ OfCredential(r) /\ Others(h) # {}
               /\ overlapped' = overlapped \cup Others(h) \cup {h, None}
            \/ /\ OfCredential(r) => Others(h) = {}
               /\ overlapped' = overlapped \ {h}
         /\ ~doubtful' =>
              /\ ~doubtful
              /\ OfCredential(r) =>
                   \A g \in Others(h) : Unsettled(handler[g]) =>
                     Mix.provider # "box" /\ (r.op \in Wizard <=> handler[g].op \in Wizard)
<1> PICK q : q = handler[h] OBVIOUS
<1>1. ~OfCredential(q) BY DEF Arrival, OfCredential
<1>2. handler' = [handler EXCEPT ![h] = r] BY DEF Arrival, Becomes
<1>3. handler'[h] = r /\ \A g \in Handlers \ {h} : handler'[g] = handler[g]
  BY <1>2 DEF TypeInv
<1>4. \/ /\ OfCredential(r) /\ Others(h) # {}
         /\ overlapped' = overlapped \cup Others(h) \cup {h, None}
      \/ /\ OfCredential(r) => Others(h) = {}
         /\ overlapped' = overlapped \ {h}
  BY <1>1 DEF Arrival, Becomes
<1>5. ASSUME ~doubtful'
      PROVE  /\ ~doubtful
             /\ OfCredential(r) =>
                  \A g \in Others(h) : Unsettled(handler[g]) =>
                    Mix.provider # "box" /\ (r.op \in Wizard <=> handler[g].op \in Wizard)
  <2> PICK crossed : crossed = \E g \in Others(h) :
                       /\ Unsettled(handler[g])
                       /\ \/ Mix.provider = "box"
                          \/ (r.op \in Wizard) # (handler[g].op \in Wizard)
    OBVIOUS
  <2> PICK begins : begins = (OfCredential(r) /\ ~OfCredential(handler[h]) /\ Others(h) # {})
    OBVIOUS
  <2>1. doubtful' = (doubtful \/ (begins /\ crossed)) BY DEF Arrival, Becomes
  <2>2. ~doubtful /\ ~(begins /\ crossed) BY <1>5, <2>1
  <2>3. SUFFICES ASSUME OfCredential(r), NEW g \in Others(h), Unsettled(handler[g])
                 PROVE  Mix.provider # "box" /\ (r.op \in Wizard <=> handler[g].op \in Wizard)
    BY <2>2
  <2>4. begins BY <1>1, <2>3
  <2>5. ~crossed BY <2>2, <2>4
  <2>6. QED BY <2>3, <2>5
<1>6. QED BY <1>1, <1>2, <1>3, <1>4, <1>5

LEMMA ArrivesOverlap ==
  ASSUME TypeInv, OverlapInv, Arrives
  PROVE  OverlapInv'
<1>1. PICK h \in Handlers, r \in HandlerRec : Arrival(h, r) BY DEF Arrives
<1>2. /\ handler'[h] = r /\ \A g \in Handlers \ {h} : handler'[g] = handler[g]
      /\ \/ /\ OfCredential(r) /\ Others(h) # {}
            /\ overlapped' = overlapped \cup Others(h) \cup {h, None}
         \/ /\ OfCredential(r) => Others(h) = {}
            /\ overlapped' = overlapped \ {h}
  BY <1>1, ArrivalApart
<1>3. \A g \in Handlers : g # h /\ OfCredential(handler[g]) => g \in Others(h) BY DEF Others
<1>4. None # h BY IdleType
<1>5. CASE overlapped' = overlapped \cup Others(h) \cup {h, None}
  <2>1. \A g \in Handlers : OfCredential(handler'[g]) => g \in overlapped'
    BY <1>2, <1>3, <1>5
  <2>2. None \in overlapped' BY <1>5
  <2>3. QED BY <2>1, <2>2 DEF OverlapInv
<1>6. CASE /\ OfCredential(r) => Others(h) = {}
           /\ overlapped' = overlapped \ {h}
  <2>1. ASSUME NEW f \in Handlers, NEW g \in Handlers, f # g, OfCredential(handler'[f]),
               OfCredential(handler'[g])
        PROVE  f # h /\ g # h
    BY <1>2, <1>3, <1>6, <2>1
  <2>2. ASSUME NEW f \in Handlers, NEW g \in Handlers, f # g, OfCredential(handler'[f]),
               OfCredential(handler'[g])
        PROVE  f \in overlapped' /\ None \in overlapped'
    BY <1>2, <1>4, <1>6, <2>1, <2>2 DEF OverlapInv
  <2>3. ASSUME NEW g \in Handlers, OfCredential(handler'[g]), g \in overlapped'
        PROVE  None \in overlapped'
    BY <1>2, <1>4, <1>6, <2>3 DEF OverlapInv
  <2>4. QED BY <2>2, <2>3 DEF OverlapInv
<1>7. QED BY <1>2, <1>5, <1>6

LEMMA UngovernedOverlap ==
  ASSUME TypeInv, OverlapInv, Ungoverned
  PROVE  OverlapInv'
<1>1. /\ overlapped' = overlapped
      /\ handler' = handler \/ handler' = [h \in Handlers |-> Idle]
  BY UngovernedStep
<1>2. QED BY <1>1, IdleApart DEF OverlapInv

LEMMA StepOverlap ==
  ASSUME TypeInv, OverlapInv, NEW h \in Handlers, Step(h)
  PROVE  OverlapInv'
BY StepMoves, MovedOverlap, SettledOverlap, ArrivesOverlap

LEMMA StillOverlap == ASSUME OverlapInv, Still PROVE OverlapInv'
BY DEF OverlapInv, Still

LEMMA NextOverlap == TypeInv /\ OverlapInv /\ [Next]_vars => OverlapInv'
<1> SUFFICES ASSUME TypeInv, OverlapInv, [Next]_vars PROVE OverlapInv'
  OBVIOUS
<1>1. CASE UNCHANGED vars BY <1>1, StutterType, StillOverlap
<1>2. CASE Next BY <1>2, Kinds, ArrivesOverlap, StillOverlap, UngovernedOverlap, StepOverlap
<1>3. QED BY <1>1, <1>2
-----------------------------------------------------------------------------
(* Which tokens the provider honours.                                      *)

Safe(config) == config.token # NoToken => <<config.client, config.token>> \in honoured

\* What a callback nothing overlaps is about to store.
StoredInv ==
  \A h \in Handlers \ overlapped : handler[h].pc = "store" =>
    <<handler[h].config.client, handler[h].rotated>> \in honoured

\* Two handlers that may yet write a token: with Box there are none, with the
\* others both export or both connect.
LoneInv ==
  \A g, h \in Handlers :
    /\ g # h /\ OfCredential(handler[g]) /\ OfCredential(handler[h])
    /\ Unsettled(handler[g]) /\ Unsettled(handler[h])
    => Mix.provider # "box" /\ (handler[g].op \in Wizard <=> handler[h].op \in Wizard)

\* The stored token, except while Box has replaced it and it is yet to be written.
KeptInv ==
  cred # None /\ (Mix.provider = "box" => \A h \in Handlers : handler[h].pc \notin Granted) =>
    Safe(cred.config)

\* The tokens a handler has in hand.
Holds(q) ==
  /\ q.config # None /\ (Mix.provider = "box" => q.pc \notin Granted) => Safe(q.config)
  /\ q.pc \in Granted \cup {"store"} => <<q.config.client, q.rotated>> \in honoured

HeldInv == \A h \in Handlers : Holds(handler[h])

\* It has read a row it does not mean to replace.
Reader(q) == q.config # None /\ q.op \notin Wizard

SameInv ==
  /\ \A h \in Handlers : Reader(handler[h]) /\ cred # None =>
       cred.config.client = handler[h].config.client
  /\ \A g, h \in Handlers : Reader(handler[g]) /\ Reader(handler[h]) =>
       handler[g].config.client = handler[h].config.client

TokenInv == StoredInv /\ (~doubtful => LoneInv /\ KeptInv /\ HeldInv /\ SameInv)

LEMMA InHand ==
  ASSUME TypeInv, NEW h \in Handlers, NEW q, q = handler[h]
  PROVE  /\ q.config # None \/ q.pc \in Granted \cup {"store"} =>
              /\ q.config # None /\ OfCredential(q) /\ Unsettled(q)
              /\ q.pc \notin {"idle", "next", "collect", "record", "mark"}
         /\ q.pc \in {"exchange", "store", "startWrite"} => q.op \in Wizard
         /\ q.pc \in {"grant", "saveWrite"} \cup Granted => q.op \notin Wizard
<1>1. Shape(q) BY DEF TypeInv
<1>2. q.pc \in Granted \cup {"store"} => q.config # None BY <1>1 DEF Shape, Reading
<1>3. q.config # None =>
        OfCredential(q) /\ Unsettled(q) /\ q.pc \notin {"idle", "next", "collect", "record", "mark"}
  BY <1>1 DEF Shape, Reading, Granted, OfCredential, Unsettled
<1>4. /\ q.pc \in {"exchange", "store", "startWrite"} => q.op \in Wizard
      /\ q.pc \in {"grant", "saveWrite"} \cup Granted => q.op \notin Wizard
  BY <1>1 DEF Shape, Exporting, Granted, Wizard
<1>5. QED BY <1>2, <1>3, <1>4

\* What a step that only moves one handler leaves of the others.
LEMMA Elsewhere ==
  ASSUME TypeInv, NEW h \in Handlers, NEW r, handler' = [handler EXCEPT ![h] = r]
  PROVE  handler'[h] = r /\ \A g \in Handlers \ {h} : handler'[g] = handler[g]
BY DEF TypeInv

LEMMA LoneMoved ==
  ASSUME TypeInv, LoneInv, NEW h \in Handlers, Moved(h) \/ Settled(h), workload' = workload
  PROVE  LoneInv'
<1>1. PICK r \in HandlerRec :
        /\ handler' = [handler EXCEPT ![h] = r]
        /\ OfCredential(r) /\ Unsettled(r) =>
             OfCredential(handler[h]) /\ Unsettled(handler[h]) /\ r.op = handler[h].op
  BY DEF Moved, Settled, Settles, Onward, OfCredential
<1>2. handler'[h] = r /\ \A g \in Handlers \ {h} : handler'[g] = handler[g]
  BY <1>1, Elsewhere
<1>3. \A g \in Handlers : OfCredential(handler'[g]) /\ Unsettled(handler'[g]) =>
        /\ OfCredential(handler[g]) /\ Unsettled(handler[g])
        /\ handler'[g].op = handler[g].op
  BY <1>1, <1>2
<1>4. QED BY <1>3 DEF LoneInv, Mix

\* With Box, a handler that may yet write a token is the only one with any in hand.
LEMMA BoxAlone ==
  ASSUME TypeInv, LoneInv, Mix.provider = "box", NEW h \in Handlers,
         OfCredential(handler[h]), Unsettled(handler[h]), NEW g \in Handlers, g # h
  PROVE  handler[g].config = None /\ handler[g].pc \notin Granted \cup {"store"}
<1>1. ~(OfCredential(handler[g]) /\ Unsettled(handler[g])) BY DEF LoneInv
<1>2. QED BY <1>1, InHand

\* The provider honours no less than it did: what the others hold is as good.
LEMMA HeldElsewhere ==
  ASSUME TypeInv, HeldInv, NEW g \in Handlers, handler'[g] = handler[g],
         workload' = workload, honoured \subseteq honoured'
  PROVE  Holds(handler[g])'
<1> PICK q : q = handler[g] OBVIOUS
<1>1. Holds(q) BY DEF HeldInv
<1>2. Holds(q)' BY <1>1 DEF Holds, Safe, Mix
<1>3. QED BY <1>2 DEF Holds, Safe, Mix

LEMMA SameKept ==
  ASSUME TypeInv, SameInv, NEW h \in Handlers, NEW q, q = handler[h], NEW r,
         handler' = [handler EXCEPT ![h] = r],
         Reader(r) => \/ Reader(q) /\ r.config.client = q.config.client
                      \/ cred # None /\ r.config.client = cred.config.client,
         \/ cred' = None
         \/ cred # None /\ cred'.config.client = cred.config.client
         \/ Reader(q) /\ cred'.config.client = q.config.client
  PROVE  SameInv'
<1>1. handler'[h] = r /\ \A g \in Handlers \ {h} : handler'[g] = handler[g]
  BY Elsewhere
<1>2. ASSUME NEW g \in Handlers, Reader(handler'[g])
      PROVE  \/ \E f \in Handlers : /\ Reader(handler[f])
                                    /\ handler'[g].config.client = handler[f].config.client
             \/ cred # None /\ handler'[g].config.client = cred.config.client
  BY <1>1, <1>2
<1>3. cred' = None \/ (cred # None /\ cred'.config.client = cred.config.client)
      \/ \E f \in Handlers : Reader(handler[f]) /\ cred'.config.client = handler[f].config.client
  OBVIOUS
<1>4. \A f, g \in Handlers : Reader(handler'[f]) /\ Reader(handler'[g]) =>
        handler'[f].config.client = handler'[g].config.client
  BY <1>2 DEF SameInv
<1>5. \A g \in Handlers : Reader(handler'[g]) /\ cred' # None =>
        cred'.config.client = handler'[g].config.client
  BY <1>2, <1>3 DEF SameInv
<1>6. QED BY <1>4, <1>5 DEF SameInv

\* The upload is done, and the token it came with is kept.
Keeps(q, r) ==
  /\ q.pc = "upload" /\ r.pc = "persist"
  /\ r.config = q.config /\ r.rotated = q.rotated /\ r.op = q.op

\* The row is read: to be presented, or to be written back with a new token.
Reads(q, r) ==
  /\ cred # None /\ r.config = cred.config /\ r.op = q.op
  /\ \/ q.pc = "collect" /\ r.pc = "grant"
     \/ q.pc = "persist" /\ r.pc = "persistWrite" /\ r.rotated = q.rotated

LEMMA MovedTokens ==
  ASSUME TypeInv, OverlapInv, TokenInv, NEW h \in Handlers, NEW q, q = handler[h],
         NEW r \in HandlerRec, handler' = [handler EXCEPT ![h] = r], Onward(q, r), Shape(r)',
         UNCHANGED <<workload, cred, overlapped>>, honoured \subseteq honoured',
         ~doubtful' => ~doubtful, r.pc # "store",
         r.config = None \/ Keeps(q, r) \/ Reads(q, r),
         ~doubtful' /\ Mix.provider = "box" /\ q.pc \in Granted /\ r.pc \notin Granted
           /\ cred # None => cred.config.token = q.rotated
  PROVE  TokenInv'
<1>1. handler'[h] = r /\ \A g \in Handlers \ {h} : handler'[g] = handler[g]
  BY Elsewhere
<1>2. StoredInv' BY <1>1 DEF TokenInv, StoredInv
<1>3. ASSUME ~doubtful' PROVE LoneInv' /\ KeptInv' /\ HeldInv' /\ SameInv'
  <2>1. LoneInv /\ KeptInv /\ HeldInv /\ SameInv BY <1>3 DEF TokenInv
  <2>2. LoneInv' BY <2>1, LoneMoved DEF Moved
  <2>3. q.pc \in Granted => /\ Reader(q) /\ <<q.config.client, q.rotated>> \in honoured
                            /\ cred # None => cred.config.client = q.config.client
    <3>1. Holds(q) BY <2>1 DEF HeldInv
    <3>2. q.pc \in Granted => Reader(q) BY InHand DEF Reader
    <3>3. QED BY <2>1, <3>1, <3>2 DEF Holds, SameInv
  <2>4. KeptInv'
    <3>1. SUFFICES ASSUME cred # None,
                          Mix.provider = "box" => \A g \in Handlers : handler'[g].pc \notin Granted
                   PROVE  Safe(cred.config)'
      BY DEF KeptInv, Mix
    <3>2. CASE Mix.provider = "box" => \A g \in Handlers : handler[g].pc \notin Granted
      <4>1. Safe(cred.config) BY <2>1, <3>1, <3>2 DEF KeptInv
      <4>2. QED BY <4>1 DEF Safe
    <3>3. CASE Mix.provider = "box" /\ \E g \in Handlers : handler[g].pc \in Granted
      <4>1. q.pc \in Granted /\ r.pc \notin Granted BY <1>1, <3>1, <3>3
      <4>2. cred.config.token = q.rotated BY <1>3, <3>1, <3>3, <4>1
      <4>3. QED BY <2>3, <3>1, <4>1, <4>2 DEF Safe
    <3>4. QED BY <3>2, <3>3
  <2>5. Holds(r)'
    <3>1. r.pc \in Granted \cup {"store"} => r.config # None BY DEF Shape, Reading
    <3>2. CASE r.config = None BY <3>1, <3>2 DEF Holds
    <3>3. CASE Keeps(q, r)
      <4>1. Holds(q) BY <2>1 DEF HeldInv
      <4>2. Holds(r) BY <3>3, <4>1 DEF Holds, Keeps, Granted
      <4>3. QED BY <4>2 DEF Holds, Safe, Mix
    <3>4. CASE Reads(q, r) /\ r.pc = "grant"
      <4>1. OfCredential(r)
        <5>1. OfCredential(handler'[h]) <=> OfCredential(r) BY <1>1
        <5>2. r.config # None
          <6>1. cred.config \in Config BY <3>4 DEF Reads, TypeInv, TablesOK
          <6>2. QED BY <3>4, <6>1, IdleType DEF Reads
        <5>3. QED BY <3>4, <5>2 DEF Shape, OfCredential
      <4>2. OfCredential(q) /\ Unsettled(q) /\ q.pc \notin Granted
        BY <3>4, <4>1 DEF Onward, OfCredential, Reads, Unsettled, Granted
      <4>3. Mix.provider = "box" => \A g \in Handlers : handler[g].pc \notin Granted
        BY <2>1, <4>2, BoxAlone
      <4>4. Safe(cred.config) BY <2>1, <3>4, <4>3 DEF KeptInv, Reads
      <4>5. r.pc \notin Granted \cup {"store"} BY <3>4 DEF Granted
      <4>6. Safe(r.config) BY <3>4, <4>4 DEF Safe, Reads
      <4>7. QED BY <4>5, <4>6 DEF Holds, Safe
    <3>5. CASE Reads(q, r) /\ r.pc = "persistWrite"
      <4>1. q.pc \in Granted /\ r.pc \in Granted /\ r.rotated = q.rotated
        BY <3>5 DEF Reads, Granted
      <4>2. <<r.config.client, r.rotated>> \in honoured BY <2>3, <3>5, <4>1 DEF Reads
      <4>3. Mix.provider # "box" => Safe(r.config)
        BY <2>1, <3>5 DEF KeptInv, Reads
      <4>4. QED BY <4>1, <4>2, <4>3 DEF Holds, Safe, Mix
    <3>6. QED BY <3>2, <3>3, <3>4, <3>5 DEF Reads
  <2>6. HeldInv'
    <3>1. ASSUME NEW g \in Handlers PROVE Holds(handler[g])'
      <4>1. CASE g = h BY <1>1, <2>5, <4>1 DEF Holds, Safe, Mix
      <4>2. CASE g # h BY <1>1, <2>1, <4>2, HeldElsewhere
      <4>3. QED BY <4>1, <4>2
    <3>2. QED BY <3>1 DEF HeldInv
  <2>7. SameInv'
    <3>1. Keeps(q, r) => q.op \notin Wizard BY InHand DEF Keeps, Granted
    <3>2. Reader(r) => \/ Reader(q) /\ r.config.client = q.config.client
                       \/ cred # None /\ r.config.client = cred.config.client
      BY <3>1 DEF Reader, Keeps, Reads
    <3>3. cred' = None \/ (cred # None /\ cred'.config.client = cred.config.client)
      OBVIOUS
    <3>4. QED BY <2>1, <3>2, <3>3, SameKept
  <2>8. QED BY <2>2, <2>4, <2>6, <2>7
<1>4. QED BY <1>2, <1>3 DEF TokenInv

\* Beside a handler that has to do with the credential, nothing unoverlapped does.
LEMMA Unaware ==
  ASSUME OverlapInv, NEW h \in Handlers, OfCredential(handler[h]),
         NEW g \in Handlers, g # h, g \notin overlapped \/ h \notin overlapped
  PROVE  ~OfCredential(handler[g])
BY DEF OverlapInv

LEMMA GrantTokens ==
  ASSUME TypeInv, OverlapInv, TokenInv, NEW h \in Handlers, Grant(h)
  PROVE  TokenInv'
<1> PICK q : q = handler[h] OBVIOUS
<1>1. /\ UNCHANGED <<workload, schedules, cred, cookie, clockVars, overlapped, doubtful>>
      /\ q.pc = "grant" /\ <<q.config.client, q.config.token>> \in honoured
  BY GrantStep
<1>2. PICK new \in 1..MaxTokens, r \in HandlerRec :
        /\ Answered(q.config.client, q.config.token, new)
        /\ handler' = [handler EXCEPT ![h] = r] /\ Shape(r)' /\ Onward(q, r)
        /\ Rotated(q, r, new)
  BY GrantStep
<1>3. handler'[h] = r /\ \A g \in Handlers \ {h} : handler'[g] = handler[g]
  BY <1>2, Elsewhere
<1>4. q.config # None /\ OfCredential(q) /\ Unsettled(q) /\ q.op \notin Wizard /\ Reader(q)
  <2>1. q.config # None BY <1>1 DEF TypeInv, Shape, Reading
  <2>2. QED BY <1>1, <2>1, InHand DEF Reader
<1>5. r.pc \in {"upload", "persist", "record", "mark"} BY <1>2 DEF Rotated, Concluded
<1>6. StoredInv'
  <2>1. SUFFICES ASSUME NEW g \in Handlers, g \notin overlapped, handler'[g].pc = "store"
                 PROVE  FALSE
    BY <1>1 DEF StoredInv
  <2>2. g # h BY <1>3, <1>5, <2>1
  <2>3. handler[g].pc = "store" BY <1>3, <2>1, <2>2
  <2>4. OfCredential(handler[g]) BY <2>3, InHand
  <2>5. QED BY <1>4, <2>1, <2>2, <2>4, Unaware
<1>7. ASSUME ~doubtful' PROVE LoneInv' /\ KeptInv' /\ HeldInv' /\ SameInv'
  <2>1. LoneInv /\ KeptInv /\ HeldInv /\ SameInv BY <1>1, <1>7 DEF TokenInv
  <2>2. LoneInv' BY <1>1, <1>2, <2>1, LoneMoved DEF Moved
  <2>3. /\ <<q.config.client, new>> \in honoured'
        /\ Mix.provider # "box" => honoured \subseteq honoured'
    BY <1>2 DEF Answered
  <2>4. Mix' = Mix BY <1>1 DEF Mix
  <2>5. Mix.provider = "box" => r.pc \in Granted BY <1>2 DEF Rotated, Granted
  <2>6. KeptInv'
    <3>1. SUFFICES ASSUME cred # None,
                          Mix.provider = "box" => \A g \in Handlers : handler'[g].pc \notin Granted
                   PROVE  Safe(cred.config)'
      BY <1>1, <2>4 DEF KeptInv
    <3>2. Mix.provider # "box" BY <1>3, <2>5, <3>1
    <3>3. Safe(cred.config) BY <2>1, <3>1, <3>2 DEF KeptInv
    <3>4. QED BY <1>1, <2>3, <3>2, <3>3 DEF Safe
  <2>7. Holds(r)'
    <3>1. CASE r.config = None
      <4>1. r.pc \notin Granted \cup {"store"} BY <1>2, <3>1 DEF Shape, Reading
      <4>2. QED BY <3>1, <4>1 DEF Holds
    <3>2. CASE r.config # None
      <4>1. r.pc \in {"upload", "persist"} /\ r.config = q.config /\ r.rotated = new
        BY <1>2, <3>2 DEF Rotated, Concluded
      <4>2. <<r.config.client, r.rotated>> \in honoured' BY <2>3, <4>1
      <4>3. Mix.provider # "box" => Safe(r.config)'
        BY <1>1, <2>3, <4>1 DEF Safe
      <4>4. r.pc \in Granted BY <4>1 DEF Granted
      <4>5. QED BY <2>4, <4>2, <4>3, <4>4 DEF Holds
    <3>3. QED BY <3>1, <3>2
  <2>8. HeldInv'
    <3>1. ASSUME NEW g \in Handlers PROVE Holds(handler[g])'
      <4>1. CASE g = h BY <1>3, <2>7, <4>1 DEF Holds, Safe, Mix
      <4>2. CASE g # h /\ Mix.provider # "box" BY <1>1, <1>3, <2>1, <2>3, <4>2, HeldElsewhere
      <4>3. CASE g # h /\ Mix.provider = "box"
        <5>1. handler'[g] = handler[g] BY <1>3, <4>3
        <5>2. handler[g].config = None /\ handler[g].pc \notin Granted \cup {"store"}
          BY <1>4, <2>1, <4>3, BoxAlone
        <5>3. QED BY <5>1, <5>2 DEF Holds
      <4>4. QED BY <4>1, <4>2, <4>3
    <3>2. QED BY <3>1 DEF HeldInv
  <2>9. SameInv'
    <3>1. Reader(r) => Reader(q) /\ r.config.client = q.config.client
      BY <1>2, <1>4 DEF Rotated, Reader, Concluded
    <3>2. cred' = None \/ (cred # None /\ cred'.config.client = cred.config.client)
      BY <1>1
    <3>3. QED BY <1>2, <2>1, <3>1, <3>2, SameKept
  <2>10. QED BY <2>2, <2>6, <2>8, <2>9
<1>8. QED BY <1>6, <1>7 DEF TokenInv

LEMMA GrantLostTokens ==
  ASSUME TypeInv, OverlapInv, TokenInv, NEW h \in Handlers, GrantLost(h)
  PROVE  TokenInv'
<1> PICK q : q = handler[h] OBVIOUS
<1>1. UNCHANGED <<workload, schedules, cred, cookie, clockVars, overlapped>> /\ q.pc = "grant"
  BY GrantLostStep
<1>2. PICK r \in HandlerRec :
        /\ handler' = [handler EXCEPT ![h] = r] /\ Concluded(q, r) /\ Shape(r)'
  BY GrantLostStep
<1>3. r.config = None /\ r.pc \in {"record", "mark"} /\ Onward(q, r)
  BY <1>2 DEF Concluded
<1>4. q.pc \notin Granted BY <1>1 DEF Granted
<1>5. \/ UNCHANGED <<honoured, issued, doubtful>>
      \/ \E new \in 1..MaxTokens :
           /\ Answered(q.config.client, q.config.token, new)
           /\ ~doubtful' => ~doubtful /\ Mix.provider # "box"
  BY GrantLostStep
<1>6. CASE honoured \subseteq honoured' /\ (~doubtful' => ~doubtful)
  BY <1>1, <1>2, <1>3, <1>4, <1>6, MovedTokens
<1>7. CASE doubtful'
  <2>1. StoredInv'
    <3>1. SUFFICES ASSUME NEW g \in Handlers, g \notin overlapped, handler'[g].pc = "store"
                   PROVE  FALSE
      BY <1>1 DEF StoredInv
    <3>2. handler'[h] = r /\ \A f \in Handlers \ {h} : handler'[f] = handler[f]
      BY <1>2, Elsewhere
    <3>3. g # h /\ handler[g].pc = "store" BY <1>3, <3>1, <3>2
    <3>4. OfCredential(handler[g]) BY <3>3, InHand
    <3>5. OfCredential(q)
      <4>1. q.config # None BY <1>1 DEF TypeInv, Shape, Reading
      <4>2. QED BY <4>1, InHand
    <3>6. QED BY <3>1, <3>3, <3>4, <3>5, Unaware
  <2>2. QED BY <1>7, <2>1 DEF TokenInv
<1>8. CASE UNCHANGED <<honoured, issued, doubtful>> BY <1>6, <1>8
<1>9. ASSUME NEW new \in 1..MaxTokens, Answered(q.config.client, q.config.token, new),
             ~doubtful' => ~doubtful /\ Mix.provider # "box"
      PROVE  TokenInv'
  <2>1. Mix.provider # "box" => honoured \subseteq honoured' BY <1>9 DEF Answered
  <2>2. QED BY <1>6, <1>7, <1>9, <2>1
<1>10. QED BY <1>5, <1>8, <1>9

LEMMA ExchangeTokens ==
  ASSUME TypeInv, OverlapInv, TokenInv, NEW h \in Handlers, Exchange(h)
  PROVE  TokenInv'
<1> PICK q : q = handler[h] OBVIOUS
<1>1. /\ UNCHANGED <<workload, cred, overlapped, doubtful>> /\ q.pc = "exchange"
      /\ honoured' = honoured \cup {<<q.config.client, issued + 1>>}
  BY ExchangeStep
<1>2. PICK r \in HandlerRec :
        /\ handler' = [handler EXCEPT ![h] = r] /\ Onward(q, r)
        /\ r.pc = "store" /\ r.config = q.config /\ r.rotated = issued + 1 /\ r.op = q.op
  BY ExchangeStep
<1>3. handler'[h] = r /\ \A g \in Handlers \ {h} : handler'[g] = handler[g]
  BY <1>2, Elsewhere
<1>4. <<r.config.client, r.rotated>> \in honoured' /\ honoured \subseteq honoured'
  BY <1>1, <1>2
<1>5. r.op \in Wizard /\ q.pc \notin Granted /\ r.pc \notin Granted
  BY <1>1, <1>2, InHand DEF Granted
<1>6. StoredInv' BY <1>1, <1>3, <1>4 DEF TokenInv, StoredInv
<1>7. ASSUME ~doubtful' PROVE LoneInv' /\ KeptInv' /\ HeldInv' /\ SameInv'
  <2>1. LoneInv /\ KeptInv /\ HeldInv /\ SameInv BY <1>1, <1>7 DEF TokenInv
  <2>2. LoneInv' BY <1>1, <1>2, <2>1, LoneMoved DEF Moved
  <2>3. Mix' = Mix BY <1>1 DEF Mix
  <2>4. KeptInv'
    <3>1. SUFFICES ASSUME cred # None,
                          Mix.provider = "box" => \A g \in Handlers : handler'[g].pc \notin Granted
                   PROVE  Safe(cred.config)'
      BY <1>1, <2>3 DEF KeptInv
    <3>2. Mix.provider = "box" => \A g \in Handlers : handler[g].pc \notin Granted
      BY <1>3, <1>5, <3>1
    <3>3. Safe(cred.config) BY <2>1, <3>1, <3>2 DEF KeptInv
    <3>4. QED BY <1>1, <3>3 DEF Safe
  <2>5. Holds(r)'
    <3>1. Holds(q) BY <2>1 DEF HeldInv
    <3>2. q.config # None => Safe(q.config) BY <1>5, <3>1 DEF Holds
    <3>3. r.config # None => Safe(r.config)' BY <1>1, <1>2, <3>2 DEF Safe
    <3>4. QED BY <1>4, <3>3 DEF Holds
  <2>6. HeldInv'
    <3>1. ASSUME NEW g \in Handlers PROVE Holds(handler[g])'
      <4>1. CASE g = h BY <1>3, <2>5, <4>1 DEF Holds, Safe, Mix
      <4>2. CASE g # h BY <1>1, <1>3, <1>4, <2>1, <4>2, HeldElsewhere
      <4>3. QED BY <4>1, <4>2
    <3>2. QED BY <3>1 DEF HeldInv
  <2>7. SameInv'
    <3>1. ~Reader(r) BY <1>5 DEF Reader
    <3>2. cred' = None \/ (cred # None /\ cred'.config.client = cred.config.client)
      BY <1>1
    <3>3. QED BY <1>2, <2>1, <3>1, <3>2, SameKept
  <2>8. QED BY <2>2, <2>4, <2>6, <2>7
<1>8. QED BY <1>6, <1>7 DEF TokenInv

\* A row is written and the handler has nothing left in hand.
LEMMA WrittenTokens ==
  ASSUME TypeInv, OverlapInv, TokenInv, NEW h \in Handlers, Moved(h) \/ Settled(h),
         NEW r \in HandlerRec, handler' = [handler EXCEPT ![h] = r],
         UNCHANGED <<workload, honoured>>, r.config = None, r.pc \notin Granted \cup {"store"},
         \A g \in Handlers : g \in overlapped => g \in overlapped',
         ~doubtful' => ~doubtful,
         ~doubtful' => SameInv',
         ~doubtful' /\ cred' # None
           /\ (Mix.provider = "box" => \A g \in Handlers : handler'[g].pc \notin Granted)
           => Safe(cred.config)'
  PROVE  TokenInv'
<1>1. handler'[h] = r /\ \A g \in Handlers \ {h} : handler'[g] = handler[g]
  BY Elsewhere
<1>2. StoredInv' BY <1>1 DEF TokenInv, StoredInv
<1>3. ASSUME ~doubtful' PROVE LoneInv' /\ KeptInv' /\ HeldInv' /\ SameInv'
  <2>1. LoneInv /\ HeldInv BY <1>3 DEF TokenInv
  <2>2. LoneInv' BY <2>1, LoneMoved
  <2>3. KeptInv' BY <1>3 DEF KeptInv, Mix
  <2>4. Holds(r)' BY DEF Holds
  <2>5. HeldInv'
    <3>1. ASSUME NEW g \in Handlers PROVE Holds(handler[g])'
      <4>1. CASE g = h BY <1>1, <2>4, <4>1 DEF Holds
      <4>2. CASE g # h BY <1>1, <2>1, <4>2, HeldElsewhere
      <4>3. QED BY <4>1, <4>2
    <3>2. QED BY <3>1 DEF HeldInv
  <2>6. QED BY <1>3, <2>2, <2>3, <2>5
<1>4. QED BY <1>2, <1>3 DEF TokenInv

LEMMA PersistWriteTokens ==
  ASSUME TypeInv, OverlapInv, TokenInv, NEW h \in Handlers, PersistWrite(h)
  PROVE  TokenInv'
<1> PICK q : q = handler[h] OBVIOUS
<1>1. /\ UNCHANGED <<workload, honoured, overlapped, doubtful>>
      /\ q.pc = "persistWrite" /\ (cred = None => cred' = None)
      /\ cred # None => /\ cred'.config.client = q.config.client
                        /\ cred'.config.token = q.rotated
  BY PersistWriteStep
<1>2. PICK r \in HandlerRec : handler' = [handler EXCEPT ![h] = r] /\ Concluded(q, r)
  BY PersistWriteStep
<1>3. r.config = None /\ r.pc \notin Granted \cup {"store"} /\ Moved(h)
  BY <1>1, <1>2 DEF Concluded, Granted, Moved
<1>4. Reader(q) BY <1>1, InHand DEF Reader, Granted
<1>5. ASSUME ~doubtful' PROVE SameInv'
  <2>1. SameInv BY <1>1, <1>5 DEF TokenInv
  <2>2. ~Reader(r) BY <1>3 DEF Reader
  <2>3. \/ cred' = None
        \/ cred # None /\ cred'.config.client = cred.config.client
        \/ Reader(q) /\ cred'.config.client = q.config.client
    BY <1>1, <1>4
  <2>4. QED BY <1>2, <2>1, <2>2, <2>3, SameKept
<1>6. ASSUME ~doubtful', cred' # None PROVE Safe(cred.config)'
  <2>1. Holds(q) BY <1>1, <1>6 DEF TokenInv, HeldInv
  <2>2. <<q.config.client, q.rotated>> \in honoured BY <1>1, <2>1 DEF Holds, Granted
  <2>3. QED BY <1>1, <1>6, <2>2 DEF Safe
<1>7. QED BY <1>1, <1>2, <1>3, <1>5, <1>6, WrittenTokens

\* Beside the wizard nobody means to write a row back.
LEMMA WizardAlone ==
  ASSUME TypeInv, LoneInv, NEW h \in Handlers, handler[h].pc \in {"startWrite", "store"},
         NEW g \in Handlers, g # h
  PROVE  ~Reader(handler[g])
<1>1. /\ OfCredential(handler[h]) /\ Unsettled(handler[h]) /\ handler[h].op \in Wizard
  BY DEF TypeInv, Shape, OfCredential, Unsettled, Wizard
<1>2. Reader(handler[g]) =>
        OfCredential(handler[g]) /\ Unsettled(handler[g]) /\ handler[g].op \notin Wizard
  BY InHand DEF Reader
<1>3. QED BY <1>1, <1>2 DEF LoneInv

LEMMA OverwritesTokens ==
  ASSUME TypeInv, OverlapInv, TokenInv, NEW h \in Handlers, Overwrites(h)
  PROVE  TokenInv'
<1> PICK q : q = handler[h] OBVIOUS
<1>1. /\ UNCHANGED <<workload, honoured, overlapped, doubtful>>
      /\ q.pc \in {"startWrite", "saveWrite"} /\ q.config \in Config
      /\ cred' # None /\ cred'.config = q.config
      /\ handler' = [handler EXCEPT ![h] = Idle]
  BY OverwriteStep
<1>2. /\ Idle \in HandlerRec /\ Idle.config = None /\ Idle.pc \notin Granted \cup {"store"}
      /\ ~Reader(Idle) /\ q.config # None /\ q.pc \notin Granted
  BY <1>1, IdleType DEF Granted, Reader
<1>3. Moved(h) BY <1>1, IdleType DEF Moved, Onward
<1>4. handler'[h] = Idle /\ \A g \in Handlers \ {h} : handler'[g] = handler[g]
  BY <1>1, Elsewhere
<1>5. ASSUME ~doubtful' PROVE SameInv'
  <2>1. SameInv /\ LoneInv BY <1>1, <1>5 DEF TokenInv
  <2>2. CASE q.pc = "startWrite"
    <3>1. \A g \in Handlers : ~Reader(handler'[g]) BY <1>2, <1>4, <2>1, <2>2, WizardAlone
    <3>2. QED BY <3>1 DEF SameInv
  <2>3. CASE q.pc = "saveWrite"
    <3>1. Reader(q) BY <1>2, <2>3, InHand DEF Reader
    <3>2. QED BY <1>1, <1>2, <2>1, <3>1, SameKept
  <2>4. QED BY <1>1, <2>2, <2>3
<1>6. ASSUME ~doubtful' PROVE Safe(cred.config)'
  <2>1. Holds(q) BY <1>1, <1>6 DEF TokenInv, HeldInv
  <2>2. QED BY <1>1, <1>2, <2>1 DEF Holds, Safe
<1>7. QED BY <1>1, <1>2, <1>3, <1>5, <1>6, WrittenTokens

LEMMA MarkTokens ==
  ASSUME TypeInv, OverlapInv, TokenInv, NEW h \in Handlers, Mark(h)
  PROVE  TokenInv'
<1> PICK q : q = handler[h] OBVIOUS
<1>1. /\ UNCHANGED <<workload, honoured, doubtful>> /\ q.pc = "mark" /\ OfCredential(q)
      /\ cred = None => cred' = None
      /\ cred # None => cred'.config = cred.config
  BY MarkStep
<1>2. PICK r \in HandlerRec : Settles(h, r) /\ r.pc \in {"idle", "next"} /\ r.config = None
  BY MarkStep
<1>3. /\ handler' = [handler EXCEPT ![h] = r] /\ r.pc \notin Granted \cup {"store"}
      /\ Settled(h) /\ ~Reader(r)
      /\ \A g \in Handlers : g \in overlapped => g \in overlapped'
  BY <1>1, <1>2, IdleType DEF Settles, Settled, Granted, Reader
<1>4. handler'[h] = r /\ \A g \in Handlers \ {h} : handler'[g] = handler[g]
  BY <1>3, Elsewhere
<1>5. ASSUME ~doubtful' PROVE SameInv'
  <2>1. SameInv BY <1>1, <1>5 DEF TokenInv
  <2>2. cred' = None \/ (cred # None /\ cred'.config.client = cred.config.client)
    BY <1>1
  <2>3. QED BY <1>3, <2>1, <2>2, SameKept
<1>6. ASSUME ~doubtful', cred' # None,
             Mix.provider = "box" => \A g \in Handlers : handler'[g].pc \notin Granted
      PROVE  Safe(cred.config)'
  <2>1. Mix.provider = "box" => \A g \in Handlers : handler[g].pc \notin Granted
    BY <1>1, <1>4, <1>6 DEF Granted
  <2>2. Safe(cred.config) BY <1>1, <1>6, <2>1 DEF TokenInv, KeptInv
  <2>3. QED BY <1>1, <1>6, <2>2 DEF Safe
<1>7. QED BY <1>1, <1>2, <1>3, <1>5, <1>6, WrittenTokens

\* A connection nothing overlapped clears up what went before it.
LEMMA StoreTokens ==
  ASSUME TypeInv, OverlapInv, TokenInv, NEW h \in Handlers, Store(h)
  PROVE  TokenInv'
<1> PICK q : q = handler[h] OBVIOUS
<1>1. /\ UNCHANGED <<workload, honoured>> /\ q.pc = "store" /\ OfCredential(q)
      /\ cred = None => cred' = None
      /\ cred # None => cred'.config.client = q.config.client /\ cred'.config.token = q.rotated
      /\ Settles(h, Idle)
      /\ ~doubtful' => ~doubtful \/ (h \notin overlapped /\ cred # None)
  BY StoreStep
<1>2. /\ handler' = [handler EXCEPT ![h] = Idle] /\ Settled(h)
      /\ \A g \in Handlers : g \in overlapped => g \in overlapped'
      /\ Idle \in HandlerRec /\ Idle.config = None /\ Idle.pc \notin Granted \cup {"store"}
      /\ ~Reader(Idle)
  BY <1>1, IdleType DEF Settles, Settled, Granted, Reader
<1>3. handler'[h] = Idle /\ \A g \in Handlers \ {h} : handler'[g] = handler[g]
  BY <1>2, Elsewhere
<1>4. CASE ~doubtful' => ~doubtful
  <2>1. ASSUME ~doubtful' PROVE SameInv'
    <3>1. LoneInv BY <1>4, <2>1 DEF TokenInv
    <3>2. \A g \in Handlers : ~Reader(handler'[g]) BY <1>1, <1>2, <1>3, <3>1, WizardAlone
    <3>3. QED BY <3>2 DEF SameInv
  <2>2. ASSUME ~doubtful', cred' # None PROVE Safe(cred.config)'
    <3>1. Holds(q) BY <1>4, <2>2 DEF TokenInv, HeldInv
    <3>2. <<q.config.client, q.rotated>> \in honoured BY <1>1, <3>1 DEF Holds
    <3>3. QED BY <1>1, <2>2, <3>2 DEF Safe
  <2>3. QED BY <1>1, <1>2, <1>4, <2>1, <2>2, WrittenTokens
<1>5. CASE ~doubtful' /\ h \notin overlapped /\ cred # None
  <2>1. \A g \in Handlers \ {h} : ~OfCredential(handler[g]) BY <1>1, <1>5, Unaware
  <2>2. \A g \in Handlers \ {h} :
          handler[g].config = None /\ handler[g].pc \notin Granted \cup {"store"}
    BY <2>1, InHand
  <2>3. \A g \in Handlers : /\ handler'[g].config = None
                            /\ handler'[g].pc \notin Granted \cup {"store"}
                            /\ ~OfCredential(handler'[g])
    BY <1>2, <1>3, <2>1, <2>2, IdleApart
  <2>4. StoredInv' /\ LoneInv' /\ HeldInv' /\ SameInv'
    BY <2>3 DEF StoredInv, LoneInv, HeldInv, Holds, SameInv, Reader
  <2>5. <<q.config.client, q.rotated>> \in honoured BY <1>1, <1>5 DEF TokenInv, StoredInv
  <2>6. KeptInv' BY <1>1, <1>5, <2>5 DEF KeptInv, Safe
  <2>7. QED BY <2>4, <2>6 DEF TokenInv
<1>6. QED BY <1>1, <1>4, <1>5

\* An arrival that takes the row along finds it as good as it was stored.
LEMMA ArrivesTokens ==
  ASSUME TypeInv, OverlapInv, TokenInv, Arrives
  PROVE  TokenInv'
<1>1. UNCHANGED <<workload, cred, honoured, issued>> BY DEF Arrives, Calm
<1>2. PICK h \in Handlers, r \in HandlerRec : Arrival(h, r) BY DEF Arrives
<1>3. /\ handler' = [handler EXCEPT ![h] = r] /\ handler'[h] = r
      /\ \A g \in Handlers \ {h} : handler'[g] = handler[g]
      /\ \A g \in Handlers \ {h} : g \in overlapped => g \in overlapped'
  <2>1. /\ handler' = [handler EXCEPT ![h] = r] /\ handler'[h] = r
        /\ \A g \in Handlers \ {h} : handler'[g] = handler[g]
    BY <1>2, ArrivalApart
  <2>2. \/ overlapped' = overlapped \cup Others(h) \cup {h, None}
        \/ overlapped' = overlapped \ {h}
    BY <1>2, ArrivalApart
  <2>3. QED BY <2>1, <2>2
<1>4. ~doubtful' =>
        /\ ~doubtful
        /\ OfCredential(r) =>
             \A g \in Others(h) : Unsettled(handler[g]) =>
               Mix.provider # "box" /\ (r.op \in Wizard <=> handler[g].op \in Wizard)
  BY <1>2, ArrivalApart
<1>5. /\ Shape(r) /\ r.pc \in {"collect", "startWrite", "exchange", "saveWrite"}
      /\ r.pc = "exchange" => cred # None /\ r.config = cred.config
      /\ r.pc = "saveWrite" => /\ cred # None /\ r.config.client = cred.config.client
                               /\ r.config.token = cred.config.token
  BY <1>2 DEF Arrival
<1>6. /\ r.pc \notin Granted \cup {"store"}
      /\ r.config # None => r.pc # "collect" /\ OfCredential(r)
      /\ r.pc = "startWrite" => r.config.token = NoToken
      /\ Reader(r) => r.pc = "saveWrite"
  BY <1>5 DEF Granted, Shape, Reading, OfCredential, Reader, Wizard
<1>7. StoredInv' BY <1>1, <1>3, <1>6 DEF TokenInv, StoredInv
<1>8. ASSUME ~doubtful' PROVE LoneInv' /\ KeptInv' /\ HeldInv' /\ SameInv'
  <2>1. LoneInv /\ KeptInv /\ HeldInv /\ SameInv BY <1>4, <1>8 DEF TokenInv
  <2>2. Mix' = Mix BY <1>1 DEF Mix
  <2>3. ASSUME NEW g \in Handlers, g # h, OfCredential(r), OfCredential(handler[g]),
               Unsettled(handler[g])
        PROVE  Mix.provider # "box" /\ (r.op \in Wizard <=> handler[g].op \in Wizard)
    <3>1. g \in Others(h) BY <2>3 DEF Others
    <3>2. QED BY <1>4, <1>8, <2>3, <3>1
  <2>4. LoneInv'
    <3>1. SUFFICES ASSUME NEW f \in Handlers, NEW g \in Handlers, f # g,
                          OfCredential(handler'[f]), OfCredential(handler'[g]),
                          Unsettled(handler'[f]), Unsettled(handler'[g])
                   PROVE  /\ Mix.provider # "box"
                          /\ handler'[f].op \in Wizard <=> handler'[g].op \in Wizard
      BY <2>2 DEF LoneInv
    <3>2. CASE f # h /\ g # h BY <1>3, <2>1, <3>1, <3>2 DEF LoneInv
    <3>3. CASE f = h BY <1>3, <2>3, <3>1, <3>3
    <3>4. CASE g = h BY <1>3, <2>3, <3>1, <3>4
    <3>5. QED BY <3>2, <3>3, <3>4
  <2>5. KeptInv'
    <3>1. SUFFICES ASSUME cred # None,
                          Mix.provider = "box" => \A g \in Handlers : handler'[g].pc \notin Granted
                   PROVE  Safe(cred.config)'
      BY <1>1, <2>2 DEF KeptInv
    <3>2. handler[h].pc \notin Granted BY <1>2 DEF Arrival, Granted
    <3>3. Safe(cred.config) BY <1>3, <2>1, <3>1, <3>2 DEF KeptInv
    <3>4. QED BY <1>1, <3>3 DEF Safe
  <2>6. ASSUME r.config # None, r.pc \in {"exchange", "saveWrite"} PROVE Safe(r.config)
    <3>1. ASSUME Mix.provider = "box", NEW g \in Handlers PROVE handler[g].pc \notin Granted
      <4>1. CASE g = h BY <1>2, <4>1 DEF Arrival, Granted
      <4>2. CASE g # h
        <5>1. ~(OfCredential(handler[g]) /\ Unsettled(handler[g]))
          BY <1>6, <2>3, <2>6, <3>1, <4>2
        <5>2. QED BY <5>1, InHand
      <4>3. QED BY <4>1, <4>2
    <3>2. Safe(cred.config) BY <1>5, <2>1, <2>6, <3>1 DEF KeptInv
    <3>3. QED BY <1>5, <2>6, <3>2 DEF Safe
  <2>7. Holds(r)'
    <3>1. r.config # None => Safe(r.config) BY <1>5, <1>6, <2>6 DEF Safe
    <3>2. r.config # None => Safe(r.config)' BY <1>1, <3>1 DEF Safe
    <3>3. QED BY <1>6, <3>2 DEF Holds
  <2>8. HeldInv'
    <3>1. ASSUME NEW g \in Handlers PROVE Holds(handler[g])'
      <4>1. CASE g = h BY <1>3, <2>7, <4>1 DEF Holds, Safe, Mix
      <4>2. CASE g # h BY <1>1, <1>3, <2>1, <4>2, HeldElsewhere
      <4>3. QED BY <4>1, <4>2
    <3>2. QED BY <3>1 DEF HeldInv
  <2>9. SameInv'
    <3>1. Reader(r) => cred # None /\ r.config.client = cred.config.client BY <1>5, <1>6
    <3>2. cred' = None \/ (cred # None /\ cred'.config.client = cred.config.client)
      BY <1>1
    <3>3. QED BY <1>3, <2>1, <3>1, <3>2, SameKept
  <2>10. QED BY <2>4, <2>5, <2>8, <2>9
<1>9. QED BY <1>7, <1>8 DEF TokenInv

LEMMA StillTokens == ASSUME TypeInv, TokenInv, Still PROVE TokenInv'
<1>1. UNCHANGED <<workload, cred, honoured, handler, overlapped, doubtful>>
  BY DEF Still, Calm
<1>2. StoredInv' <=> StoredInv BY <1>1 DEF StoredInv
<1>3. (LoneInv' <=> LoneInv) /\ (KeptInv' <=> KeptInv) /\ (HeldInv' <=> HeldInv)
      /\ (SameInv' <=> SameInv)
  BY <1>1 DEF LoneInv, KeptInv, HeldInv, Holds, SameInv, Safe, Mix
<1>4. QED BY <1>1, <1>2, <1>3 DEF TokenInv

LEMMA UngovernedTokens ==
  ASSUME TypeInv, OverlapInv, TokenInv, Ungoverned
  PROVE  TokenInv'
<1>1. UNCHANGED <<workload, overlapped>> /\ Mix' = Mix BY UngovernedStep DEF Mix
<1>2. CASE cred' = None /\ UNCHANGED <<honoured, handler, doubtful>>
  <2>1. StoredInv' <=> StoredInv BY <1>1, <1>2 DEF StoredInv
  <2>2. (LoneInv' <=> LoneInv) /\ (HeldInv' <=> HeldInv) /\ (SameInv => SameInv') /\ KeptInv'
    BY <1>1, <1>2 DEF LoneInv, KeptInv, HeldInv, Holds, SameInv, Safe
  <2>3. QED BY <1>2, <2>1, <2>2 DEF TokenInv
<1>3. CASE /\ UNCHANGED <<cred, handler>> /\ honoured' = {} /\ doubtful' = TRUE
           /\ \A h \in Handlers : handler[h].pc # "store"
  <2>1. StoredInv' BY <1>3 DEF StoredInv
  <2>2. QED BY <1>3, <2>1 DEF TokenInv
<1>4. CASE /\ UNCHANGED <<cred, honoured>> /\ handler' = [h \in Handlers |-> Idle]
           /\ ~doubtful' => /\ ~doubtful
                            /\ Mix.provider = "box" =>
                                 \A h \in Handlers : handler[h].pc \notin Granted
  <2>1. StoredInv' /\ LoneInv' /\ HeldInv' /\ SameInv'
    <3>1. \A h \in Handlers : /\ handler'[h].pc = "idle" /\ handler'[h].config = None
                              /\ ~OfCredential(handler'[h])
      BY <1>4, IdleType, IdleApart
    <3>2. QED
      BY <3>1 DEF StoredInv, LoneInv, HeldInv, Holds, SameInv, Reader, Granted
  <2>2. ~doubtful' => KeptInv' BY <1>1, <1>4 DEF TokenInv, KeptInv, Safe
  <2>3. QED BY <2>1, <2>2 DEF TokenInv
<1>5. QED BY <1>2, <1>3, <1>4, UngovernedStep

LEMMA StepTokens ==
  ASSUME TypeInv, OverlapInv, TokenInv, NEW h \in Handlers, Step(h)
  PROVE  TokenInv'
<1> PICK q : q = handler[h] OBVIOUS
<1>0. Shape(q) BY DEF TypeInv
<1>1. CASE Collect(h)
  <2>1. UNCHANGED tables /\ UNCHANGED <<overlapped, doubtful>> /\ q.pc = "collect"
    BY <1>1, CollectStep
  <2>2. PICK r \in HandlerRec :
          /\ handler' = [handler EXCEPT ![h] = r] /\ Shape(r) /\ Onward(q, r)
          /\ \/ /\ r.pc = "grant" /\ r.op = q.op /\ r.due = q.due
                /\ cred # None /\ r.config = cred.config
             \/ Concluded(q, r)
    BY <1>1, CollectStep
  <2>3. Shape(r)' BY <2>1, <2>2 DEF tables, Shape, Mix
  <2>4. r.pc # "store" /\ (r.config = None \/ Reads(q, r)) /\ q.pc \notin Granted
    BY <2>1, <2>2 DEF Concluded, Reads, Granted
  <2>5. QED BY <2>1, <2>2, <2>3, <2>4, MovedTokens DEF tables
<1>2. CASE Ending(h)
  <2>1. /\ UNCHANGED tables /\ UNCHANGED overlapped
        /\ ~doubtful' => ~doubtful /\ (Mix.provider = "box" => q.pc \notin Granted)
    BY <1>2, EndingStep
  <2>2. PICK r \in HandlerRec : handler' = [handler EXCEPT ![h] = r] /\ Concluded(q, r)
    BY <1>2, EndingStep
  <2>3. Shape(r)' /\ Onward(q, r) /\ r.pc # "store" /\ r.config = None
    BY <2>1, <2>2 DEF tables, Shape, Mix, Concluded
  <2>4. QED BY <2>1, <2>2, <2>3, MovedTokens DEF tables
<1>3. CASE Grant(h) BY <1>3, GrantTokens
<1>4. CASE GrantRefused(h)
  <2>1. UNCHANGED tables /\ UNCHANGED <<overlapped, doubtful>> /\ q.pc = "grant"
    BY <1>4, GrantRefusedStep
  <2>2. PICK r \in HandlerRec : handler' = [handler EXCEPT ![h] = r] /\ Concluded(q, r)
    BY <1>4, GrantRefusedStep
  <2>3. Shape(r)' /\ Onward(q, r) /\ r.pc # "store" /\ r.config = None /\ q.pc \notin Granted
    BY <2>1, <2>2 DEF tables, Shape, Mix, Concluded, Granted
  <2>4. QED BY <2>1, <2>2, <2>3, MovedTokens DEF tables
<1>5. CASE GrantLost(h) BY <1>5, GrantLostTokens
<1>6. CASE Upload(h)
  <2>1. UNCHANGED tables /\ UNCHANGED <<overlapped, doubtful>> /\ q.pc = "upload"
    BY <1>6, UploadStep
  <2>2. PICK r \in HandlerRec :
          /\ handler' = [handler EXCEPT ![h] = r] /\ Shape(r) /\ Onward(q, r)
          /\ \/ /\ r.pc = "persist" /\ r.config = q.config /\ r.rotated = q.rotated
                /\ r.op = q.op /\ r.due = q.due
             \/ Concluded(q, r) /\ r.result = "ok" /\ Mix.provider # "box"
    BY <1>6, UploadStep
  <2>3. Shape(r)' BY <2>1, <2>2 DEF tables, Shape, Mix
  <2>4. /\ r.pc # "store" /\ (r.config = None \/ Keeps(q, r))
        /\ Mix.provider = "box" => r.pc \in Granted
    BY <2>1, <2>2 DEF Concluded, Keeps, Granted
  <2>5. QED BY <2>1, <2>2, <2>3, <2>4, MovedTokens DEF tables
<1>7. CASE Persist(h)
  <2>1. UNCHANGED tables /\ UNCHANGED <<overlapped, doubtful>> /\ q.pc = "persist"
    BY <1>7, PersistStep
  <2>2. PICK r \in HandlerRec :
          /\ handler' = [handler EXCEPT ![h] = r] /\ Shape(r) /\ Onward(q, r)
          /\ \/ /\ r.pc = "persistWrite" /\ cred # None /\ r.config = cred.config
                /\ r.rotated = q.rotated /\ r.op = q.op /\ r.due = q.due
             \/ /\ Concluded(q, r) /\ r.result = "ok"
                /\ cred # None => cred.config.token = q.rotated
    BY <1>7, PersistStep
  <2>3. Shape(r)' BY <2>1, <2>2 DEF tables, Shape, Mix
  <2>4. /\ r.pc # "store" /\ (r.config = None \/ Reads(q, r))
        /\ r.pc \notin Granted /\ cred # None => cred.config.token = q.rotated
    BY <2>1, <2>2 DEF Concluded, Reads, Granted
  <2>5. QED BY <2>1, <2>2, <2>3, <2>4, MovedTokens DEF tables
<1>8. CASE PersistWrite(h) BY <1>8, PersistWriteTokens
<1>9. CASE Record(h)
  <2>1. UNCHANGED <<workload, cred, honoured, issued, overlapped, doubtful>> /\ q.pc = "record"
    BY <1>9, RecordStep
  <2>2. PICK r \in HandlerRec :
          /\ handler' = [handler EXCEPT ![h] = r] /\ Shape(r) /\ Onward(q, r)
          /\ \/ r.pc \in {"idle", "next"} /\ r.config = None
             \/ Concluded(q, r) /\ r.result = q.result
    BY <1>9, RecordStep
  <2>3. Shape(r)' BY <2>1, <2>2 DEF Shape, Mix
  <2>4. r.pc # "store" /\ r.config = None /\ q.pc \notin Granted
    BY <2>1, <2>2 DEF Concluded, Granted
  <2>5. QED BY <2>1, <2>2, <2>3, <2>4, MovedTokens
<1>10. CASE Mark(h) BY <1>10, MarkTokens
<1>11. CASE Overwrites(h) BY <1>11, OverwritesTokens
<1>12. CASE Exchange(h) BY <1>12, ExchangeTokens
<1>13. CASE Store(h) BY <1>13, StoreTokens
<1>14. CASE GiveUp(h)
  <2>1. /\ UNCHANGED tables /\ UNCHANGED <<overlapped, doubtful>> /\ q.pc = "exchange"
        /\ handler' = [handler EXCEPT ![h] = Idle]
    BY <1>14, GiveUpStep
  <2>2. /\ Idle \in HandlerRec /\ Onward(q, Idle) /\ Idle.pc # "store" /\ Idle.config = None
        /\ q.pc \notin Granted /\ Shape(Idle)
    BY <2>1, IdleType, IdleShape DEF Onward, Granted, TypeInv, TablesOK
  <2>3. Shape(Idle)' BY <2>1, <2>2, IdleType DEF tables, Shape, Mix
  <2>4. QED BY <2>1, <2>2, <2>3, MovedTokens DEF tables
<1>15. CASE Proceed(h) BY <1>15, ProceedStep, ArrivesTokens
<1>16. QED
  BY <1>1, <1>2, <1>3, <1>4, <1>5, <1>6, <1>7, <1>8, <1>9, <1>10, <1>11, <1>12, <1>13,
     <1>14, <1>15
  DEF Step, Ending, Overwrites

LEMMA InitTokens == Init => TokenInv
<1> SUFFICES ASSUME Init PROVE TokenInv
  OBVIOUS
<1>1. StoredInv /\ LoneInv /\ HeldInv /\ SameInv
  <2>1. \A h \in Handlers : /\ handler[h].pc = "idle" /\ handler[h].config = None
                            /\ ~OfCredential(handler[h])
    BY IdleType, IdleApart DEF Init
  <2>2. QED BY <2>1 DEF StoredInv, LoneInv, HeldInv, Holds, SameInv, Reader, Granted
<1>2. KeptInv
  <2>1. PICK c \in Clients :
          /\ cred = [config |-> [client |-> c, token |-> 1, pending |-> FALSE,
                                 previous |-> NoToken],
                     health |-> "ok"]
          /\ honoured = {<<cred.config.client, 1>>}
    BY DEF Init
  <2>2. cred.config.token = 1 BY <2>1
  <2>3. QED BY <2>1, <2>2 DEF KeptInv, Safe
<1>3. QED BY <1>1, <1>2 DEF TokenInv

LEMMA NextTokens == TypeInv /\ OverlapInv /\ TokenInv /\ [Next]_vars => TokenInv'
<1> SUFFICES ASSUME TypeInv, OverlapInv, TokenInv, [Next]_vars PROVE TokenInv'
  OBVIOUS
<1>1. CASE UNCHANGED vars BY <1>1, StutterType, StillTokens
<1>2. CASE Next BY <1>2, Kinds, ArrivesTokens, StillTokens, UngovernedTokens, StepTokens
<1>3. QED BY <1>1, <1>2

LEMMA Lasts == TypeInv /\ TokenInv => ConnectionLasts
<1> SUFFICES ASSUME TypeInv, TokenInv, Quiet, ~doubtful, cred # None,
                    cred.config.token # NoToken
             PROVE  Usable
  BY DEF ConnectionLasts
<1>1. \A h \in Handlers : handler[h].pc \notin Granted BY InHand DEF Quiet
<1>2. Safe(cred.config) BY <1>1 DEF TokenInv, KeptInv
<1>3. QED BY <1>2 DEF Safe, Usable

\* A connection, once made, can be used until it is made anew: whatever exports,
\* checks and saves did in between, the stored token is one the provider honours.
THEOREM ConnectionsLast == Spec => []ConnectionLasts
<1>1. Init => TypeInv /\ OverlapInv /\ TokenInv BY InitType, InitOverlap, InitTokens
<1>2. TypeInv /\ OverlapInv /\ TokenInv /\ [Next]_vars =>
        TypeInv' /\ OverlapInv' /\ TokenInv'
  BY NextType, NextOverlap, NextTokens
<1>3. QED BY <1>1, <1>2, Lasts, PTL DEF Spec
-----------------------------------------------------------------------------
(* What an administrator is told.                                          *)

\* The row says of the connection that it has to be made anew, and ought to know.
Condemned ==
  /\ None \notin overlapped /\ cred # None /\ cred.health = "expired"
  /\ byUpload => Mix.provider = "box"

\* A verdict nothing overlapped: the connection is as dead as it says, and nobody
\* is being served on it.
VerdictInv == Condemned => ~Usable /\ \A h \in Handlers : handler[h].pc \notin Granted

\* What a handler is about to say of the connection.
Condemns(q) ==
  /\ q.pc \in {"record", "mark"} /\ OfCredential(q)
  /\ q.result = "expired" \/ (q.result = "rejected" /\ Mix.provider = "box")

\* What a handler takes the row for is what it is, and what it is about to say of
\* it is so; with Box the grant alone makes the stored token useless.
Truthful(q) ==
  /\ q.pc \in {"grant", "saveWrite"} =>
       q.config.client = cred.config.client /\ q.config.token = cred.config.token
  /\ q.pc = "upload" /\ Mix.provider = "box" => ~Usable
  /\ Condemns(q) => ~Usable

HealthInv ==
  VerdictInv /\ \A h \in Handlers \ overlapped : cred # None => Truthful(handler[h])

\* Who speaks for the row.
LEMMA StepSpeaks ==
  ASSUME NEW h \in Handlers, Step(h)
  PROVE  /\ workload' = workload
         /\ handler[h].pc \notin {"mark", "store"} => UNCHANGED byUpload
<1>1. CASE Collect(h) BY <1>1 DEF Collect, history
<1>2. CASE CollectFails(h) \/ UploadFails(h) \/ PersistFails(h)
  BY <1>2 DEF CollectFails, UploadFails, PersistFails, LosesToken, history
<1>3. CASE Grant(h) \/ GrantRefused(h) \/ GrantLost(h)
  BY <1>3 DEF Grant, GrantRefused, GrantLost, LosesToken, history
<1>4. CASE Upload(h) \/ Persist(h) \/ PersistWrite(h) \/ Record(h)
  BY <1>4 DEF Upload, Persist, PersistWrite, Record, history
<1>5. CASE Proceed(h) BY <1>5 DEF Proceed, Becomes
<1>6. CASE Mark(h) \/ Store(h) BY <1>6 DEF Mark, Store
<1>7. CASE StartWrite(h) \/ Exchange(h) \/ GiveUp(h) \/ SaveWrite(h)
  BY <1>7 DEF StartWrite, Exchange, GiveUp, SaveWrite, history
<1>8. QED BY <1>1, <1>2, <1>3, <1>4, <1>5, <1>6, <1>7 DEF Step

LEMMA Unusable ==
  ASSUME TypeInv, cred # None, ~Usable, cred' = cred, NEW client,
         honoured' \subseteq honoured \cup {<<client, issued + 1>>}
  PROVE  ~Usable'
<1>1. cred.config.token <= issued /\ cred.config.token \in Nat /\ issued \in Nat
  BY ParamAssumption DEF TypeInv, TablesOK, Config
<1>2. cred.config.token # issued + 1 BY <1>1
<1>3. <<cred.config.client, cred.config.token>> # <<client, issued + 1>> BY <1>2
<1>4. QED BY <1>3 DEF Usable

LEMMA NoTokenUnusable ==
  ASSUME TypeInv, cred # None, cred.config.token = NoToken
  PROVE  ~Usable
BY DEF TypeInv, TablesOK, Usable, NoToken

LEMMA MovedHealth ==
  ASSUME TypeInv, OverlapInv, HealthInv, NEW h \in Handlers,
         NEW r \in HandlerRec, handler' = [handler EXCEPT ![h] = r],
         UNCHANGED <<workload, cred, overlapped, byUpload>>,
         cred # None /\ ~Usable => ~Usable',
         Condemned => r.pc \notin Granted,
         h \notin overlapped /\ cred # None => Truthful(r)'
  PROVE  HealthInv'
<1>1. handler'[h] = r /\ \A g \in Handlers \ {h} : handler'[g] = handler[g]
  BY Elsewhere
<1>2. VerdictInv'
  <2>1. SUFFICES ASSUME Condemned' PROVE ~Usable' /\ \A g \in Handlers : handler'[g].pc \notin Granted
    BY DEF VerdictInv
  <2>2. Condemned /\ cred # None BY <2>1 DEF Condemned, Mix
  <2>3. QED BY <1>1, <2>2 DEF HealthInv, VerdictInv
<1>3. ASSUME NEW g \in Handlers, g \notin overlapped, cred # None
      PROVE  Truthful(handler[g])'
  <2>1. CASE g = h BY <1>1, <1>3, <2>1 DEF Truthful
  <2>2. CASE g # h
    <3> PICK q : q = handler[g] OBVIOUS
    <3>1. Truthful(q) /\ handler'[g] = q BY <1>1, <1>3, <2>2 DEF HealthInv
    <3>2. QED BY <1>3, <3>1 DEF Truthful, Condemns, Mix
  <2>3. QED BY <2>1, <2>2
<1>4. QED BY <1>2, <1>3 DEF HealthInv

\* A handler of the credential writes the row; beside it nothing unoverlapped
\* takes the row for anything.
LEMMA WrittenHealth ==
  ASSUME TypeInv, OverlapInv, NEW h \in Handlers, OfCredential(handler[h]),
         NEW r \in HandlerRec, handler' = [handler EXCEPT ![h] = r],
         \A g \in Handlers : g \in overlapped => g \in overlapped',
         r.pc \notin {"grant", "upload", "saveWrite"},
         r.pc \in {"record", "mark"} => r.result \in {"ok", "failed"},
         VerdictInv'
  PROVE  HealthInv'
<1>1. handler'[h] = r /\ \A g \in Handlers \ {h} : handler'[g] = handler[g]
  BY Elsewhere
<1>2. ASSUME NEW g \in Handlers, g \notin overlapped', cred' # None
      PROVE  Truthful(handler[g])'
  <2>1. CASE g = h BY <1>1, <2>1 DEF Truthful, Condemns
  <2>2. CASE g # h
    <3>1. ~OfCredential(handler[g]) BY <1>2, <2>2, Unaware
    <3>2. handler[g].pc \notin {"grant", "upload", "saveWrite"}
      <4>1. handler[g].pc \in {"grant", "upload", "saveWrite"} => handler[g].config # None
        BY DEF TypeInv, Shape, Reading, Granted
      <4>2. QED BY <3>1, <4>1, InHand
    <3>3. QED BY <1>1, <2>2, <3>1, <3>2 DEF Truthful, Condemns
  <2>3. QED BY <2>1, <2>2
<1>3. QED BY <1>2 DEF HealthInv

LEMMA StepHealth ==
  ASSUME TypeInv, OverlapInv, HealthInv, NEW h \in Handlers, Step(h), ~Arrives
  PROVE  HealthInv'
<1> PICK q : q = handler[h] OBVIOUS
<1>0. /\ Shape(q)
      /\ h \notin overlapped /\ cred # None => Truthful(q)
      /\ OfCredential(q) /\ None \notin overlapped => h \notin overlapped
      /\ Condemned => cred # None /\ None \notin overlapped /\ ~Usable /\ q.pc \notin Granted
      /\ workload' = workload /\ Mix' = Mix
      /\ q.pc \notin {"mark", "store"} => UNCHANGED byUpload
  BY StepSpeaks DEF TypeInv, HealthInv, VerdictInv, OverlapInv, Condemned, Mix
<1>1. CASE Collect(h)
  <2>1. UNCHANGED <<cred, honoured, overlapped, byUpload>>
    BY <1>0, <1>1, CollectStep DEF tables
  <2>2. PICK r \in HandlerRec :
          /\ handler' = [handler EXCEPT ![h] = r]
          /\ \/ r.pc = "grant" /\ cred # None /\ r.config = cred.config
             \/ /\ Concluded(q, r) /\ r.result # "rejected"
                /\ r.result = "expired" /\ OfCredential(r) =>
                     cred # None /\ cred.config.token = NoToken
    BY <1>1, CollectStep
  <2>3. r.pc \notin Granted BY <2>2 DEF Concluded, Granted
  <2>4. cred # None => Truthful(r) BY <2>2, NoTokenUnusable DEF Concluded, Truthful, Condemns
  <2>5. cred # None => Truthful(r)' BY <1>0, <2>1, <2>4 DEF Truthful, Condemns, Usable
  <2>6. cred # None /\ ~Usable => ~Usable' BY <2>1 DEF Usable
  <2>7. QED BY <1>0, <2>1, <2>2, <2>3, <2>5, <2>6, MovedHealth
<1>2. CASE Ending(h)
  <2>0. q.pc \notin {"mark", "store"}
    BY <1>2 DEF Ending, CollectFails, UploadFails, PersistFails
  <2>1. UNCHANGED <<cred, honoured, overlapped, byUpload>>
    BY <1>0, <1>2, <2>0, EndingStep DEF tables
  <2>2. PICK r \in HandlerRec :
          /\ handler' = [handler EXCEPT ![h] = r] /\ Concluded(q, r)
          /\ r.result # "expired" /\ (r.result = "rejected" => q.pc = "upload")
    BY <1>2, EndingStep
  <2>3. r.pc \notin Granted BY <2>2 DEF Concluded, Granted
  <2>4. cred # None /\ ~Usable => ~Usable' BY <2>1 DEF Usable
  <2>5. h \notin overlapped /\ cred # None => Truthful(r)'
    BY <1>0, <2>2, <2>4 DEF Concluded, Truthful, Condemns
  <2>6. QED BY <1>0, <2>1, <2>2, <2>3, <2>4, <2>5, MovedHealth
<1>3. CASE Grant(h)
  <2>1. /\ UNCHANGED <<cred, overlapped, byUpload>> /\ q.pc = "grant"
        /\ <<q.config.client, q.config.token>> \in honoured
    BY <1>0, <1>3, GrantStep
  <2>2. PICK new \in 1..MaxTokens, r \in HandlerRec :
          /\ Answered(q.config.client, q.config.token, new)
          /\ handler' = [handler EXCEPT ![h] = r] /\ Rotated(q, r, new)
    BY <1>3, GrantStep
  <2>3. OfCredential(q)
    <3>1. q.config # None BY <1>0, <2>1 DEF Shape, Reading
    <3>2. QED BY <3>1, InHand
  <2>4. cred # None /\ h \notin overlapped => Usable
    BY <1>0, <2>1 DEF Truthful, Usable
  <2>5. ~Condemned BY <1>0, <2>3, <2>4
  <2>6. h \notin overlapped /\ cred # None => Truthful(r)'
    <3>1. SUFFICES ASSUME h \notin overlapped, cred # None PROVE Truthful(r)'
      OBVIOUS
    <3>2. Mix.provider = "box" => ~Usable'
      BY <1>0, <2>1, <2>2, <3>1 DEF Answered, Truthful, Usable
    <3>3. r.pc \notin {"grant", "saveWrite"} /\ ~Condemns(r)'
      BY <2>2 DEF Rotated, Concluded, Condemns
    <3>4. QED BY <1>0, <3>2, <3>3 DEF Truthful
  <2>7. honoured' \subseteq honoured \cup {<<q.config.client, issued + 1>>}
    BY <2>2 DEF Answered
  <2>8. cred # None /\ ~Usable => ~Usable' BY <2>1, <2>7, Unusable
  <2>9. QED BY <1>0, <2>1, <2>2, <2>5, <2>6, <2>8, MovedHealth
<1>4. CASE GrantRefused(h)
  <2>1. /\ UNCHANGED <<cred, honoured, overlapped, byUpload>> /\ q.pc = "grant"
        /\ <<q.config.client, q.config.token>> \notin honoured
    BY <1>0, <1>4, GrantRefusedStep DEF tables
  <2>2. PICK r \in HandlerRec : handler' = [handler EXCEPT ![h] = r] /\ Concluded(q, r)
    BY <1>4, GrantRefusedStep
  <2>3. cred # None /\ h \notin overlapped => ~Usable
    BY <1>0, <2>1 DEF Truthful, Usable
  <2>4. cred # None /\ ~Usable => ~Usable' BY <2>1 DEF Usable
  <2>5. r.pc \notin Granted BY <2>2 DEF Concluded, Granted
  <2>6. h \notin overlapped /\ cred # None => Truthful(r)'
    BY <2>2, <2>3, <2>4 DEF Concluded, Truthful
  <2>7. QED BY <1>0, <2>1, <2>2, <2>4, <2>5, <2>6, MovedHealth
<1>5. CASE GrantLost(h)
  <2>1. UNCHANGED <<cred, overlapped, byUpload>> BY <1>0, <1>5, GrantLostStep
  <2>2. PICK r \in HandlerRec : /\ handler' = [handler EXCEPT ![h] = r] /\ Concluded(q, r)
                                /\ r.result = "failed"
    BY <1>5, GrantLostStep
  <2>3. r.pc \notin Granted /\ Truthful(r)'
    BY <2>2 DEF Concluded, Granted, Truthful, Condemns
  <2>4. honoured' \subseteq honoured \cup {<<q.config.client, issued + 1>>}
    <3>1. \/ UNCHANGED <<honoured, issued, doubtful>>
          \/ \E new \in 1..MaxTokens :
               /\ Answered(q.config.client, q.config.token, new)
               /\ ~doubtful' => ~doubtful /\ Mix.provider # "box"
      BY <1>5, GrantLostStep
    <3>2. QED BY <3>1 DEF Answered
  <2>5. cred # None /\ ~Usable => ~Usable' BY <2>1, <2>4, Unusable
  <2>6. QED BY <1>0, <2>1, <2>2, <2>3, <2>5, MovedHealth
<1>6. CASE Upload(h)
  <2>1. UNCHANGED <<cred, honoured, overlapped, byUpload>> /\ q.pc = "upload"
    BY <1>0, <1>6, UploadStep DEF tables
  <2>2. PICK r \in HandlerRec :
          /\ handler' = [handler EXCEPT ![h] = r] /\ Shape(r) /\ Onward(q, r)
          /\ \/ /\ r.pc = "persist" /\ r.config = q.config /\ r.rotated = q.rotated
                /\ r.op = q.op /\ r.due = q.due
             \/ Concluded(q, r) /\ r.result = "ok" /\ Mix.provider # "box"
    BY <1>6, UploadStep
  <2>3. ~Condemned BY <1>0, <2>1 DEF Granted
  <2>4. Truthful(r)' BY <2>2 DEF Concluded, Truthful, Condemns
  <2>5. cred # None /\ ~Usable => ~Usable' BY <2>1 DEF Usable
  <2>6. QED BY <1>0, <2>1, <2>2, <2>3, <2>4, <2>5, MovedHealth
<1>7. CASE Persist(h)
  <2>1. UNCHANGED <<cred, honoured, overlapped, byUpload>> /\ q.pc = "persist"
    BY <1>0, <1>7, PersistStep DEF tables
  <2>2. PICK r \in HandlerRec :
          /\ handler' = [handler EXCEPT ![h] = r] /\ Shape(r) /\ Onward(q, r)
          /\ \/ /\ r.pc = "persistWrite" /\ cred # None /\ r.config = cred.config
                /\ r.rotated = q.rotated /\ r.op = q.op /\ r.due = q.due
             \/ /\ Concluded(q, r) /\ r.result = "ok"
                /\ cred # None => cred.config.token = q.rotated
    BY <1>7, PersistStep
  <2>3. ~Condemned BY <1>0, <2>1 DEF Granted
  <2>4. Truthful(r)' BY <2>2 DEF Concluded, Truthful, Condemns
  <2>5. cred # None /\ ~Usable => ~Usable' BY <2>1 DEF Usable
  <2>6. QED BY <1>0, <2>1, <2>2, <2>3, <2>4, <2>5, MovedHealth
<1>8. CASE PersistWrite(h)
  <2>1. /\ UNCHANGED <<overlapped, byUpload>> /\ q.pc = "persistWrite"
        /\ cred = None => cred' = None
        /\ cred # None => cred'.health = cred.health
    BY <1>0, <1>8, PersistWriteStep
  <2>2. PICK r \in HandlerRec : /\ handler' = [handler EXCEPT ![h] = r] /\ Concluded(q, r)
                                /\ r.result \in {"ok", "failed"}
    BY <1>8, PersistWriteStep
  <2>3. OfCredential(q) BY <2>1, InHand DEF Granted
  <2>4. VerdictInv'
    <3>1. Condemned' => Condemned BY <1>0, <2>1 DEF Condemned
    <3>2. QED BY <1>0, <2>1, <3>1 DEF VerdictInv, Granted
  <2>5. r.pc \notin {"grant", "upload", "saveWrite"} BY <2>2 DEF Concluded
  <2>6. QED BY <2>1, <2>2, <2>3, <2>4, <2>5, WrittenHealth
<1>9. CASE Record(h)
  <2>1. UNCHANGED <<cred, honoured, overlapped, byUpload>> /\ q.pc = "record"
    BY <1>0, <1>9, RecordStep
  <2>2. PICK r \in HandlerRec :
          /\ handler' = [handler EXCEPT ![h] = r] /\ Shape(r) /\ Onward(q, r)
          /\ \/ r.pc \in {"idle", "next"} /\ r.config = None
             \/ Concluded(q, r) /\ r.result = q.result
    BY <1>9, RecordStep
  <2>3. r.pc \notin Granted /\ r.pc \notin {"grant", "saveWrite"}
    BY <2>2 DEF Concluded, Granted
  <2>4. OfCredential(r) => OfCredential(q) /\ r.result = q.result
    BY <2>2 DEF Onward, OfCredential
  <2>5. h \notin overlapped /\ cred # None => Truthful(r)
    BY <1>0, <2>1, <2>3, <2>4 DEF Truthful, Condemns, Granted
  <2>6. h \notin overlapped /\ cred # None => Truthful(r)'
    BY <1>0, <2>1, <2>5 DEF Truthful, Condemns, Usable
  <2>7. cred # None /\ ~Usable => ~Usable' BY <2>1 DEF Usable
  <2>8. QED BY <1>0, <2>1, <2>2, <2>3, <2>6, <2>7, MovedHealth
<1>10. CASE Mark(h)
  <2>1. /\ UNCHANGED honoured /\ q.pc = "mark" /\ OfCredential(q)
        /\ cred = None => cred' = None
        /\ cred # None => cred'.config = cred.config /\ cred'.health = Verdict(q.result)
    BY <1>10, MarkStep
  <2>2. PICK r \in HandlerRec : Settles(h, r) /\ r.pc \in {"idle", "next"}
    BY <1>10, MarkStep
  <2>3. /\ handler' = [handler EXCEPT ![h] = r]
        /\ \A g \in Handlers : g \in overlapped => g \in overlapped'
        /\ h \in overlapped => overlapped' = overlapped
        /\ r.pc \notin Granted /\ r.pc \notin {"grant", "upload", "saveWrite", "record", "mark"}
        /\ byUpload' = (q.result = "rejected")
    BY <2>2, IdleType DEF Settles, Granted
  <2>4. VerdictInv'
    <3>1. SUFFICES ASSUME Condemned'
                   PROVE  ~Usable' /\ \A g \in Handlers : handler'[g].pc \notin Granted
      BY DEF VerdictInv
    <3>2. h \notin overlapped BY <2>1, <2>3, <3>1 DEF OverlapInv, Condemned
    <3>3. ~Usable
      <4>1. cred # None /\ Verdict(q.result) = "expired" BY <2>1, <3>1 DEF Condemned
      <4>2. q.result = "expired" \/ q.result = "rejected" BY <4>1 DEF Verdict
      <4>3. q.result = "rejected" => Mix.provider = "box"
        BY <1>0, <2>3, <3>1 DEF Condemned
      <4>4. Condemns(q) BY <2>1, <4>2, <4>3 DEF Condemns
      <4>5. QED BY <1>0, <3>2, <4>1, <4>4 DEF Truthful
    <3>4. ~Usable' BY <2>1, <3>1, <3>3 DEF Usable, Condemned
    <3>5. \A g \in Handlers \ {h} : handler[g].pc \notin Granted
      BY <2>1, <3>2, Unaware, InHand
    <3>6. handler'[h] = r /\ \A g \in Handlers \ {h} : handler'[g] = handler[g]
      BY <2>3, Elsewhere
    <3>7. r.pc \notin Granted BY <2>3
    <3>8. QED BY <3>4, <3>5, <3>6, <3>7
  <2>5. QED BY <2>1, <2>3, <2>4, WrittenHealth
<1>11. CASE Overwrites(h)
  <2>1. /\ UNCHANGED <<honoured, overlapped, byUpload>> /\ q.pc \in {"startWrite", "saveWrite"}
        /\ cred' # None /\ cred'.config = q.config /\ q.config \in Config
        /\ cred'.health = IF cred = None THEN "unknown" ELSE cred.health
        /\ handler' = [handler EXCEPT ![h] = Idle]
    BY <1>0, <1>11, OverwriteStep
  <2>2. OfCredential(q) BY <2>1, IdleType, InHand
  <2>3. /\ Idle \in HandlerRec
        /\ Idle.pc \notin {"grant", "upload", "saveWrite", "record", "mark"}
        /\ Idle.pc \notin Granted
    BY IdleType DEF Granted
  <2>4. VerdictInv'
    <3>1. SUFFICES ASSUME Condemned'
                   PROVE  ~Usable' /\ \A g \in Handlers : handler'[g].pc \notin Granted
      BY DEF VerdictInv
    <3>2. Condemned /\ cred # None /\ None \notin overlapped BY <1>0, <2>1, <3>1 DEF Condemned
    <3>3. ~Usable /\ \A g \in Handlers : handler[g].pc \notin Granted
      BY <3>2 DEF HealthInv, VerdictInv
    <3>4. CASE q.pc = "startWrite"
      <4>1. cred'.config.token = NoToken BY <1>0, <2>1, <3>4 DEF Shape
      <4>2. honoured \subseteq Clients \X (1..issued) /\ issued \in Nat
        BY DEF TypeInv, TablesOK
      <4>3. ~Usable' BY <2>1, <4>1, <4>2 DEF Usable, NoToken
      <4>4. QED BY <2>1, <2>3, <3>3, <4>3, Elsewhere
    <3>5. CASE q.pc = "saveWrite"
      <4>1. Truthful(q) BY <1>0, <2>2, <3>1, <3>2
      <4>2. ~Usable' BY <2>1, <3>3, <3>5, <4>1 DEF Truthful, Usable
      <4>3. QED BY <2>1, <2>3, <3>3, <4>2, Elsewhere
    <3>6. QED BY <2>1, <3>4, <3>5
  <2>5. QED BY <2>1, <2>2, <2>3, <2>4, WrittenHealth
<1>12. CASE Exchange(h)
  <2>1. /\ UNCHANGED <<cred, overlapped, byUpload>>
        /\ honoured' = honoured \cup {<<q.config.client, issued + 1>>}
    BY <1>0, <1>12, ExchangeStep
  <2>2. PICK r \in HandlerRec : handler' = [handler EXCEPT ![h] = r] /\ r.pc = "store"
    BY <1>12, ExchangeStep
  <2>3. r.pc \notin Granted /\ Truthful(r)' BY <2>2 DEF Granted, Truthful, Condemns
  <2>4. cred # None /\ ~Usable => ~Usable' BY <2>1, Unusable
  <2>5. QED BY <1>0, <2>1, <2>2, <2>3, <2>4, MovedHealth
<1>13. CASE Store(h)
  <2>1. /\ OfCredential(q) /\ Settles(h, Idle)
        /\ cred = None => cred' = None
        /\ cred # None => cred'.health = "ok"
    BY <1>13, StoreStep
  <2>2. /\ handler' = [handler EXCEPT ![h] = Idle]
        /\ \A g \in Handlers : g \in overlapped => g \in overlapped'
        /\ Idle \in HandlerRec
        /\ Idle.pc \notin {"grant", "upload", "saveWrite", "record", "mark"}
    BY <2>1, IdleType DEF Settles
  <2>3. VerdictInv' BY <2>1 DEF VerdictInv, Condemned
  <2>4. QED BY <2>1, <2>2, <2>3, WrittenHealth
<1>14. CASE GiveUp(h)
  <2>1. /\ UNCHANGED <<cred, honoured, overlapped, byUpload>>
        /\ handler' = [handler EXCEPT ![h] = Idle]
    BY <1>0, <1>14, GiveUpStep DEF tables
  <2>2. Idle \in HandlerRec /\ Idle.pc \notin Granted /\ Truthful(Idle)'
    BY IdleType DEF Granted, Truthful, Condemns
  <2>3. cred # None /\ ~Usable => ~Usable' BY <2>1 DEF Usable
  <2>4. QED BY <1>0, <2>1, <2>2, <2>3, MovedHealth
<1>15. CASE Proceed(h) BY <1>15, ProceedStep
<1>16. QED
  BY <1>1, <1>2, <1>3, <1>4, <1>5, <1>6, <1>7, <1>8, <1>9, <1>10, <1>11, <1>12, <1>13,
     <1>14, <1>15
  DEF Step, Ending, Overwrites

LEMMA ArrivesHealth ==
  ASSUME TypeInv, OverlapInv, HealthInv, Arrives
  PROVE  HealthInv'
<1>1. UNCHANGED <<workload, cred, honoured>> /\ Mix' = Mix BY DEF Arrives, Calm, Mix
<1>2. PICK h \in Handlers, r \in HandlerRec : Arrival(h, r) BY DEF Arrives
<1>3. /\ handler'[h] = r /\ \A g \in Handlers \ {h} : handler'[g] = handler[g]
      /\ \/ overlapped' = overlapped \cup Others(h) \cup {h, None}
         \/ overlapped' = overlapped \ {h}
  BY <1>2, ArrivalApart
<1>4. /\ \A g \in Handlers \ {h} : g \in overlapped => g \in overlapped'
      /\ None \notin overlapped' => None \notin overlapped
      /\ byUpload' = byUpload
  BY <1>2, <1>3, IdleType DEF Arrival, Becomes
<1>5. /\ r.pc \notin Granted /\ r.pc \notin {"grant", "record", "mark"}
      /\ r.pc = "saveWrite" => /\ r.config.client = cred.config.client
                               /\ r.config.token = cred.config.token
  BY <1>2 DEF Arrival, Granted
<1>6. VerdictInv'
  <2>1. Condemned' => Condemned BY <1>1, <1>4 DEF Condemned
  <2>2. QED BY <1>1, <1>3, <1>5, <2>1 DEF HealthInv, VerdictInv, Usable
<1>7. ASSUME NEW g \in Handlers, g \notin overlapped', cred # None
      PROVE  Truthful(handler[g])'
  <2>1. CASE g = h BY <1>1, <1>3, <1>5, <2>1 DEF Truthful, Condemns, Granted
  <2>2. CASE g # h
    <3> PICK q : q = handler[g] OBVIOUS
    <3>1. Truthful(q) /\ handler'[g] = q BY <1>3, <1>4, <1>7, <2>2 DEF HealthInv
    <3>2. QED BY <1>1, <3>1 DEF Truthful, Condemns, Usable
  <2>3. QED BY <2>1, <2>2
<1>8. QED BY <1>1, <1>6, <1>7 DEF HealthInv

LEMMA StillHealth == ASSUME HealthInv, Still PROVE HealthInv'
<1>1. UNCHANGED <<workload, cred, honoured, handler, overlapped, byUpload>> BY DEF Still, Calm
<1>2. QED BY <1>1 DEF HealthInv, VerdictInv, Condemned, Truthful, Condemns, Usable, Mix

LEMMA UngovernedHealth ==
  ASSUME TypeInv, HealthInv, Ungoverned
  PROVE  HealthInv'
<1>1. UNCHANGED <<workload, overlapped, byUpload>> /\ Mix' = Mix BY UngovernedStep DEF Mix
<1>2. CASE cred' = None BY <1>2 DEF HealthInv, VerdictInv, Condemned
<1>3. CASE UNCHANGED <<cred, handler>> /\ honoured' = {}
  <2>1. ~Usable' BY <1>3 DEF Usable
  <2>2. Condemned' => Condemned BY <1>1, <1>3 DEF Condemned
  <2>3. QED BY <1>1, <1>3, <2>1, <2>2 DEF HealthInv, VerdictInv, Truthful
<1>4. CASE UNCHANGED <<cred, honoured>> /\ handler' = [h \in Handlers |-> Idle]
  <2>1. \A h \in Handlers : handler'[h].pc = "idle" BY <1>4, IdleType
  <2>2. Condemned' => Condemned BY <1>1, <1>4 DEF Condemned
  <2>3. VerdictInv' BY <1>4, <2>1, <2>2 DEF HealthInv, VerdictInv, Usable, Granted
  <2>4. QED BY <2>1, <2>3 DEF HealthInv, Truthful, Condemns
<1>5. QED BY <1>2, <1>3, <1>4, UngovernedStep

LEMMA InitHealth == Init => HealthInv
<1> SUFFICES ASSUME Init PROVE HealthInv
  OBVIOUS
<1>1. cred.health = "ok" BY DEF Init
<1>2. \A h \in Handlers : handler[h].pc = "idle" BY IdleType DEF Init
<1>3. QED BY <1>1, <1>2 DEF HealthInv, VerdictInv, Condemned, Truthful, Condemns

LEMMA NextHealth == TypeInv /\ OverlapInv /\ HealthInv /\ [Next]_vars => HealthInv'
<1> SUFFICES ASSUME TypeInv, OverlapInv, HealthInv, [Next]_vars PROVE HealthInv'
  OBVIOUS
<1>1. CASE UNCHANGED vars BY <1>1, StutterType, StillHealth
<1>2. CASE Next BY <1>2, Kinds, ArrivesHealth, StillHealth, UngovernedHealth, StepHealth
<1>3. QED BY <1>1, <1>2

LEMMA Honest == ConnectionLasts /\ HealthInv => HealthHonest
BY DEF ConnectionLasts, HealthInv, VerdictInv, Condemned, HealthHonest

\* A connection shown as expired has to be made anew, whoever said so with Box, and
\* by a grant's verdict with the others; one shown as healthy can be used: when the
\* verdict is one nothing overlapped.
THEOREM VerdictsHonest == Spec => []HealthHonest
<1>1. Init => TypeInv /\ OverlapInv /\ HealthInv BY InitType, InitOverlap, InitHealth
<1>2. TypeInv /\ OverlapInv /\ HealthInv /\ [Next]_vars =>
        TypeInv' /\ OverlapInv' /\ HealthInv'
  BY NextType, NextOverlap, NextHealth
<1>3. Spec => []HealthInv BY <1>1, <1>2, PTL DEF Spec
<1>4. QED BY <1>3, ConnectionsLast, Honest, PTL
-----------------------------------------------------------------------------
(* Which promised exports are run.                                         *)

\* A job of the list of q that is not behind it.
Awaits(q, s) == \E i \in DOMAIN q.due : q.due[i].id = s /\ (i # 1 \/ q.pc # "mark")

Awaited(s) == \E h \in Handlers : Awaits(handler[h], s)

Recent(s) ==
  schedules[s].lastRunAt # Never /\ schedules[s].lastRunAt > promised[s] - PerMinute

\* Nothing is promised ahead of time, nor at this very moment but by the call of
\* this minute.
PromisesInv ==
  /\ now # 0
  /\ promised \in [Schedules -> 0..MaxTime]
  /\ \A s \in Schedules : promised[s] <= now /\ (promised[s] = now => lastCall = Minute)

\* A handler that is free has no list, and what was promised has been run since,
\* or is on the list of a handler.
ServedInv ==
  /\ \A h \in Handlers : handler[h].pc = "idle" => handler[h].due = <<>>
  /\ \A s \in Schedules \ excused :
       promised[s] # Never /\ schedules[s] # None => Recent(s) \/ Awaited(s)

LEMMA InitPromises == Init => PromisesInv
<1> SUFFICES ASSUME Init PROVE PromisesInv
  OBVIOUS
<1>1. now = PerMinute /\ promised = [s \in Schedules |-> 0] BY DEF Init, Never
<1>2. 0 \in 0..MaxTime /\ PerMinute # 0 /\ PerMinute \in Nat BY ParamAssumption
<1>3. QED BY <1>1, <1>2 DEF PromisesInv

LEMMA InitServed == Init => ServedInv
<1> SUFFICES ASSUME Init PROVE ServedInv
  OBVIOUS
<1>1. \A s \in Schedules : promised[s] = Never BY DEF Init
<1>2. \A h \in Handlers : handler[h].due = <<>> BY IdleType DEF Init
<1>3. QED BY <1>1, <1>2 DEF ServedInv

\* The steps that leave the promises and the clock as they are.
LEMMA PromisesStand ==
  ASSUME PromisesInv, UNCHANGED <<promised, clockVars>>
  PROVE  PromisesInv'
BY DEF PromisesInv, clockVars, Minute

\* The steps that leave the tables of this part as they are; h may go on with its
\* list.
Carries(h, r) ==
  /\ UNCHANGED <<schedules, promised, excused>>
  /\ handler' = [handler EXCEPT ![h] = r]
  /\ r.pc = "idle" => r.due = <<>>
  /\ \A s \in Schedules : Awaits(handler[h], s) => Awaits(r, s)

LEMMA CarriesServed ==
  ASSUME TypeInv, ServedInv, NEW h \in Handlers, NEW r, Carries(h, r)
  PROVE  ServedInv'
<1>1. /\ handler'[h] = r /\ \A g \in Handlers \ {h} : handler'[g] = handler[g]
      /\ UNCHANGED <<schedules, promised, excused>>
  BY DEF TypeInv, Carries
<1>2. \A g \in Handlers : handler'[g].pc = "idle" => handler'[g].due = <<>>
  BY <1>1 DEF ServedInv, Carries
<1>3. ASSUME NEW s \in Schedules, Awaited(s) PROVE Awaited(s)'
  <2>1. PICK g \in Handlers : Awaits(handler[g], s) BY <1>3 DEF Awaited
  <2>2. CASE g = h
    <3>1. Awaits(r, s) BY <2>1, <2>2 DEF Carries
    <3>2. Awaits(handler[h], s)' BY <1>1, <3>1 DEF Awaits
    <3>3. QED BY <3>2 DEF Awaited
  <2>3. CASE g # h
    <3>1. Awaits(handler[g], s)' BY <1>1, <2>1, <2>3 DEF Awaits
    <3>2. QED BY <3>1 DEF Awaited
  <2>4. QED BY <2>2, <2>3
<1>4. \A s \in Schedules : Recent(s)' <=> Recent(s) BY <1>1 DEF Recent
<1>5. QED BY <1>1, <1>2, <1>3, <1>4 DEF ServedInv

\* The same job list, short of the moment its outcome is on the schedule.
LEMMA SameList ==
  ASSUME NEW q, NEW r, r.due = q.due, q.due = <<>> \/ r.pc # "mark"
  PROVE  \A s \in Schedules : Awaits(q, s) => Awaits(r, s)
BY DEF Awaits

LEMMA NoList ==
  ASSUME NEW q, q.due = <<>>
  PROVE  \A s : ~Awaits(q, s)
BY DEF Awaits

LEMMA ConcludesList ==
  ASSUME NEW q \in HandlerRec, NEW result, NEW r, r = Concludes(q, result)
  PROVE  r.due = q.due /\ r.pc \in {"mark", "record"} /\ (r.pc = "mark" => q.op = "check")
BY DEF Concludes, HandlerRec

\* runExport and checkCredential, up to their outcome.
Works(h) ==
  \/ Collect(h) \/ CollectFails(h) \/ Grant(h) \/ GrantRefused(h) \/ GrantLost(h)
  \/ Upload(h) \/ UploadFails(h) \/ Persist(h) \/ PersistWrite(h) \/ PersistFails(h)

Goes(q, r) == \/ \E result : r = Concludes(q, result)
              \/ r.due = q.due /\ r.pc \in {"grant", "upload", "persist", "persistWrite"}

\* Handler h is the one that goes on.
Went(h, q) == \E r : handler' = [handler EXCEPT ![h] = r] /\ Goes(q, r)

LEMMA Concluding ==
  ASSUME NEW h, NEW q, NEW result, NEW r, r = Concludes(q, result),
         handler' = [handler EXCEPT ![h] = r]
  PROVE  Went(h, q)
<1>1. Goes(q, r) BY DEF Goes
<1>2. QED BY <1>1 DEF Went

LEMMA GoingOn ==
  ASSUME NEW h, NEW q, NEW r, r.due = q.due,
         r.pc \in {"grant", "upload", "persist", "persistWrite"},
         handler' = [handler EXCEPT ![h] = r]
  PROVE  Went(h, q)
<1>1. Goes(q, r) BY DEF Goes
<1>2. QED BY <1>1 DEF Went

LEMMA WorksGoes ==
  ASSUME TypeInv, NEW h \in Handlers, Works(h), NEW q, q = handler[h]
  PROVE  UNCHANGED <<schedules, promised, excused, clockVars>> /\ q.pc \in Exporting /\ Went(h, q)
<1>1. UNCHANGED <<schedules, promised, excused, clockVars>>
  BY DEF Works, Collect, CollectFails, Grant, GrantRefused, GrantLost, Upload, UploadFails,
         Persist, PersistWrite, PersistFails, history, clockVars
<1>2. q.pc \in {"collect", "grant", "upload", "persist", "persistWrite"}
  BY DEF Works, Collect, CollectFails, Grant, GrantRefused, GrantLost, Upload, UploadFails,
         Persist, PersistWrite, PersistFails
<1>3. q \in HandlerRec BY HandlerType
<1> PICK ok : ok = Concludes(q, "ok") OBVIOUS
<1> PICK failed : failed = Concludes(q, "failed") OBVIOUS
<1> PICK expired : expired = Concludes(q, "expired") OBVIOUS
<1> PICK rejected : rejected = Concludes(q, "rejected") OBVIOUS
<1> PICK unseen : unseen = Concludes(q, "unseen") OBVIOUS
<1> SUFFICES Went(h, q)
  BY <1>1, <1>2 DEF Exporting, Granted
<1>4. \/ handler' = [handler EXCEPT ![h] = ok]
      \/ handler' = [handler EXCEPT ![h] = failed]
      \/ handler' = [handler EXCEPT ![h] = expired]
      \/ handler' = [handler EXCEPT ![h] = rejected]
      \/ handler' = [handler EXCEPT ![h] = unseen]
      => Went(h, q)
  BY Concluding
<1>5. CASE Collect(h)
  <2> PICK local : local = (q.due # <<>> /\ Head(q.due).destination = "local") OBVIOUS
  <2> PICK token : token = IF cred = None THEN NoToken ELSE cred.config.token OBVIOUS
  <2> PICK r : r = [q EXCEPT !.pc = "grant", !.config = cred.config] OBVIOUS
  <2>1. handler' = [handler EXCEPT ![h] =
             IF local THEN ok
             ELSE IF token # NoToken THEN r
             ELSE Concludes(q, IF q.op = "check" /\ cred # None THEN "expired" ELSE "failed")]
    BY <1>5 DEF Collect
  <2>2. r.pc = "grant" /\ r.due = q.due BY <1>3 DEF HandlerRec
  <2>3. CASE local BY <1>4, <2>1, <2>3
  <2>4. CASE ~local /\ token # NoToken
    <3>1. handler' = [handler EXCEPT ![h] = r] BY <2>1, <2>4
    <3>2. QED BY <2>2, <3>1, GoingOn
  <2>5. CASE ~local /\ token = NoToken
    BY <1>4, <2>1, <2>5
  <2>6. QED BY <2>3, <2>4, <2>5
<1>6. CASE CollectFails(h) \/ GrantRefused(h) \/ GrantLost(h) \/ UploadFails(h)
  BY <1>4, <1>6 DEF CollectFails, GrantRefused, GrantLost, UploadFails, LosesToken
<1>7. CASE Grant(h)
  <2>1. PICK new :
          handler' = [handler EXCEPT ![h] =
            IF q.op # "check" THEN [q EXCEPT !.pc = "upload", !.rotated = new]
            ELSE IF new = q.config.token THEN ok
            ELSE [q EXCEPT !.pc = "persist", !.rotated = new]]
    BY <1>7 DEF Grant
  <2> PICK r : r = [q EXCEPT !.pc = "upload", !.rotated = new] OBVIOUS
  <2> PICK x : x = [q EXCEPT !.pc = "persist", !.rotated = new] OBVIOUS
  <2>2. r.pc = "upload" /\ r.due = q.due /\ x.pc = "persist" /\ x.due = q.due
    BY <1>3 DEF HandlerRec
  <2>3. CASE handler' = [handler EXCEPT ![h] = r] BY <2>2, <2>3, GoingOn
  <2>4. CASE handler' = [handler EXCEPT ![h] = x] BY <2>2, <2>4, GoingOn
  <2>5. CASE handler' = [handler EXCEPT ![h] = ok] BY <1>4, <2>5
  <2>6. QED BY <2>1, <2>3, <2>4, <2>5
<1>8. CASE Upload(h)
  <2> PICK r : r = [q EXCEPT !.pc = "persist"] OBVIOUS
  <2>1. handler' = [handler EXCEPT ![h] = IF Stores(q) THEN r ELSE ok] BY <1>8 DEF Upload
  <2>2. r.pc = "persist" /\ r.due = q.due BY <1>3 DEF HandlerRec
  <2>3. CASE handler' = [handler EXCEPT ![h] = r] BY <2>2, <2>3, GoingOn
  <2>4. CASE handler' = [handler EXCEPT ![h] = ok] BY <1>4, <2>4
  <2>5. QED BY <2>1, <2>3, <2>4
<1>9. CASE Persist(h)
  <2> PICK stored : stored = (cred = None \/ (cred # None /\ cred.config.token = q.rotated))
    OBVIOUS
  <2> PICK r : r = [q EXCEPT !.pc = "persistWrite", !.config = cred.config] OBVIOUS
  <2>1. handler' = [handler EXCEPT ![h] = IF stored THEN ok ELSE r] BY <1>9 DEF Persist
  <2>2. r.pc = "persistWrite" /\ r.due = q.due BY <1>3 DEF HandlerRec
  <2>3. CASE handler' = [handler EXCEPT ![h] = r] BY <2>2, <2>3, GoingOn
  <2>4. CASE handler' = [handler EXCEPT ![h] = ok] BY <1>4, <2>4
  <2>5. QED BY <2>1, <2>3, <2>4
<1>10. CASE PersistWrite(h) \/ PersistFails(h)
  BY <1>4, <1>10 DEF PersistWrite, PersistFails, LosesToken
<1>11. QED
  BY <1>5, <1>6, <1>7, <1>8, <1>9, <1>10 DEF Works

LEMMA WorksServed ==
  ASSUME TypeInv, ServedInv, NEW h \in Handlers, Works(h)
  PROVE  ServedInv'
<1> PICK q : q = handler[h] OBVIOUS
<1>1. q \in HandlerRec /\ Shape(q) /\ q.pc \in Exporting /\ UNCHANGED <<schedules, promised, excused>>
  BY HandlerType, WorksGoes
<1>2. PICK r : handler' = [handler EXCEPT ![h] = r] /\ Goes(q, r) BY WorksGoes DEF Went
<1>3. r.due = q.due /\ r.pc # "idle" /\ (r.pc = "mark" => q.op = "check")
  <2>1. ASSUME NEW result, r = Concludes(q, result)
        PROVE  r.due = q.due /\ r.pc # "idle" /\ (r.pc = "mark" => q.op = "check")
    BY <1>1, <2>1, ConcludesList
  <2>2. QED BY <1>2, <2>1 DEF Goes
<1>4. q.op = "check" => q.due = <<>> BY <1>1 DEF Shape
<1>5. \A s \in Schedules : Awaits(q, s) => Awaits(r, s) BY <1>3, <1>4, SameList
<1>6. Carries(h, r) BY <1>1, <1>2, <1>3, <1>5 DEF Carries
<1>7. QED BY <1>6, CarriesServed

\* The next export of the list.
LEMMA AdvancedList ==
  ASSUME NEW q \in HandlerRec, NEW r, r = Advanced(q)
  PROVE  /\ r.pc = "idle" => r.due = <<>>
         /\ \A s, i : i \in DOMAIN q.due /\ i # 1 /\ q.due[i].id = s => Awaits(r, s)
<1>1. q.due \in Seq(Jobs) /\ Len(q.due) \in Nat /\ DOMAIN q.due = 1..Len(q.due)
  BY DEF HandlerRec
<1>2. CASE Len(q.due) <= 1
  <2>1. r = Idle BY <1>2 DEF Advanced
  <2>2. \A i \in DOMAIN q.due : i = 1 BY <1>1, <1>2
  <2>3. QED BY <2>1, <2>2, IdleType
<1>3. CASE ~(Len(q.due) <= 1)
  <2> PICK due : due = Tail(q.due) OBVIOUS
  <2>1. r = [Idle EXCEPT !.pc = "next", !.op = q.op, !.due = due] BY <1>3 DEF Advanced
  <2>2. r.pc = "next" /\ r.due = due BY <2>1, IdleType DEF Idle
  <2>3. ASSUME NEW i \in DOMAIN q.due, i # 1
        PROVE  i - 1 \in DOMAIN due /\ due[i - 1] = q.due[i]
    BY <1>1, <2>3
  <2>4. ASSUME NEW s, NEW i, i \in DOMAIN q.due /\ i # 1 /\ q.due[i].id = s
        PROVE  Awaits(r, s)
    <3>1. i - 1 \in DOMAIN r.due /\ r.due[i - 1].id = s BY <2>2, <2>3, <2>4
    <3>2. QED BY <2>2, <3>1 DEF Awaits
  <2>5. QED BY <2>2, <2>4
<1>4. QED BY <1>2, <1>3

LEMMA MarkServed ==
  ASSUME TypeInv, ServedInv, NEW h \in Handlers, Mark(h)
  PROVE  ServedInv'
<1> PICK q : q = handler[h] OBVIOUS
<1> PICK r : r = Advanced(q) OBVIOUS
<1>1. /\ q \in HandlerRec /\ q.pc = "mark" /\ handler' = [handler EXCEPT ![h] = r]
      /\ UNCHANGED <<schedules, promised, excused>>
  BY HandlerType DEF Mark, Settles
<1>2. \A s \in Schedules : Awaits(q, s) => Awaits(r, s)
  BY <1>1, AdvancedList DEF Awaits
<1>3. r.pc = "idle" => r.due = <<>> BY <1>1, AdvancedList
<1>4. QED BY <1>1, <1>2, <1>3, CarriesServed DEF Carries

\* The steps of a handler that has no list.
LEMMA ListlessServed ==
  ASSUME TypeInv, ServedInv, NEW h \in Handlers,
         StartWrite(h) \/ SaveWrite(h) \/ Exchange(h) \/ Store(h) \/ GiveUp(h)
  PROVE  ServedInv'
<1> PICK q : q = handler[h] OBVIOUS
<1>1. q \in HandlerRec /\ q.due = <<>> /\ q.pc # "idle"
  BY HandlerType DEF StartWrite, SaveWrite, Exchange, Store, GiveUp, Shape
<1>2. UNCHANGED <<schedules, promised, excused>>
  BY DEF StartWrite, SaveWrite, Exchange, Store, GiveUp, history
<1>3. PICK r : handler' = [handler EXCEPT ![h] = r] /\ (r = Idle \/ r.pc # "idle")
  <2>1. CASE StartWrite(h) \/ SaveWrite(h) \/ Store(h) \/ GiveUp(h)
    BY <2>1 DEF StartWrite, SaveWrite, Store, GiveUp, Settles
  <2>2. CASE Exchange(h)
    <3> PICK x : x = [q EXCEPT !.pc = "store", !.rotated = issued + 1] OBVIOUS
    <3>1. handler' = [handler EXCEPT ![h] = x] BY <2>2 DEF Exchange
    <3>2. x.pc = "store" BY <1>1 DEF HandlerRec
    <3>3. QED BY <3>1, <3>2
  <2>3. QED BY <2>1, <2>2
<1>4. r.pc = "idle" => r.due = <<>> BY <1>3, IdleType
<1>5. \A s \in Schedules : ~Awaits(q, s) BY <1>1, NoList
<1>6. Carries(h, r) BY <1>2, <1>3, <1>4, <1>5 DEF Carries
<1>7. QED BY <1>6, CarriesServed

\* A request that begins, but for a call of cron, and the next export of a list.
LEMMA BeginsServed ==
  ASSUME TypeInv, ServedInv, NEW h \in Handlers,
         \/ Check(h) \/ Callback(h) \/ Save(h) \/ Proceed(h)
         \/ \E s \in Schedules : RunNow(h, s)
         \/ \E c \in Clients : Start(h, c)
  PROVE  ServedInv'
<1> PICK q : q = handler[h] OBVIOUS
<1>1. UNCHANGED <<schedules, promised, excused>>
  BY DEF Check, Callback, Save, Proceed, RunNow, Start
<1>2. CASE handler' = handler
  <2>1. \A s \in Schedules : Recent(s)' <=> Recent(s) BY <1>1 DEF Recent
  <2>2. \A s \in Schedules : Awaited(s)' <=> Awaited(s) BY <1>2 DEF Awaited, Awaits
  <2>3. QED BY <1>1, <1>2, <2>1, <2>2 DEF ServedInv
<1>3. CASE Proceed(h)
  <2> PICK r : r = [q EXCEPT !.pc = "collect"] OBVIOUS
  <2>1. q \in HandlerRec /\ handler' = [handler EXCEPT ![h] = r]
    BY <1>3, HandlerType DEF Proceed, Becomes
  <2>2. r.pc = "collect" /\ r.due = q.due BY <2>1 DEF HandlerRec
  <2>3. \A s \in Schedules : Awaits(q, s) => Awaits(r, s) BY <2>2, SameList
  <2>4. Carries(h, r) BY <1>1, <2>1, <2>2, <2>3 DEF Carries
  <2>5. QED BY <2>4, CarriesServed
<1>4. CASE handler' # handler /\ ~Proceed(h)
  <2>1. PICK r : handler' = [handler EXCEPT ![h] = r] /\ r.pc # "idle"
    <3>1. CASE Check(h)
      <4> PICK r : r = [Idle EXCEPT !.pc = "collect", !.op = "check"] OBVIOUS
      <4>1. handler' = [handler EXCEPT ![h] = r] BY <3>1 DEF Check, Becomes
      <4>2. r.pc = "collect" BY DEF Idle
      <4>3. QED BY <4>1, <4>2
    <3>2. CASE Callback(h)
      <4> PICK r : r = [Idle EXCEPT !.pc = "exchange", !.op = "callback",
                          !.config = cred.config, !.code = cookie]
        OBVIOUS
      <4>1. handler' = [handler EXCEPT ![h] = r] BY <1>4, <3>2 DEF Callback, Becomes
      <4>2. r.pc = "exchange" BY DEF Idle
      <4>3. QED BY <4>1, <4>2
    <3>3. CASE Save(h)
      <4> PICK config : config = [cred.config EXCEPT !.pending = FALSE, !.previous = NoToken]
        OBVIOUS
      <4> PICK r : r = [Idle EXCEPT !.pc = "saveWrite", !.op = "save", !.config = config]
        OBVIOUS
      <4>1. handler' = [handler EXCEPT ![h] = r] BY <3>3 DEF Save, Becomes
      <4>2. r.pc = "saveWrite" BY DEF Idle
      <4>3. QED BY <4>1, <4>2
    <3>4. CASE \E s \in Schedules : RunNow(h, s)
      <4>1. PICK s \in Schedules : RunNow(h, s) BY <3>4
      <4> PICK r : r = [Idle EXCEPT !.pc = "collect", !.op = "runNow", !.due = <<Job(s)>>]
        OBVIOUS
      <4>2. handler' = [handler EXCEPT ![h] = r] BY <4>1 DEF RunNow, Becomes
      <4>3. r.pc = "collect" BY DEF Idle
      <4>4. QED BY <4>2, <4>3
    <3>5. CASE \E c \in Clients : Start(h, c)
      <4>1. PICK c \in Clients : Start(h, c) BY <3>5
      <4> PICK config :
            config = [client |-> c, token |-> NoToken, pending |-> TRUE,
                      previous |-> IF cred = None THEN NoToken ELSE cred.config.token]
        OBVIOUS
      <4> PICK r : r = [Idle EXCEPT !.pc = "startWrite", !.op = "start", !.config = config]
        OBVIOUS
      <4>2. handler' = [handler EXCEPT ![h] = r] BY <4>1 DEF Start, Becomes
      <4>3. r.pc = "startWrite" BY DEF Idle
      <4>4. QED BY <4>2, <4>3
    <3>6. QED BY <1>4, <3>1, <3>2, <3>3, <3>4, <3>5
  <2>2. q.pc = "idle"
    BY <1>4 DEF Check, Callback, Save, RunNow, Start, Takes
  <2>3. q.due = <<>> BY <2>2 DEF ServedInv
  <2>4. \A s \in Schedules : ~Awaits(q, s) BY <2>3, NoList
  <2>5. Carries(h, r) BY <1>1, <2>1, <2>4 DEF Carries
  <2>6. QED BY <2>5, CarriesServed
<1>5. QED BY <1>2, <1>3, <1>4

\* The steps that leave every list alone.
LEMMA QuietServed ==
  ASSUME ServedInv, UNCHANGED <<schedules, handler, promised, excused>>
  PROVE  ServedInv'
<1>1. \A s \in Schedules : (Recent(s)' <=> Recent(s)) /\ (Awaited(s)' <=> Awaited(s))
  BY DEF Recent, Awaited, Awaits
<1>2. QED BY <1>1 DEF ServedInv

LEMMA RecordServed ==
  ASSUME TypeInv, PromisesInv, ServedInv, NEW h \in Handlers, Record(h)
  PROVE  ServedInv'
<1> PICK q : q = handler[h] OBVIOUS
<1> PICK s : s = Head(q.due).id OBVIOUS
<1>1. q \in HandlerRec /\ Shape(q) /\ q.pc = "record" /\ promised' = promised
  BY HandlerType DEF Record
<1>2. q.due # <<>> /\ q.due \in Seq(Jobs) BY <1>1 DEF Shape, HandlerRec
<1>3. Head(q.due) = q.due[1] /\ q.due[1] \in Jobs /\ 1 \in DOMAIN q.due BY <1>2
<1>4. s \in Schedules BY <1>3 DEF Jobs
<1>5. CASE schedules[s] = None
  <2>1. /\ handler' = [handler EXCEPT ![h] = Idle] /\ schedules' = schedules
        /\ excused' = excused \cup Ids(q.due)
    BY <1>5 DEF Record
  <2>2. handler'[h] = Idle /\ \A g \in Handlers \ {h} : handler'[g] = handler[g]
    BY <2>1 DEF TypeInv
  <2>3. \A t : Awaits(q, t) => t \in Ids(q.due) BY DEF Awaits, Ids
  <2>4. ASSUME NEW t \in Schedules, t \notin excused', Awaited(t) PROVE Awaited(t)'
    <3>1. PICK g \in Handlers : Awaits(handler[g], t) BY <2>4 DEF Awaited
    <3>2. g # h BY <2>1, <2>3, <2>4, <3>1
    <3>3. Awaits(handler[g], t)' BY <2>2, <3>1, <3>2 DEF Awaits
    <3>4. QED BY <3>3 DEF Awaited
  <2>5. \A t \in Schedules : Recent(t)' <=> Recent(t) BY <1>1, <2>1 DEF Recent
  <2>6. \A g \in Handlers : handler'[g].pc = "idle" => handler'[g].due = <<>>
    BY <2>2, IdleType DEF ServedInv
  <2>7. \A t \in Schedules : t \notin excused' => t \notin excused BY <2>1
  <2>8. QED BY <1>1, <2>1, <2>4, <2>5, <2>6, <2>7 DEF ServedInv
<1>6. CASE schedules[s] # None
  <2> PICK marks : marks = (Head(q.due).destination = "cloud" /\ q.result # "unseen") OBVIOUS
  <2> PICK r : r = IF marks THEN [q EXCEPT !.pc = "mark"] ELSE Advanced(q) OBVIOUS
  <2> PICK row : row = [schedules[s] EXCEPT !.lastRunAt = now] OBVIOUS
  <2>1. /\ schedules' = [schedules EXCEPT ![s] = row] /\ handler' = [handler EXCEPT ![h] = r]
        /\ excused' = excused
    BY <1>6 DEF Record
  <2>2. schedules[s] \in Row /\ now \in Nat /\ PerMinute \in Nat \ {0}
    BY <1>4, <1>6, ParamAssumption DEF TypeInv, TablesOK
  <2>3. row.lastRunAt = now /\ row # None
    <3>1. row.lastRunAt = now BY <2>2 DEF Row
    <3>2. row \in Row BY <2>2 DEF Row, TypeInv
    <3>3. QED BY <3>1, <3>2, IdleType
  <2>4. /\ schedules'[s] = row
        /\ \A t \in Schedules \ {s} : schedules'[t] = schedules[t]
    BY <1>4, <2>1 DEF TypeInv, TablesOK
  <2>5. /\ handler'[h] = r /\ \A g \in Handlers \ {h} : handler'[g] = handler[g]
    BY <2>1 DEF TypeInv
  <2>6. Recent(s)'
    <3>1. promised[s] <= now /\ promised[s] \in Nat /\ now # Never
      BY <1>4, ParamAssumption DEF PromisesInv, Never
    <3>2. now > promised[s] - PerMinute BY <2>2, <3>1
    <3>3. QED BY <1>1, <2>3, <2>4, <3>1, <3>2 DEF Recent
  <2>7. \A t \in Schedules \ {s} : Recent(t)' <=> Recent(t)
    BY <1>1, <2>4 DEF Recent
  <2>8. \A t : Awaits(q, t) /\ t # s => Awaits(r, t)
    <3>1. ASSUME NEW t, t # s, NEW i \in DOMAIN q.due, q.due[i].id = t PROVE i # 1
      BY <1>3, <3>1
    <3>2. CASE marks
      <4>1. r = [q EXCEPT !.pc = "mark"] BY <3>2
      <4>2. r.due = q.due BY <1>1, <4>1 DEF HandlerRec
      <4>3. QED BY <3>1, <4>2 DEF Awaits
    <3>3. CASE ~marks
      <4>1. r = Advanced(q) BY <3>3
      <4>2. QED BY <1>1, <3>1, <4>1, AdvancedList DEF Awaits
    <3>4. QED BY <3>2, <3>3
  <2>9. r.pc = "idle" => r.due = <<>>
    <3>1. CASE marks
      <4>1. r = [q EXCEPT !.pc = "mark"] BY <3>1
      <4>2. r.pc = "mark" BY <1>1, <4>1 DEF HandlerRec
      <4>3. QED BY <4>2
    <3>2. CASE ~marks BY <1>1, <3>2, AdvancedList
    <3>3. QED BY <3>1, <3>2
  <2>10. ASSUME NEW t \in Schedules, t # s, Awaited(t) PROVE Awaited(t)'
    <3>1. PICK g \in Handlers : Awaits(handler[g], t) BY <2>10 DEF Awaited
    <3>2. CASE g = h
      <4>1. Awaits(r, t) BY <2>8, <2>10, <3>1, <3>2
      <4>2. Awaits(handler[h], t)' BY <2>5, <4>1 DEF Awaits
      <4>3. QED BY <4>2 DEF Awaited
    <3>3. CASE g # h
      <4>1. Awaits(handler[g], t)' BY <2>5, <3>1, <3>3 DEF Awaits
      <4>2. QED BY <4>1 DEF Awaited
    <3>4. QED BY <3>2, <3>3
  <2>11. \A g \in Handlers : handler'[g].pc = "idle" => handler'[g].due = <<>>
    BY <2>5, <2>9 DEF ServedInv
  <2>12. QED BY <1>1, <2>1, <2>4, <2>6, <2>7, <2>10, <2>11 DEF ServedInv
<1>7. QED BY <1>5, <1>6

\* An order of the schedules that are due leaves none of them out.
LEMMA NoneLeftOut ==
  ASSUME NEW I, NEW S, IsFiniteSet(I), IsFiniteSet(S), Cardinality(I) = Cardinality(S),
         NEW q \in [I -> S], \A i, j \in I : q[i] = q[j] => i = j, NEW s \in S
  PROVE  \E i \in I : q[i] = s
<1>1. q \in Injection(I, S) BY DEF Injection, IsInjective
<1>2. q \in Surjection(I, S) BY <1>1, FS_Injection
<1>3. QED BY <1>2 DEF Surjection

LEMMA OrdersComplete ==
  ASSUME NEW S \in SUBSET Schedules, NEW q \in Orders(S), NEW s \in S
  PROVE  \E i \in DOMAIN q : q[i] = s
<1>1. IsFiniteSet(S) BY ParamAssumption, FS_Subset
<1> PICK n : n = Cardinality(S) OBVIOUS
<1>2. n \in Nat BY <1>1, FS_CardinalityType
<1>3. q \in [1..n -> S] /\ \A i, j \in 1..n : q[i] = q[j] => i = j BY DEF Orders
<1>4. IsFiniteSet(1..n) /\ Cardinality(1..n) = Cardinality(S) BY <1>2, FS_Interval
<1>5. \E i \in 1..n : q[i] = s
  <2> DEFINE I == 1..n
  <2>1. IsFiniteSet(I) /\ Cardinality(I) = Cardinality(S) BY <1>4
  <2>2. q \in [I -> S] /\ \A i, j \in I : q[i] = q[j] => i = j BY <1>3
  <2> HIDE DEF I
  <2>3. \E i \in I : q[i] = s BY <1>1, <2>1, <2>2, NoneLeftOut
  <2>4. QED BY <2>3 DEF I
<1>6. QED BY <1>3, <1>5

LEMMA ExecutePromises ==
  ASSUME TypeInv, PromisesInv, NEW h \in Handlers, Execute(h)
  PROVE  PromisesInv'
<1>1. /\ now' = now /\ lastCall' = Minute
      /\ promised' = [s \in Schedules |->
           IF s \in Enabled /\ Minute % Day = schedules[s].time THEN now ELSE promised[s]]
  BY DEF Execute
<1>2. now \in 0..MaxTime BY DEF TypeInv
<1>3. promised' \in [Schedules -> 0..MaxTime]
  BY <1>1, <1>2 DEF PromisesInv
<1>4. \A s \in Schedules : promised'[s] <= now
  BY <1>1, <1>2, ParamAssumption DEF PromisesInv
<1>5. lastCall' = Minute' BY <1>1 DEF Minute
<1>6. QED BY <1>1, <1>3, <1>4, <1>5 DEF PromisesInv

LEMMA ExecuteServed ==
  ASSUME TypeInv, PromisesInv, ServedInv, NEW h \in Handlers, Execute(h)
  PROVE  ServedInv'
<1> PICK due : due = {s \in Enabled : IsDue(schedules[s])} OBVIOUS
<1>1. /\ UNCHANGED <<schedules, now>> /\ handler[h].pc = "idle" /\ lastCall < Minute
      /\ promised' = [s \in Schedules |->
           IF s \in Enabled /\ Minute % Day = schedules[s].time THEN now ELSE promised[s]]
      /\ excused' = excused \ {s \in Schedules : promised'[s] = now}
      /\ IF due = {} THEN UNCHANGED <<handler, overlapped, byUpload, doubtful>>
         ELSE \E q \in Orders(due) :
                Becomes(h, [Idle EXCEPT !.pc = "collect", !.op = "execute",
                              !.due = [i \in DOMAIN q |-> Job(q[i])]])
  BY DEF Execute
<1>2. now \in Nat /\ PerMinute \in Nat \ {0} /\ lastCall \in Nat /\ Minute \in Nat
  BY ParamAssumption DEF TypeInv, Minute
<1>3. ASSUME due # {}
      PROVE  \E r : /\ handler' = [handler EXCEPT ![h] = r] /\ r.pc = "collect"
                    /\ \A s \in due : Awaits(r, s)
  <2>1. PICK q \in Orders(due) :
          Becomes(h, [Idle EXCEPT !.pc = "collect", !.op = "execute",
                        !.due = [i \in DOMAIN q |-> Job(q[i])]])
    BY <1>1, <1>3
  <2> PICK jobs : jobs = [i \in DOMAIN q |-> Job(q[i])] OBVIOUS
  <2> PICK r : r = [Idle EXCEPT !.pc = "collect", !.op = "execute", !.due = jobs] OBVIOUS
  <2>2. handler' = [handler EXCEPT ![h] = r] BY <2>1 DEF Becomes
  <2>3. r.pc = "collect" /\ r.due = jobs BY DEF Idle
  <2>4. ASSUME NEW s \in due PROVE Awaits(r, s)
    <3>1. due \in SUBSET Schedules BY DEF Enabled
    <3>2. PICK i \in DOMAIN q : q[i] = s BY <3>1, OrdersComplete
    <3>3. i \in DOMAIN jobs /\ jobs[i].id = s BY <3>2 DEF Job
    <3>4. QED BY <2>3, <3>3 DEF Awaits
  <2>5. QED BY <2>2, <2>3, <2>4
<1>4. /\ \A g \in Handlers : handler'[g].pc = "idle" => handler'[g].due = <<>>
      /\ \A g \in Handlers \ {h} : handler'[g] = handler[g]
      /\ \A s \in due : Awaits(handler'[h], s)
  <2>1. CASE due = {} BY <1>1, <2>1 DEF ServedInv
  <2>2. CASE due # {}
    <3>1. PICK r : /\ handler' = [handler EXCEPT ![h] = r] /\ r.pc = "collect"
                   /\ \A s \in due : Awaits(r, s)
      BY <1>3, <2>2
    <3>2. handler'[h] = r /\ \A g \in Handlers \ {h} : handler'[g] = handler[g]
      BY <3>1 DEF TypeInv
    <3>3. QED BY <3>1, <3>2 DEF ServedInv
  <2>3. QED BY <2>1, <2>2
<1>5. ASSUME NEW s \in Schedules, s \in Enabled, Minute % Day = schedules[s].time
      PROVE  Recent(s)' \/ Awaited(s)'
  <2>1. CASE s \in due
    <3>1. Awaits(handler'[h], s) BY <1>4, <2>1
    <3>2. Awaits(handler[h], s)' BY <3>1 DEF Awaits
    <3>3. QED BY <3>2 DEF Awaited
  <2>2. CASE s \notin due
    <3> PICK last : last = schedules[s].lastRunAt OBVIOUS
    <3>1. last # Never /\ ~(now - last >= PerMinute) BY <1>5, <2>2 DEF IsDue
    <3>2. schedules[s] \in Row BY <1>5 DEF Enabled, TypeInv, TablesOK
    <3>3. last \in Nat BY <3>2, ParamAssumption DEF Row
    <3>4. promised'[s] = now BY <1>1, <1>5
    <3>5. last > now - PerMinute BY <1>2, <3>1, <3>3
    <3>6. QED BY <1>1, <3>1, <3>4, <3>5 DEF Recent
  <2>3. QED BY <2>1, <2>2
<1>6. ASSUME NEW s \in Schedules, ~(s \in Enabled /\ Minute % Day = schedules[s].time),
             s \notin excused', promised'[s] # Never, schedules[s] # None
      PROVE  Recent(s)' \/ Awaited(s)'
  <2>1. promised'[s] = promised[s] BY <1>1, <1>6
  <2>2. promised[s] # now
    <3> PICK minute : minute = Minute OBVIOUS
    <3>1. promised[s] = now => lastCall = minute BY DEF PromisesInv
    <3>2. lastCall < minute BY DEF Execute
    <3>3. lastCall # minute BY <1>2, <3>2
    <3>4. QED BY <3>1, <3>3
  <2>3. s \notin excused BY <1>1, <1>6, <2>1, <2>2
  <2>4. Recent(s) \/ Awaited(s) BY <1>6, <2>1, <2>3 DEF ServedInv
  <2>5. CASE Recent(s) BY <1>1, <2>1, <2>5 DEF Recent
  <2>6. CASE Awaited(s)
    <3>1. PICK g \in Handlers : Awaits(handler[g], s) BY <2>6 DEF Awaited
    <3>2. handler[h].due = <<>> BY <1>1 DEF ServedInv
    <3>3. g # h BY <3>1, <3>2 DEF Awaits
    <3>4. Awaits(handler[g], s)' BY <1>4, <3>1, <3>3 DEF Awaits
    <3>5. QED BY <3>4 DEF Awaited
  <2>7. QED BY <2>4, <2>5, <2>6
<1>7. QED BY <1>1, <1>4, <1>5, <1>6 DEF ServedInv

LEMMA EditPromises ==
  ASSUME TypeInv, PromisesInv, NEW h \in Handlers, NEW s \in Schedules, Edit(h, s)
  PROVE  PromisesInv'
<1>1. promised' = [promised EXCEPT ![s] = Never] /\ UNCHANGED <<now, lastCall>>
  BY DEF Edit, clockVars
<1>2. now \in Nat /\ now # 0 /\ 0 \in 0..MaxTime /\ Never = 0
  BY ParamAssumption DEF TypeInv, PromisesInv, Never
<1>3. promised' \in [Schedules -> 0..MaxTime] BY <1>1, <1>2 DEF PromisesInv
<1>4. \A t \in Schedules : promised'[t] <= now /\ (promised'[t] = now => lastCall = Minute)
  BY <1>1, <1>2 DEF PromisesInv
<1>5. QED BY <1>1, <1>2, <1>3, <1>4 DEF PromisesInv, Minute

LEMMA EditServed ==
  ASSUME TypeInv, PromisesInv, ServedInv, NEW h \in Handlers, NEW s \in Schedules, Edit(h, s)
  PROVE  ServedInv'
<1>1. promised' = [promised EXCEPT ![s] = Never] /\ UNCHANGED <<handler, excused>>
  BY DEF Edit
<1>2. \A t \in Schedules \ {s} : schedules'[t] = schedules[t]
  BY DEF Edit, TypeInv, TablesOK
<1>3. promised'[s] = Never /\ \A t \in Schedules \ {s} : promised'[t] = promised[t]
  BY <1>1 DEF PromisesInv
<1>4. \A t \in Schedules \ {s} : Recent(t)' <=> Recent(t) BY <1>2, <1>3 DEF Recent
<1>5. \A t \in Schedules : Awaited(t)' <=> Awaited(t) BY <1>1 DEF Awaited, Awaits
<1>6. QED BY <1>1, <1>2, <1>3, <1>4, <1>5 DEF ServedInv

LEMMA CrashServed ==
  ASSUME TypeInv, ServedInv, Crash
  PROVE  ServedInv'
<1>1. /\ UNCHANGED <<schedules, promised>> /\ handler' = [h \in Handlers |-> Idle]
      /\ excused' = excused \cup UNION {Ids(handler[h].due) : h \in Handlers}
  BY DEF Crash
<1>2. ASSUME NEW s \in Schedules, Awaited(s) PROVE s \in excused'
  <2>1. PICK h \in Handlers : Awaits(handler[h], s) BY <1>2 DEF Awaited
  <2>2. s \in Ids(handler[h].due) BY <2>1 DEF Awaits, Ids
  <2>3. QED BY <1>1, <2>2
<1>3. \A s \in Schedules : Recent(s)' <=> Recent(s) BY <1>1 DEF Recent
<1>4. \A s \in Schedules : s \notin excused' => s \notin excused BY <1>1
<1>5. \A h \in Handlers : handler'[h].due = <<>> BY <1>1, IdleType
<1>6. QED BY <1>1, <1>2, <1>3, <1>4, <1>5 DEF ServedInv

LEMMA TickPromises ==
  ASSUME TypeInv, PromisesInv, Tick
  PROVE  PromisesInv'
<1>1. now' = now + 1 /\ promised' = promised /\ now \in Nat
  BY ParamAssumption DEF Tick, history, TypeInv
<1>2. \A s \in Schedules : promised[s] \in Nat /\ promised[s] <= now
  BY ParamAssumption DEF PromisesInv
<1>3. \A s \in Schedules : promised'[s] <= now' /\ promised'[s] # now'
  BY <1>1, <1>2
<1>4. QED BY <1>1, <1>3 DEF PromisesInv

LEMMA NextPromises == TypeInv /\ PromisesInv /\ [Next]_vars => PromisesInv'
<1> SUFFICES ASSUME TypeInv, PromisesInv, [Next]_vars PROVE PromisesInv'
  OBVIOUS
<1>1. CASE UNCHANGED vars BY <1>1, PromisesStand DEF vars, clockVars
<1>2. ASSUME NEW h \in Handlers, Step(h) PROVE PromisesInv'
  <2>1. CASE Works(h) BY <2>1, WorksGoes, PromisesStand
  <2>2. CASE ~Works(h)
    <3>1. UNCHANGED <<promised, clockVars>>
      BY <1>2, <2>2
      DEF Step, Works, Record, Proceed, Mark, StartWrite, Exchange, Store, GiveUp, SaveWrite,
          history
    <3>2. QED BY <3>1, PromisesStand
  <2>3. QED BY <2>1, <2>2
<1>3. ASSUME NEW h \in Handlers, Execute(h) PROVE PromisesInv' BY <1>3, ExecutePromises
<1>4. ASSUME NEW h \in Handlers, Check(h) \/ Callback(h) \/ Save(h) \/ Delete(h)
      PROVE  PromisesInv'
  BY <1>4, PromisesStand DEF Check, Callback, Save, Delete, history
<1>5. ASSUME NEW h \in Handlers, NEW s \in Schedules, RunNow(h, s) \/ Edit(h, s)
      PROVE  PromisesInv'
  <2>1. CASE RunNow(h, s) BY <2>1, PromisesStand DEF RunNow
  <2>2. CASE Edit(h, s) BY <2>2, EditPromises
  <2>3. QED BY <1>5, <2>1, <2>2
<1>6. ASSUME NEW h \in Handlers, NEW c \in Clients, Start(h, c) PROVE PromisesInv'
  BY <1>6, PromisesStand DEF Start
<1>7. CASE Revoke \/ Crash BY <1>7, PromisesStand DEF Revoke, Crash
<1>8. CASE Tick BY <1>8, TickPromises
<1>9. QED BY <1>1, <1>2, <1>3, <1>4, <1>5, <1>6, <1>7, <1>8 DEF Next

LEMMA NextServed == TypeInv /\ PromisesInv /\ ServedInv /\ [Next]_vars => ServedInv'
<1> SUFFICES ASSUME TypeInv, PromisesInv, ServedInv, [Next]_vars PROVE ServedInv'
  OBVIOUS
<1>1. CASE UNCHANGED vars BY <1>1, QuietServed DEF vars
<1>2. ASSUME NEW h \in Handlers, Step(h) PROVE ServedInv'
  <2>1. CASE Works(h) BY <2>1, WorksServed
  <2>2. CASE ~Works(h)
    BY <1>2, <2>2, RecordServed, BeginsServed, MarkServed, ListlessServed DEF Step, Works
  <2>3. QED BY <2>1, <2>2
<1>3. ASSUME NEW h \in Handlers, Execute(h) PROVE ServedInv' BY <1>3, ExecuteServed
<1>4. ASSUME NEW h \in Handlers, Check(h) \/ Callback(h) \/ Save(h) PROVE ServedInv'
  BY <1>4, BeginsServed
<1>5. ASSUME NEW h \in Handlers, Delete(h) PROVE ServedInv'
  BY <1>5, QuietServed DEF Delete, history
<1>6. ASSUME NEW h \in Handlers, NEW s \in Schedules, RunNow(h, s) \/ Edit(h, s)
      PROVE  ServedInv'
  BY <1>6, BeginsServed, EditServed
<1>7. ASSUME NEW h \in Handlers, NEW c \in Clients, Start(h, c) PROVE ServedInv'
  BY <1>7, BeginsServed
<1>8. CASE Revoke BY <1>8, QuietServed DEF Revoke
<1>9. CASE Crash BY <1>9, CrashServed
<1>10. CASE Tick BY <1>10, QuietServed DEF Tick, history
<1>11. QED
  BY <1>1, <1>2, <1>3, <1>4, <1>5, <1>6, <1>7, <1>8, <1>9, <1>10 DEF Next

LEMMA Served == ServedInv => OccurrencesServed
<1> SUFFICES ASSUME ServedInv, \A h \in Handlers : handler[h].due = <<>>
             PROVE  OccurrencesServed
  BY DEF OccurrencesServed
<1>1. \A s \in Schedules : ~Awaited(s) BY NoList DEF Awaited
<1>2. QED BY <1>1 DEF ServedInv, Recent, OccurrencesServed

\* Cron's promise: once no list is being worked on, whatever cron found enabled at
\* its time has been run within the minute, but for what a crash or a deleted
\* schedule cut short, however many calls, edits and runs by hand came in between.
THEOREM SchedulesServed == Spec => []OccurrencesServed
<1>1. Init => TypeInv /\ PromisesInv /\ ServedInv BY InitType, InitPromises, InitServed
<1>2. TypeInv /\ PromisesInv /\ ServedInv /\ [Next]_vars =>
        TypeInv' /\ PromisesInv' /\ ServedInv'
  BY NextType, NextPromises, NextServed
<1>3. Spec => []ServedInv BY <1>1, <1>2, PTL DEF Spec
<1>4. QED BY <1>3, Served, PTL
=============================================================================
